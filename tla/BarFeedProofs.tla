--------------------------- MODULE BarFeedProofs ---------------------------
(***************************************************************************)
(* The bar feed, for every set of strategies, sharding and calendar.       *)
(*                                                                         *)
(* The reference count of the bar clock: the executor counts registrations *)
(* and the clock counts subscriptions, each under its own lock, and a      *)
(* close may be overtaken by a new registration (WInv).                    *)
(*                                                                         *)
(* The types (FInv): what is published is a bar that has closed, and what  *)
(* is handled is an event of the topic.                                    *)
(*                                                                         *)
(* The commits (KInv): a batch may be built several times, from routes     *)
(* that change in between, and its first copy to arrive is the one that    *)
(* counts; a commit is right because every copy is full.                   *)
(***************************************************************************)
EXTENDS BarFeed, FiniteSetTheorems, TLAPS

(* What keeps the two counts in step: only the subscriptions on their way  *)
(* to be closed tell them apart, and a stream with a reference has a token.*)
WInv ==
    /\ bar \in Nat /\ refs \in Nat /\ closing \in Nat
    /\ ctok \in Nat \cup {NoToken}
    /\ ccur \in Nat
    /\ StreamsWatched
    /\ refs > 0 => ctok # NoToken

watchVars == <<bar, reg, refs, closing, ctok, ccur>>

LEMMA WatchInit == Init => WInv
  BY DEF Init, WInv, StreamsWatched, NoToken

(* The steps of the calendar, the routes and the dispatcher leave the      *)
(* clock alone.                                                            *)
LEMMA WatchFrame == WInv /\ UNCHANGED watchVars => WInv'
  BY Zenon DEF WInv, watchVars, StreamsWatched

LEMMA WatchStep == WInv /\ [Next]_vars => WInv'
<1> SUFFICES ASSUME WInv, [Next]_vars PROVE WInv'
  OBVIOUS
<1> USE DEF WInv, StreamsWatched, NoToken
<1>1. CASE BarCloses
  BY <1>1 DEF BarCloses, clockVars
<1>2. ASSUME NEW s \in Strategies, StartStrategy(s) PROVE WInv'
  <2>1. CASE RegisterStream(s)
    <3>1. reg' # {} /\ bar' = bar
      BY <1>2, <2>1, Zenon DEF RegisterStream, StartStrategy
    <3> QED BY <2>1, <3>1 DEF RegisterStream
  <2>2. CASE UNCHANGED clockVars
    BY <1>2, <2>2, WatchFrame DEF StartStrategy, clockVars, watchVars
  <2> QED BY <1>2, <2>1, <2>2 DEF StartStrategy
<1>3. ASSUME NEW s \in Strategies, StopStrategy(s) PROVE WInv'
  <2>1. CASE s \in reg /\ UnregisterStream(s)
    <3>1. bar' = bar /\ reg # {} /\ (reg' = {} <=> reg = {s})
      BY <1>3, <2>1 DEF UnregisterStream, StopStrategy
    <3> QED BY <2>1, <3>1 DEF UnregisterStream
  <2>2. CASE UNCHANGED clockVars
    BY <1>3, <2>2, WatchFrame DEF StopStrategy, clockVars, watchVars
  <2> QED BY <1>3, <2>1, <2>2 DEF StopStrategy
<1>4. CASE CloseSubscription
  BY <1>4 DEF CloseSubscription
<1>5. CASE ClockStep
  <2>1. CASE ClockScan BY <2>1, Zenon DEF ClockScan
  <2>2. CASE ClockTake BY <2>2 DEF ClockTake
  <2>3. CASE ClockSend BY <2>3 DEF ClockSend
  <2> QED BY <1>5, <2>1, <2>2, <2>3 DEF ClockStep
<1>6. CASE LeaderCrash
  BY <1>6 DEF LeaderCrash
<1>7. CASE GracePasses \/ (\E s \in Strategies : SetStatus(s)) \/ UNCHANGED vars
  <2>1. UNCHANGED watchVars
    BY <1>7, Zenon DEF GracePasses, SetStatus, vars, clockVars, watchVars
  <2> QED BY <2>1, WatchFrame
<1>8. CASE DispatchStep \/ RecoverStep \/ LateBatch \/ LateBar
           \/ DispatcherCrash \/ DispatcherStart
  <2>1. UNCHANGED watchVars
    BY <1>8, Zenon
    DEF DispatchStep, Poll, Read, FlushBatches, Commit, RecoverStep, RecoverPlan,
        RecoverFlush, LateBatch, LateBar, DispatcherCrash, DispatcherStart, clockVars,
        watchVars
  <2> QED BY <2>1, WatchFrame, Zenon
<1> HIDE DEF WInv, StreamsWatched, NoToken
<1> QED BY <1>1, <1>2, <1>3, <1>4, <1>5, <1>6, <1>7, <1>8, Zenon DEF Next

(* The clock counts one reference for a stream with a registration, none   *)
(* for one without, and one more for each close that is on its way, in     *)
(* whatever order registrations and closes meet.                           *)
THEOREM StreamsKept == Spec => []StreamsWatched
<1>1. WInv => StreamsWatched
  BY Zenon DEF WInv
<1> QED BY <1>1, WatchInit, WatchStep, PTL DEF Spec

(* A stream with a registered strategy always has a token, so the clock    *)
(* never takes its next bar for the first one it sees.                     *)
THEOREM StreamsTicking == Spec => [](reg # {} => refs > 0 /\ ctok # NoToken)
<1>1. WInv => (reg # {} => refs > 0 /\ ctok # NoToken)
  BY DEF WInv, StreamsWatched
<1> QED BY <1>1, WatchInit, WatchStep, PTL DEF Spec
-----------------------------------------------------------------------------
(* The types.                                                              *)

TimeTypes ==
    /\ bar \in Tokens /\ due \in 0 .. bar
    /\ changes \in 0 .. MaxChanges /\ faults \in 0 .. MaxFaults

RouteTypes ==
    /\ running \subseteq Strategies /\ subs \subseteq Strategies /\ reg \subseteq Strategies
    /\ since \in [Strategies -> 0 .. bar]

(* What the clock is about to publish is a bar of a session.               *)
ClockTypes ==
    /\ ctok \in (0 .. bar) \cup {NoToken} /\ ccur \in 0 .. bar
    /\ cpc \in {"idle", "scan", "send"}
    /\ cpc = "send" => ccur \in Sessions

QueueTypes == topic \in Seq(1 .. bar) /\ rq \in Seq(1 .. bar)

(* An event that is handled is in the topic.                               *)
OffsetTypes ==
    /\ committed \in 0 .. Len(topic) /\ dpos \in 0 .. Len(topic)
    /\ kept \in BOOLEAN /\ done \subseteq 1 .. Len(topic)
    /\ dpc \in {"idle", "read", "flush", "commit", "rflush", "down"}
    /\ dpc \in {"read", "flush", "commit"} => dpos < Len(topic)

RecoverTypes == rtok \in (0 .. bar) \cup {NoToken} /\ rcur \in 0 .. bar

BatchTypes ==
    /\ bq \in Seq(BatchIds \X SUBSET Strategies)
    /\ inbox \in [BatchIds -> SUBSET Strategies]

FInv == /\ TimeTypes /\ RouteTypes /\ ClockTypes /\ QueueTypes
        /\ OffsetTypes /\ RecoverTypes /\ BatchTypes

-----------------------------------------------------------------------------
(* The operators of the model.                                             *)

LEMMA LeastNat ==
    ASSUME NEW T \in SUBSET Nat, T # {}
    PROVE  \E x \in T : \A y \in T : x <= y
<1> DEFINE Less == {p \in Nat \X Nat : p[1] < p[2]}
<1>1. Less = OpToRel(<, Nat)
  BY Zenon DEF OpToRel
<1>2. IsWellFoundedOn(Less, Nat)
  BY <1>1, NatLessThanWellFounded, Zenon
<1>3. PICK x \in T : \A y \in T : ~(<<y, x>> \in Less)
  <2> HIDE DEF Less
  <2> QED BY <1>2, WFMin, Zenon
<1>4. ASSUME NEW y \in T PROVE x <= y
  <2>1. x \in Nat /\ y \in Nat
    OBVIOUS
  <2>2. ~(y < x)
    BY <1>3, <2>1, Zenon
  <2> QED BY <2>1, <2>2
<1> QED BY <1>4, Zenon

LEMMA MinIn ==
    ASSUME NEW T \in SUBSET Nat, T # {}
    PROVE  Min(T) \in T
<1>1. \E x \in T : \A y \in T : x =< y
  BY LeastNat, Zenon
<1> QED BY <1>1, Zenon DEF Min

(* A finite set of tokens can be listed in order: of the sets that cannot, *)
(* a smallest one would lose its least token.                              *)
LEMMA Listed ==
    ASSUME NEW ts \in SUBSET Nat, IsFiniteSet(ts)
    PROVE  InOrder(ts) \in [1 .. Cardinality(ts) -> ts]
<1> DEFINE Rising(q) == \A i, j \in DOMAIN q : i < j => q[i] < q[j]
           Lists(T) == \E q \in [1 .. Cardinality(T) -> T] : Rising(q)
           Bad == {T \in FiniteSubsetsOf(Nat) : ~Lists(T)}
<1>1. ASSUME Bad # {} PROVE FALSE
  <2>1. IsWellFoundedOn(StrictSubsetOrdering(Nat), FiniteSubsetsOf(Nat))
    BY FS_StrictSubsetOrderingWellFounded, Zenon
  <2>2. PICK T \in Bad : \A U \in Bad : ~(<<U, T>> \in StrictSubsetOrdering(Nat))
    <3>1. Bad \subseteq FiniteSubsetsOf(Nat)
      BY Zenon
    <3> HIDE DEF Bad
    <3> QED BY <1>1, <2>1, <3>1, WFMin, Zenon
  <2>3. T \in SUBSET Nat /\ IsFiniteSet(T) /\ ~Lists(T)
    BY <2>2, Zenon DEF FiniteSubsetsOf
  <2>4. T # {}
    <3>1. Cardinality({}) = 0
      BY FS_EmptySet, Zenon
    <3>2. <<>> \in [1 .. 0 -> {}] /\ Rising(<<>>)
      OBVIOUS
    <3> QED BY <2>3, <3>1, <3>2, Zenon
  <2>5. PICK x \in T : \A y \in T : x <= y
    BY <2>3, <2>4, LeastNat, Zenon
  <2> DEFINE U == T \ {x}
             n == Cardinality(U)
  <2>6. IsFiniteSet(U) /\ n \in Nat /\ Cardinality(T) = n + 1
    <3>1. IsFiniteSet(U) /\ Cardinality(U) = Cardinality(T) - 1
      BY <2>3, FS_RemoveElement, Zenon
    <3>2. Cardinality(T) \in Nat /\ Cardinality(U) \in Nat
      BY <2>3, <3>1, FS_CardinalityType, Zenon
    <3> HIDE DEF U
    <3> QED BY <3>1, <3>2
  <2>7. Lists(U)
    <3>1. <<U, T>> \in StrictSubsetOrdering(Nat)
      BY <2>3, <2>5, Zenon DEF StrictSubsetOrdering
    <3>2. U \in FiniteSubsetsOf(Nat)
      BY <2>3, <2>6, Zenon DEF FiniteSubsetsOf
    <3> HIDE DEF U, Lists
    <3> QED BY <2>2, <3>1, <3>2, Zenon
  <2>8. PICK q \in [1 .. n -> U] : Rising(q)
    BY <2>7, Zenon
  <2> DEFINE r == [i \in 1 .. n + 1 |-> IF i = 1 THEN x ELSE q[i - 1]]
  <2>9. \A i \in 2 .. n + 1 : r[i] = q[i - 1] /\ r[i] \in U /\ i - 1 \in 1 .. n
    <3> HIDE DEF U, n
    <3> QED BY <2>6, <2>8
  <2>10. r[1] = x /\ \A u \in U : x < u
    <3>1. \A u \in U : u \in Nat /\ x \in Nat /\ x <= u /\ u # x
      BY <2>3, <2>5, Zenon
    <3>2. 1 \in 1 .. n + 1
      <4> HIDE DEF n
      <4> QED BY <2>6
    <3> HIDE DEF U, n
    <3> QED BY <3>1, <3>2
  <2>11. r \in [1 .. n + 1 -> T]
    <3>1. U \subseteq T
      BY Zenon
    <3> HIDE DEF U, n
    <3> QED BY <2>6, <2>5, <2>8, <3>1
  <2>12. Rising(r)
    <3> SUFFICES ASSUME NEW i \in 1 .. n + 1, NEW j \in 1 .. n + 1, i < j
                 PROVE  r[i] < r[j]
      BY <2>11, Zenon
    <3> HIDE DEF U, n, r
    <3>1. i \in Int /\ j \in 2 .. n + 1 /\ (i = 1 \/ i \in 2 .. n + 1)
      BY <2>6
    <3>2. CASE i = 1
      BY <2>9, <2>10, <3>1, <3>2, Zenon
    <3>3. CASE i \in 2 .. n + 1
      <4>1. i - 1 \in 1 .. n /\ j - 1 \in 1 .. n /\ i - 1 < j - 1
        BY <2>6, <2>9, <3>1, <3>3
      <4>2. DOMAIN q = 1 .. n
        BY <2>8, Zenon
      <4>3. q[i - 1] < q[j - 1]
        BY <2>8, <4>1, <4>2, Zenon
      <4> QED BY <2>9, <3>1, <3>3, <4>3, Zenon
    <3> QED BY <3>1, <3>2, <3>3, Zenon
  <2>13. Lists(T)
    <3> HIDE DEF r, n, U
    <3> QED BY <2>6, <2>11, <2>12, Zenon
  <2> QED BY <2>3, <2>13, Zenon
<1>2. Lists(ts)
  <2>1. ts \in FiniteSubsetsOf(Nat)
    BY Zenon DEF FiniteSubsetsOf
  <2> HIDE DEF Lists
  <2> QED BY <1>1, <2>1, Zenon
<1> QED BY <1>2, Zenon DEF InOrder

LEMMA BatchIdsFinite == IsFiniteSet(BatchIds)
<1> DEFINE k == (Cardinality(Strategies) - 1) \div BatchSize
           K == 0 .. k
           Nested == (Bars \X Shards) \X K
           f == [x \in Nested |-> <<x[1][1], x[1][2], x[2]>>]
<1>1. Cardinality(Strategies) \in Nat
  BY FeedAssumption, FS_CardinalityType, Zenon
<1>2. k \in Int /\ 0 \in Int /\ 1 \in Int /\ MaxBars \in Int /\ ShardCount - 1 \in Int
  BY <1>1, FeedAssumption
<1> HIDE DEF k
<1>3. IsFiniteSet(Bars) /\ IsFiniteSet(Shards) /\ IsFiniteSet(K)
  BY <1>2, FS_Interval, Zenon DEF Bars, Shards
<1> HIDE DEF K
<1>4. IsFiniteSet(Nested)
  BY <1>3, FS_Product, Zenon
<1>5. f \in Surjection(Nested, BatchIds)
  <2>1. BatchIds = Bars \X Shards \X K
    BY Zenon DEF BatchIds, K, k
  <2>2. f \in [Nested -> BatchIds]
    <3>1. \A x \in Nested : x[1][1] \in Bars /\ x[1][2] \in Shards /\ x[2] \in K
      BY Zenon
    <3>2. \A x \in Nested : <<x[1][1], x[1][2], x[2]>> \in BatchIds
      BY <2>1, <3>1, Zenon
    <3> QED BY <3>2, Zenon
  <2>3. ASSUME NEW b \in BatchIds PROVE \E x \in Nested : f[x] = b
    <3>1. b[1] \in Bars /\ b[2] \in Shards /\ b[3] \in K /\ b = <<b[1], b[2], b[3]>>
      BY <2>1
    <3> DEFINE x == <<<<b[1], b[2]>>, b[3]>>
    <3>2. x \in Nested /\ x[1][1] = b[1] /\ x[1][2] = b[2] /\ x[2] = b[3]
      BY <3>1, Zenon
    <3>3. f[x] = b
      <4> HIDE DEF x
      <4> QED BY <3>1, <3>2, Zenon
    <3> QED BY <3>2, <3>3, Zenon
  <2> HIDE DEF f
  <2> QED BY <2>2, <2>3, Zenon DEF Surjection
<1> HIDE DEF f, Nested
<1> QED BY <1>4, <1>5, FS_Surjection, Zenon

(* The batches of a bar: each that has strategies, once.                   *)
LEMMA BatchList ==
    ASSUME RouteTypes, NEW t \in Bars
    PROVE  /\ Batches(t) \in Seq(BatchIds \X SUBSET Strategies)
           /\ \A i \in DOMAIN Batches(t) :
                \E b \in BatchIds : /\ b[1] = t /\ Chunk(b) # {}
                                    /\ Batches(t)[i] = <<b, Chunk(b)>>
           /\ \A b \in BatchIds : b[1] = t /\ Chunk(b) # {} =>
                \E i \in DOMAIN Batches(t) : Batches(t)[i][1] = b
<1> DEFINE P == BatchIds \X SUBSET Strategies
           ids == {c \in BatchIds : c[1] = t /\ Chunk(c) # {}}
           batches == {<<b, Chunk(b)>> : b \in ids}
           n == Cardinality(batches)
           f == [b \in ids |-> <<b, Chunk(b)>>]
<1>1. Batches(t) = CHOOSE q \in Injection(1 .. n, batches) : TRUE
  BY Zenon DEF Batches
<1>2. \A b : Chunk(b) \in SUBSET Strategies
  BY Zenon DEF Chunk, Routed, RouteTypes
<1>3. batches \subseteq P
  <2>1. ASSUME NEW x \in batches PROVE x \in P
    <3>1. PICK b \in ids : x = <<b, Chunk(b)>>
      BY Zenon
    <3>2. b \in BatchIds
      BY Zenon
    <3>3. <<b, Chunk(b)>> \in P
      BY <1>2, <3>2, Zenon
    <3> QED BY <3>1, <3>3, Zenon
  <2> HIDE DEF batches, P
  <2> QED BY <2>1, Zenon
<1>4. IsFiniteSet(batches)
  <2>1. ids \in SUBSET BatchIds
    BY Zenon
  <2>2. f \in Surjection(ids, batches)
    BY Zenon DEF Surjection
  <2> HIDE DEF ids, batches, f
  <2>3. IsFiniteSet(ids)
    BY <2>1, BatchIdsFinite, FS_Subset, Zenon
  <2> QED BY <2>2, <2>3, FS_Surjection, Zenon
<1>5. \A x \in batches : \E b \in BatchIds : b[1] = t /\ Chunk(b) # {} /\ x = <<b, Chunk(b)>>
  BY Zenon
<1>6. \A b \in BatchIds : b[1] = t /\ Chunk(b) # {} => <<b, Chunk(b)>> \in batches
  BY Zenon
<1> HIDE DEF batches, P
<1>7. n \in Nat /\ ExistsBijection(1 .. n, batches)
  BY <1>4, FS_CardinalityType, Zenon
<1>8. Batches(t) \in Injection(1 .. n, batches)
  BY <1>1, <1>7, Zenon DEF ExistsBijection, Bijection
<1> HIDE DEF n
<1>9. IsFiniteSet(1 .. n) /\ Cardinality(1 .. n) = Cardinality(batches)
  <2>1. 1 \in Int /\ n \in Int /\ (1 > n => n = 0) /\ n - 1 + 1 = n
    BY <1>7
  <2>2. IsFiniteSet(1 .. n) /\ Cardinality(1 .. n) = n
    BY <2>1, FS_Interval, Zenon
  <2> QED BY <2>2, Zenon DEF n
<1>10. Batches(t) \in Surjection(1 .. n, batches)
  BY <1>4, <1>8, <1>9, FS_Injection, Zenon
<1>11. /\ DOMAIN Batches(t) = 1 .. n /\ Batches(t) \in [1 .. n -> batches]
       /\ \A x \in batches : \E i \in 1 .. n : Batches(t)[i] = x
  BY <1>10, Zenon DEF Surjection
<1>12. Batches(t) \in Seq(BatchIds \X SUBSET Strategies)
  <2>1. Batches(t) \in [1 .. n -> P]
    BY <1>3, <1>11, Zenon
  <2>2. Batches(t) \in Seq(P)
    BY <1>7, <2>1
  <2> QED BY <2>2, Zenon DEF P
<1>13. ASSUME NEW i \in DOMAIN Batches(t)
       PROVE  \E b \in BatchIds : /\ b[1] = t /\ Chunk(b) # {}
                                   /\ Batches(t)[i] = <<b, Chunk(b)>>
  BY <1>5, <1>11, Zenon
<1>14. ASSUME NEW b \in BatchIds, b[1] = t, Chunk(b) # {}
       PROVE  \E i \in DOMAIN Batches(t) : Batches(t)[i][1] = b
  <2>1. PICK i \in 1 .. n : Batches(t)[i] = <<b, Chunk(b)>>
    BY <1>6, <1>11, <1>14, Zenon
  <2>2. Batches(t)[i][1] = b
    BY <2>1
  <2> QED BY <1>11, <2>2, Zenon
<1> QED BY <1>12, <1>13, <1>14, Zenon

(* A batch id that has copies takes the first of them, unless it is taken. *)
LEMMA Delivered ==
    ASSUME NEW copies \in Seq(BatchIds \X SUBSET Strategies), Deliver(copies),
           inbox \in [BatchIds -> SUBSET Strategies]
    PROVE  /\ inbox' \in [BatchIds -> SUBSET Strategies]
           /\ \A b \in BatchIds :
                \/ inbox'[b] = inbox[b]
                   /\ (inbox[b] # {} \/ ~\E i \in DOMAIN copies : copies[i][1] = b)
                \/ \E i \in DOMAIN copies : copies[i][1] = b /\ inbox'[b] = copies[i][2]
<1>1. DOMAIN copies \in SUBSET Nat
  OBVIOUS
<1>2. \A i \in DOMAIN copies : copies[i] \in BatchIds \X SUBSET Strategies
  OBVIOUS
<1>3. \A i \in DOMAIN copies : copies[i][2] \in SUBSET Strategies
  BY <1>2, Zenon
<1>4. ASSUME NEW b \in BatchIds, \E i \in DOMAIN copies : copies[i][1] = b
      PROVE  LET m == Min({i \in DOMAIN copies : copies[i][1] = b}) IN
             m \in DOMAIN copies /\ copies[m][1] = b
  <2> DEFINE D == {i \in DOMAIN copies : copies[i][1] = b}
  <2>1. D # {} /\ D \in SUBSET Nat /\ \A i \in D : i \in DOMAIN copies /\ copies[i][1] = b
    BY <1>1, <1>4, Zenon
  <2>2. Min(D) \in D
    <3> HIDE DEF D
    <3> QED BY <2>1, MinIn, Zenon
  <2> QED BY <2>1, <2>2, Zenon
<1>5. ASSUME NEW b \in BatchIds
      PROVE  /\ inbox'[b] \in SUBSET Strategies
             /\ \/ inbox'[b] = inbox[b]
                   /\ (inbox[b] # {} \/ ~\E i \in DOMAIN copies : copies[i][1] = b)
                \/ \E i \in DOMAIN copies : copies[i][1] = b /\ inbox'[b] = copies[i][2]
  <2>1. CASE inbox[b] # {} \/ ~\E i \in DOMAIN copies : copies[i][1] = b
    BY <2>1, Zenon DEF Deliver
  <2>2. CASE ~(inbox[b] # {} \/ ~\E i \in DOMAIN copies : copies[i][1] = b)
    <3> DEFINE m == Min({i \in DOMAIN copies : copies[i][1] = b})
    <3>1. inbox'[b] = copies[m][2]
      BY <2>2, Zenon DEF Deliver
    <3>2. m \in DOMAIN copies /\ copies[m][1] = b
      BY <1>4, <2>2, Zenon
    <3> HIDE DEF m
    <3> QED BY <1>3, <3>1, <3>2, Zenon
  <2> QED BY <2>1, <2>2, Zenon
<1>6. inbox' = [b \in BatchIds |-> inbox'[b]]
  BY Zenon DEF Deliver
<1> QED BY <1>5, <1>6, Zenon

-----------------------------------------------------------------------------
(* The types are kept.                                                     *)

LEMMA FeedInit == Init => FInv
<1> SUFFICES ASSUME Init PROVE FInv
  OBVIOUS
<1>0. /\ 0 \in Tokens /\ 0 \in 0 .. 0 /\ 0 \in 0 .. MaxChanges /\ 0 \in 0 .. MaxFaults
      /\ <<>> \in Seq(1 .. 0) /\ Len(<<>>) = 0 /\ 1 .. 0 = {}
  BY FeedAssumption DEF Tokens
<1>1. TimeTypes
  BY <1>0, Zenon DEF Init, TimeTypes
<1>2. RouteTypes
  BY <1>0, Zenon DEF Init, RouteTypes
<1>3. ClockTypes
  BY <1>0, Zenon DEF Init, ClockTypes
<1>4. QueueTypes
  BY <1>0, Zenon DEF Init, QueueTypes
<1>5. OffsetTypes
  BY <1>0, Zenon DEF Init, OffsetTypes
<1>6. RecoverTypes
  BY <1>0, Zenon DEF Init, RecoverTypes
<1>7. BatchTypes
  <2>1. <<>> \in Seq(BatchIds \X SUBSET Strategies)
    OBVIOUS
  <2> QED BY <2>1, Zenon DEF Init, BatchTypes
<1> QED BY <1>1, <1>2, <1>3, <1>4, <1>5, <1>6, <1>7, Zenon DEF FInv

LEMMA SeqWider ==
    ASSUME NEW A, NEW B, A \subseteq B, NEW q \in Seq(A)
    PROVE  q \in Seq(B)
<1>1. Len(q) \in Nat /\ q \in [1 .. Len(q) -> A]
  OBVIOUS
<1>2. q \in [1 .. Len(q) -> B]
  BY <1>1, Zenon
<1> QED BY <1>1, <1>2

(* A bar closes: what was not ahead of the calendar is not ahead of it.    *)
LEMMA CalendarTypes ==
    ASSUME FInv, BarCloses \/ GracePasses
    PROVE  FInv'
<1>0. bar \in Nat /\ due \in 0 .. bar /\ topic \in Seq(1 .. bar) /\ rq \in Seq(1 .. bar)
  BY DEF FInv, TimeTypes, QueueTypes, Tokens
<1>1. /\ bar' \in Tokens /\ due' \in 0 .. bar'
      /\ 0 .. bar \subseteq 0 .. bar' /\ 1 .. bar \subseteq 1 .. bar'
  BY FeedAssumption DEF BarCloses, GracePasses, FInv, TimeTypes, Tokens
<1>2. UNCHANGED <<routeVars, clockVars, topic, dispatchVars, changes, faults>>
  BY Zenon DEF BarCloses, GracePasses
<1>3. TimeTypes'
  BY <1>1, <1>2, Zenon DEF FInv, TimeTypes
<1>4. RouteTypes'
  BY <1>1, <1>2, Zenon DEF FInv, RouteTypes, routeVars, clockVars
<1>5. ClockTypes'
  BY <1>1, <1>2, Zenon DEF FInv, ClockTypes, clockVars
<1>6. QueueTypes'
  <2>1. topic \in Seq(1 .. bar') /\ rq \in Seq(1 .. bar')
    BY <1>0, <1>1, SeqWider, Zenon
  <2> QED BY <1>2, <2>1, Zenon DEF QueueTypes, dispatchVars
<1>7. OffsetTypes' /\ BatchTypes'
  BY <1>2, Zenon DEF FInv, OffsetTypes, BatchTypes, dispatchVars
<1>8. RecoverTypes'
  BY <1>1, <1>2, Zenon DEF FInv, RecoverTypes, dispatchVars
<1> QED BY <1>3, <1>4, <1>5, <1>6, <1>7, <1>8, Zenon DEF FInv

LEMMA Bounds ==
    /\ TimeTypes /\ (UNCHANGED changes \/ Change) => changes' \in 0 .. MaxChanges
    /\ TimeTypes /\ (UNCHANGED faults \/ Fault) => faults' \in 0 .. MaxFaults
  BY FeedAssumption DEF TimeTypes, Change, Fault

(* A strategy comes or goes; the clock may be told.                        *)
LEMMA RouteTypesKept ==
    ASSUME FInv, NEW s \in Strategies, SetStatus(s) \/ StartStrategy(s) \/ StopStrategy(s)
    PROVE  FInv'
<1>0. TimeTypes /\ RouteTypes /\ ClockTypes /\ bar \in 0 .. bar
  BY DEF FInv, TimeTypes, Tokens
<1>1. /\ UNCHANGED <<bar, due, topic, dispatchVars, faults, cpc, ccur>>
      /\ UNCHANGED changes \/ Change
  BY Zenon DEF SetStatus, StartStrategy, StopStrategy, RegisterStream, UnregisterStream, clockVars
<1>2. /\ reg' \in {reg, reg \cup {s}, reg \ {s}}
      /\ ctok' \in {ctok, bar}
  BY Zenon DEF SetStatus, StartStrategy, StopStrategy, RegisterStream, UnregisterStream, clockVars
<1>3. PICK r \in SUBSET Strategies, u \in SUBSET Strategies : Reroute(r, u)
  BY <1>0, Zenon DEF SetStatus, StartStrategy, StopStrategy, RouteTypes
<1>4. TimeTypes'
  BY <1>0, <1>1, Bounds, Zenon DEF TimeTypes
<1>5. RouteTypes'
  <2>1. since' \in [Strategies -> 0 .. bar]
    BY <1>0, <1>3, Zenon DEF Reroute, RouteTypes
  <2> QED BY <1>0, <1>1, <1>2, <1>3, <2>1, Zenon DEF Reroute, RouteTypes
<1>6. ClockTypes'
  BY <1>0, <1>1, <1>2, Zenon DEF ClockTypes
<1>7. QueueTypes' /\ OffsetTypes' /\ BatchTypes' /\ RecoverTypes'
  BY <1>1, Zenon DEF FInv, QueueTypes, OffsetTypes, BatchTypes, RecoverTypes, dispatchVars
<1> QED BY <1>4, <1>5, <1>6, <1>7, Zenon DEF FInv

(* Events are appended to the topic.                                       *)
Longer ==
    /\ 0 .. Len(topic) \subseteq 0 .. Len(topic') /\ 1 .. Len(topic) \subseteq 1 .. Len(topic')
    /\ dpos < Len(topic) => dpos < Len(topic')
    /\ \A i \in 1 .. Len(topic) : topic'[i] = topic[i]

LEMMA TopicGrows ==
    ASSUME QueueTypes, OffsetTypes, NEW q \in Seq(1 .. bar), topic' = topic \o q
    PROVE  topic' \in Seq(1 .. bar) /\ Longer
<1>1. topic \in Seq(1 .. bar) /\ dpos \in 0 .. Len(topic)
  BY Zenon DEF QueueTypes, OffsetTypes
<1>2. topic' \in Seq(1 .. bar) /\ Len(topic) \in Nat /\ Len(topic') \in Nat
      /\ Len(topic) <= Len(topic') /\ \A i \in 1 .. Len(topic) : topic'[i] = topic[i]
  BY <1>1
<1> QED BY <1>1, <1>2 DEF Longer

LEMMA HeadAndTail ==
    ASSUME NEW S, NEW q \in Seq(S), q # <<>>
    PROVE  /\ Tail(q) \in Seq(S) /\ Head(q) \in S /\ <<Head(q)>> \in Seq(S)
           /\ \A r \in {<<Head(q)>>, Tail(q)} : \A i \in DOMAIN r :
                \E j \in DOMAIN q : r[i] = q[j]
<1>1. /\ Len(q) \in Nat /\ Len(q) > 0 /\ DOMAIN q = 1 .. Len(q) /\ Head(q) = q[1]
      /\ Tail(q) \in Seq(S) /\ Head(q) \in S /\ <<Head(q)>> \in Seq(S)
  OBVIOUS
<1>2. ASSUME NEW i \in DOMAIN <<Head(q)>> PROVE <<Head(q)>>[i] = q[1] /\ 1 \in DOMAIN q
  BY <1>1
<1>3. ASSUME NEW i \in DOMAIN Tail(q) PROVE Tail(q)[i] = q[i + 1] /\ i + 1 \in DOMAIN q
  BY <1>1
<1> QED BY <1>1, <1>2, <1>3, Zenon

(* The two parts of a queue that is delivered in part.                     *)
LEMMA Slices ==
    ASSUME NEW S, NEW q \in Seq(S), NEW n \in 0 .. Len(q)
    PROVE  /\ SubSeq(q, 1, n) \in Seq(S) /\ SubSeq(q, n + 1, Len(q)) \in Seq(S)
           /\ <<>> \in Seq(S)
           /\ \A i \in DOMAIN SubSeq(q, 1, n) : i \in DOMAIN q /\ SubSeq(q, 1, n)[i] = q[i]
           /\ n = Len(q) => SubSeq(q, 1, n) = q
           /\ \A r \in {<<>>, SubSeq(q, n + 1, Len(q))} : \A i \in DOMAIN r :
                \E j \in DOMAIN q : r[i] = q[j]
<1>1. Len(q) \in Nat /\ DOMAIN q = 1 .. Len(q) /\ \A i \in 1 .. Len(q) : q[i] \in S
  OBVIOUS
<1>2. SubSeq(q, 1, n) \in Seq(S)
  BY <1>1
<1>3. SubSeq(q, n + 1, Len(q)) \in Seq(S)
  BY <1>1
<1>4. \A i \in DOMAIN SubSeq(q, 1, n) : i \in DOMAIN q /\ SubSeq(q, 1, n)[i] = q[i]
  BY <1>1
<1>5. n = Len(q) => SubSeq(q, 1, n) = q
  BY <1>1
<1>6. ASSUME NEW i \in DOMAIN SubSeq(q, n + 1, Len(q))
      PROVE  \E j \in DOMAIN q : SubSeq(q, n + 1, Len(q))[i] = q[j]
  <2>1. n + i \in DOMAIN q /\ SubSeq(q, n + 1, Len(q))[i] = q[n + i]
    BY <1>1
  <2> QED BY <2>1, Zenon
<1>7. <<>> \in Seq(S) /\ DOMAIN <<>> = {}
  OBVIOUS
<1> QED BY <1>2, <1>3, <1>4, <1>5, <1>6, <1>7, Zenon

LEMMA Elements ==
    ASSUME NEW S, NEW q \in Seq(S)
    PROVE  DOMAIN q = 1 .. Len(q) /\ \A i \in DOMAIN q : q[i] \in S
  OBVIOUS

LEMMA Joined ==
    ASSUME NEW S, NEW q \in Seq(S), NEW r \in Seq(S)
    PROVE  q \o r \in Seq(S)
  OBVIOUS

(* A sequence has the elements of two others, and keeps those of the first.*)
Joins(w, q, r) ==
    /\ \A i \in DOMAIN w :
         \/ i \in DOMAIN q /\ w[i] = q[i]
         \/ \E j \in DOMAIN r : w[i] = r[j]
    /\ \A j \in DOMAIN r : \E i \in DOMAIN w : w[i] = r[j]

LEMMA Ends ==
    ASSUME NEW S, NEW q \in Seq(S), NEW r \in Seq(S)
    PROVE  Joins(q \o r, q, r)
<1>1. /\ Len(q) \in Nat /\ Len(r) \in Nat
      /\ DOMAIN q = 1 .. Len(q) /\ DOMAIN r = 1 .. Len(r)
      /\ DOMAIN (q \o r) = 1 .. Len(q) + Len(r)
      /\ \A i \in 1 .. Len(q) + Len(r) :
            (q \o r)[i] = IF i <= Len(q) THEN q[i] ELSE r[i - Len(q)]
  OBVIOUS
<1>2. ASSUME NEW i \in 1 .. Len(q) + Len(r)
      PROVE  i \in 1 .. Len(q) \/ (~(i <= Len(q)) /\ i - Len(q) \in 1 .. Len(r))
  BY <1>1
<1>3. \A i \in 1 .. Len(q) : i <= Len(q)
  OBVIOUS
<1>4. ASSUME NEW j \in 1 .. Len(r)
      PROVE  \E i \in 1 .. Len(q) + Len(r) : (q \o r)[i] = r[j]
  <2>1. /\ Len(q) + j \in 1 .. Len(q) + Len(r)
        /\ ~(Len(q) + j <= Len(q)) /\ (Len(q) + j) - Len(q) = j
    BY <1>1
  <2> QED BY <1>1, <2>1, Zenon
<1> QED BY <1>1, <1>2, <1>3, <1>4, Zenon DEF Joins

(* Append is a concatenation.                                              *)
LEMMA AppendOne ==
    ASSUME NEW S, NEW q \in Seq(S), NEW x \in S
    PROVE  <<x>> \in Seq(S) /\ Append(q, x) = q \o <<x>>
  OBVIOUS

LEMMA ClockTypesKept ==
    ASSUME FInv, ClockStep \/ CloseSubscription \/ LeaderCrash
    PROVE  FInv'
<1>0. TimeTypes /\ ClockTypes /\ bar \in 0 .. bar /\ 0 \in 0 .. bar
  BY DEF FInv, TimeTypes, Tokens
<1>1. /\ UNCHANGED <<bar, due, routeVars, dispatchVars, changes>>
      /\ UNCHANGED faults \/ Fault
      /\ reg' \in {reg, {}}
  BY Zenon DEF ClockStep, ClockScan, ClockTake, ClockSend, CloseSubscription, LeaderCrash
<1>2. ctok' \in {ctok, ccur, NoToken} /\ ccur' \in {ccur, bar, 0}
  BY Zenon DEF ClockStep, ClockScan, ClockTake, ClockSend, CloseSubscription, LeaderCrash
<1>3. cpc' \in {"idle", "scan", "send"} /\ (cpc' = "send" => ccur' \in Sessions)
  BY <1>0, Zenon
  DEF ClockTypes, ClockStep, ClockScan, ClockTake, ClockSend, CloseSubscription, LeaderCrash
<1>4. TimeTypes'
  BY <1>0, <1>1, Bounds, Zenon DEF TimeTypes
<1>5. RouteTypes'
  BY <1>1, Zenon DEF FInv, RouteTypes, routeVars
<1>6. ClockTypes'
  BY <1>0, <1>1, <1>2, <1>3, Zenon DEF ClockTypes
<1>7. RecoverTypes' /\ BatchTypes'
  BY <1>1, Zenon DEF FInv, RecoverTypes, BatchTypes, dispatchVars
<1>8. UNCHANGED topic \/ (cpc = "send" /\ topic' = Append(topic, ccur))
  BY Zenon DEF ClockStep, ClockScan, ClockTake, ClockSend, CloseSubscription, LeaderCrash
<1>9. CASE UNCHANGED topic
  <2>1. QueueTypes' /\ OffsetTypes'
    BY <1>1, <1>9, Zenon DEF FInv, QueueTypes, OffsetTypes, dispatchVars
  <2> QED BY <1>4, <1>5, <1>6, <1>7, <2>1, Zenon DEF FInv
<1>10. CASE cpc = "send" /\ topic' = Append(topic, ccur)
  <2>1. ccur \in 0 .. bar /\ ccur \in Sessions /\ topic \in Seq(1 .. bar)
    BY <1>10, Zenon DEF FInv, ClockTypes, QueueTypes
  <2>2. ccur \in 1 .. bar
    BY <1>0, <2>1, FeedAssumption DEF Bars, TimeTypes, Tokens
  <2>3. <<ccur>> \in Seq(1 .. bar) /\ topic' = topic \o <<ccur>>
    BY <1>10, <2>1, <2>2, AppendOne, Zenon
  <2>4. UNCHANGED <<committed, kept, done, dpos, dpc, rq>>
    BY <1>1, Zenon DEF dispatchVars
  <2>5. topic' \in Seq(1 .. bar) /\ Longer
    BY <2>3, TopicGrows, Zenon DEF FInv
  <2>7. OffsetTypes'
    BY <2>4, <2>5, Zenon DEF FInv, OffsetTypes, Longer
  <2>6. QueueTypes'
    BY <1>1, <2>4, <2>5, Zenon DEF FInv, QueueTypes
  <2> QED BY <1>4, <1>5, <1>6, <1>7, <2>6, <2>7, Zenon DEF FInv
<1> QED BY <1>8, <1>9, <1>10, Zenon

(* The dispatcher handles an event.                                        *)
LEMMA DispatchTypes ==
    ASSUME FInv, DispatchStep
    PROVE  FInv'
<1>0. TimeTypes /\ RouteTypes /\ QueueTypes /\ OffsetTypes /\ RecoverTypes /\ BatchTypes
  BY Zenon DEF FInv
<1>1. /\ UNCHANGED <<bar, due, routeVars, clockVars, topic, rq, rcur, changes>>
      /\ UNCHANGED faults \/ Fault
  BY Zenon DEF DispatchStep, Poll, Read, FlushBatches, Commit
<1>2. TimeTypes' /\ RouteTypes' /\ ClockTypes' /\ QueueTypes'
  <2>1. TimeTypes'
    BY <1>0, <1>1, Bounds, Zenon DEF TimeTypes
  <2>2. RouteTypes' /\ ClockTypes' /\ QueueTypes'
    BY <1>1, Zenon DEF FInv, RouteTypes, ClockTypes, QueueTypes, routeVars, clockVars
  <2> QED BY <2>1, <2>2, Zenon
<1>3. SUFFICES OffsetTypes' /\ RecoverTypes' /\ BatchTypes'
  BY <1>2, Zenon DEF FInv
<1>4. /\ topic \in Seq(1 .. bar) /\ Len(topic) \in Nat /\ dpos \in 0 .. Len(topic)
      /\ dpos < Len(topic) => dpos + 1 \in 1 .. Len(topic) /\ topic[dpos + 1] \in 1 .. bar
      /\ 1 .. bar \subseteq 0 .. bar /\ 1 .. bar \subseteq Bars
  BY <1>0, FeedAssumption DEF QueueTypes, OffsetTypes, TimeTypes, Tokens, Bars
<1>5. CASE Poll
  <2>1. OffsetTypes' /\ BatchTypes'
    BY <1>0, <1>5, Zenon DEF Poll, OffsetTypes, BatchTypes
  <2>2. rtok' \in {rtok, topic[dpos + 1]} /\ dpos < Len(topic)
    BY <1>5, Zenon DEF Poll
  <2>3. RecoverTypes'
    BY <1>0, <1>1, <1>4, <2>2, Zenon DEF RecoverTypes
  <2> QED BY <2>1, <2>3, Zenon
<1>6. CASE Read
  <2> DEFINE new == Batches(topic[dpos + 1])
  <2>1. dpos < Len(topic)
    BY <1>0, <1>6, Zenon DEF Read, OffsetTypes
  <2>2. new \in Seq(BatchIds \X SUBSET Strategies)
    BY <1>0, <1>4, <2>1, BatchList, Zenon
  <2>3. bq' = bq \/ bq' = bq \o new
    BY <1>6, Zenon DEF Read
  <2>4. bq' \in Seq(BatchIds \X SUBSET Strategies)
    <3>1. bq \in Seq(BatchIds \X SUBSET Strategies)
      BY <1>0, Zenon DEF BatchTypes
    <3> DEFINE P == BatchIds \X SUBSET Strategies
    <3> HIDE DEF new, P
    <3>2. bq \in Seq(P) /\ new \in Seq(P)
      BY <2>2, <3>1, Zenon DEF P
    <3>3. bq' \in Seq(P)
      BY <2>3, <3>2, Joined, Zenon
    <3> QED BY <3>3, Zenon DEF P
  <2>5. BatchTypes'
    BY <1>0, <1>6, <2>4, Zenon DEF Read, BatchTypes
  <2>6. OffsetTypes'
    <3>1. dpc' \in {"commit", "flush", "idle"}
      BY <1>6, Zenon DEF Read
    <3>2. UNCHANGED <<topic, committed, kept, done, dpos>>
      BY <1>6, Zenon DEF Read
    <3> QED BY <1>0, <2>1, <3>1, <3>2, Zenon DEF OffsetTypes
  <2>7. RecoverTypes'
    BY <1>0, <1>6, Zenon DEF Read, RecoverTypes
  <2> QED BY <2>5, <2>6, <2>7, Zenon
<1>7. CASE FlushBatches
  <2>1. dpos < Len(topic) /\ dpc' \in {"commit", "idle"}
    BY <1>0, <1>7, Zenon DEF FlushBatches, OffsetTypes
  <2>2. UNCHANGED <<bar, topic, committed, kept, done, dpos, rtok, rcur>>
    BY <1>7, Zenon DEF FlushBatches
  <2>3. OffsetTypes' /\ RecoverTypes'
    BY <1>0, <2>1, <2>2, Zenon DEF OffsetTypes, RecoverTypes
  <2>4. PICK n \in 0 .. Len(bq) : /\ Deliver(SubSeq(bq, 1, n))
                                   /\ bq' \in {<<>>, SubSeq(bq, n + 1, Len(bq))}
    BY <1>7, Zenon DEF FlushBatches
  <2> DEFINE P == BatchIds \X SUBSET Strategies
  <2>5. bq \in Seq(P)
    BY <1>0, Zenon DEF BatchTypes
  <2>6. SubSeq(bq, 1, n) \in Seq(P) /\ SubSeq(bq, n + 1, Len(bq)) \in Seq(P) /\ <<>> \in Seq(P)
    <3> HIDE DEF P
    <3> QED BY <2>5, Slices, Zenon
  <2>7. bq' \in Seq(P)
    <3> HIDE DEF P
    <3> QED BY <2>4, <2>6, Zenon
  <2>8. inbox' \in [BatchIds -> SUBSET Strategies]
    BY <1>0, <2>4, <2>6, Delivered, Zenon DEF BatchTypes
  <2> QED BY <2>3, <2>7, <2>8, Zenon DEF BatchTypes
<1>8. CASE Commit
  <2>1. dpos < Len(topic)
    BY <1>0, <1>8, Zenon DEF Commit, OffsetTypes
  <2>2. dpos + 1 \in 0 .. Len(topic) /\ dpos + 1 \in 1 .. Len(topic)
    BY <1>4, <2>1
  <2>3. OffsetTypes'
    BY <1>0, <1>8, <2>2, Zenon DEF Commit, OffsetTypes
  <2>4. RecoverTypes' /\ BatchTypes'
    BY <1>0, <1>8, Zenon DEF Commit, RecoverTypes, BatchTypes
  <2> QED BY <2>3, <2>4, Zenon
<1> QED BY <1>5, <1>6, <1>7, <1>8, Zenon DEF DispatchStep

(* The recovery publishes bars of the calendar.                            *)
LEMMA MissedBars ==
    ASSUME TimeTypes, RecoverTypes
    PROVE  /\ Missed \in Seq(1 .. bar)
           /\ due > Previous /\ Missed # <<>> => Previous \in 0 .. bar
<1> DEFINE ts == Sessions \cap (Previous + 1 .. due)
<1>1. /\ bar \in Nat /\ due \in 0 .. bar /\ Previous \in Int /\ Previous >= -1
      /\ 1 \in Int /\ MaxBars \in Int
      /\ Previous >= 0 /\ due > Previous => Previous \in 0 .. bar
      /\ Sessions \subseteq Bars /\ Bars \subseteq Nat
  BY FeedAssumption DEF TimeTypes, RecoverTypes, Tokens, Previous, NoToken, Bars
<1>2. ts \in SUBSET (1 .. bar) /\ ts \in SUBSET Bars /\ ts \in SUBSET Nat
  BY <1>1 DEF Bars
<1>3. IsFiniteSet(ts)
  <2>1. IsFiniteSet(Bars)
    BY <1>1, FS_Interval, Zenon DEF Bars
  <2> HIDE DEF ts
  <2> QED BY <1>2, <2>1, FS_Subset, Zenon
<1>4. Missed = InOrder(ts)
  BY Zenon DEF Missed
<1>5. ts # {} => Previous # -1
  BY <1>1 DEF TimeTypes, RecoverTypes, Tokens, Previous, NoToken, Bars
<1> HIDE DEF ts
<1>6. Cardinality(ts) \in Nat /\ Missed \in [1 .. Cardinality(ts) -> ts]
  BY <1>2, <1>3, <1>4, Listed, FS_CardinalityType, Zenon
<1>7. Missed \in Seq(ts) /\ (ts = {} => Missed = <<>>)
  <2>1. ts = {} => Cardinality(ts) = 0
    BY FS_EmptySet, Zenon
  <2>2. 1 .. 0 = {}
    OBVIOUS
  <2> QED BY <1>6, <2>1, <2>2
<1>8. Missed \in Seq(1 .. bar)
  BY <1>2, <1>7, SeqWider, Zenon
<1>9. due > Previous /\ Missed # <<>> => Previous \in 0 .. bar
  BY <1>1, <1>5, <1>7
<1> QED BY <1>8, <1>9, Zenon

LEMMA RecoverTypesKept ==
    ASSUME FInv, RecoverStep
    PROVE  FInv'
<1>0. TimeTypes /\ QueueTypes /\ OffsetTypes /\ RecoverTypes /\ BatchTypes
  BY Zenon DEF FInv
<1>1. /\ UNCHANGED <<bar, due, routeVars, clockVars, committed, kept, done, dpos, bq, inbox,
                      changes>>
      /\ UNCHANGED faults \/ Fault
  BY Zenon DEF RecoverStep, RecoverPlan, RecoverFlush
<1>2. TimeTypes' /\ RouteTypes' /\ ClockTypes' /\ BatchTypes'
  <2>1. TimeTypes'
    BY <1>0, <1>1, Bounds, Zenon DEF TimeTypes
  <2>2. RouteTypes' /\ ClockTypes' /\ BatchTypes'
    BY <1>1, Zenon DEF FInv, RouteTypes, ClockTypes, BatchTypes, routeVars, clockVars
  <2> QED BY <2>1, <2>2, Zenon
<1>3. SUFFICES QueueTypes' /\ OffsetTypes' /\ RecoverTypes'
  BY <1>2, Zenon DEF FInv
<1>4. /\ topic \in Seq(1 .. bar) /\ rq \in Seq(1 .. bar)
      /\ due \in 0 .. bar /\ 0 \in 0 .. bar
  BY <1>0 DEF QueueTypes, TimeTypes, Tokens
<1>5. CASE RecoverPlan
  <2>1. Missed \in Seq(1 .. bar) /\ (due > Previous /\ Missed # <<>> => Previous \in 0 .. bar)
    BY <1>0, MissedBars, Zenon
  <2>2. rq' = rq \/ rq' = rq \o Missed
    BY <1>5, Zenon DEF RecoverPlan
  <2>3. rq' \in Seq(1 .. bar)
    BY <1>4, <2>1, <2>2, Joined, Zenon
  <2>4. topic' = topic /\ dpc' \in {dpc, "idle", "rflush"}
    BY <1>5, Zenon DEF RecoverPlan
  <2>5. QueueTypes'
    BY <1>1, <1>4, <2>3, <2>4, Zenon DEF QueueTypes
  <2>6. OffsetTypes'
    BY <1>0, <1>1, <2>4, Zenon DEF OffsetTypes
  <2>7. rtok' \in {NoToken, due} \/ (rtok' = Previous /\ due > Previous /\ Missed # <<>>)
    BY <1>5, Zenon DEF RecoverPlan
  <2>8. rcur' \in {rcur, 0, due}
    BY <1>5, Zenon DEF RecoverPlan
  <2>9. RecoverTypes'
    BY <1>0, <1>1, <1>4, <2>1, <2>7, <2>8, Zenon DEF RecoverTypes
  <2> QED BY <2>5, <2>6, <2>9, Zenon
<1>6. CASE RecoverFlush
  <2>1. PICK n \in 0 .. Len(rq) : /\ topic' = topic \o SubSeq(rq, 1, n)
                                   /\ rq' \in {<<>>, SubSeq(rq, n + 1, Len(rq))}
                                   /\ rtok' \in {rtok, rcur}
    BY <1>6, Zenon DEF RecoverFlush
  <2>2. /\ SubSeq(rq, 1, n) \in Seq(1 .. bar) /\ SubSeq(rq, n + 1, Len(rq)) \in Seq(1 .. bar)
        /\ <<>> \in Seq(1 .. bar)
    BY <1>4, Slices, Zenon
  <2>3. rq' \in Seq(1 .. bar)
    BY <2>1, <2>2, Zenon
  <2>4. topic' \in Seq(1 .. bar) /\ Longer
    BY <1>0, <1>1, <2>1, <2>2, TopicGrows, Zenon
  <2>5. dpc' = "idle" /\ rcur' = 0
    BY <1>6, Zenon DEF RecoverFlush
  <2>6. OffsetTypes'
    BY <1>0, <1>1, <2>4, <2>5, Zenon DEF OffsetTypes, Longer
  <2>7. QueueTypes' /\ RecoverTypes'
    BY <1>0, <1>1, <1>4, <2>1, <2>3, <2>4, <2>5, Zenon DEF QueueTypes, RecoverTypes
  <2> QED BY <2>6, <2>7, Zenon
<1> QED BY <1>5, <1>6, Zenon DEF RecoverStep

(* What a producer left behind arrives late; the worker dies and starts.   *)
LEMMA LateTypes ==
    ASSUME FInv, LateBatch \/ LateBar \/ DispatcherCrash \/ DispatcherStart
    PROVE  FInv'
<1>0. TimeTypes /\ QueueTypes /\ OffsetTypes /\ RecoverTypes /\ BatchTypes
  BY Zenon DEF FInv
<1>1. /\ UNCHANGED <<bar, due, routeVars, clockVars, committed, kept, done, changes>>
      /\ UNCHANGED faults \/ Fault
  BY Zenon DEF LateBatch, LateBar, DispatcherCrash, DispatcherStart
<1>2. TimeTypes' /\ RouteTypes' /\ ClockTypes'
  <2>1. TimeTypes'
    BY <1>0, <1>1, Bounds, Zenon DEF TimeTypes
  <2>2. RouteTypes' /\ ClockTypes'
    BY <1>1, Zenon DEF FInv, RouteTypes, ClockTypes, routeVars, clockVars
  <2> QED BY <2>1, <2>2, Zenon
<1>3. SUFFICES QueueTypes' /\ OffsetTypes' /\ RecoverTypes' /\ BatchTypes'
  BY <1>2, Zenon DEF FInv
<1>4. /\ topic \in Seq(1 .. bar) /\ rq \in Seq(1 .. bar) /\ <<>> \in Seq(1 .. bar)
      /\ 0 \in 0 .. bar /\ 0 \in 0 .. Len(topic) /\ Len(topic) \in 0 .. Len(topic)
  BY <1>0 DEF QueueTypes, TimeTypes, Tokens
<1> DEFINE P == BatchIds \X SUBSET Strategies
<1>5. bq \in Seq(P)
  BY <1>0, Zenon DEF BatchTypes
<1>6. CASE LateBatch
  <2>1. /\ UNCHANGED <<topic, dpc, dpos, rq, rtok, rcur>> /\ bq # <<>> /\ bq' = Tail(bq)
        /\ Deliver(<<Head(bq)>>) \/ UNCHANGED inbox
    BY <1>6, Zenon DEF LateBatch
  <2>2. QueueTypes' /\ OffsetTypes' /\ RecoverTypes'
    BY <1>0, <1>1, <2>1, Zenon DEF QueueTypes, OffsetTypes, RecoverTypes
  <2>3. Tail(bq) \in Seq(P) /\ <<Head(bq)>> \in Seq(P)
    <3> HIDE DEF P
    <3> QED BY <1>5, <2>1, HeadAndTail, Zenon
  <2>4. inbox' \in [BatchIds -> SUBSET Strategies]
    BY <1>0, <2>1, <2>3, Delivered, Zenon DEF BatchTypes
  <2>5. BatchTypes'
    BY <2>1, <2>3, <2>4, Zenon DEF BatchTypes
  <2> QED BY <2>2, <2>5, Zenon
<1>7. CASE LateBar
  <2>1. /\ UNCHANGED <<dpc, dpos, bq, rtok, rcur, inbox>> /\ rq # <<>> /\ rq' = Tail(rq)
        /\ topic' = Append(topic, Head(rq)) \/ UNCHANGED topic
    BY <1>7, Zenon DEF LateBar
  <2>2. Tail(rq) \in Seq(1 .. bar) /\ Head(rq) \in 1 .. bar
    BY <1>4, <2>1, HeadAndTail, Zenon
  <2>3. PICK q \in Seq(1 .. bar) : topic' = topic \o q
    <3>1. topic = topic \o <<>>
      BY <1>4
    <3> QED BY <1>4, <2>1, <2>2, <3>1, AppendOne, Zenon
  <2>4. topic' \in Seq(1 .. bar) /\ Longer
    BY <1>0, <1>1, <2>3, TopicGrows, Zenon
  <2>5. OffsetTypes'
    BY <1>0, <1>1, <2>1, <2>4, Zenon DEF OffsetTypes, Longer
  <2>6. QueueTypes'
    BY <1>1, <2>1, <2>2, <2>4, Zenon DEF QueueTypes
  <2>7. RecoverTypes' /\ BatchTypes'
    BY <1>0, <1>1, <2>1, Zenon DEF RecoverTypes, BatchTypes
  <2> QED BY <2>5, <2>6, <2>7, Zenon
<1>8. CASE DispatcherCrash
  <2>1. QueueTypes' /\ OffsetTypes' /\ RecoverTypes'
    BY <1>0, <1>1, <1>4, <1>8, Zenon
    DEF DispatcherCrash, QueueTypes, OffsetTypes, RecoverTypes
  <2>2. bq' = <<>> /\ UNCHANGED inbox
    BY <1>8, Zenon DEF DispatcherCrash
  <2>3. bq' \in Seq(P)
    <3> HIDE DEF P
    <3> QED BY <2>2
  <2>4. BatchTypes'
    BY <1>0, <2>2, <2>3, Zenon DEF BatchTypes
  <2> QED BY <2>1, <2>4, Zenon
<1>9. CASE DispatcherStart
  <2>1. dpos' \in {committed, Len(topic)} /\ dpc' = "idle"
    BY <1>9, Zenon DEF DispatcherStart
  <2>2. UNCHANGED <<topic, bq, rq, rtok, rcur, inbox>>
    BY <1>9, Zenon DEF DispatcherStart
  <2>3. OffsetTypes'
    BY <1>0, <1>1, <1>4, <2>1, <2>2, Zenon DEF OffsetTypes
  <2>4. QueueTypes' /\ RecoverTypes' /\ BatchTypes'
    BY <1>0, <1>1, <2>2, Zenon DEF QueueTypes, RecoverTypes, BatchTypes
  <2> QED BY <2>3, <2>4, Zenon
<1> QED BY <1>6, <1>7, <1>8, <1>9, Zenon

LEMMA FeedStep == FInv /\ [Next]_vars => FInv'
<1> SUFFICES ASSUME FInv, [Next]_vars PROVE FInv'
  OBVIOUS
<1>1. CASE UNCHANGED vars
  <2>1. UNCHANGED <<bar, due, topic, changes, faults>> /\ UNCHANGED routeVars
        /\ UNCHANGED clockVars /\ UNCHANGED dispatchVars
    BY <1>1, Zenon DEF vars
  <2>2. TimeTypes' /\ RouteTypes' /\ ClockTypes' /\ QueueTypes'
    BY <2>1, Zenon
    DEF FInv, TimeTypes, RouteTypes, ClockTypes, QueueTypes, routeVars, clockVars, dispatchVars
  <2>3. OffsetTypes' /\ RecoverTypes' /\ BatchTypes'
    BY <2>1, Zenon DEF FInv, OffsetTypes, RecoverTypes, BatchTypes, dispatchVars
  <2> QED BY <2>2, <2>3, Zenon DEF FInv
<1> QED BY <1>1, CalendarTypes, RouteTypesKept, ClockTypesKept, DispatchTypes, RecoverTypesKept,
           LateTypes, Zenon DEF Next

(* Tokens never run ahead of the calendar, offsets never ahead of the      *)
(* topic, and the queues and the inbox hold batches of known strategies    *)
(* only, whatever is lost, delivered late or published again.              *)
THEOREM TypeCorrect == Spec => []TypeOK
<1>1. FInv /\ WInv => TypeOK
  <2> SUFFICES ASSUME FInv, WInv PROVE TypeOK
    OBVIOUS
  <2>1. refs \in Nat /\ closing \in 0 .. refs
    BY DEF WInv, StreamsWatched
  <2>2. \A q \in {topic, rq} : \A i \in DOMAIN q : q[i] \in 1 .. bar
    <3>1. topic \in Seq(1 .. bar) /\ rq \in Seq(1 .. bar)
      BY Zenon DEF FInv, QueueTypes
    <3> QED BY <3>1, Elements, Zenon
  <2>3. DOMAIN topic = 1 .. Len(topic)
    BY DEF FInv, QueueTypes
  <2>4. \A i \in DOMAIN bq : bq[i] \in BatchIds \X SUBSET Strategies
    <3> DEFINE P == BatchIds \X SUBSET Strategies
    <3>1. bq \in Seq(P)
      BY Zenon DEF FInv, BatchTypes
    <3>2. \A i \in DOMAIN bq : bq[i] \in P
      <4> HIDE DEF P
      <4> QED BY <3>1
    <3> QED BY <3>2, Zenon
  <2>5. /\ committed \in 0 .. Len(topic) /\ dpos \in 0 .. Len(topic)
        /\ kept \in BOOLEAN /\ done \subseteq DOMAIN topic
        /\ dpc \in {"idle", "read", "flush", "commit", "rflush", "down"}
    BY <2>3, Zenon DEF FInv, OffsetTypes
  <2> QED BY <2>1, <2>2, <2>4, <2>5, Zenon
          DEF FInv, TimeTypes, RouteTypes, ClockTypes, RecoverTypes, BatchTypes, TypeOK
<1> QED BY <1>1, FeedInit, FeedStep, WatchInit, WatchStep, PTL DEF Spec

-----------------------------------------------------------------------------
(* Commits.  While the strategies of a shard fit in one batch, every copy  *)
(* of a batch, wherever it is, names all the strategies of its shard that  *)
(* have been routed since before the bar closed.                           *)

OneBatch ==
    \A s \in Strategies :
        Cardinality({u \in Strategies : Shard(u) = Shard(s)}) <= BatchSize

(* The strategies a bar must reach, and where they stand.                  *)
Owed(t) == {s \in Routed : since[s] < t}
BatchOf(s, t) == <<t, Shard(s), 0>>
Sent(s, t) == \E i \in DOMAIN bq : bq[i][1] = BatchOf(s, t)
Arrived(s, t) == inbox[BatchOf(s, t)] # {}
Served(t) == \A s \in Owed(t) : Arrived(s, t)

Full(b, members) ==
    /\ b[1] <= bar /\ members # {}
    /\ \A s \in Owed(b[1]) : b = BatchOf(s, b[1]) => s \in members

SentFull == \A i \in DOMAIN bq : Full(bq[i][1], bq[i][2])
InboxFull == \A b \in BatchIds : inbox[b] # {} => Full(b, inbox[b])

(* The event that is handled: its batches are on their way, then there.    *)
Flushing ==
    \A t \in Bars : dpc = "flush" /\ topic[dpos + 1] = t =>
        \A s \in Owed(t) : Sent(s, t) \/ Arrived(s, t)
Flushed == \A t \in Bars : dpc = "commit" /\ topic[dpos + 1] = t => Served(t)
DoneServed == \A i \in done : \A t \in Bars : topic[i] = t => Served(t)

KInv == SentFull /\ InboxFull /\ Flushing /\ Flushed /\ DoneServed

LEMMA BatchOfId ==
    ASSUME NEW s \in Strategies, NEW t \in Bars
    PROVE  BatchOf(s, t) \in BatchIds /\ BatchOf(s, t)[1] = t
<1> DEFINE c == Cardinality(Strategies)
           k == (c - 1) \div BatchSize
<1>1. c \in Nat /\ c # 0
  BY FeedAssumption, FS_CardinalityType, FS_EmptySet, Zenon
<1>2. k \in Int /\ k >= 0
  <2> HIDE DEF c
  <2> QED BY <1>1, FeedAssumption
<1>3. BatchIds = Bars \X Shards \X (0 .. k)
  BY Zenon DEF BatchIds
<1> HIDE DEF k, c
<1>4. Shard(s) \in Shards /\ 0 \in 0 .. k
  BY <1>2, FeedAssumption DEF Shard, Shards
<1> QED BY <1>3, <1>4 DEF BatchOf

(* All routed strategies of a shard are in its first batch.                *)
LEMMA FirstBatch ==
    ASSUME OneBatch, RouteTypes, NEW s \in Routed
    PROVE  Place(s) \div BatchSize = 0
<1> DEFINE T == {u \in Routed : Shard(u) = Shard(s) /\ u < s}
           S == {u \in Strategies : Shard(u) = Shard(s)}
<1>1. s \in Strategies /\ Routed \subseteq Strategies
  BY Zenon DEF RouteTypes, Routed
<1>2. s \in Nat /\ ~(s < s)
  BY <1>1, FeedAssumption
<1>3. T \in SUBSET S /\ s \in S /\ s \notin T /\ S \in SUBSET Strategies
  BY <1>1, <1>2, Zenon
<1>4. Place(s) = Cardinality(T) /\ Cardinality(S) <= BatchSize
  BY <1>1, Zenon DEF Place, OneBatch
<1> HIDE DEF S, T
<1>5. IsFiniteSet(S)
  BY <1>3, FeedAssumption, FS_Subset, Zenon
<1>6. IsFiniteSet(T) /\ Cardinality(T) <= Cardinality(S) /\ Cardinality(T) # Cardinality(S)
  BY <1>3, <1>5, FS_Subset, Zenon
<1>7. Cardinality(T) \in Nat /\ Cardinality(S) \in Nat
  BY <1>5, <1>6, FS_CardinalityType, Zenon
<1> QED BY <1>4, <1>6, <1>7, FeedAssumption

(* The batches that are built are full, and no strategy is left out.       *)
LEMMA BuiltFull ==
    ASSUME OneBatch, TimeTypes, RouteTypes, NEW t \in 1 .. bar
    PROVE  /\ \A b \in BatchIds : b[1] = t /\ Chunk(b) # {} => Full(b, Chunk(b))
           /\ \A s \in Owed(t) : Chunk(BatchOf(s, t)) # {}
<1>1. t \in Bars /\ t <= bar
  BY FeedAssumption DEF TimeTypes, Tokens, Bars
<1>2. ASSUME NEW s \in Owed(t) PROVE s \in Chunk(BatchOf(s, t))
  <2>1. s \in Routed /\ Place(s) \div BatchSize = 0
    BY FirstBatch, Zenon DEF Owed
  <2>2. BatchOf(s, t)[2] = Shard(s) /\ BatchOf(s, t)[3] = 0
    BY DEF BatchOf
  <2> QED BY <2>1, <2>2, Zenon DEF Chunk
<1>3. ASSUME NEW b \in BatchIds, b[1] = t, Chunk(b) # {} PROVE Full(b, Chunk(b))
  BY <1>1, <1>2, <1>3, Zenon DEF Full
<1> QED BY <1>2, <1>3, Zenon

-----------------------------------------------------------------------------
(* A step routes a strategy anew only from the present bar on.             *)
Later ==
    /\ bar' \in Tokens /\ bar <= bar' /\ Longer
    /\ \A t \in 1 .. bar : Owed(t)' \subseteq Owed(t)

LEMMA SameOwed ==
    ASSUME UNCHANGED routeVars
    PROVE  \A t \in 1 .. bar : Owed(t)' \subseteq Owed(t)
  BY Zenon DEF routeVars, Owed, Routed

LEMMA SameTopic ==
    ASSUME UNCHANGED topic
    PROVE  Longer
  BY Zenon DEF Longer

LEMMA LaterStep == FInv /\ [Next]_vars => Later
<1> SUFFICES ASSUME FInv, [Next]_vars PROVE Later
  OBVIOUS
<1>0. bar \in Nat /\ bar <= bar /\ bar <= bar + 1 /\ \A t \in 1 .. bar : ~(bar < t)
  BY DEF FInv, TimeTypes, Tokens
<1>1. bar <= bar'
  BY <1>0, Zenon
  DEF Next, vars, BarCloses, GracePasses, SetStatus, StartStrategy, StopStrategy,
      CloseSubscription, ClockStep, ClockScan, ClockTake, ClockSend, LeaderCrash, DispatchStep,
      Poll, Read, FlushBatches, Commit, RecoverStep, RecoverPlan, RecoverFlush, LateBatch,
      LateBar, DispatcherCrash, DispatcherStart
<1>2. \A t \in 1 .. bar : Owed(t)' \subseteq Owed(t)
  <2>1. CASE UNCHANGED routeVars
    BY <2>1, SameOwed, Zenon
  <2>2. ASSUME NEW r, NEW u, Reroute(r, u) PROVE \A t \in 1 .. bar : Owed(t)' \subseteq Owed(t)
    <3> SUFFICES ASSUME NEW t \in 1 .. bar, NEW s \in Owed(t)' PROVE s \in Owed(t)
      BY Zenon
    <3>1. s \in Routed' /\ since'[s] < t
      BY Zenon DEF Owed
    <3>2. s \in Strategies
      <4>1. RouteTypes'
        BY FeedStep, Zenon DEF FInv
      <4> QED BY <3>1, <4>1, Zenon DEF Routed, RouteTypes
    <3>3. Routed' = r \cap u /\ since'[s] = IF s \in (r \cap u) \ Routed THEN bar ELSE since[s]
      BY <2>2, <3>2, Zenon DEF Reroute, Routed
    <3> QED BY <1>0, <3>1, <3>3, Zenon DEF Owed
  <2>3. UNCHANGED routeVars \/ \E r, u : Reroute(r, u)
    BY Zenon
    DEF Next, vars, BarCloses, GracePasses, SetStatus, StartStrategy, StopStrategy,
        CloseSubscription, ClockStep, ClockScan, ClockTake, ClockSend, LeaderCrash, DispatchStep,
        Poll, Read, FlushBatches, Commit, RecoverStep, RecoverPlan, RecoverFlush, LateBatch,
        LateBar, DispatcherCrash, DispatcherStart
  <2> QED BY <2>1, <2>2, <2>3, Zenon
<1>3. Longer
  <2>1. PICK q \in Seq(1 .. bar) : topic' = topic \o q
    <3>0. topic \in Seq(1 .. bar) /\ rq \in Seq(1 .. bar) /\ <<>> \in Seq(1 .. bar)
          /\ topic = topic \o <<>>
      BY DEF FInv, QueueTypes
    <3>1. CASE UNCHANGED topic
      BY <3>0, <3>1, Zenon
    <3>2. CASE ClockSend /\ topic' = Append(topic, ccur)
      <4>1. ccur \in 0 .. bar /\ ccur \in Sessions
        BY <3>2, Zenon DEF FInv, ClockTypes, ClockSend
      <4>2. ccur \in 1 .. bar
        BY <1>0, <4>1, FeedAssumption DEF Bars
      <4> QED BY <3>0, <3>2, <4>2, AppendOne, Zenon
    <3>3. CASE RecoverFlush
      <4>1. PICK n \in 0 .. Len(rq) : topic' = topic \o SubSeq(rq, 1, n)
        BY <3>3, Zenon DEF RecoverFlush
      <4> QED BY <3>0, <4>1, Slices, Zenon
    <3>4. CASE rq # <<>> /\ topic' = Append(topic, Head(rq))
      <4>1. Head(rq) \in 1 .. bar
        BY <3>0, <3>4, HeadAndTail, Zenon
      <4> QED BY <3>0, <3>4, <4>1, AppendOne, Zenon
    <3>5. \/ UNCHANGED topic \/ RecoverFlush
          \/ ClockSend /\ topic' = Append(topic, ccur)
          \/ rq # <<>> /\ topic' = Append(topic, Head(rq))
      BY Zenon
      DEF Next, vars, BarCloses, GracePasses, SetStatus, StartStrategy, StopStrategy,
          CloseSubscription, ClockStep, ClockScan, ClockTake, ClockSend, LeaderCrash,
          DispatchStep, Poll, Read, FlushBatches, Commit, RecoverStep, RecoverPlan, LateBatch,
          LateBar, DispatcherCrash, DispatcherStart
    <3> QED BY <3>1, <3>2, <3>3, <3>4, <3>5, Zenon
  <2> QED BY <2>1, TopicGrows, Zenon DEF FInv
<1>4. bar' \in Tokens
  BY FeedStep, Zenon DEF FInv, TimeTypes
<1> QED BY <1>1, <1>2, <1>3, <1>4, Zenon DEF Later

Grown == \A b \in BatchIds : inbox[b] # {} => inbox'[b] # {}

LEMMA FullKept ==
    ASSUME FInv, Later, NEW b \in BatchIds, NEW members, Full(b, members)
    PROVE  Full(b, members)'
<1>1. b[1] \in Bars /\ b[1] <= bar
  BY Zenon DEF BatchIds, Full
<1>2. b[1] \in 1 .. bar /\ b[1] <= bar'
  <2>1. bar \in Nat /\ bar' \in Nat /\ bar <= bar'
    BY DEF FInv, TimeTypes, Tokens, Later
  <2> QED BY <1>1, <2>1 DEF Bars
<1>3. Owed(b[1])' \subseteq Owed(b[1])
  BY <1>2, Zenon DEF Later
<1> QED BY <1>2, <1>3, Zenon DEF Full, BatchOf, Shard

LEMMA ServedKept ==
    ASSUME FInv, Later, Grown, NEW t \in 1 .. bar, Served(t)
    PROVE  Served(t)'
<1>1. t \in Bars
  BY FeedAssumption DEF FInv, TimeTypes, Tokens, Bars
<1>2. \A s \in Owed(t) : s \in Strategies
  BY Zenon DEF FInv, RouteTypes, Owed, Routed
<1>3. \A s \in Owed(t) : BatchOf(s, t) \in BatchIds
  BY <1>1, <1>2, BatchOfId, Zenon
<1>4. \A s \in Owed(t) : inbox'[BatchOf(s, t)] # {}
  BY <1>3, Zenon DEF Served, Arrived, Grown
<1>5. Owed(t)' \subseteq Owed(t)
  BY Zenon DEF Later
<1> QED BY <1>4, <1>5, Zenon DEF Served, Arrived, BatchOf, Shard

(* The event in hand, and those that are done, are in the topic.           *)
LEMMA EventKept ==
    ASSUME FInv, Later
    PROVE  /\ \A i \in 1 .. Len(topic) : topic'[i] = topic[i] /\ topic[i] \in 1 .. bar
           /\ dpc \in {"read", "flush", "commit"} => dpos + 1 \in 1 .. Len(topic)
<1>1. topic \in Seq(1 .. bar) /\ Len(topic) \in Nat
  BY DEF FInv, QueueTypes
<1>2. \A i \in 1 .. Len(topic) : topic[i] \in 1 .. bar
  BY <1>1, Elements, Zenon
<1>3. dpc \in {"read", "flush", "commit"} => dpos < Len(topic) /\ dpos \in 0 .. Len(topic)
  BY Zenon DEF FInv, OffsetTypes
<1>4. dpos < Len(topic) /\ dpos \in 0 .. Len(topic) => dpos + 1 \in 1 .. Len(topic)
  BY <1>1
<1> QED BY <1>2, <1>3, <1>4, Zenon DEF Later, Longer

(* What is done, or flushed, stays so while the inbox only grows.          *)
LEMMA DoneKept ==
    ASSUME FInv, Later, Grown, DoneServed
    PROVE  /\ \A i \in done : \A t \in Bars : topic'[i] = t => Served(t)'
           /\ Flushed /\ (dpc' = "commit" => UNCHANGED <<dpc, dpos>>) => Flushed'
<1>1. ASSUME NEW i \in done, NEW t \in Bars, topic'[i] = t PROVE Served(t)'
  <2>1. i \in 1 .. Len(topic)
    BY Zenon DEF FInv, OffsetTypes
  <2>2. topic[i] = t /\ t \in 1 .. bar
    BY <1>1, <2>1, EventKept, Zenon
  <2>3. Served(t)
    BY <2>2, Zenon DEF DoneServed
  <2> QED BY <2>2, <2>3, ServedKept, Zenon
<1>2. ASSUME Flushed, dpc' = "commit" => UNCHANGED <<dpc, dpos>>,
             NEW t \in Bars, dpc' = "commit", topic'[dpos' + 1] = t
      PROVE  Served(t)'
  <2>1. dpc = "commit" /\ dpos' = dpos
    BY <1>2, Zenon
  <2>2. topic[dpos + 1] = t /\ t \in 1 .. bar
    BY <1>2, <2>1, EventKept, Zenon
  <2>3. Served(t)
    BY <1>2, <2>1, <2>2, Zenon DEF Flushed
  <2> QED BY <2>2, <2>3, ServedKept, Zenon
<1> QED BY <1>1, <1>2, Zenon DEF Flushed

(* The queue loses copies, or has full ones added.                         *)
LEMMA QueueFull ==
    ASSUME FInv, Later, BatchTypes',
           \A i \in DOMAIN bq' : Full(bq'[i][1], bq'[i][2])
    PROVE  SentFull'
<1>1. ASSUME NEW i \in DOMAIN bq' PROVE Full(bq[i][1], bq[i][2])'
  <2>1. bq'[i] \in BatchIds \X SUBSET Strategies
    BY Elements, Zenon DEF BatchTypes
  <2>2. PICK b, k : b = bq'[i][1] /\ k = bq'[i][2] /\ b \in BatchIds /\ Full(b, k)
    BY <2>1, Zenon
  <2>3. Full(b, k)'
    BY <2>2, FullKept, Zenon
  <2> QED BY <2>2, <2>3, Zenon DEF Full, BatchOf, Owed, Shard
<1> QED BY <1>1, Zenon DEF SentFull

LEMMA InboxKept ==
    ASSUME FInv, Later, InboxFull, UNCHANGED inbox
    PROVE  InboxFull' /\ Grown
<1>1. Grown
  BY Zenon DEF Grown
<1>2. ASSUME NEW b \in BatchIds, inbox'[b] # {} PROVE Full(b, inbox[b])'
  <2>1. PICK k : k = inbox[b] /\ k = inbox'[b]
    BY Zenon
  <2>2. Full(b, k)
    BY <1>2, <2>1, Zenon DEF InboxFull
  <2>3. Full(b, k)'
    BY <2>2, FullKept, Zenon
  <2> QED BY <2>1, <2>3, Zenon DEF Full
<1> QED BY <1>1, <1>2, Zenon DEF InboxFull

(* A step that leaves queue, inbox and commits alone.                      *)
LEMMA CommitFrame ==
    ASSUME FInv, Later, KInv, UNCHANGED <<bq, inbox, done>>,
           dpc' \in {"flush", "commit"} => UNCHANGED <<dpc, dpos>>
    PROVE  KInv'
<1>1. SentFull'
  <2>1. BatchTypes' /\ \A i \in DOMAIN bq' : Full(bq'[i][1], bq'[i][2])
    BY Zenon DEF FInv, BatchTypes, KInv, SentFull
  <2> QED BY <2>1, QueueFull, Zenon
<1>2. InboxFull' /\ Grown
  BY InboxKept, Zenon DEF KInv
<1>3. Flushing'
  <2>1. ASSUME NEW t \in Bars, dpc' = "flush", topic'[dpos' + 1] = t, NEW s \in Owed(t)'
        PROVE  (Sent(s, t) \/ Arrived(s, t))'
    <3>1. dpc = "flush" /\ dpos' = dpos
      BY <2>1, Zenon
    <3>2. topic[dpos + 1] = t /\ t \in 1 .. bar
      BY <2>1, <3>1, EventKept, Zenon
    <3>3. s \in Owed(t)
      BY <3>2, Zenon DEF Later
    <3>4. Sent(s, t) \/ Arrived(s, t)
      BY <3>1, <3>2, <3>3, Zenon DEF KInv, Flushing
    <3> QED BY <3>4, Zenon DEF Sent, Arrived, BatchOf, Shard
  <2> QED BY <2>1, Zenon DEF Flushing
<1>4. Flushed' /\ DoneServed'
  BY <1>2, DoneKept, Zenon DEF KInv, DoneServed
<1> QED BY <1>1, <1>2, <1>3, <1>4, Zenon DEF KInv

(* Full copies arrive: the inbox holds full batches, and one for each id.  *)
LEMMA DeliveredFull ==
    ASSUME FInv, Later, InboxFull,
           NEW copies \in Seq(BatchIds \X SUBSET Strategies), Deliver(copies),
           \A i \in DOMAIN copies : Full(copies[i][1], copies[i][2])
    PROVE  /\ InboxFull' /\ Grown
           /\ \A i \in DOMAIN copies : inbox'[copies[i][1]] # {}
<1>1. \A b \in BatchIds :
        \/ inbox'[b] = inbox[b]
           /\ (inbox[b] # {} \/ ~\E i \in DOMAIN copies : copies[i][1] = b)
        \/ \E i \in DOMAIN copies : copies[i][1] = b /\ inbox'[b] = copies[i][2]
  BY Delivered, Zenon DEF FInv, BatchTypes
<1>2. \A i \in DOMAIN copies : copies[i][2] # {}
  BY Zenon DEF Full
<1>3. \A i \in DOMAIN copies : copies[i][1] \in BatchIds
  <2>1. \A i \in DOMAIN copies : copies[i] \in BatchIds \X SUBSET Strategies
    BY Elements, Zenon
  <2> QED BY <2>1, Zenon
<1>4. ASSUME NEW b \in BatchIds, inbox'[b] # {} PROVE Full(b, inbox[b])'
  <2>1. PICK k : k = inbox'[b] /\ Full(b, k)
    BY <1>1, <1>4, Zenon DEF InboxFull
  <2>2. Full(b, k)'
    BY <2>1, FullKept, Zenon
  <2> QED BY <2>1, <2>2, Zenon DEF Full
<1>5. InboxFull'
  BY <1>4, Zenon DEF InboxFull
<1>6. Grown
  BY <1>1, <1>2, Zenon DEF Grown
<1>7. \A i \in DOMAIN copies : inbox'[copies[i][1]] # {}
  BY <1>1, <1>2, <1>3, Zenon
<1> QED BY <1>5, <1>6, <1>7, Zenon

LEMMA ReadKeeps ==
    ASSUME OneBatch, FInv, FInv', Later, KInv, Read
    PROVE  KInv'
<1>0. dpc = "read" /\ UNCHANGED <<bar, routeVars, topic, done, dpos, inbox>>
  BY Zenon DEF Read
<1>t. PICK t : t = topic[dpos + 1]
  BY Zenon
<1> DEFINE new == Batches(t)
           P == BatchIds \X SUBSET Strategies
<1>1. CASE bq' = bq /\ dpc' = "idle"
  BY <1>0, <1>1, CommitFrame, Zenon
<1>2. ASSUME bq' = bq \o new, dpc' = IF new = <<>> THEN "commit" ELSE "flush" PROVE KInv'
  <2>1. t \in 1 .. bar /\ TimeTypes /\ RouteTypes
    BY <1>0, <1>t, EventKept, Zenon DEF FInv
  <2>2. t \in Bars
    BY <2>1, FeedAssumption DEF TimeTypes, Tokens, Bars
  <2>3. topic'[dpos' + 1] = t
    BY <1>0, <1>t, Zenon
  <2>4. /\ new \in Seq(P)
        /\ \A i \in DOMAIN new : Full(new[i][1], new[i][2])
        /\ \A s \in Owed(t) : \E i \in DOMAIN new : new[i][1] = BatchOf(s, t)
    <3>1. new \in Seq(P)
      BY <2>1, <2>2, BatchList, Zenon
    <3>2. ASSUME NEW i \in DOMAIN new PROVE Full(new[i][1], new[i][2])
      <4>1. PICK b \in BatchIds : b[1] = t /\ Chunk(b) # {} /\ new[i] = <<b, Chunk(b)>>
        BY <2>1, <2>2, BatchList, Zenon
      <4>2. Full(b, Chunk(b))
        BY <2>1, <4>1, BuiltFull, Zenon
      <4>3. new[i][1] = b /\ new[i][2] = Chunk(b)
        <5> HIDE DEF new
        <5> QED BY <4>1
      <4> QED BY <4>2, <4>3, Zenon
    <3>3. ASSUME NEW s \in Owed(t) PROVE \E i \in DOMAIN new : new[i][1] = BatchOf(s, t)
      <4>1. s \in Strategies
        BY <2>1, Zenon DEF RouteTypes, Owed, Routed
      <4>2. BatchOf(s, t) \in BatchIds /\ BatchOf(s, t)[1] = t /\ Chunk(BatchOf(s, t)) # {}
        BY <2>1, <2>2, <4>1, BatchOfId, BuiltFull, Zenon
      <4> QED BY <2>1, <2>2, <4>2, BatchList, Zenon
    <3> QED BY <3>1, <3>2, <3>3, Zenon
  <2> HIDE DEF new
  <2>5. bq \in Seq(P) /\ \A i \in DOMAIN bq : Full(bq[i][1], bq[i][2])
    BY Zenon DEF FInv, BatchTypes, KInv, SentFull
  <2> HIDE DEF P
  <2>6. Joins(bq', bq, new)
    BY <1>2, <2>4, <2>5, Ends, Zenon
  <2>7. SentFull'
    <3>1. \A i \in DOMAIN bq' : Full(bq'[i][1], bq'[i][2])
      BY <2>4, <2>5, <2>6, Zenon DEF Joins
    <3> QED BY <3>1, QueueFull, Zenon DEF FInv
  <2>8. InboxFull' /\ Grown
    BY <1>0, InboxKept, Zenon DEF KInv
  <2>9. Flushing'
    <3>1. ASSUME NEW s \in Owed(t)' PROVE Sent(s, t)'
      <4>1. s \in Owed(t)
        BY <2>1, Zenon DEF Later
      <4>2. \E i \in DOMAIN bq' : bq'[i][1] = BatchOf(s, t)
        <5>1. PICK j \in DOMAIN new : new[j][1] = BatchOf(s, t)
          BY <2>4, <4>1, Zenon
        <5>2. PICK i \in DOMAIN bq' : bq'[i] = new[j]
          BY <2>6, Zenon DEF Joins
        <5> QED BY <5>1, <5>2, Zenon
      <4> QED BY <4>2, Zenon DEF Sent, BatchOf, Shard
    <3> QED BY <2>3, <3>1, Zenon DEF Flushing
  <2>10. Flushed'
    <3>1. ASSUME dpc' = "commit" PROVE Owed(t)' = {}
      <4>1. new = <<>>
        BY <1>2, <3>1, Zenon
      <4>2. DOMAIN new = {}
        BY <4>1
      <4>3. Owed(t) = {}
        BY <2>4, <4>2, Zenon
      <4> QED BY <2>1, <4>3, Zenon DEF Later
    <3> QED BY <2>3, <3>1, Zenon DEF Flushed, Served
  <2>11. DoneServed'
    BY <1>0, <2>8, DoneKept, Zenon DEF KInv, DoneServed
  <2> QED BY <2>7, <2>8, <2>9, <2>10, <2>11, Zenon DEF KInv
<1> QED BY <1>1, <1>2, <1>t, Zenon DEF Read

LEMMA FlushKeeps ==
    ASSUME FInv, FInv', Later, KInv, FlushBatches
    PROVE  KInv'
<1>0. dpc = "flush" /\ UNCHANGED <<bar, topic, done, dpos>>
  BY Zenon DEF FlushBatches
<1>1. PICK n \in 0 .. Len(bq) : /\ Deliver(SubSeq(bq, 1, n))
                                 /\ bq' \in {<<>>, SubSeq(bq, n + 1, Len(bq))}
                                 /\ dpc' = IF n = Len(bq) THEN "commit" ELSE "idle"
  BY Zenon DEF FlushBatches
<1> DEFINE P == BatchIds \X SUBSET Strategies
           copies == SubSeq(bq, 1, n)
<1>2. bq \in Seq(P) /\ \A i \in DOMAIN bq : Full(bq[i][1], bq[i][2])
  BY Zenon DEF FInv, BatchTypes, KInv, SentFull
<1>3. /\ copies \in Seq(P)
      /\ \A i \in DOMAIN copies : i \in DOMAIN bq /\ copies[i] = bq[i]
      /\ n = Len(bq) => copies = bq
      /\ \A i \in DOMAIN bq' : \E j \in DOMAIN bq : bq'[i] = bq[j]
  <2> HIDE DEF P
  <2> QED BY <1>1, <1>2, Slices, Zenon
<1>4. copies \in Seq(BatchIds \X SUBSET Strategies) /\ Deliver(copies)
  BY <1>1, <1>3, Zenon
<1> HIDE DEF copies, P
<1>5. \A i \in DOMAIN copies : Full(copies[i][1], copies[i][2])
  BY <1>2, <1>3, Zenon
<1>6. InboxFull' /\ Grown /\ \A i \in DOMAIN copies : inbox'[copies[i][1]] # {}
  BY <1>4, <1>5, DeliveredFull, Zenon DEF KInv
<1>7. SentFull'
  <2>1. \A i \in DOMAIN bq' : Full(bq'[i][1], bq'[i][2])
    BY <1>2, <1>3, Zenon
  <2> QED BY <2>1, QueueFull, Zenon DEF FInv
<1>8. Flushing'
  BY <1>1, Zenon DEF Flushing
<1>9. ASSUME NEW t \in Bars, dpc' = "commit", topic'[dpos' + 1] = t, NEW s \in Owed(t)'
      PROVE  Arrived(s, t)'
  <2>1. copies = bq
    BY <1>1, <1>3, <1>9, Zenon
  <2>2. topic[dpos + 1] = t /\ t \in 1 .. bar
    BY <1>0, <1>9, EventKept, Zenon
  <2>3. s \in Owed(t)
    BY <2>2, Zenon DEF Later
  <2>4. s \in Strategies
    BY <2>3, Zenon DEF FInv, RouteTypes, Owed, Routed
  <2>5. BatchOf(s, t) \in BatchIds
    BY <2>4, BatchOfId, Zenon
  <2>6. Sent(s, t) \/ Arrived(s, t)
    BY <1>0, <2>2, <2>3, Zenon DEF KInv, Flushing
  <2>7. inbox'[BatchOf(s, t)] # {}
    BY <1>6, <2>1, <2>5, <2>6, Zenon DEF Sent, Arrived, Grown
  <2> QED BY <2>7, Zenon DEF Arrived, BatchOf, Shard
<1>10. Flushed'
  BY <1>9, Zenon DEF Flushed, Served
<1>11. DoneServed'
  BY <1>0, <1>6, DoneKept, Zenon DEF KInv, DoneServed
<1> QED BY <1>6, <1>7, <1>8, <1>10, <1>11, Zenon DEF KInv

LEMMA CommitKeeps ==
    ASSUME FInv, Later, KInv, Commit
    PROVE  KInv'
<1>0. /\ dpc = "commit" /\ dpc' = "idle" /\ done' = done \cup {dpos + 1}
      /\ UNCHANGED <<topic, bq, inbox>>
  BY Zenon DEF Commit
<1>1. SentFull'
  <2>1. BatchTypes' /\ \A i \in DOMAIN bq' : Full(bq'[i][1], bq'[i][2])
    BY <1>0, Zenon DEF FInv, BatchTypes, KInv, SentFull
  <2> QED BY <2>1, QueueFull, Zenon
<1>2. InboxFull' /\ Grown
  BY <1>0, InboxKept, Zenon DEF KInv
<1>3. Flushing' /\ Flushed'
  BY <1>0, Zenon DEF Flushing, Flushed
<1>4. ASSUME NEW t \in Bars, topic'[dpos + 1] = t PROVE Served(t)'
  <2>1. topic[dpos + 1] = t /\ t \in 1 .. bar
    BY <1>0, <1>4, EventKept, Zenon
  <2>2. Served(t)
    BY <1>0, <2>1, Zenon DEF KInv, Flushed
  <2> QED BY <1>2, <2>1, <2>2, ServedKept, Zenon
<1>5. \A i \in done : \A t \in Bars : topic'[i] = t => Served(t)'
  BY <1>2, DoneKept, Zenon DEF KInv
<1>6. DoneServed'
  BY <1>0, <1>4, <1>5, Zenon DEF DoneServed
<1> QED BY <1>1, <1>2, <1>3, <1>6, Zenon DEF KInv

LEMMA LateBatchKeeps ==
    ASSUME FInv, FInv', Later, KInv, LateBatch
    PROVE  KInv'
<1>0. /\ UNCHANGED <<topic, dpc, dpos, done>> /\ dpc # "flush"
      /\ bq # <<>> /\ bq' = Tail(bq)
      /\ Deliver(<<Head(bq)>>) \/ UNCHANGED inbox
  BY Zenon DEF LateBatch
<1> DEFINE P == BatchIds \X SUBSET Strategies
           copies == <<Head(bq)>>
<1>1. bq \in Seq(P) /\ \A i \in DOMAIN bq : Full(bq[i][1], bq[i][2])
  BY Zenon DEF FInv, BatchTypes, KInv, SentFull
<1>2. /\ copies \in Seq(P)
      /\ \A i \in DOMAIN copies : \E j \in DOMAIN bq : copies[i] = bq[j]
      /\ \A i \in DOMAIN Tail(bq) : \E j \in DOMAIN bq : Tail(bq)[i] = bq[j]
  <2> HIDE DEF P
  <2> QED BY <1>0, <1>1, HeadAndTail, Zenon
<1>3. InboxFull' /\ Grown
  <2>1. CASE UNCHANGED inbox
    BY <2>1, InboxKept, Zenon DEF KInv
  <2>2. CASE Deliver(copies)
    <3>1. copies \in Seq(BatchIds \X SUBSET Strategies)
      BY <1>2, Zenon
    <3> HIDE DEF copies, P
    <3>2. \A i \in DOMAIN copies : Full(copies[i][1], copies[i][2])
      BY <1>1, <1>2, Zenon
    <3> QED BY <2>2, <3>1, <3>2, DeliveredFull, Zenon DEF KInv
  <2> QED BY <1>0, <2>1, <2>2, Zenon
<1>4. SentFull'
  <2>1. \A i \in DOMAIN bq' : Full(bq'[i][1], bq'[i][2])
    BY <1>0, <1>1, <1>2, Zenon
  <2> QED BY <2>1, QueueFull, Zenon DEF FInv
<1>5. Flushing'
  BY <1>0, Zenon DEF Flushing
<1>6. Flushed' /\ DoneServed'
  BY <1>0, <1>3, DoneKept, Zenon DEF KInv, DoneServed
<1> QED BY <1>3, <1>4, <1>5, <1>6, Zenon DEF KInv

LEMMA CrashKeeps ==
    ASSUME FInv, FInv', Later, KInv, DispatcherCrash
    PROVE  KInv'
<1>0. UNCHANGED <<inbox, done>> /\ dpc' = "down" /\ bq' = <<>>
  BY Zenon DEF DispatcherCrash
<1>1. DOMAIN bq' = {}
  BY <1>0
<1>2. SentFull' /\ Flushing' /\ Flushed'
  BY <1>0, <1>1, Zenon DEF SentFull, Flushing, Flushed
<1>3. InboxFull' /\ Grown
  BY <1>0, InboxKept, Zenon DEF KInv
<1>4. DoneServed'
  BY <1>0, <1>3, DoneKept, Zenon DEF KInv, DoneServed
<1> QED BY <1>2, <1>3, <1>4, Zenon DEF KInv

LEMMA CommitStep ==
    ASSUME OneBatch, FInv, KInv, [Next]_vars
    PROVE  KInv'
<1>1. Later /\ FInv'
  BY LaterStep, FeedStep, Zenon
<1>2. CASE Read \/ FlushBatches \/ Commit \/ LateBatch \/ DispatcherCrash
  BY <1>1, <1>2, ReadKeeps, FlushKeeps, CommitKeeps, LateBatchKeeps, CrashKeeps, Zenon
<1>3. CASE ~(Read \/ FlushBatches \/ Commit \/ LateBatch \/ DispatcherCrash)
  <2>1. CASE UNCHANGED dispatchVars
    <3>1. UNCHANGED <<bq, inbox, done, dpc, dpos>>
      BY <2>1, Zenon DEF dispatchVars
    <3> QED BY <1>1, <3>1, CommitFrame, Zenon
  <2>2. CASE Poll \/ RecoverStep \/ LateBar \/ DispatcherStart
    <3>1. /\ UNCHANGED <<bq, inbox, done>>
          /\ UNCHANGED <<dpc, dpos>> \/ dpc' \in {"read", "idle", "rflush"}
      BY <2>2, Zenon
      DEF Poll, RecoverStep, RecoverPlan, RecoverFlush, LateBar, DispatcherStart
    <3> QED BY <1>1, <3>1, CommitFrame, Zenon
  <2>3. UNCHANGED dispatchVars \/ Poll \/ RecoverStep \/ LateBar \/ DispatcherStart
    BY <1>3, Zenon
    DEF Next, vars, BarCloses, GracePasses, SetStatus, StartStrategy, StopStrategy,
        CloseSubscription, ClockStep, ClockScan, ClockTake, ClockSend, LeaderCrash, DispatchStep
  <2> QED BY <2>1, <2>2, <2>3, Zenon
<1> QED BY <1>2, <1>3, Zenon

LEMMA CommitInit == Init => KInv
<1> SUFFICES ASSUME Init PROVE KInv
  OBVIOUS
<1>1. /\ bq = <<>> /\ dpc = "idle" /\ done = {} /\ inbox = [b \in BatchIds |-> {}]
  BY Zenon DEF Init
<1>2. DOMAIN bq = {}
  BY <1>1
<1> QED BY <1>1, <1>2, Zenon DEF KInv, SentFull, InboxFull, Flushing, Flushed, DoneServed

(* While the strategies of each shard fit in one batch, a source offset is *)
(* committed only when its bar has reached every strategy routed since     *)
(* before the bar closed: through lost and late deliveries, rewinds,       *)
(* restarts of the worker, and starts and stops in between.                *)
THEOREM CommitsReach ==
    ASSUME OneBatch
    PROVE  Spec => []CommittedReached
<1>1. FInv /\ KInv => CommittedReached
  <2> SUFFICES ASSUME FInv, KInv, NEW i \in done, NEW s \in Routed, since[s] < topic[i]
               PROVE  s \in Reached(topic[i])
    BY Zenon DEF CommittedReached
  <2>1. PICK t : t = topic[i]
    BY Zenon
  <2>2. t \in 1 .. bar
    <3>1. i \in 1 .. Len(topic) /\ topic \in Seq(1 .. bar)
      BY Zenon DEF FInv, OffsetTypes, QueueTypes
    <3> QED BY <2>1, <3>1, Elements, Zenon
  <2>3. t \in Bars
    BY <2>2, FeedAssumption DEF FInv, TimeTypes, Tokens, Bars
  <2>4. s \in Owed(t) /\ s \in Strategies
    BY <2>1, Zenon DEF Owed, FInv, RouteTypes, Routed
  <2>5. inbox[BatchOf(s, t)] # {}
    BY <2>1, <2>3, <2>4, Zenon DEF KInv, DoneServed, Served, Arrived
  <2>6. BatchOf(s, t) \in BatchIds /\ BatchOf(s, t)[1] = t
    BY <2>3, <2>4, BatchOfId, Zenon
  <2>7. s \in inbox[BatchOf(s, t)]
    BY <2>4, <2>5, <2>6, Zenon DEF KInv, InboxFull, Full
  <2> QED BY <2>1, <2>6, <2>7, Zenon DEF Reached
<1>2. FInv /\ KInv /\ [Next]_vars => KInv'
  BY CommitStep
<1> QED BY <1>1, <1>2, FeedInit, FeedStep, CommitInit, PTL DEF Spec
=============================================================================
