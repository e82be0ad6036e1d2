----------------------- MODULE StrategyCommandsProofs -----------------------
(***************************************************************************)
(* A command of the queue belongs to one worker at a time, keeps its       *)
(* outcome, and honours a queued request to close, for any number of       *)
(* workers, requests, commands, attempts, crashes and stalls; the commands *)
(* whose lease has once run out unnoticed are the only exception.          *)
(***************************************************************************)
EXTENDS StrategyCommands, WellFoundedInduction, TLAPS

Recording == {"recordOk", "recordError"}

(* Which steps of a worker have a command in hand.                         *)
Working ==
    \A w \in Workers :
        /\ valid[w] => cmd[w] # 0
        /\ pc[w] \in {"stop", "join", "release", "revoke"} \cup Recording => cmd[w] # 0
        /\ pc[w] = "idle" => cmd[w] = 0
        /\ pc[w] \in {"giveUp"} \cup Recording => ~valid[w]
        /\ cmd[w] # 0 => state[cmd[w]] # "none"

TInv == TypeOK /\ Working

(* A worker that believes in its command, or is about to write its         *)
(* outcome, while no lease of the command has run out unnoticed ...        *)
Firm(w) == (valid[w] \/ pc[w] \in Recording) /\ cmd[w] \notin late

(* ... has it: the row names the worker, under a lease that is live.       *)
Claimed ==
    \A w \in Workers : Firm(w) => state[cmd[w]] = "processing" /\ by[cmd[w]] = w

(* A worker executing a stop is on the path of a stop, and when it is past *)
(* the join it has queued the closes it was told of.                       *)
StopPath == {"stop", "join", "release", "revoke", "ok", "error"} \cup Recording

Stopping ==
    \A w \in Workers : (cmd[w] # 0 /\ type[cmd[w]] = "stop") =>
        /\ pc[w] \in StopPath
        /\ (pc[w] \in {"release", "revoke", "ok", "recordOk"} /\ closing[w])
              => cmd[w] \in closed

(* What was asked of a queued stop is in its row, and the worker that has  *)
(* the command has read it there.                                          *)
Asked ==
    \A c \in asked :
        /\ state[c] # "none" /\ type[c] = "stop" /\ close[c]
        /\ \A w \in Workers : (Firm(w) /\ cmd[w] = c) => closing[w]

CInv == Claimed /\ Stopping /\ Asked /\ CloseHonoured

-----------------------------------------------------------------------------
(* A set of natural numbers has a least one.                               *)
LEMMA Least ==
    ASSUME NEW T \in SUBSET Nat, T # {}
    PROVE  \E x \in T : \A y \in T : x <= y
<1> DEFINE Less == {p \in Nat \X Nat : p[1] < p[2]}
<1>1. Less = OpToRel(<, Nat)
  BY Zenon DEF OpToRel
<1>2. IsWellFoundedOn(Less, Nat)
  BY <1>1, NatLessThanWellFounded, Zenon
<1>3. PICK x \in T : \A y \in T : ~(<<y, x>> \in Less)
  <2> HIDE DEF Less
  <2> QED BY <1>2, WFMin, Zenon
<1>4. ASSUME NEW y \in T PROVE x <= y
  <2>1. x \in Nat /\ y \in Nat
    OBVIOUS
  <2>2. ~(y < x)
    BY <1>3, <2>1, Zenon
  <2> QED BY <2>1, <2>2
<1> QED BY <1>4, Zenon

(* The row enqueue and claim_next choose is one of the candidates.         *)
LEMMA OldestIn ==
    ASSUME NEW S \in SUBSET Ids, S # {}
    PROVE  Oldest(S) \in S
<1>1. S \in SUBSET Nat
  BY CommandsAssumption DEF Ids
<1>2. \E c \in S : \A d \in S : c <= d
  BY <1>1, Least, Zenon
<1> QED
  BY <1>2, Zenon DEF Oldest

LEMMA NewestIn ==
    ASSUME NEW S \in SUBSET Ids, S # {}
    PROVE  Newest(S) \in S
<1> DEFINE T == {n \in Nat : \A d \in S : d <= n}
<1>1. S \in SUBSET (1..MaxCommands) /\ MaxCommands \in Nat
  BY CommandsAssumption, Zenon DEF Ids
<1>2. T \in SUBSET Nat /\ MaxCommands \in T
  BY <1>1
<1>3. PICK x \in T : \A y \in T : x <= y
  <2> HIDE DEF T
  <2> QED BY <1>2, Least, Zenon
<1>4. x \in S
  <2> SUFFICES ASSUME x \notin S PROVE FALSE
    OBVIOUS
  <2>1. x \in Nat /\ \A d \in S : d \in Nat /\ d >= 1 /\ d <= x /\ d # x
    BY <1>1
  <2>2. \A d \in S : d <= x - 1
    BY <2>1
  <2>3. x - 1 \in T
    BY <2>1, <2>2
  <2> QED BY <1>3, <2>1, <2>3
<1>5. \A d \in S : d <= x
  OBVIOUS
<1> QED
  BY <1>4, <1>5, Zenon DEF Newest

LEMMA Chosen ==
    /\ \A t \in Types : ActiveOf(t) # {} => Newest(ActiveOf(t)) \in ActiveOf(t)
    /\ Fresh # {} => Oldest(Fresh) \in Fresh
    /\ Claimable # {} => Oldest(Claimable) \in Claimable
<1>1. \A t \in Types : ActiveOf(t) \in SUBSET Ids
  BY Zenon DEF ActiveOf
<1>2. Fresh \in SUBSET Ids /\ Claimable \in SUBSET Ids
  BY Zenon DEF Fresh, Claimable
<1> QED
  BY <1>1, <1>2, OldestIn, NewestIn, Zenon

LEMMA TypeInit == Init => TInv
<1> SUFFICES ASSUME Init PROVE TInv
  OBVIOUS
<1> USE CommandsAssumption DEF Init
<1>1. QueueTypeOK
  BY DEF QueueTypeOK, Types, States
<1>2. JobTypeOK
  BY DEF JobTypeOK, Steps
<1>3. LocalTypeOK
  BY DEF LocalTypeOK
<1>4. RequestTypeOK
  BY DEF RequestTypeOK, RequestSteps
<1>5. Working
  BY Zenon DEF Working, Recording
<1> QED
  BY <1>1, <1>2, <1>3, <1>4, <1>5, Zenon DEF TInv, TypeOK

LEMMA RestTypes ==
    ASSUME JobTypeOK, NEW w \in Workers, Rest(w)
    PROVE  JobTypeOK'
<1>1. pc' \in [Workers -> Steps] /\ cmd' \in [Workers -> Ids \cup {0}]
  BY Zenon DEF JobTypeOK, Rest, Goto, Steps
<1>2. seen' \in [Workers -> 0..MaxAttempts]
  BY CommandsAssumption DEF JobTypeOK, Rest
<1>3. closing' \in [Workers -> BOOLEAN] /\ valid' \in [Workers -> BOOLEAN]
  BY Zenon DEF JobTypeOK, Rest
<1> QED BY <1>1, <1>2, <1>3, Zenon DEF JobTypeOK

(* enqueue keeps the rows well formed and inserts no row twice.            *)
LEMMA EnqueueTypes ==
    ASSUME TInv, NEW u \in Users, NEW t \in Types, NEW k \in BOOLEAN, Enqueue(u, t, k)
    PROVE  /\ QueueTypeOK'
           /\ ucmd' \in [Users -> Ids \cup {0}] /\ asked' \subseteq Ids
           /\ \A c \in Ids : state[c] # "none" => state'[c] = state[c]
<1> USE DEF Types
<1>0. QueueTypeOK /\ ucmd \in [Users -> Ids \cup {0}] /\ asked \subseteq Ids
  BY Zenon DEF TInv, TypeOK, RequestTypeOK
<1>1. CASE ActiveOf(t) # {}
  <2> DEFINE c == Newest(ActiveOf(t))
  <2>1. c \in Ids
    BY <1>1, Chosen, Zenon DEF ActiveOf
  <2> HIDE DEF c
  <2>2. /\ ucmd' = [ucmd EXCEPT ![u] = c] /\ close' = Upgraded(c, k)
        /\ asked' \subseteq asked \cup {c}
        /\ UNCHANGED <<type, state, by, due, attempts>>
    BY <1>1, Zenon DEF Enqueue, c
  <2> QED BY <1>0, <2>1, <2>2, Zenon DEF QueueTypeOK, Upgraded
<1>2. CASE ActiveOf(t) = {}
  <2> DEFINE c == Oldest(Fresh)
  <2>1. c \in Ids /\ state[c] = "none"
    BY <1>2, Chosen, Zenon DEF Fresh, Enqueue
  <2> HIDE DEF c
  <2>2. /\ ucmd' = [ucmd EXCEPT ![u] = c] /\ type' = [type EXCEPT ![c] = t]
        /\ state' = [state EXCEPT ![c] = "pending"]
        /\ due' = [due EXCEPT ![c] = TRUE] /\ close' = [close EXCEPT ![c] = k]
        /\ asked' \subseteq asked \cup {c}
        /\ UNCHANGED <<by, attempts>>
    BY <1>2, Zenon DEF Enqueue, c
  <2> QED BY <1>0, <2>1, <2>2, Zenon DEF QueueTypeOK, States
<1> QED BY <1>1, <1>2, Zenon

(* Every step keeps the types and the commands in hand.                    *)
LEMMA TypeStep == TInv /\ [Next]_vars => TInv'
<1> SUFFICES ASSUME TInv, [Next]_vars PROVE TInv'
  OBVIOUS
<1> USE CommandsAssumption, Chosen
    DEF TInv, TypeOK, QueueTypeOK, JobTypeOK, LocalTypeOK, RequestTypeOK, Working,
        Recording, Types, States, Steps, RequestSteps, queue, job, local, self,
        worker, request, faults
<1>1. ASSUME NEW w \in Workers, ReadStatus(w) PROVE TInv'
  BY <1>1 DEF ReadStatus, Goto
<1>2. ASSUME NEW w \in Workers, AcquireRuntime(w) PROVE TInv'
  <2>1. QueueTypeOK'
    BY <1>2, Zenon DEF AcquireRuntime, Goto
  <2>2. JobTypeOK'
    BY <1>2 DEF AcquireRuntime, Goto
  <2>3. LocalTypeOK'
    BY <1>2, Zenon DEF AcquireRuntime, Goto
  <2>4. RequestTypeOK'
    BY <1>2, Zenon DEF AcquireRuntime, Goto
  <2>5. Working'
    BY <1>2 DEF AcquireRuntime, Goto
  <2> QED BY <2>1, <2>2, <2>3, <2>4, <2>5, Zenon
<1>3. ASSUME NEW w \in Workers, Launch(w) PROVE TInv'
  <2>1. QueueTypeOK'
    BY <1>3, Zenon DEF Launch, Goto
  <2>2. JobTypeOK'
    BY <1>3 DEF Launch, Goto
  <2>3. LocalTypeOK'
    BY <1>3, Zenon DEF Launch, Goto
  <2>4. RequestTypeOK'
    BY <1>3, Zenon DEF Launch, Goto
  <2>5. Working'
    BY <1>3 DEF Launch, Goto
  <2> QED BY <2>1, <2>2, <2>3, <2>4, <2>5, Zenon
<1>4. ASSUME NEW w \in Workers, AwaitReady(w) PROVE TInv'
  BY <1>4 DEF AwaitReady, Goto
<1>5. ASSUME NEW w \in Workers, UndoStart(w) PROVE TInv'
  BY <1>5, Zenon DEF UndoStart, Goto, ReleaseOwn
<1>6. ASSUME NEW w \in Workers, StopPersist(w) PROVE TInv'
  BY <1>6 DEF StopPersist, Goto
<1>7. ASSUME NEW w \in Workers, StopJoin(w) PROVE TInv'
  <2>1. QueueTypeOK'
    BY <1>7, Zenon DEF StopJoin, Goto
  <2>2. JobTypeOK'
    BY <1>7 DEF StopJoin, Goto
  <2>3. LocalTypeOK'
    <3>1. /\ rt' = rt \/ rt' = [rt EXCEPT ![w] = FALSE]
          /\ halt' = [halt EXCEPT ![w] = FALSE] \/ halt' = [halt EXCEPT ![w] = TRUE]
          /\ UNCHANGED <<guard, quit, fails, owner, leader>>
      BY <1>7, Zenon DEF StopJoin
    <3>2. rt' \in [Workers -> BOOLEAN]
      BY <3>1, Zenon
    <3>3. halt' \in [Workers -> BOOLEAN]
      BY <3>1, ZenonT(30)
    <3> QED BY <3>1, <3>2, <3>3, Zenon
  <2>4. RequestTypeOK'
    BY <1>7 DEF StopJoin, Goto
  <2>5. Working'
    BY <1>7 DEF StopJoin, Goto
  <2> QED BY <2>1, <2>2, <2>3, <2>4, <2>5, Zenon
<1>8. ASSUME NEW w \in Workers, StopRelease(w) PROVE TInv'
  BY <1>8, Zenon DEF StopRelease, Goto, ReleaseOwn
<1>9. ASSUME NEW w \in Workers, StopRevoke(w) PROVE TInv'
  BY <1>9, Zenon DEF StopRevoke, Goto
<1>10. ASSUME NEW w \in Workers, Finish(w) PROVE TInv'
  <2>1. QueueTypeOK'
    BY <1>10, Zenon DEF Finish, Goto, Rest, MayRecord
  <2>2. JobTypeOK'
    <3>1. CASE Rest(w)
      BY <3>1, RestTypes, Zenon
    <3>2. CASE ~Rest(w)
      <4>1. /\ \/ pc' = [pc EXCEPT ![w] = "recordOk"]
               \/ pc' = [pc EXCEPT ![w] = "recordError"]
            /\ valid' = [valid EXCEPT ![w] = FALSE]
            /\ UNCHANGED <<cmd, seen, closing>>
        BY <1>10, <3>2, Zenon DEF Finish, Goto
      <4>2. pc' \in [Workers -> Steps]
        BY <4>1
      <4>3. valid' \in [Workers -> BOOLEAN]
        BY <4>1, Zenon
      <4> QED BY <4>1, <4>2, <4>3, Zenon
    <3> QED BY <3>1, <3>2, Zenon
  <2>3. LocalTypeOK'
    BY <1>10, Zenon DEF Finish, Goto, Rest, MayRecord
  <2>4. RequestTypeOK'
    BY <1>10, Zenon DEF Finish, Goto, Rest, MayRecord
  <2>5. Working'
    BY <1>10 DEF Finish, Goto, Rest, MayRecord
  <2> QED BY <2>1, <2>2, <2>3, <2>4, <2>5, Zenon
<1>11. ASSUME NEW w \in Workers, FinishRestore(w) PROVE TInv'
  BY <1>11 DEF FinishRestore, Goto, Rest, RestoreGivesUp
<1>12. ASSUME NEW w \in Workers, RecordOk(w) PROVE TInv'
  BY <1>12 DEF RecordOk, Goto, Rest
<1>13. ASSUME NEW w \in Workers, RecordError(w) PROVE TInv'
  <2>1. QueueTypeOK'
    BY <1>13, Zenon DEF RecordError, Goto, Rest, RetryAllowed
  <2>2. JobTypeOK'
    <3>1. CASE ~RetryAllowed(w) /\ type[cmd[w]] = "start"
      BY <1>13, <3>1 DEF RecordError, Goto
    <3>2. CASE ~(~RetryAllowed(w) /\ type[cmd[w]] = "start")
      <4>1. Rest(w)
        BY <1>13, <3>2, Zenon DEF RecordError
      <4> QED BY <4>1, RestTypes, Zenon
    <3> QED BY <3>1, <3>2, Zenon
  <2>3. LocalTypeOK'
    BY <1>13, Zenon DEF RecordError, Goto, Rest, RetryAllowed
  <2>4. RequestTypeOK'
    BY <1>13, Zenon DEF RecordError, Goto, Rest, RetryAllowed
  <2>5. Working'
    BY <1>13 DEF RecordError, Goto, Rest, RetryAllowed
  <2> QED BY <2>1, <2>2, <2>3, <2>4, <2>5, Zenon
<1>14. ASSUME NEW w \in Workers, GiveUp(w) PROVE TInv'
  BY <1>14 DEF GiveUp, Goto, Rest
<1>15. ASSUME NEW w \in Workers, Shutdown(w) PROVE TInv'
  <2>1. QueueTypeOK'
    BY <1>15, Zenon DEF Shutdown, Goto, ReleaseOwn, StepDown
  <2>2. JobTypeOK'
    BY <1>15, Zenon DEF Shutdown, Goto, ReleaseOwn, StepDown
  <2>3. LocalTypeOK'
    <3>1. /\ rt' = [rt EXCEPT ![w] = FALSE] /\ halt' = [halt EXCEPT ![w] = FALSE]
          /\ guard' = [guard EXCEPT ![w] = FALSE] /\ quit' = [quit EXCEPT ![w] = FALSE]
          /\ fails' = [fails EXCEPT ![w] = 0]
      BY <1>15, Zenon DEF Shutdown, ReleaseOwn
    <3>2. owner' \in {owner, NoOwner} /\ leader' \in {leader, NoOwner}
      BY <1>15, Zenon DEF Shutdown, ReleaseOwn, StepDown
    <3> QED BY <3>1, <3>2
  <2>4. RequestTypeOK'
    BY <1>15, Zenon DEF Shutdown, Goto, ReleaseOwn, StepDown
  <2>5. Working'
    BY <1>15, Zenon DEF Shutdown, Goto, ReleaseOwn, StepDown
  <2> QED BY <2>1, <2>2, <2>3, <2>4, <2>5, Zenon
<1>16. ASSUME NEW c \in Ids, ExpireUnnoticed(c) PROVE TInv'
  <2>1. QueueTypeOK' /\ JobTypeOK' /\ LocalTypeOK' /\ Working'
    BY <1>16, Zenon DEF ExpireUnnoticed
  <2>2. RequestTypeOK'
    BY <1>16 DEF ExpireUnnoticed
  <2> QED BY <2>1, <2>2, Zenon
<1>17. ASSUME NEW w \in Workers, Claim(w) PROVE TInv'
  <2> DEFINE c == Oldest(Claimable)
  <2>1. c \in Ids /\ attempts[c] < MaxAttempts
    BY <1>17, Chosen, Zenon DEF Claim, Claimable
  <2>2. /\ state' = [state EXCEPT ![c] = "processing"]
        /\ by' = [by EXCEPT ![c] = w] /\ due' = [due EXCEPT ![c] = FALSE]
        /\ attempts' = [attempts EXCEPT ![c] = @ + 1]
        /\ cmd' = [cmd EXCEPT ![w] = c]
        /\ seen' = [seen EXCEPT ![w] = attempts[c] + 1]
        /\ closing' = [closing EXCEPT ![w] = close[c]]
        /\ valid' = [valid EXCEPT ![w] = TRUE]
        /\ pc' = [pc EXCEPT ![w] = type[c]]
        /\ UNCHANGED <<status, type, close, owner, local, self, request, faults, closed>>
    BY <1>17, Zenon DEF Claim, Goto
  <2> HIDE DEF c
  <2>3. QueueTypeOK'
    BY <2>1, <2>2
  <2>4. cmd' \in [Workers -> Ids \cup {0}] /\ seen' \in [Workers -> 0..MaxAttempts]
    BY <2>1, <2>2
  <2>5. closing' \in [Workers -> BOOLEAN] /\ valid' \in [Workers -> BOOLEAN]
    BY <2>1, <2>2, Zenon
  <2>6. pc' \in [Workers -> Steps]
    BY <2>1, <2>2, Zenon
  <2>7. LocalTypeOK' /\ RequestTypeOK'
    BY <2>2, Zenon
  <2>8. Working'
    <3> SUFFICES ASSUME NEW v \in Workers
                 PROVE  /\ valid'[v] => cmd'[v] # 0
                        /\ pc'[v] \in {"stop", "join", "release", "revoke"} \cup Recording
                              => cmd'[v] # 0
                        /\ pc'[v] = "idle" => cmd'[v] = 0
                        /\ pc'[v] \in {"giveUp"} \cup Recording => ~valid'[v]
                        /\ cmd'[v] # 0 => state'[cmd'[v]] # "none"
      OBVIOUS
    <3>1. CASE v = w
      <4>1. cmd'[v] = c /\ c # 0 /\ pc'[v] = type[c] /\ state'[c] = "processing"
        BY <2>1, <2>2, <3>1 DEF Ids
      <4>2. type[c] \in {"start", "stop"}
        BY <2>1, Zenon
      <4> QED BY <4>1, <4>2, Zenon
    <3>2. CASE v # w
      BY <2>1, <2>2, <3>2
    <3> QED BY <3>1, <3>2, Zenon
  <2> QED BY <2>3, <2>4, <2>5, <2>6, <2>7, <2>8, Zenon
<1>18. ASSUME NEW w \in Workers, Restore(w) PROVE TInv'
  BY <1>18 DEF Restore, Goto
<1>19. ASSUME NEW w \in Workers, FailExhausted(w) PROVE TInv'
  BY <1>19 DEF FailExhausted, Exhausted
<1>21. ASSUME NEW w \in Workers, ForgetFailures(w) PROVE TInv'
  BY <1>21 DEF ForgetFailures
<1>22. ASSUME NEW w \in Workers, CommandLost(w) PROVE TInv'
  BY <1>22 DEF CommandLost
<1>23. ASSUME NEW w \in Workers, GuardLost(w) PROVE TInv'
  BY <1>23, Zenon DEF GuardLost
<1>24. ASSUME NEW w \in Workers, RuntimeStops(w) PROVE TInv'
  BY <1>24, Zenon DEF RuntimeStops
<1>25. ASSUME NEW w \in Workers, RuntimeFails(w) PROVE TInv'
  BY <1>25, Zenon DEF RuntimeFails
<1>26. ASSUME NEW w \in Workers, Crash(w) PROVE TInv'
  <2>1. QueueTypeOK' /\ RequestTypeOK'
    BY <1>26 DEF Crash
  <2>2. JobTypeOK'
    BY <1>26, RestTypes, Zenon DEF Crash
  <2>3. LocalTypeOK'
    BY <1>26 DEF Crash, StepDown
  <2>4. Working'
    BY <1>26 DEF Crash, Goto, Rest
  <2> QED BY <2>1, <2>2, <2>3, <2>4, Zenon
<1>27. ASSUME NEW u \in Users, StartWrite(u) PROVE TInv'
  BY <1>27 DEF StartWrite
<1>28. ASSUME NEW u \in Users, StartEnqueue(u) PROVE TInv'
  <2>1. Enqueue(u, "start", FALSE)
    BY <1>28, Zenon DEF StartEnqueue
  <2>2. /\ QueueTypeOK' /\ ucmd' \in [Users -> Ids \cup {0}] /\ asked' \subseteq Ids
        /\ \A c \in Ids : state[c] # "none" => state'[c] = state[c]
    <3> HIDE DEF TInv, QueueTypeOK
    <3>1. TInv /\ "start" \in Types /\ FALSE \in BOOLEAN
      OBVIOUS
    <3> QED BY <2>1, <3>1, EnqueueTypes, Zenon
  <2>3. JobTypeOK' /\ LocalTypeOK' /\ RequestTypeOK'
    BY <1>28, <2>2, Zenon DEF StartEnqueue
  <2>4. Working'
    BY <1>28, <2>2 DEF StartEnqueue
  <2> QED BY <2>2, <2>3, <2>4, Zenon
<1>29. ASSUME NEW u \in Users, StartReply(u) PROVE TInv'
  BY <1>29, Zenon DEF StartReply
<1>30. ASSUME NEW u \in Users, StopReply(u) PROVE TInv'
  BY <1>30, Zenon DEF StopReply
<1>31. ASSUME NEW u \in Users, NEW k \in BOOLEAN, StopEnqueue(u, k) PROVE TInv'
  <2>1. Enqueue(u, "stop", k)
    BY <1>31, Zenon DEF StopEnqueue
  <2>2. /\ QueueTypeOK' /\ ucmd' \in [Users -> Ids \cup {0}] /\ asked' \subseteq Ids
        /\ \A c \in Ids : state[c] # "none" => state'[c] = state[c]
    <3> HIDE DEF TInv, QueueTypeOK
    <3>1. TInv /\ "stop" \in Types /\ k \in BOOLEAN
      OBVIOUS
    <3> QED BY <2>1, <3>1, EnqueueTypes, Zenon
  <2>3. JobTypeOK' /\ LocalTypeOK'
    BY <1>31, Zenon DEF StopEnqueue
  <2>5. RequestTypeOK'
    <3>1. wish' \in {"stop", "joined"} /\ calls' = calls + 1 /\ calls < MaxCalls
      BY <1>31, Zenon DEF StopEnqueue
    <3>2. upc' = [upc EXCEPT ![u] = "stopWait"] /\ UNCHANGED <<status, faults, closed>>
      BY <1>31, Zenon DEF StopEnqueue
    <3> QED BY <2>2, <3>1, <3>2
  <2>4. Working'
    BY <1>31, <2>2 DEF StopEnqueue
  <2> QED BY <2>2, <2>3, <2>4, <2>5, Zenon
<1>32. ASSUME NEW c \in Ids, BecomeDue(c) PROVE TInv'
  BY <1>32, Zenon DEF BecomeDue
<1>33. ASSUME NEW c \in Ids, ExpireCommand(c) PROVE TInv'
  BY <1>33, Zenon DEF ExpireCommand
<1>34. ASSUME NEW c \in Ids, PollStatus(c) PROVE TInv'
  BY <1>34, Zenon DEF PollStatus
<1>35. CASE ExpireLease
  BY <1>35, Zenon DEF ExpireLease
<1>36. CASE UNCHANGED vars
  BY <1>36 DEF vars
<1> HIDE DEF TInv, TypeOK, QueueTypeOK, JobTypeOK, LocalTypeOK, RequestTypeOK, Working
<1> QED
  BY <1>1, <1>2, <1>3, <1>4, <1>5, <1>6, <1>7, <1>8, <1>9, <1>10, <1>11,
     <1>12, <1>13, <1>14, <1>15, <1>16, <1>17, <1>18, <1>19, <1>21,
     <1>22, <1>23, <1>24, <1>25, <1>26, <1>27, <1>28, <1>29, <1>30, <1>31,
     <1>32, <1>33, <1>34, <1>35, <1>36, Zenon DEF Next, Execute, Request

(* Commands, workers and threads keep their types for any number of them;  *)
(* in particular no command is claimed beyond its last attempt.            *)
THEOREM TypeCorrect == Spec => []TypeOK
<1>1. TInv => TypeOK
  BY Zenon DEF TInv
<1> QED
  BY <1>1, TypeInit, TypeStep, PTL DEF Spec

-----------------------------------------------------------------------------
LEMMA ClaimInit == Init => CInv
BY DEF Init, CInv, Claimed, Firm, Recording, Stopping, Asked, CloseHonoured

(* A step of the worker that touches neither the queue nor the command in  *)
(* hand, and stays on the path of a stop if it executes one.               *)
LEMMA Moves ==
    ASSUME TInv, CInv, NEW w \in Workers, NEW s \in Steps \ Recording,
           pc' = [pc EXCEPT ![w] = s],
           UNCHANGED <<queue, job, asked, closed, late>>,
           (cmd[w] # 0 /\ type[cmd[w]] = "stop") =>
               /\ s \in StopPath
               /\ (s \in {"release", "revoke", "ok"} /\ closing[w]) => cmd[w] \in closed
    PROVE  CInv'
<1> USE DEF queue, job
<1>0. pc \in [Workers -> Steps]
  BY Zenon DEF TInv, TypeOK, JobTypeOK
<1>1. \A v \in Workers : Firm(v)' => Firm(v)
  BY <1>0, Zenon DEF Firm
<1>2. Claimed'
  BY <1>1, Zenon DEF CInv, Claimed
<1>3. Stopping'
  BY <1>0, Zenon DEF CInv, Stopping, Recording
<1>4. Asked'
  BY <1>1, Zenon DEF CInv, Asked
<1>5. CloseHonoured'
  BY Zenon DEF CInv, CloseHonoured
<1> QED
  BY <1>2, <1>3, <1>4, <1>5, Zenon DEF CInv

(* The worker lets its command go without a word to the queue.             *)
LEMMA LetsGo ==
    ASSUME TInv, CInv, NEW w \in Workers,
           pc' = [pc EXCEPT ![w] = "idle"],
           cmd' = [cmd EXCEPT ![w] = 0],
           closing' = [closing EXCEPT ![w] = FALSE],
           valid' = [valid EXCEPT ![w] = FALSE],
           UNCHANGED <<queue, asked, closed, late>>
    PROVE  CInv'
<1> USE DEF queue
<1>0. JobTypeOK
  BY Zenon DEF TInv, TypeOK
<1>1. /\ ~Firm(w)' /\ cmd'[w] = 0
      /\ \A v \in Workers \ {w} :
            /\ Firm(v)' = Firm(v) /\ cmd'[v] = cmd[v] /\ pc'[v] = pc[v]
            /\ closing'[v] = closing[v]
  BY <1>0, Zenon DEF JobTypeOK, Firm, Recording
<1>2. Claimed'
  BY <1>1 DEF CInv, Claimed
<1>3. Stopping'
  BY <1>1 DEF CInv, Stopping
<1>4. Asked'
  BY <1>1 DEF CInv, Asked
<1>5. CloseHonoured'
  BY Zenon DEF CInv, CloseHonoured
<1> QED
  BY <1>2, <1>3, <1>4, <1>5, Zenon DEF CInv

(* claim_next takes a command that nobody holds.                           *)
LEMMA ClaimKeeps ==
    ASSUME TInv, CInv, NEW w \in Workers, Claim(w)
    PROVE  CInv'
<1> DEFINE c == Oldest(Claimable)
<1>1. c \in Ids /\ (state[c] = "pending" \/ (state[c] = "processing" /\ by[c] = NoOwner))
  BY Chosen, Zenon DEF Claim, Claimable
<1>2. /\ state' = [state EXCEPT ![c] = "processing"]
      /\ by' = [by EXCEPT ![c] = w]
      /\ cmd' = [cmd EXCEPT ![w] = c]
      /\ closing' = [closing EXCEPT ![w] = close[c]]
      /\ valid' = [valid EXCEPT ![w] = TRUE]
      /\ pc' = [pc EXCEPT ![w] = type[c]]
      /\ UNCHANGED <<type, close, asked, closed, late>>
  BY Zenon DEF Claim, Goto, request, faults
<1> HIDE DEF c
<1>3. QueueTypeOK /\ JobTypeOK /\ asked \subseteq Ids
  BY Zenon DEF TInv, TypeOK, RequestTypeOK
<1>4. /\ cmd'[w] = c /\ closing'[w] = close[c] /\ pc'[w] \in {"start", "stop"}
      /\ pc'[w] = type[c]
      /\ state'[c] = "processing" /\ by'[c] = w
  BY <1>1, <1>2, <1>3, Zenon DEF QueueTypeOK, JobTypeOK, Types
<1>5. \A d \in Ids \ {c} : state'[d] = state[d] /\ by'[d] = by[d]
  BY <1>2, <1>3, Zenon DEF QueueTypeOK
<1>6. \A v \in Workers \ {w} : /\ cmd'[v] = cmd[v] /\ pc'[v] = pc[v]
                               /\ closing'[v] = closing[v] /\ Firm(v)' = Firm(v)
  BY <1>2, <1>3, Zenon DEF JobTypeOK, Firm
<1>7. \A v \in Workers : Firm(v) => cmd[v] \in Ids \ {c}
  BY <1>1, <1>3, CommandsAssumption DEF CInv, Claimed, TInv, Working, Firm, JobTypeOK
<1>8. Claimed'
  BY <1>4, <1>5, <1>6, <1>7 DEF CInv, Claimed
<1>9. Stopping'
  BY <1>2, <1>4, <1>6 DEF CInv, Stopping, StopPath, Recording
<1>10. Asked'
  <2>1. ASSUME NEW d \in asked
        PROVE  state'[d] # "none" /\ type'[d] = "stop" /\ close'[d]
    <3>1. state[d] # "none" /\ type[d] = "stop" /\ close[d]
      BY Zenon DEF CInv, Asked
    <3>2. state'[d] # "none"
      BY <1>3, <1>4, <1>5, <3>1, Zenon
    <3> QED BY <1>2, <3>1, <3>2, Zenon
  <2>2. ASSUME NEW d \in asked, NEW v \in Workers, Firm(v)', cmd'[v] = d
        PROVE  closing'[v]
    <3>1. CASE v = w
      BY <1>4, <2>2, <3>1, Zenon DEF CInv, Asked
    <3>2. CASE v # w
      BY <1>6, <2>2, <3>2, Zenon DEF CInv, Asked
    <3> QED BY <3>1, <3>2, Zenon
  <2> QED BY <1>2, <2>1, <2>2, Zenon DEF Asked
<1>11. CloseHonoured'
  BY <1>2, <1>4, <1>5 DEF CInv, CloseHonoured
<1> QED
  BY <1>8, <1>9, <1>10, <1>11, Zenon DEF CInv

(* complete and fail change the row their worker holds, and nobody else's. *)
LEMMA RecordKeeps ==
    ASSUME TInv, CInv, NEW w \in Workers, RecordOk(w) \/ RecordError(w)
    PROVE  /\ CInv'
           /\ \A c \in Ids \ late : state[c] \in Terminal => state'[c] = state[c]
<1> DEFINE c == cmd[w]
<1>1. QueueTypeOK /\ JobTypeOK /\ asked \subseteq Ids
  BY Zenon DEF TInv, TypeOK, RequestTypeOK
<1>2. pc[w] \in Recording /\ ~valid[w] /\ (Firm(w) <=> c \notin late)
  BY Zenon DEF RecordOk, RecordError, Recording, Firm, TInv, Working
<1>3. c \in Ids /\ (c \notin late => state[c] = "processing" /\ by[c] = w)
  BY <1>1, <1>2 DEF CInv, Claimed, TInv, Working, JobTypeOK, Recording
<1>4. /\ \A d \in Ids \ {c} : state'[d] = state[d] /\ by'[d] = by[d]
      /\ \/ RecordOk(w) /\ state'[c] = "succeeded"
         \/ RecordError(w) /\ state'[c] \in {"pending", "failed"}
      /\ UNCHANGED <<type, close, asked, closed, late>>
  BY <1>1, <1>3, Zenon DEF RecordOk, RecordError, QueueTypeOK, request, faults
<1>5. /\ \A v \in Workers \ {w} : /\ cmd'[v] = cmd[v] /\ pc'[v] = pc[v]
                                  /\ closing'[v] = closing[v] /\ Firm(v)' = Firm(v)
      /\ ~Firm(w)'
      /\ cmd'[w] = 0 \/ (cmd'[w] = c /\ type[c] = "start")
  <2>1. CASE Rest(w)
    BY <1>1, <1>4, <2>1, Zenon DEF Rest, Goto, JobTypeOK, Firm, Recording
  <2>2. CASE ~Rest(w)
    <3>1. pc' = [pc EXCEPT ![w] = "giveUp"] /\ UNCHANGED job /\ type[c] = "start"
      BY <2>2, Zenon DEF RecordOk, RecordError, Goto
    <3> QED BY <1>1, <1>2, <1>4, <3>1, Zenon DEF job, JobTypeOK, Firm, Recording
  <2> QED BY <2>1, <2>2, Zenon
<1>6. \A v \in Workers \ {w} : Firm(v) => cmd[v] \in Ids \ {c}
  BY <1>1, <1>3 DEF CInv, Claimed, TInv, Working, Firm, JobTypeOK
<1>7. c \in asked \ late => (pc[w] = "recordOk" => c \in closed)
  <2>1. c \in asked \ late => type[c] = "stop" /\ closing[w]
    BY <1>2, Zenon DEF CInv, Asked
  <2>2. c # 0
    BY <1>3 DEF Ids
  <2> QED BY <2>1, <2>2, Zenon DEF CInv, Stopping
<1>8. c \notin late => state[c] \notin Terminal
  BY <1>3, Zenon DEF Terminal
<1> HIDE DEF c
<1>9. Claimed'
  BY <1>4, <1>5, <1>6 DEF CInv, Claimed
<1>10. Stopping'
  BY <1>4, <1>5 DEF CInv, Stopping
<1>11. Asked'
  BY <1>1, <1>4, <1>5 DEF CInv, Asked
<1>12. CloseHonoured'
  BY <1>4, <1>7, Zenon DEF CInv, CloseHonoured, RecordOk
<1> QED
  BY <1>4, <1>8, <1>9, <1>10, <1>11, <1>12, Zenon DEF CInv

(* enqueue joins a command of its type, or inserts a row nobody knew; only *)
(* a stop is asked to close.                                               *)
LEMMA EnqueueKeeps ==
    ASSUME TInv, CInv, NEW u \in Users, NEW t \in Types, NEW k \in BOOLEAN,
           k => t = "stop", Enqueue(u, t, k),
           UNCHANGED <<pc, job, closed, late>>
    PROVE  /\ CInv'
           /\ \A c \in Ids : state[c] \in Terminal => state'[c] = state[c]
<1>0. /\ QueueTypeOK /\ JobTypeOK /\ asked \subseteq Ids
      /\ \A v \in Workers : cmd[v] # 0 => cmd[v] \in Ids /\ state[cmd[v]] # "none"
      /\ \A v \in Workers : Firm(v) => cmd[v] # 0
  BY Zenon DEF TInv, TypeOK, RequestTypeOK, JobTypeOK, Working, Firm
<1>1. \A v \in Workers : Firm(v)' = Firm(v)
  BY Zenon DEF Firm, job
<1>2. CASE ActiveOf(t) # {}
  <2> DEFINE c == Newest(ActiveOf(t))
  <2>1. c \in Ids /\ type[c] = t /\ state[c] \in Active
    BY <1>2, Chosen, Zenon DEF ActiveOf
  <2>2. /\ close' = [close EXCEPT ![c] = @ \/ k]
        /\ asked' = asked \/ (asked' = asked \cup {c} /\ k /\ state[c] = "pending")
        /\ UNCHANGED <<type, state, by>>
    BY <1>2, Zenon DEF Enqueue, Upgraded
  <2> HIDE DEF c
  <2>3. Claimed'
    BY <1>1, <2>2, Zenon DEF CInv, Claimed, job
  <2>4. Stopping'
    BY <2>2, Zenon DEF CInv, Stopping, job
  <2>5. Asked'
    <3>1. \A d \in asked : close[d] => close'[d]
      BY <1>0, <2>1, <2>2, Zenon DEF QueueTypeOK
    <3>2. k => close'[c]
      BY <1>0, <2>1, <2>2, Zenon DEF QueueTypeOK
    <3>3. \A v \in Workers : Firm(v) => state[cmd[v]] = "processing"
      BY Zenon DEF CInv, Claimed
    <3> QED BY <1>1, <2>1, <2>2, <3>1, <3>2, <3>3, Zenon DEF CInv, Asked, job
  <2>6. CloseHonoured'
    BY <2>2, Zenon DEF CInv, CloseHonoured
  <2> QED BY <2>2, <2>3, <2>4, <2>5, <2>6, Zenon DEF CInv
<1>3. CASE ActiveOf(t) = {}
  <2> DEFINE c == Oldest(Fresh)
  <2>1. c \in Ids /\ state[c] = "none"
    BY <1>3, Chosen, Zenon DEF Fresh, Enqueue
  <2>2. /\ type' = [type EXCEPT ![c] = t] /\ state' = [state EXCEPT ![c] = "pending"]
        /\ close' = [close EXCEPT ![c] = k]
        /\ asked' = IF k THEN asked \cup {c} ELSE asked
        /\ UNCHANGED by
    BY <1>3, Zenon DEF Enqueue
  <2> HIDE DEF c
  <2>3. /\ \A d \in Ids \ {c} : /\ type'[d] = type[d] /\ state'[d] = state[d]
                               /\ close'[d] = close[d]
        /\ type'[c] = t /\ state'[c] = "pending" /\ close'[c] = k
    BY <1>0, <2>1, <2>2, Zenon DEF QueueTypeOK
  <2>4. \A v \in Workers : cmd[v] # 0 => cmd[v] \in Ids \ {c}
    BY <1>0, <2>1, Zenon
  <2>5. Claimed'
    BY <1>0, <1>1, <2>2, <2>3, <2>4, Zenon DEF CInv, Claimed, job
  <2>6. Stopping'
    BY <2>3, <2>4, Zenon DEF CInv, Stopping, job
  <2>7. c \notin asked
    BY <2>1, Zenon DEF CInv, Asked
  <2>8. Asked'
    <3>1. ASSUME NEW d \in asked
          PROVE  /\ state'[d] # "none" /\ type'[d] = "stop" /\ close'[d]
                 /\ \A v \in Workers : (Firm(v)' /\ cmd'[v] = d) => closing'[v]
      BY <1>0, <1>1, <2>3, <2>7, Zenon DEF CInv, Asked, job
    <3>2. ASSUME k
          PROVE  /\ state'[c] # "none" /\ type'[c] = "stop" /\ close'[c]
                 /\ \A v \in Workers : ~(Firm(v)' /\ cmd'[v] = c)
      BY <1>0, <1>1, <2>3, <2>4, <3>2, Zenon DEF job
    <3> QED BY <2>2, <3>1, <3>2, Zenon DEF Asked
  <2>9. CloseHonoured'
    BY <1>0, <2>2, <2>3, Zenon DEF CInv, CloseHonoured
  <2> QED BY <2>1, <2>3, <2>5, <2>6, <2>8, <2>9, Zenon DEF CInv, Terminal
<1> QED BY <1>2, <1>3, Zenon

(* Time and exhaustion take a command from nobody who has it, or make it   *)
(* one whose lease has run out unnoticed.                                  *)
LEMMA ExpiryKeeps ==
    ASSUME TInv, CInv,
           \/ \E c \in Ids : BecomeDue(c) \/ ExpireCommand(c) \/ ExpireUnnoticed(c)
           \/ \E w \in Workers : FailExhausted(w)
    PROVE  /\ CInv'
           /\ \A c \in Ids : state[c] \in Terminal => state'[c] = state[c]
<1>0. /\ QueueTypeOK /\ JobTypeOK /\ asked \subseteq Ids
      /\ \A v \in Workers : Firm(v) => cmd[v] \in Ids
  BY Zenon DEF TInv, TypeOK, RequestTypeOK, JobTypeOK, Working, Firm
<1>1. UNCHANGED <<type, close, pc, job, asked, closed>> /\ late \subseteq late'
  BY Zenon DEF BecomeDue, ExpireCommand, ExpireUnnoticed, FailExhausted, worker, request,
               faults
<1>2. \A v \in Workers : Firm(v)' => Firm(v)
  BY <1>1, Zenon DEF Firm, job
<1>3. /\ \A c \in Ids :
            \/ state'[c] = state[c]
            \/ state[c] = "processing" /\ by[c] = NoOwner /\ state'[c] = "failed"
      /\ \A v \in Workers : Firm(v)' =>
            state'[cmd[v]] = state[cmd[v]] /\ by'[cmd[v]] = by[cmd[v]]
  <2>1. ASSUME NEW c \in Ids, BecomeDue(c) PROVE UNCHANGED <<state, by>>
    BY <2>1, Zenon DEF BecomeDue
  <2>2. ASSUME NEW c \in Ids, ExpireCommand(c) \/ ExpireUnnoticed(c)
        PROVE  /\ UNCHANGED state
               /\ \A v \in Workers : Firm(v)' => by'[cmd[v]] = by[cmd[v]]
    <3>1. UNCHANGED state /\ by' = [by EXCEPT ![c] = NoOwner]
      BY <2>2, Zenon DEF ExpireCommand, ExpireUnnoticed
    <3>2. ASSUME NEW v \in Workers, Firm(v)' PROVE cmd[v] # c
      <4>1. Firm(v) /\ cmd[v] \notin late'
        BY <1>1, <1>2, <3>2, Zenon DEF Firm, job
      <4>2. CASE ExpireCommand(c)
        BY <4>1, <4>2, Zenon DEF ExpireCommand, CInv, Claimed, Firm, Holds, Recording
      <4>3. CASE ExpireUnnoticed(c)
        <5>1. c \in late'
          BY <4>3, Zenon DEF ExpireUnnoticed
        <5> QED BY <4>1, <5>1, Zenon
      <4> QED BY <2>2, <4>2, <4>3, Zenon
    <3> QED BY <1>0, <1>2, <3>1, <3>2, Zenon DEF QueueTypeOK
  <2>3. ASSUME NEW w \in Workers, FailExhausted(w)
        PROVE  /\ UNCHANGED by
               /\ \A c \in Ids :
                     \/ state'[c] = state[c]
                     \/ state[c] = "processing" /\ by[c] = NoOwner /\ state'[c] = "failed"
    BY <2>3, Zenon DEF FailExhausted, Exhausted
  <2>4. \A v \in Workers : Firm(v) => cmd[v] \in Ids /\ by[cmd[v]] # NoOwner
    BY <1>0, CommandsAssumption, Zenon DEF CInv, Claimed
  <2>5. CASE \E c \in Ids : BecomeDue(c)
    <3>1. UNCHANGED <<state, by>>
      BY <2>1, <2>5, Zenon
    <3> QED BY <3>1, Zenon
  <2>6. CASE \E c \in Ids : ExpireCommand(c) \/ ExpireUnnoticed(c)
    <3>1. /\ UNCHANGED state
          /\ \A v \in Workers : Firm(v)' => by'[cmd[v]] = by[cmd[v]]
      BY <2>2, <2>6, Zenon
    <3> QED BY <3>1, Zenon
  <2>7. CASE \E w \in Workers : FailExhausted(w)
    <3>1. /\ UNCHANGED by
          /\ \A c \in Ids :
                \/ state'[c] = state[c]
                \/ state[c] = "processing" /\ by[c] = NoOwner /\ state'[c] = "failed"
      BY <2>3, <2>7, Zenon
    <3> QED BY <1>2, <2>4, <3>1, Zenon
  <2> QED BY <2>5, <2>6, <2>7, Zenon
<1>4. Claimed'
  BY <1>1, <1>2, <1>3, Zenon DEF CInv, Claimed, job
<1>5. Stopping'
  BY <1>1, Zenon DEF CInv, Stopping, job
<1>6. Asked'
  BY <1>0, <1>1, <1>2, <1>3, Zenon DEF CInv, Asked, job
<1>7. CloseHonoured'
  BY <1>1, <1>3, Zenon DEF CInv, CloseHonoured
<1> QED
  BY <1>3, <1>4, <1>5, <1>6, <1>7, Zenon DEF CInv, Terminal

(* Every step keeps the claims, and no step changes an outcome.            *)
LEMMA ClaimStep ==
    ASSUME TInv, CInv, [Next]_vars
    PROVE  /\ CInv'
           /\ \A c \in Ids \ late : state[c] \in Terminal => state'[c] = state[c]
<1> DEFINE Kept == \A c \in Ids \ late : state[c] \in Terminal => state'[c] = state[c]
<1>0. JobTypeOK /\ QueueTypeOK
  BY Zenon DEF TInv, TypeOK
<1>w. ASSUME UNCHANGED <<queue, pc, job, asked, closed, late>> PROVE CInv' /\ Kept
  BY <1>w, Zenon DEF queue, job, CInv, Claimed, Firm, Stopping, Asked, CloseHonoured
<1>1. ASSUME NEW w \in Workers, ReadStatus(w) PROVE CInv' /\ Kept
  <2>1. /\ \E s \in {"ok", "acquire"} : pc' = [pc EXCEPT ![w] = s]
        /\ UNCHANGED <<queue, job, asked, closed, late>>
    BY <1>1, Zenon DEF ReadStatus, Goto, request, faults
  <2>2. PICK s \in {"ok", "acquire"} : pc' = [pc EXCEPT ![w] = s]
    BY <2>1, Zenon
  <2>3. s \in Steps \ Recording
    BY Zenon DEF Steps, Recording
  <2>4. (cmd[w] # 0 /\ type[cmd[w]] = "stop") =>
          /\ s \in StopPath
          /\ (s \in {"release", "revoke", "ok"} /\ closing[w]) => cmd[w] \in closed
    BY <1>1, Zenon DEF ReadStatus, CInv, Stopping, StopPath, Recording, TInv, Working
  <2> QED BY <2>1, <2>2, <2>3, <2>4, Moves, Zenon DEF queue
<1>2. ASSUME NEW w \in Workers, AcquireRuntime(w) PROVE CInv' /\ Kept
  <2>1. /\ \E s \in {"launch", "ok", "error"} : pc' = [pc EXCEPT ![w] = s]
        /\ UNCHANGED <<queue, job, asked, closed, late>>
    BY <1>2, Zenon DEF AcquireRuntime, Goto, request, faults
  <2>2. PICK s \in {"launch", "ok", "error"} : pc' = [pc EXCEPT ![w] = s]
    BY <2>1, Zenon
  <2>3. s \in Steps \ Recording
    BY Zenon DEF Steps, Recording
  <2>4. (cmd[w] # 0 /\ type[cmd[w]] = "stop") =>
          /\ s \in StopPath
          /\ (s \in {"release", "revoke", "ok"} /\ closing[w]) => cmd[w] \in closed
    BY <1>2, Zenon DEF AcquireRuntime, CInv, Stopping, StopPath, Recording, TInv, Working
  <2> QED BY <2>1, <2>2, <2>3, <2>4, Moves, Zenon DEF queue
<1>3. ASSUME NEW w \in Workers, Launch(w) PROVE CInv' /\ Kept
  <2>1. /\ \E s \in {"ok", "ready", "undo"} : pc' = [pc EXCEPT ![w] = s]
        /\ UNCHANGED <<queue, job, asked, closed, late>>
    BY <1>3, Zenon DEF Launch, Goto, request, faults
  <2>2. PICK s \in {"ok", "ready", "undo"} : pc' = [pc EXCEPT ![w] = s]
    BY <2>1, Zenon
  <2>3. s \in Steps \ Recording
    BY Zenon DEF Steps, Recording
  <2>4. (cmd[w] # 0 /\ type[cmd[w]] = "stop") =>
          /\ s \in StopPath
          /\ (s \in {"release", "revoke", "ok"} /\ closing[w]) => cmd[w] \in closed
    BY <1>3, Zenon DEF Launch, CInv, Stopping, StopPath, Recording, TInv, Working
  <2> QED BY <2>1, <2>2, <2>3, <2>4, Moves, Zenon DEF queue
<1>4. ASSUME NEW w \in Workers, AwaitReady(w) PROVE CInv' /\ Kept
  <2>1. /\ \E s \in {"undo", "ok", "error"} : pc' = [pc EXCEPT ![w] = s]
        /\ UNCHANGED <<queue, job, asked, closed, late>>
    BY <1>4, Zenon DEF AwaitReady, Goto, request, faults
  <2>2. PICK s \in {"undo", "ok", "error"} : pc' = [pc EXCEPT ![w] = s]
    BY <2>1, Zenon
  <2>3. s \in Steps \ Recording
    BY Zenon DEF Steps, Recording
  <2>4. (cmd[w] # 0 /\ type[cmd[w]] = "stop") =>
          /\ s \in StopPath
          /\ (s \in {"release", "revoke", "ok"} /\ closing[w]) => cmd[w] \in closed
    BY <1>4, Zenon DEF AwaitReady, CInv, Stopping, StopPath, Recording, TInv, Working
  <2> QED BY <2>1, <2>2, <2>3, <2>4, Moves, Zenon DEF queue
<1>5. ASSUME NEW w \in Workers, UndoStart(w) PROVE CInv' /\ Kept
  <2>1. /\ \E s \in {"error"} : pc' = [pc EXCEPT ![w] = s]
        /\ UNCHANGED <<queue, job, asked, closed, late>>
    BY <1>5, Zenon DEF UndoStart, Goto, request, faults, ReleaseOwn
  <2>2. PICK s \in {"error"} : pc' = [pc EXCEPT ![w] = s]
    BY <2>1, Zenon
  <2>3. s \in Steps \ Recording
    BY Zenon DEF Steps, Recording
  <2>4. (cmd[w] # 0 /\ type[cmd[w]] = "stop") =>
          /\ s \in StopPath
          /\ (s \in {"release", "revoke", "ok"} /\ closing[w]) => cmd[w] \in closed
    BY <1>5, Zenon DEF UndoStart, CInv, Stopping, StopPath, Recording, TInv, Working
  <2> QED BY <2>1, <2>2, <2>3, <2>4, Moves, Zenon DEF queue
<1>6. ASSUME NEW w \in Workers, StopPersist(w) PROVE CInv' /\ Kept
  <2>1. /\ \E s \in {"join", "error"} : pc' = [pc EXCEPT ![w] = s]
        /\ UNCHANGED <<queue, job, asked, closed, late>>
    BY <1>6, Zenon DEF StopPersist, Goto, request, faults
  <2>2. PICK s \in {"join", "error"} : pc' = [pc EXCEPT ![w] = s]
    BY <2>1, Zenon
  <2>3. s \in Steps \ Recording
    BY Zenon DEF Steps, Recording
  <2>4. (cmd[w] # 0 /\ type[cmd[w]] = "stop") =>
          /\ s \in StopPath
          /\ (s \in {"release", "revoke", "ok"} /\ closing[w]) => cmd[w] \in closed
    BY <1>6, Zenon DEF StopPersist, CInv, Stopping, StopPath, Recording, TInv, Working
  <2> QED BY <2>1, <2>2, <2>3, <2>4, Moves, Zenon DEF queue
<1>7. ASSUME NEW w \in Workers, StopRelease(w) PROVE CInv' /\ Kept
  <2>1. /\ \E s \in {"revoke"} : pc' = [pc EXCEPT ![w] = s]
        /\ UNCHANGED <<queue, job, asked, closed, late>>
    BY <1>7, Zenon DEF StopRelease, Goto, request, faults, ReleaseOwn
  <2>2. PICK s \in {"revoke"} : pc' = [pc EXCEPT ![w] = s]
    BY <2>1, Zenon
  <2>3. s \in Steps \ Recording
    BY Zenon DEF Steps, Recording
  <2>4. (cmd[w] # 0 /\ type[cmd[w]] = "stop") =>
          /\ s \in StopPath
          /\ (s \in {"release", "revoke", "ok"} /\ closing[w]) => cmd[w] \in closed
    BY <1>7, Zenon DEF StopRelease, CInv, Stopping, StopPath, Recording, TInv, Working
  <2> QED BY <2>1, <2>2, <2>3, <2>4, Moves, Zenon DEF queue
<1>8. ASSUME NEW w \in Workers, StopRevoke(w) PROVE CInv' /\ Kept
  <2>1. /\ \E s \in {"ok"} : pc' = [pc EXCEPT ![w] = s]
        /\ UNCHANGED <<queue, job, asked, closed, late>>
    BY <1>8, Zenon DEF StopRevoke, Goto, request, faults
  <2>2. PICK s \in {"ok"} : pc' = [pc EXCEPT ![w] = s]
    BY <2>1, Zenon
  <2>3. s \in Steps \ Recording
    BY Zenon DEF Steps, Recording
  <2>4. (cmd[w] # 0 /\ type[cmd[w]] = "stop") =>
          /\ s \in StopPath
          /\ (s \in {"release", "revoke", "ok"} /\ closing[w]) => cmd[w] \in closed
    BY <1>8, Zenon DEF StopRevoke, CInv, Stopping, StopPath, Recording, TInv, Working
  <2> QED BY <2>1, <2>2, <2>3, <2>4, Moves, Zenon DEF queue
<1>9. ASSUME NEW w \in Workers, Shutdown(w) PROVE CInv' /\ Kept
  BY <1>9, <1>w, Zenon DEF Shutdown, request, faults
<1>11. ASSUME NEW w \in Workers, Restore(w) PROVE CInv' /\ Kept
  <2>1. /\ \E s \in {"start"} : pc' = [pc EXCEPT ![w] = s]
        /\ UNCHANGED <<queue, job, asked, closed, late>>
    BY <1>11, Zenon DEF Restore, Goto, request, faults
  <2>2. PICK s \in {"start"} : pc' = [pc EXCEPT ![w] = s]
    BY <2>1, Zenon
  <2>3. s \in Steps \ Recording
    BY Zenon DEF Steps, Recording
  <2>4. (cmd[w] # 0 /\ type[cmd[w]] = "stop") =>
          /\ s \in StopPath
          /\ (s \in {"release", "revoke", "ok"} /\ closing[w]) => cmd[w] \in closed
    BY <1>11, Zenon DEF Restore, CInv, Stopping, StopPath, Recording, TInv, Working
  <2> QED BY <2>1, <2>2, <2>3, <2>4, Moves, Zenon DEF queue
<1>12. ASSUME NEW w \in Workers, StopJoin(w) PROVE CInv' /\ Kept
  <2>1. /\ pc[w] = "join" /\ UNCHANGED <<queue, job, asked, late>>
        /\ \/ pc' = [pc EXCEPT ![w] = "error"] /\ closed' = closed
           \/ /\ pc' = [pc EXCEPT ![w] = "release"]
              /\ closed' = IF closing[w] THEN closed \cup {cmd[w]} ELSE closed
    BY <1>12, Zenon DEF StopJoin, Goto, request, faults
  <2>2. \A v \in Workers : Firm(v)' => Firm(v)
    BY <1>0, <2>1, Zenon DEF JobTypeOK, Firm, Recording, job
  <2>3. Claimed' /\ Asked' /\ CloseHonoured'
    BY <2>1, <2>2, Zenon DEF CInv, Claimed, Asked, CloseHonoured, queue, job
  <2>4. Stopping'
    BY <1>0, <2>1 DEF CInv, Stopping, StopPath, Recording, JobTypeOK, queue, job
  <2> QED BY <2>1, <2>3, <2>4, Zenon DEF CInv, queue
<1>13. ASSUME NEW w \in Workers, Finish(w) PROVE CInv' /\ Kept
  <2>0. UNCHANGED <<queue, asked, closed, late>>
    BY <1>13, Zenon DEF Finish, request, faults
  <2>1. CASE Rest(w)
    BY <2>0, <2>1, LetsGo, Zenon DEF Rest, Goto, queue
  <2>2. CASE ~Rest(w)
    <3>1. /\ pc[w] \in {"ok", "error"} /\ valid[w]
          /\ pc' = [pc EXCEPT ![w] = IF pc[w] = "ok" THEN "recordOk" ELSE "recordError"]
          /\ valid' = [valid EXCEPT ![w] = FALSE] /\ UNCHANGED <<cmd, closing>>
      BY <1>13, <2>2, Zenon DEF Finish, MayRecord, Goto
    <3>2. \A v \in Workers : Firm(v)' => Firm(v)
      BY <1>0, <2>0, <3>1, Zenon DEF JobTypeOK, Firm, Recording
    <3>3. Claimed' /\ Asked' /\ CloseHonoured'
      BY <2>0, <3>1, <3>2, Zenon DEF CInv, Claimed, Asked, CloseHonoured, queue
    <3>4. Stopping'
      BY <1>0, <2>0, <3>1, Zenon DEF CInv, Stopping, StopPath, Recording, JobTypeOK, queue
    <3> QED BY <2>0, <3>3, <3>4, Zenon DEF CInv, queue
  <2> QED BY <2>1, <2>2, Zenon
<1>14. ASSUME NEW w \in Workers, FinishRestore(w) PROVE CInv' /\ Kept
  <2>1. /\ cmd' = [cmd EXCEPT ![w] = 0] /\ closing' = [closing EXCEPT ![w] = FALSE]
        /\ valid' = [valid EXCEPT ![w] = FALSE]
        /\ pc' = [pc EXCEPT ![w] = "idle"]
        /\ UNCHANGED <<queue, asked, closed, late>>
    BY <1>14, Zenon DEF FinishRestore, Rest, Goto, request, faults
  <2> QED BY <2>1, LetsGo, Zenon DEF queue
<1>15. ASSUME NEW w \in Workers, GiveUp(w) PROVE CInv' /\ Kept
  <2>1. /\ cmd' = [cmd EXCEPT ![w] = 0] /\ closing' = [closing EXCEPT ![w] = FALSE]
        /\ valid' = [valid EXCEPT ![w] = FALSE]
        /\ pc' = [pc EXCEPT ![w] = "idle"]
        /\ UNCHANGED <<queue, asked, closed, late>>
    BY <1>15, Zenon DEF GiveUp, Rest, Goto, request, faults
  <2> QED BY <2>1, LetsGo, Zenon DEF queue
<1>16. ASSUME NEW w \in Workers, Crash(w) PROVE CInv' /\ Kept
  <2>1. /\ cmd' = [cmd EXCEPT ![w] = 0] /\ closing' = [closing EXCEPT ![w] = FALSE]
        /\ valid' = [valid EXCEPT ![w] = FALSE]
        /\ pc' = [pc EXCEPT ![w] = "idle"]
        /\ UNCHANGED <<queue, asked, closed, late>>
    BY <1>16, Zenon DEF Crash, Rest, Goto, request, faults
  <2> QED BY <2>1, LetsGo, Zenon DEF queue
<1>17. ASSUME NEW w \in Workers, CommandLost(w) PROVE CInv' /\ Kept
  <2>1. /\ valid' = [valid EXCEPT ![w] = FALSE]
        /\ UNCHANGED <<queue, pc, cmd, closing, asked, closed, late>>
    BY <1>17, Zenon DEF CommandLost, request, faults
  <2>2. \A v \in Workers : Firm(v)' => Firm(v)
    BY <1>0, <2>1, Zenon DEF JobTypeOK, Firm
  <2> QED
    BY <2>1, <2>2, Zenon DEF CInv, Claimed, Stopping, Asked, CloseHonoured, queue
<1>18. ASSUME NEW w \in Workers, Claim(w) PROVE CInv' /\ Kept
  <2>1. Kept
    <3> DEFINE c == Oldest(Claimable)
    <3>1. c \in Ids /\ state[c] \in Active
      BY <1>18, Chosen, Zenon DEF Claim, Claimable, Active
    <3>2. state' = [state EXCEPT ![c] = "processing"]
      BY <1>18, Zenon DEF Claim
    <3> HIDE DEF c
    <3> QED BY <1>0, <3>1, <3>2, Zenon DEF QueueTypeOK, Active, Terminal
  <2> QED BY <1>18, <2>1, ClaimKeeps, Zenon
<1>19. ASSUME NEW w \in Workers, RecordOk(w) \/ RecordError(w) PROVE CInv' /\ Kept
  BY <1>19, RecordKeeps, Zenon
<1>20. ASSUME NEW w \in Workers,
             \/ ForgetFailures(w) \/ GuardLost(w)
             \/ RuntimeStops(w) \/ RuntimeFails(w)
      PROVE  CInv' /\ Kept
  BY <1>20, <1>w, Zenon DEF ForgetFailures, GuardLost, RuntimeStops, RuntimeFails, request,
                            faults
<1>21. ASSUME NEW u \in Users, StartWrite(u) \/ StartReply(u) \/ StopReply(u)
      PROVE  CInv' /\ Kept
  BY <1>21, <1>w, Zenon DEF StartWrite, StartReply, StopReply, worker, faults
<1>22. ASSUME NEW u \in Users, StartEnqueue(u) PROVE CInv' /\ Kept
  <2>1. /\ Enqueue(u, "start", FALSE) /\ UNCHANGED <<pc, job, closed, late>>
        /\ "start" \in Types /\ FALSE \in BOOLEAN
    BY <1>22, Zenon DEF StartEnqueue, worker, faults, Types
  <2> QED BY <2>1, EnqueueKeeps, Zenon
<1>23. ASSUME NEW u \in Users, NEW k \in BOOLEAN, StopEnqueue(u, k) PROVE CInv' /\ Kept
  <2>1. /\ Enqueue(u, "stop", k) /\ UNCHANGED <<pc, job, closed, late>>
        /\ "stop" \in Types
    BY <1>23, Zenon DEF StopEnqueue, worker, faults, Types
  <2> QED BY <2>1, EnqueueKeeps, Zenon
<1>24. ASSUME \/ \E c \in Ids : BecomeDue(c) \/ ExpireCommand(c) \/ ExpireUnnoticed(c)
             \/ \E w \in Workers : FailExhausted(w)
      PROVE  CInv' /\ Kept
  BY <1>24, ExpiryKeeps, Zenon
<1>25. ASSUME (\E c \in Ids : PollStatus(c)) \/ ExpireLease \/ UNCHANGED vars
      PROVE  CInv' /\ Kept
  BY <1>25, <1>w, Zenon DEF PollStatus, ExpireLease, vars, worker, request, faults
<1> HIDE DEF Kept
<1>q. CInv' /\ Kept
  BY <1>1, <1>2, <1>3, <1>4, <1>5, <1>6, <1>7, <1>8, <1>9, <1>11,
     <1>12, <1>13, <1>14, <1>15, <1>16, <1>17, <1>18, <1>19, <1>20, <1>21,
     <1>22, <1>23, <1>24, <1>25, Zenon DEF Next, Execute, Request
<1> QED
  BY <1>q, Zenon DEF Kept

-----------------------------------------------------------------------------
LEMMA Exclusive == CInv => CommandExclusive
BY DEF CInv, Claimed, Firm, Holds, Recording, CommandExclusive

(* No two workers execute or report a command at once, unless its lease    *)
(* has once run out under a worker that stalled.                           *)
THEOREM OneWorkerPerCommand == Spec => []CommandExclusive
<1>1. TInv /\ CInv /\ [Next]_vars => CInv'
  BY ClaimStep, Zenon
<1> QED
  BY <1>1, TypeInit, TypeStep, ClaimInit, Exclusive, PTL DEF Spec

(* A stop told to close while it was queued succeeds only after it has     *)
(* queued the closes, with the same exception.                             *)
THEOREM ClosesHonoured == Spec => []CloseHonoured
<1>1. TInv /\ CInv /\ [Next]_vars => CInv'
  BY ClaimStep, Zenon
<1>2. CInv => CloseHonoured
  BY Zenon DEF CInv
<1> QED
  BY <1>1, <1>2, TypeInit, TypeStep, ClaimInit, PTL DEF Spec

(* An outcome, once written, is never written again, although complete and *)
(* fail update the row by its id alone, with the same exception.           *)
THEOREM OutcomesFinal == Spec => TerminalFinal
<1>1. TInv /\ CInv /\ [Next]_vars => CInv'
  BY ClaimStep, Zenon
<1>2. TInv /\ CInv /\ [Next]_vars =>
        [\A c \in Ids \ late : state[c] \in Terminal => state'[c] = state[c]]_vars
  BY ClaimStep, Zenon
<1> QED
  BY <1>1, <1>2, TypeInit, TypeStep, ClaimInit, PTL DEF Spec, TerminalFinal

-----------------------------------------------------------------------------
(* A stop wins when there is one worker.                                   *)

OneWorker == \A v, w \in Workers : v = w

(* Nobody takes a command from the only worker, so the row of the command  *)
(* it executes stays in processing; and it executes a stop as a stop.      *)
InHand(w) ==
    /\ (cmd[w] # 0 /\ pc[w] # "giveUp") => state[cmd[w]] = "processing"
    /\ (cmd[w] # 0 /\ type[cmd[w]] = "stop") => pc[w] \in StopPath
    /\ pc[w] \in {"stop", "join", "release", "revoke"}
         => cmd[w] # 0 /\ type[cmd[w]] = "stop"

(* A stop that is past its first write has stopped what it had to stop,    *)
(* unless a later request has changed the desired status.                  *)
Past(w) ==
    \/ pc[w] \in {"release", "revoke"}
    \/ pc[w] \in {"ok", "recordOk"} /\ cmd[w] # 0 /\ type[cmd[w]] = "stop"

Effective(w) ==
    wish = "stop" =>
        /\ pc[w] = "join" => status = "stopped"
        /\ Past(w) => status = "stopped" /\ ~rt[w]

(* The strategy does not run and nothing on its way makes it run.          *)
Down == /\ status = "stopped"
        /\ \A w \in Workers : ~rt[w] /\ pc[w] \notin {"acquire", "launch"}

NoneFailed == \A c \in Ids : state[c] # "failed"

OneStop == \A c, d \in ActiveOf("stop") : c = d

SInv ==
    /\ \A w \in Workers : InHand(w) /\ Effective(w)
    /\ OneStop
    /\ (wish = "stop" /\ NoneFailed) => ActiveOf("stop") # {} \/ Down

LEMMA StopInit == Init => SInv
<1> SUFFICES ASSUME Init PROVE SInv
  OBVIOUS
<1>1. /\ \A w \in Workers : pc[w] = "idle" /\ cmd[w] = 0
      /\ wish = "none" /\ ActiveOf("stop") = {}
  BY Zenon DEF Init, ActiveOf, Active
<1> QED BY <1>1, Zenon DEF SInv, InHand, Effective, OneStop

(* Steps that leave the queue, the requests and the worker's place alone.  *)
LEMMA StopFrame ==
    ASSUME SInv, UNCHANGED <<type, state, pc, cmd, wish>>, status' \in {status, "stopped"},
           \A w \in Workers : rt'[w] => rt[w]
    PROVE  SInv'
<1>1. ActiveOf("stop")' = ActiveOf("stop")
  BY Zenon DEF ActiveOf
<1>2. \A w \in Workers : InHand(w)'
  BY Zenon DEF SInv, InHand
<1>3. ASSUME NEW w \in Workers PROVE Effective(w)'
  <2>1. Past(w)' <=> Past(w)
    BY Zenon DEF Past
  <2> QED BY <2>1, Zenon DEF SInv, Effective
<1>4. NoneFailed' <=> NoneFailed
  BY Zenon DEF NoneFailed
<1>5. Down => Down'
  BY Zenon DEF Down
<1> QED BY <1>1, <1>2, <1>3, <1>4, <1>5, Zenon DEF SInv, OneStop

(* The only worker takes a step that leaves the queue alone.               *)
LEMMA StopMove ==
    ASSUME SInv, OneWorker, NEW w \in Workers, UNCHANGED <<type, state, wish>>,
           InHand(w)', Effective(w)',
           Down => status' = "stopped" /\ ~rt'[w] /\ pc'[w] \notin {"acquire", "launch"}
    PROVE  SInv'
<1>1. ActiveOf("stop")' = ActiveOf("stop")
  BY Zenon DEF ActiveOf
<1>2. \A v \in Workers : InHand(v)' /\ Effective(v)'
  BY Zenon DEF OneWorker
<1>3. NoneFailed' <=> NoneFailed
  BY Zenon DEF NoneFailed
<1>4. Down => Down'
  BY Zenon DEF Down, OneWorker
<1> QED BY <1>1, <1>2, <1>3, <1>4, Zenon DEF SInv, OneStop

LEMMA ExecuteStops ==
    ASSUME TInv, SInv, OneWorker, NEW w \in Workers,
           Execute(w) \/ Restore(w) \/ Crash(w), UNCHANGED <<type, state>>
    PROVE  SInv'
<1>0. /\ pc \in [Workers -> Steps] /\ cmd \in [Workers -> Ids \cup {0}]
      /\ rt \in [Workers -> BOOLEAN]
      /\ InHand(w) /\ Effective(w) /\ UNCHANGED wish
  <2>1. UNCHANGED wish
    BY Zenon DEF Execute, ReadStatus, AcquireRuntime, Launch, AwaitReady, UndoStart,
                 StopPersist, StopJoin, StopRelease, StopRevoke, Finish, FinishRestore,
                 RecordOk, RecordError, GiveUp, Shutdown, Restore, Crash, request
  <2> QED BY <2>1, Zenon DEF TInv, TypeOK, JobTypeOK, LocalTypeOK, SInv
(* A step to a place from which nothing is started or stopped any more.    *)
<1>1. ASSUME status' \in {status, "stopped"}, rt'[w] => rt[w],
             cmd'[w] = 0 /\ pc'[w] \in {"idle", "start"}
      PROVE  SInv'
  <2>1. InHand(w)' /\ Effective(w)'
    BY <1>1, Zenon DEF InHand, Effective, Past
  <2> QED BY <1>0, <1>1, <2>1, StopMove, Zenon DEF Down
<1>2. CASE ReadStatus(w)
  <2>1. /\ UNCHANGED <<status, cmd, rt>> /\ pc[w] = "start"
        /\ pc'[w] = IF status = "running" /\ ~rt[w] THEN "acquire" ELSE "ok"
    BY <1>0, <1>2, Zenon DEF ReadStatus, Goto, job, local
  <2>2. cmd[w] = 0 \/ type[cmd[w]] # "stop"
    BY <1>0, <2>1, Zenon DEF InHand, StopPath, Recording
  <2>3. InHand(w)' /\ Effective(w)'
    BY <1>0, <2>1, <2>2, Zenon DEF InHand, Effective, Past
  <2> QED BY <1>0, <2>1, <2>3, StopMove, Zenon DEF Down
<1>3. CASE AcquireRuntime(w) \/ Launch(w)
  <2>1. /\ UNCHANGED <<status, cmd>> /\ pc[w] \in {"acquire", "launch"}
        /\ pc'[w] \in {"launch", "ok", "error", "ready", "undo"}
    BY <1>0, <1>3, Zenon DEF AcquireRuntime, Launch, Goto, job
  <2>2. cmd[w] = 0 \/ type[cmd[w]] # "stop"
    BY <1>0, <2>1, Zenon DEF InHand, StopPath, Recording
  <2>3. InHand(w)' /\ Effective(w)'
    BY <1>0, <2>1, <2>2, Zenon DEF InHand, Effective, Past
  <2>4. ~Down
    BY <2>1, Zenon DEF Down
  <2> QED BY <1>0, <2>3, <2>4, StopMove, Zenon
<1>4. CASE AwaitReady(w) \/ UndoStart(w)
  <2>1. /\ UNCHANGED <<status, cmd, rt>> /\ pc[w] \in {"ready", "undo"}
        /\ pc'[w] \in {"undo", "ok", "error"}
    BY <1>0, <1>4, Zenon DEF AwaitReady, UndoStart, Goto, job, local
  <2>2. cmd[w] = 0 \/ type[cmd[w]] # "stop"
    BY <1>0, <2>1, Zenon DEF InHand, StopPath, Recording
  <2>3. InHand(w)' /\ Effective(w)'
    BY <1>0, <2>1, <2>2, Zenon DEF InHand, Effective, Past
  <2> QED BY <1>0, <2>1, <2>3, StopMove, Zenon DEF Down
<1>5. CASE StopPersist(w)
  <2>1. /\ UNCHANGED <<cmd, rt>> /\ pc[w] = "stop"
        /\ \/ status' = "stopped" /\ pc'[w] = "join"
           \/ status' = status /\ pc'[w] = "error"
    BY <1>0, <1>5, Zenon DEF StopPersist, Goto, job, local
  <2>2. InHand(w)'
    BY <1>0, <2>1, Zenon DEF InHand, StopPath, Recording
  <2>3. Effective(w)'
    BY <2>1, Zenon DEF Effective, Past
  <2> QED BY <1>0, <2>1, <2>2, <2>3, StopMove, Zenon DEF Down
<1>6. CASE StopJoin(w)
  <2>1. /\ UNCHANGED <<cmd, status>> /\ pc[w] = "join"
        /\ \/ ~rt'[w] /\ pc'[w] \in {"release", "error"}
           \/ rt[w] /\ UNCHANGED rt /\ pc'[w] = "error"
    BY <1>0, <1>6, Zenon DEF StopJoin, Goto, job
  <2>2. InHand(w)'
    BY <1>0, <2>1, Zenon DEF InHand, StopPath, Recording
  <2>3. Effective(w)'
    BY <1>0, <2>1, Zenon DEF Effective, Past
  <2> QED BY <1>0, <2>1, <2>2, <2>3, StopMove, Zenon DEF Down
<1>7. CASE StopRelease(w) \/ StopRevoke(w)
  <2>1. /\ UNCHANGED <<cmd, status, rt>> /\ pc[w] \in {"release", "revoke"}
        /\ pc'[w] \in {"revoke", "ok"}
    BY <1>0, <1>7, Zenon DEF StopRelease, StopRevoke, Goto, job, local
  <2>2. InHand(w)'
    BY <1>0, <2>1, Zenon DEF InHand, StopPath, Recording
  <2>3. Effective(w)'
    BY <1>0, <2>1, Zenon DEF Effective, Past
  <2> QED BY <1>0, <2>1, <2>2, <2>3, StopMove, Zenon DEF Down
<1>8. CASE Finish(w)
  <2>1. /\ UNCHANGED <<status, rt>> /\ pc[w] \in {"ok", "error"} /\ cmd[w] # 0
        /\ \/ cmd'[w] = 0 /\ pc'[w] = "idle"
           \/ /\ cmd'[w] = cmd[w]
              /\ pc'[w] = IF pc[w] = "ok" THEN "recordOk" ELSE "recordError"
    BY <1>0, <1>8, Zenon DEF Finish, Goto, Rest, local
  <2>2. CASE cmd'[w] = 0 /\ pc'[w] = "idle"
    BY <1>1, <2>1, <2>2, Zenon
  <2>3. CASE /\ cmd'[w] = cmd[w]
             /\ pc'[w] = IF pc[w] = "ok" THEN "recordOk" ELSE "recordError"
    <3>1. InHand(w)'
      BY <1>0, <2>1, <2>3, Zenon DEF InHand, StopPath, Recording
    <3>2. Effective(w)'
      BY <1>0, <2>1, <2>3, Zenon DEF Effective, Past
    <3> QED BY <1>0, <2>1, <2>3, <3>1, <3>2, StopMove, Zenon DEF Down
  <2> QED BY <2>1, <2>2, <2>3, Zenon
<1>9. CASE FinishRestore(w) \/ GiveUp(w)
  <2>1. /\ status' \in {status, "stopped"} /\ UNCHANGED rt
        /\ cmd'[w] = 0 /\ pc'[w] = "idle"
    BY <1>0, <1>9, Zenon DEF FinishRestore, GiveUp, Rest, Goto, local
  <2> QED BY <1>1, <2>1, Zenon
<1>10. CASE Shutdown(w) \/ Restore(w)
  <2>1. cmd[w] = 0
    BY <1>10, Zenon DEF Shutdown, Restore, TInv, Working
  <2>2. /\ UNCHANGED <<status, cmd>> /\ (rt'[w] => rt[w])
        /\ pc'[w] \in {"idle", "start"}
    BY <1>0, <1>10, Zenon DEF Shutdown, Restore, Goto, job, local
  <2> QED BY <1>1, <2>1, <2>2, Zenon
<1>11. CASE Crash(w)
  <2>1. UNCHANGED status /\ ~rt'[w] /\ cmd'[w] = 0 /\ pc'[w] = "idle"
    BY <1>0, <1>11, Zenon DEF Crash, Rest, Goto
  <2> QED BY <1>1, <2>1, Zenon
<1>12. CASE RecordOk(w) \/ RecordError(w)
  <2>1. cmd[w] \in Ids /\ pc[w] \in Recording
    BY <1>0, <1>12, Zenon DEF RecordOk, RecordError, TInv, Working, Recording
  <2>2. state[cmd[w]] = "processing" /\ state \in [Ids -> States]
    BY <1>0, <2>1, CommandsAssumption, Zenon
       DEF InHand, Recording, TInv, TypeOK, QueueTypeOK, Working
  <2>3. state'[cmd[w]] \in {"succeeded", "pending", "failed"}
    BY <1>12, <2>1, <2>2, Zenon DEF RecordOk, RecordError
  <2> QED BY <2>2, <2>3, Zenon
<1> QED
  BY <1>2, <1>3, <1>4, <1>5, <1>6, <1>7, <1>8, <1>9, <1>10, <1>11, <1>12, Zenon DEF Execute

LEMMA ClaimStops ==
    ASSUME TInv, SInv, OneWorker, NEW w \in Workers, Claim(w)
    PROVE  SInv'
<1> DEFINE c == Oldest(Claimable)
<1>1. c \in Ids /\ state[c] \in Active
  BY Chosen, Zenon DEF Claim, Claimable, Active
<1>0. /\ pc \in [Workers -> Steps] /\ cmd \in [Workers -> Ids \cup {0}]
      /\ state \in [Ids -> States] /\ type[c] \in Types
  BY <1>1, Zenon DEF TInv, TypeOK, QueueTypeOK, JobTypeOK
<1>2. /\ state' = [state EXCEPT ![c] = "processing"]
      /\ cmd' = [cmd EXCEPT ![w] = c] /\ pc' = [pc EXCEPT ![w] = type[c]]
      /\ UNCHANGED <<type, status, wish, rt>>
  BY Zenon DEF Claim, Goto, local, request
<1> HIDE DEF c
<1>3. /\ state'[c] = "processing" /\ cmd'[w] = c /\ pc'[w] = type[c]
      /\ \A d \in Ids \ {c} : state'[d] = state[d]
  BY <1>0, <1>1, <1>2, Zenon
<1>4. pc'[w] \in {"start", "stop"} /\ pc'[w] = type'[c]
  BY <1>0, <1>2, <1>3, Zenon DEF Types
<1>5. ActiveOf("stop")' = ActiveOf("stop")
  BY <1>1, <1>2, <1>3, Zenon DEF ActiveOf, Active
<1>6. NoneFailed' => NoneFailed
  BY <1>1, <1>3, Zenon DEF NoneFailed, Active
<1>7. InHand(w)'
  <2>1. pc'[w] = "stop" => type'[c] = "stop" /\ c # 0
    BY <1>1, <1>4, CommandsAssumption DEF Ids
  <2> QED BY <1>3, <1>4, <2>1, Zenon DEF InHand, StopPath
<1>8. Effective(w)'
  BY <1>4, Zenon DEF Effective, Past
<1>9. Down => Down'
  BY <1>2, <1>4, Zenon DEF Down, OneWorker
<1> QED BY <1>2, <1>5, <1>6, <1>7, <1>8, <1>9, Zenon DEF SInv, OneStop, OneWorker

LEMMA RecordStops ==
    ASSUME TInv, SInv, OneWorker, NEW w \in Workers, RecordOk(w) \/ RecordError(w)
    PROVE  SInv'
<1> DEFINE c == cmd[w]
<1>0. /\ pc \in [Workers -> Steps] /\ cmd \in [Workers -> Ids \cup {0}]
      /\ state \in [Ids -> States] /\ InHand(w) /\ Effective(w)
  BY Zenon DEF TInv, TypeOK, QueueTypeOK, JobTypeOK, SInv
<1>1. c \in Ids /\ c # 0 /\ pc[w] \in Recording
  BY <1>0, Zenon DEF RecordOk, RecordError, TInv, Working, Recording
<1>2. state[c] = "processing"
  BY <1>0, <1>1, Zenon DEF InHand, Recording
<1>3. /\ UNCHANGED <<type, status, wish, rt>>
      /\ \A d \in Ids \ {c} : state'[d] = state[d]
  BY <1>0, Zenon DEF RecordOk, RecordError, local, request
<1>4. NoneFailed' => NoneFailed
  BY <1>2, <1>3, Zenon DEF NoneFailed
<1>5. \/ pc'[w] = "idle" /\ cmd'[w] = 0
      \/ pc'[w] = "giveUp" /\ cmd'[w] = c /\ type[c] = "start"
  BY <1>0, Zenon DEF RecordOk, RecordError, Rest, Goto, job
<1>6. InHand(w)' /\ Effective(w)'
  BY <1>3, <1>5, Zenon DEF InHand, Effective, Past
<1>7. Down => Down'
  BY <1>3, <1>5, Zenon DEF Down, OneWorker
<1>8. ActiveOf("stop")' \subseteq ActiveOf("stop")
  BY <1>2, <1>3, Zenon DEF ActiveOf, Active
<1>9. ASSUME wish' = "stop", NoneFailed' PROVE ActiveOf("stop")' # {} \/ Down'
  <2>1. CASE Down
    BY <1>7, <2>1, Zenon
  <2>2. ASSUME NEW d \in ActiveOf("stop"), d # c PROVE ActiveOf("stop")' # {}
    BY <1>3, <2>2, Zenon DEF ActiveOf
  <2>3. CASE c \in ActiveOf("stop") /\ RecordOk(w)
    <3>1. Past(w)
      BY <1>1, <2>3, Zenon DEF RecordOk, Past, ActiveOf
    <3>2. status = "stopped" /\ ~rt[w]
      BY <1>0, <1>3, <1>9, <3>1, Zenon DEF Effective
    <3>3. Down'
      BY <1>3, <1>5, <3>2, Zenon DEF Down, OneWorker
    <3> QED BY <3>3, Zenon
  <2>4. CASE c \in ActiveOf("stop") /\ RecordError(w)
    <3>1. state'[c] \in {"pending", "failed"}
      BY <1>0, <1>1, <2>4, Zenon DEF RecordError
    <3>2. state'[c] = "pending"
      BY <1>1, <1>9, <3>1, Zenon DEF NoneFailed
    <3> QED BY <1>3, <2>4, <3>2, Zenon DEF ActiveOf, Active
  <2>5. ActiveOf("stop") # {} \/ Down
    BY <1>3, <1>4, <1>9, Zenon DEF SInv
  <2> QED BY <2>1, <2>2, <2>3, <2>4, <2>5, Zenon
<1> QED BY <1>6, <1>8, <1>9, Zenon DEF SInv, OneStop, OneWorker

LEMMA ExhaustedStops ==
    ASSUME TInv, SInv, OneWorker, NEW w \in Workers, FailExhausted(w)
    PROVE  SInv'
<1>1. /\ pc[w] = "idle" /\ UNCHANGED <<type, pc, cmd, status, wish, rt>>
      /\ state' = [c \in Ids |-> IF c \in Exhausted THEN "failed" ELSE state[c]]
  BY Zenon DEF FailExhausted, worker, job, local, request
<1>2. PICK c \in Exhausted : c \in Ids
  BY Zenon DEF FailExhausted, Exhausted
<1>3. ~NoneFailed'
  BY <1>1, <1>2, Zenon DEF NoneFailed
<1>4. \A v \in Workers : pc[v] = "idle" /\ cmd[v] = 0
  BY <1>1, Zenon DEF OneWorker, TInv, Working
<1>5. \A v \in Workers : InHand(v)' /\ Effective(v)'
  BY <1>1, <1>4, Zenon DEF InHand, Effective, Past
<1>6. ActiveOf("stop")' \subseteq ActiveOf("stop")
  BY <1>1, Zenon DEF ActiveOf, Active
<1> QED BY <1>3, <1>5, <1>6, Zenon DEF SInv, OneStop

(* enqueue of either type: the active rows it leaves.                      *)
LEMMA EnqueueActive ==
    ASSUME TInv, NEW u \in Users, NEW t \in Types, NEW k \in BOOLEAN, Enqueue(u, t, k)
    PROVE  /\ \A c \in Ids : state[c] # "none" => state'[c] = state[c] /\ type'[c] = type[c]
           /\ NoneFailed' => NoneFailed
           /\ ActiveOf(t)' # {} /\ ucmd'[u] \in ActiveOf(t)'
           /\ t = "start" => ActiveOf("stop")' = ActiveOf("stop")
           /\ ActiveOf(t) # {} => ActiveOf(t)' = ActiveOf(t)
           /\ ActiveOf(t) = {} => ActiveOf(t)' = {ucmd'[u]}
<1>0. /\ state \in [Ids -> States] /\ type \in [Ids -> Types]
      /\ ucmd \in [Users -> Ids \cup {0}]
  BY Zenon DEF TInv, TypeOK, QueueTypeOK, RequestTypeOK
<1>1. CASE ActiveOf(t) # {}
  <2>1. UNCHANGED <<type, state>> /\ ucmd'[u] = Newest(ActiveOf(t))
    BY <1>0, <1>1, Zenon DEF Enqueue
  <2>2. \A s : ActiveOf(s)' = ActiveOf(s)
    BY <2>1, Zenon DEF ActiveOf
  <2>3. ucmd'[u] \in ActiveOf(t)
    BY <1>1, <2>1, Chosen, Zenon
  <2> QED BY <1>1, <2>1, <2>2, <2>3, Zenon DEF NoneFailed
<1>2. CASE ActiveOf(t) = {}
  <2> DEFINE c == Oldest(Fresh)
  <2>1. c \in Ids /\ state[c] = "none"
    BY <1>2, Chosen, Zenon DEF Fresh, Enqueue
  <2> HIDE DEF c
  <2>2. /\ ucmd' = [ucmd EXCEPT ![u] = c] /\ type' = [type EXCEPT ![c] = t]
        /\ state' = [state EXCEPT ![c] = "pending"]
    BY <1>2, Zenon DEF Enqueue, c
  <2>3. /\ ucmd'[u] = c /\ type'[c] = t /\ state'[c] = "pending"
        /\ \A d \in Ids \ {c} : state'[d] = state[d] /\ type'[d] = type[d]
    BY <1>0, <2>1, <2>2, Zenon
  <2>4. ActiveOf(t)' = {c}
    <3>1. c \in ActiveOf(t)'
      BY <2>1, <2>3, Zenon DEF ActiveOf, Active
    <3>2. ASSUME NEW d \in ActiveOf(t)', d # c PROVE FALSE
      <4>1. d \in ActiveOf(t)
        BY <2>3, <3>2, Zenon DEF ActiveOf
      <4> QED BY <1>2, <4>1, Zenon
    <3> QED BY <3>1, <3>2, Zenon
  <2>5. t = "start" => ActiveOf("stop")' = ActiveOf("stop")
    BY <2>1, <2>3, Zenon DEF ActiveOf, Active
  <2>6. NoneFailed' => NoneFailed
    BY <2>1, <2>3, Zenon DEF NoneFailed
  <2> QED BY <1>2, <2>1, <2>3, <2>4, <2>5, <2>6, Zenon
<1> QED BY <1>1, <1>2, Zenon

LEMMA RequestStops ==
    ASSUME TInv, SInv, NEW u \in Users, Request(u)
    PROVE  SInv'
<1>1. CASE StartWrite(u)
  <2>1. wish' = "start" /\ UNCHANGED <<type, state, pc, cmd>>
    BY <1>1, Zenon DEF StartWrite, queue, worker, job
  <2>2. ActiveOf("stop")' = ActiveOf("stop")
    BY <2>1, Zenon DEF ActiveOf
  <2>3. \A w \in Workers : InHand(w)' /\ Effective(w)'
    BY <2>1, Zenon DEF SInv, InHand, Effective
  <2> QED BY <2>1, <2>2, <2>3, Zenon DEF SInv, OneStop
<1>2. CASE StartReply(u) \/ StopReply(u)
  <2>1. /\ UNCHANGED <<type, state, pc, cmd, wish, rt>> /\ status' \in {status, "stopped"}
    BY <1>2, Zenon DEF StartReply, StopReply, queue, worker, job, local
  <2> QED BY <2>1, StopFrame, Zenon
<1>a. ASSUME \A c \in Ids : state[c] # "none" => state'[c] = state[c] /\ type'[c] = type[c],
             UNCHANGED <<pc, cmd>>, NEW w \in Workers
      PROVE  /\ InHand(w)'
             /\ Past(w)' <=> Past(w)
  <2>1. cmd[w] # 0 => cmd[w] \in Ids /\ state[cmd[w]] # "none"
    BY Zenon DEF TInv, TypeOK, JobTypeOK, Working
  <2>2. cmd[w] # 0 => state'[cmd[w]] = state[cmd[w]] /\ type'[cmd[w]] = type[cmd[w]]
    BY <1>a, <2>1, Zenon
  <2>3. InHand(w)
    BY Zenon DEF SInv
  <2> QED BY <1>a, <2>2, <2>3, Zenon DEF InHand, Past
<1>3. CASE StartEnqueue(u)
  <2>1. Enqueue(u, "start", FALSE) /\ UNCHANGED <<pc, cmd, wish, rt, status>>
    BY <1>3, Zenon DEF StartEnqueue, worker, job, local
  <2>2. /\ \A c \in Ids : state[c] # "none" => state'[c] = state[c] /\ type'[c] = type[c]
        /\ NoneFailed' => NoneFailed
        /\ ActiveOf("stop")' = ActiveOf("stop")
    BY <2>1, EnqueueActive, Zenon DEF Types
  <2>3. \A w \in Workers : InHand(w)' /\ Effective(w)'
    BY <1>a, <2>1, <2>2, Zenon DEF SInv, Effective
  <2>4. Down => Down'
    BY <2>1, Zenon DEF Down
  <2> QED BY <2>1, <2>2, <2>3, <2>4, Zenon DEF SInv, OneStop
<1>4. ASSUME NEW k \in BOOLEAN, StopEnqueue(u, k) PROVE SInv'
  <2>1. /\ Enqueue(u, "stop", k) /\ UNCHANGED <<pc, cmd>>
        /\ wish' = IF state[ucmd'[u]] = "processing" THEN "joined" ELSE "stop"
    BY <1>4, Zenon DEF StopEnqueue, worker, job
  <2>2. /\ \A c \in Ids : state[c] # "none" => state'[c] = state[c] /\ type'[c] = type[c]
        /\ ActiveOf("stop")' # {} /\ ucmd'[u] \in ActiveOf("stop")'
        /\ ActiveOf("stop") # {} => ActiveOf("stop")' = ActiveOf("stop")
        /\ ActiveOf("stop") = {} => ActiveOf("stop")' = {ucmd'[u]}
    BY <2>1, EnqueueActive, Zenon DEF Types
  <2>3. OneStop'
    BY <2>2, Zenon DEF SInv, OneStop
  (* The stop that the worker executes is the one that is returned.        *)
  <2>4. ASSUME NEW w \in Workers, pc[w] = "join" \/ Past(w) PROVE wish' = "joined"
    <3>1. cmd[w] # 0 /\ type[cmd[w]] = "stop" /\ pc[w] # "giveUp"
      BY <2>4, Zenon DEF SInv, InHand, Past
    <3>2. cmd[w] \in Ids /\ state[cmd[w]] = "processing"
      BY <3>1, Zenon DEF SInv, InHand, TInv, TypeOK, JobTypeOK
    <3>3. cmd[w] \in ActiveOf("stop")
      BY <3>1, <3>2, Zenon DEF ActiveOf, Active
    <3>4. ucmd'[u] = cmd[w]
      BY <2>2, <3>3, Zenon DEF SInv, OneStop
    <3> QED BY <2>1, <3>2, <3>4, Zenon
  <2>5. ASSUME NEW w \in Workers PROVE InHand(w)' /\ Effective(w)'
    <3>1. InHand(w)' /\ (Past(w)' <=> Past(w))
      BY <1>a, <2>1, <2>2, Zenon
    <3> QED BY <2>1, <2>4, <3>1, Zenon DEF Effective
  <2> QED BY <2>2, <2>3, <2>5, Zenon DEF SInv
<1> QED BY <1>1, <1>2, <1>3, <1>4, Zenon DEF Request

LEMMA StopStep ==
    ASSUME OneWorker
    PROVE  TInv /\ SInv /\ [Next]_vars => SInv'
<1> SUFFICES ASSUME TInv, SInv, [Next]_vars PROVE SInv'
  OBVIOUS
<1>0. rt \in [Workers -> BOOLEAN]
  BY Zenon DEF TInv, TypeOK, LocalTypeOK
<1>1. ASSUME NEW w \in Workers,
             Execute(w) \/ Restore(w) \/ Crash(w) PROVE SInv'
  <2>1. CASE RecordOk(w) \/ RecordError(w)
    BY <2>1, RecordStops, Zenon
  <2>2. CASE ~(RecordOk(w) \/ RecordError(w))
    <3>1. UNCHANGED <<type, state>>
      BY <1>1, <2>2, Zenon
         DEF Execute, ReadStatus, AcquireRuntime, Launch, AwaitReady, UndoStart,
             StopPersist, StopJoin, StopRelease, StopRevoke, Finish, FinishRestore,
             GiveUp, Shutdown, Restore, Crash, queue
    <3> QED BY <1>1, <3>1, ExecuteStops, Zenon
  <2> QED BY <2>1, <2>2, Zenon
<1>2. ASSUME NEW w \in Workers, ForgetFailures(w) \/ CommandLost(w) \/ GuardLost(w)
      PROVE  SInv'
  <2>1. UNCHANGED <<type, state, pc, cmd, wish, status, rt>>
    BY <1>2, Zenon DEF ForgetFailures, CommandLost, GuardLost, queue, job, local,
                       request
  <2> QED BY <2>1, StopFrame, Zenon
<1>3. ASSUME NEW w \in Workers, RuntimeStops(w) \/ RuntimeFails(w) PROVE SInv'
  <2>1. /\ UNCHANGED <<type, state, pc, cmd, wish>> /\ status' \in {status, "stopped"}
        /\ rt' = [rt EXCEPT ![w] = FALSE]
    BY <1>3, Zenon DEF RuntimeStops, RuntimeFails, queue, job, request
  <2>2. \A v \in Workers : rt'[v] => rt[v]
    BY <1>0, <2>1, Zenon
  <2> QED BY <2>1, <2>2, StopFrame, Zenon
<1>4. ASSUME NEW c \in Ids, BecomeDue(c) \/ ExpireCommand(c) \/ ExpireUnnoticed(c)
                             \/ PollStatus(c)
      PROVE  SInv'
  <2>1. /\ UNCHANGED <<type, state, pc, cmd, wish, rt>> /\ status' \in {status, "stopped"}
    BY <1>4, Zenon DEF BecomeDue, ExpireCommand, ExpireUnnoticed, PollStatus, queue, worker,
                       job, local, request
  <2> QED BY <2>1, StopFrame, Zenon
<1>5. CASE ExpireLease \/ UNCHANGED vars
  <2>1. UNCHANGED <<type, state, pc, cmd, wish, status, rt>>
    BY <1>5, Zenon DEF ExpireLease, vars, queue, worker, job, local, request
  <2> QED BY <2>1, StopFrame, Zenon
<1> QED
  BY <1>1, <1>2, <1>3, <1>4, <1>5, ClaimStops, ExhaustedStops, RequestStops, Zenon DEF Next

(* With one worker a stop wins over every start, restore and retry that is *)
(* on its way, for any number of requests, commands, attempts and crashes. *)
THEOREM StopPrevails ==
    ASSUME OneWorker
    PROVE  Spec => []StopWins
<1>1. SInv => StopWins
  BY Zenon DEF SInv, StopWins, Quiet, NoneFailed, Down, Keeps
<1>2. TInv /\ SInv /\ [Next]_vars => SInv'
  BY StopStep, Zenon
<1> QED
  BY <1>1, <1>2, TypeInit, TypeStep, StopInit, PTL DEF Spec
=============================================================================
