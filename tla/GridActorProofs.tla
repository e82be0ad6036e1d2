--------------------------- MODULE GridActorProofs ---------------------------
(***************************************************************************)
(* For every number of workers, every order size and every number of       *)
(* faults: the ledger never holds more than the exchange has filled, and a *)
(* worker that projects an event of the mailbox holds the lease.           *)
(***************************************************************************)
EXTENDS GridActor, TLAPS

(* A thread beyond "batch" has an event in hand. *)
Working ==
    \A w \in Workers : pc[w] \in {"locked", "posted", "failing"} => cur[w] \in Events

(* Every quantity in the tables or in the hands of a poller was reached by *)
(* the exchange, and the trades add up to what the order row shows.        *)
Reached ==
    /\ booked = seen /\ booked <= filled
    /\ \A w \in Workers : polled[w] <= filled

(* What is traded, posted or completed is covered by the ledger. *)
Covered ==
    Cumulative =>
      /\ \A e \in traded : e <= booked
      /\ \A w \in Workers : pc[w] = "posted" => cur[w] <= booked
      /\ \A e \in Events : mail[e] = "completed" => e <= booked

IInv == TypeOK /\ Working /\ Reached /\ Covered /\ ProjectionFenced

-----------------------------------------------------------------------------
LEMMA InitialState == Init => IInv
<1> SUFFICES ASSUME Init PROVE IInv
  OBVIOUS
<1> USE GridAssumption DEF Init, Events, Nothing, Stages
<1>1. TypeOK
  <2>1. MailTypeOK
    BY DEF MailTypeOK, Statuses
  <2>2. WorkerTypeOK
    BY Zenon DEF WorkerTypeOK
  <2>3. LeaseTypeOK
    BY Zenon DEF LeaseTypeOK
  <2>4. LedgerTypeOK
    BY DEF LedgerTypeOK
  <2> QED
    BY <2>1, <2>2, <2>3, <2>4, Zenon DEF TypeOK
<1>2. Working
  BY Zenon DEF Working
<1>3. Reached
  BY DEF Reached
<1>4. Covered
  BY Zenon DEF Covered
<1>5. ProjectionFenced
  BY Zenon DEF ProjectionFenced
<1> QED
  BY <1>1, <1>2, <1>3, <1>4, <1>5, Zenon DEF IInv

(* Posting a quantity that the exchange has reached: the ledger grows to   *)
(* cover it and stays within what is filled.                               *)
LEMMA ProjectReached ==
    ASSUME IInv, NEW total \in 0 .. filled, Project(total)
    PROVE  /\ seen' \in 0 .. Qty /\ booked' \in 0 .. Qty
           /\ booked' = seen' /\ booked' <= filled
           /\ booked <= booked' /\ total <= booked'
<1> USE GridAssumption
<1>1. /\ seen \in 0 .. Qty /\ booked \in 0 .. Qty /\ filled \in 0 .. Qty
      /\ booked = seen /\ booked <= filled
  BY Zenon DEF IInv, TypeOK, LedgerTypeOK, Reached
<1>2. CASE total < seen
  BY <1>1, <1>2 DEF Project
<1>3. CASE ~(total < seen)
  BY <1>1, <1>3 DEF Project
<1> QED
  BY <1>2, <1>3, Zenon

(* What a projection does to the ledger, and what it has to do with the    *)
(* event in hand.                                                          *)
LEMMA ProcessReached ==
    ASSUME IInv, NEW w \in Workers, ProcessGrid(w)
    PROVE  /\ seen' \in 0 .. Qty /\ booked' \in 0 .. Qty
           /\ booked' = seen' /\ booked' <= filled /\ booked <= booked'
           /\ traded \subseteq traded' /\ traded' \subseteq traded \union {cur[w]}
           /\ Cumulative /\ (pc'[w] = "posted" \/ cur[w] \in traded') => cur[w] <= booked'
<1> USE GridAssumption
<1>1. /\ seen \in 0 .. Qty /\ booked \in 0 .. Qty /\ filled \in 0 .. Qty
      /\ booked = seen /\ booked <= filled
      /\ cur[w] \in Events /\ pc \in [Workers -> Stages]
      /\ Cumulative => \A e \in traded : e <= booked
  BY Zenon DEF IInv, TypeOK, LedgerTypeOK, WorkerTypeOK, Reached, Covered, Working, ProcessGrid
<1>2. CASE UNCHANGED ledgerVars /\ pc' = [pc EXCEPT ![w] = "failing"]
  BY <1>1, <1>2 DEF ledgerVars, Stages
<1>3. CASE UNCHANGED ledgerVars /\ cur[w] \in traded
  BY <1>1, <1>3 DEF ledgerVars
<1>4. ASSUME NEW total \in Snapshot(cur[w]), Project(total),
             traded' = IF total > booked THEN traded \union {cur[w]} ELSE traded
      PROVE  /\ seen' \in 0 .. Qty /\ booked' \in 0 .. Qty
             /\ booked' = seen' /\ booked' <= filled /\ booked <= booked'
             /\ traded \subseteq traded' /\ traded' \subseteq traded \union {cur[w]}
             /\ Cumulative => cur[w] <= booked'
  <2>1. total \in 0 .. filled /\ (Cumulative => cur[w] <= total)
    BY <1>1, <1>4 DEF Snapshot, Events
  <2>2. /\ seen' \in 0 .. Qty /\ booked' \in 0 .. Qty
        /\ booked' = seen' /\ booked' <= filled
        /\ booked <= booked' /\ total <= booked'
    BY <1>4, <2>1, ProjectReached, Zenon
  <2>3. Cumulative => cur[w] <= booked'
    BY <1>1, <2>1, <2>2 DEF Events
  <2> QED
    BY <1>4, <2>2, <2>3, Zenon
<1>5. \/ UNCHANGED ledgerVars /\ pc' = [pc EXCEPT ![w] = "failing"]
      \/ UNCHANGED ledgerVars /\ cur[w] \in traded
      \/ \E total \in Snapshot(cur[w]) :
           /\ Project(total)
           /\ traded' = IF total > booked THEN traded \union {cur[w]} ELSE traded
  BY Zenon DEF ProcessGrid
<1> QED
  BY <1>2, <1>3, <1>4, <1>5, Zenon

-----------------------------------------------------------------------------
(* The actions that touch neither the mailbox nor a mailbox thread. *)
Aside ==
    \/ Fill
    \/ \E e \in Events : Ingest(e)
    \/ \E w \in Workers : Acquire(w)
    \/ \E w \in Workers : Register(w)
    \/ Expire
    \/ ExpireDead
    \/ \E w \in Workers : Detach(w)
    \/ \E w \in Workers : Release(w)
    \/ \E w \in Workers : Polling(w)

LEMMA AsideUnchanged == Aside => UNCHANGED mailVars /\ UNCHANGED threadVars
BY Zenon DEF Aside, Fill, Ingest, Acquire, Register, Expire, ExpireDead, Lapses,
       Detach, Release, Polling, Poll, PostPolled, mailVars, threadVars

(* The rows a worker claims: none unless it holds the lease. *)
LEMMA ClaimRows ==
    ASSUME NEW w \in Workers, Claim(w)
    PROVE  \E mine \in SUBSET Events :
             /\ mine # {} => owner = w
             /\ \A e \in mine : tries[e] < MaxAttempts
             /\ mail' = [e \in Events |-> IF e \in Exhausted THEN "dead"
                                          ELSE IF e \in mine THEN "processing"
                                          ELSE mail[e]]
             /\ tries' = [e \in Events |-> IF e \in mine THEN tries[e] + 1
                                           ELSE tries[e]]
             /\ claimer' = [e \in Events |-> IF e \in mine THEN w ELSE claimer[e]]
             /\ stamp' = [e \in Events |-> IF e \in mine THEN token ELSE stamp[e]]
             /\ fresh' = fresh \union mine
             /\ batch' = [batch EXCEPT ![w] = mine]
             /\ pc' = [pc EXCEPT ![w] = IF mine = {} THEN "idle" ELSE "batch"]
             /\ held' = [held EXCEPT ![w] = IF mine = {} THEN 0 ELSE token]
<1>1. PICK again \in SUBSET BackedOff :
        LET mine == IF owner = w /\ live THEN Due \union again ELSE {} IN
        /\ mail' = [e \in Events |-> IF e \in Exhausted THEN "dead"
                                     ELSE IF e \in mine THEN "processing"
                                     ELSE mail[e]]
        /\ tries' = [e \in Events |-> IF e \in mine THEN tries[e] + 1
                                      ELSE tries[e]]
        /\ claimer' = [e \in Events |-> IF e \in mine THEN w ELSE claimer[e]]
        /\ stamp' = [e \in Events |-> IF e \in mine THEN token ELSE stamp[e]]
        /\ fresh' = fresh \union mine
        /\ batch' = [batch EXCEPT ![w] = mine]
        /\ pc' = [pc EXCEPT ![w] = IF mine = {} THEN "idle" ELSE "batch"]
        /\ held' = [held EXCEPT ![w] = IF mine = {} THEN 0 ELSE token]
  BY Zenon DEF Claim
<1> DEFINE mine == IF owner = w /\ live THEN Due \union again ELSE {}
<1>2. mine \in SUBSET Events /\ \A e \in mine : tries[e] < MaxAttempts
  BY Zenon DEF Due, BackedOff
<1>3. mine # {} => owner = w
  OBVIOUS
<1>4. mine \in SUBSET Events
  BY <1>2, Zenon
<1> QED
  BY <1>1, <1>2, <1>3, <1>4, Zenon

(* Every step keeps the types of the mailbox. *)
LEMMA MailTypeStep == IInv /\ [Next]_vars => MailTypeOK'
<1> SUFFICES ASSUME IInv, [Next]_vars PROVE MailTypeOK'
  OBVIOUS
<1> USE GridAssumption
<1>0. MailTypeOK /\ WorkerTypeOK /\ LeaseTypeOK /\ Working
  BY Zenon DEF IInv, TypeOK
<1>1. CASE Aside
  BY <1>0, <1>1, AsideUnchanged, Zenon DEF MailTypeOK, mailVars
<1>2. ASSUME NEW e \in Events, Route(e) PROVE MailTypeOK'
  BY <1>0, <1>2, Zenon DEF Route, MailTypeOK, Statuses
<1>3. ASSUME NEW e \in Events, ClaimEnds(e) PROVE MailTypeOK'
  BY <1>0, <1>3, Zenon DEF ClaimEnds, MailTypeOK
<1>4. ASSUME NEW w \in Workers, Crash(w) PROVE MailTypeOK'
  BY <1>0, <1>4, Zenon DEF Crash, MailTypeOK, mailVars
<1>5. ASSUME NEW w \in Workers, Claim(w) PROVE MailTypeOK'
  <2>1. PICK mine \in SUBSET Events :
             /\ \A e \in mine : tries[e] < MaxAttempts
             /\ mail' = [e \in Events |-> IF e \in Exhausted THEN "dead"
                                          ELSE IF e \in mine THEN "processing"
                                          ELSE mail[e]]
             /\ tries' = [e \in Events |-> IF e \in mine THEN tries[e] + 1
                                           ELSE tries[e]]
             /\ claimer' = [e \in Events |-> IF e \in mine THEN w ELSE claimer[e]]
             /\ stamp' = [e \in Events |-> IF e \in mine THEN token ELSE stamp[e]]
             /\ fresh' = fresh \union mine
    BY <1>5, ClaimRows, Zenon
  <2>2. mail' \in [Events -> Statuses]
    BY <1>0, <2>1, Zenon DEF MailTypeOK, Statuses
  <2>3. tries' \in [Events -> 0 .. MaxAttempts]
    BY <1>0, <2>1 DEF MailTypeOK
  <2>4. /\ claimer' \in [Events -> Workers \union {NoOwner}]
        /\ stamp' \in [Events -> Nat] /\ fresh' \subseteq Events
    BY <1>0, <2>1, Zenon DEF MailTypeOK, LeaseTypeOK
  <2> QED
    BY <2>2, <2>3, <2>4, Zenon DEF MailTypeOK
<1>6. ASSUME NEW w \in Workers, NEW e \in Events, LockOwnership(w, e) PROVE MailTypeOK'
  BY <1>0, <1>6, Zenon DEF LockOwnership, MailTypeOK, mailVars
<1>7. ASSUME NEW w \in Workers, ProcessGrid(w) PROVE MailTypeOK'
  BY <1>0, <1>7, Zenon DEF ProcessGrid, MailTypeOK, mailVars
<1>8. ASSUME NEW w \in Workers, Complete(w) PROVE MailTypeOK'
  <2>1. mail' = mail \/ mail' = [mail EXCEPT ![cur[w]] = "completed"]
    BY <1>8, Zenon DEF Complete
  <2>2. fresh' \subseteq fresh /\ UNCHANGED <<tries, claimer, stamp>>
    BY <1>8, Zenon DEF Complete
  <2> QED
    BY <1>0, <2>1, <2>2, Zenon DEF MailTypeOK, Statuses
<1>9. ASSUME NEW w \in Workers, FailEvent(w) PROVE MailTypeOK'
  <2>1. \/ mail' = mail
        \/ mail' = [mail EXCEPT ![cur[w]] = "dead"]
        \/ mail' = [mail EXCEPT ![cur[w]] = "failed"]
    BY <1>9, Zenon DEF FailEvent
  <2>2. fresh' \subseteq fresh /\ UNCHANGED <<tries, claimer, stamp>>
    BY <1>9, Zenon DEF FailEvent
  <2> QED
    BY <1>0, <2>1, <2>2, Zenon DEF MailTypeOK, Statuses
<1>10. CASE UNCHANGED vars
  BY <1>0, <1>10, Zenon DEF vars, mailVars, MailTypeOK
<1> QED
  BY <1>1, <1>2, <1>3, <1>4, <1>5, <1>6, <1>7, <1>8, <1>9, <1>10, Zenon
  DEF Next, Drain, Aside
(* Every step keeps the types of the workers' threads. *)
LEMMA WorkerTypeStep == IInv /\ [Next]_vars => WorkerTypeOK' /\ Working'
<1> SUFFICES ASSUME IInv, [Next]_vars PROVE WorkerTypeOK' /\ Working'
  OBVIOUS
<1> USE GridAssumption
<1>0. /\ WorkerTypeOK /\ Working /\ LeaseTypeOK
      /\ filled \in 0 .. Qty
  BY Zenon DEF IInv, TypeOK, LedgerTypeOK
<1>1. CASE Aside
  <2>1. UNCHANGED threadVars
    BY <1>1, AsideUnchanged, Zenon
  <2>2. host' \in [Workers -> {"none", "starting", "running"}]
    BY <1>0, <1>1, Zenon DEF WorkerTypeOK, Aside, Fill, Ingest, Acquire, Register,
       Expire, ExpireDead, Lapses, Detach, Release, Polling, Poll, PostPolled
  <2>3. polled' \in [Workers -> 0 .. Qty \union {Nothing}]
    BY <1>0, <1>1, Zenon DEF WorkerTypeOK, Aside, Fill, Ingest, Acquire, Register,
       Expire, ExpireDead, Lapses, Detach, Release, Polling, Poll, PostPolled
  <2> QED
    BY <1>0, <2>1, <2>2, <2>3, Zenon DEF WorkerTypeOK, Working, threadVars
<1>2. ASSUME NEW e \in Events, Route(e) \/ ClaimEnds(e) PROVE WorkerTypeOK' /\ Working'
  BY <1>0, <1>2, Zenon DEF Route, ClaimEnds, WorkerTypeOK, Working, threadVars
<1>4. ASSUME NEW w \in Workers, Crash(w) PROVE WorkerTypeOK' /\ Working'
  BY <1>0, <1>4, Zenon DEF Crash, WorkerTypeOK, Working, Stages, Nothing
<1>5. ASSUME NEW w \in Workers, Claim(w) PROVE WorkerTypeOK' /\ Working'
  <2>1. PICK mine \in SUBSET Events :
          /\ batch' = [batch EXCEPT ![w] = mine]
          /\ pc' = [pc EXCEPT ![w] = IF mine = {} THEN "idle" ELSE "batch"]
          /\ held' = [held EXCEPT ![w] = IF mine = {} THEN 0 ELSE token]
    BY <1>5, ClaimRows, ZenonT(60)
  <2>2. UNCHANGED <<host, cur, polled>>
    BY <1>5, Zenon DEF Claim
  <2>3. pc' = [pc EXCEPT ![w] = "idle"] \/ pc' = [pc EXCEPT ![w] = "batch"]
    BY <2>1, Zenon
  <2>4. held' \in [Workers -> Nat]
    BY <1>0, <2>1, Zenon DEF WorkerTypeOK, LeaseTypeOK
  <2> QED
    BY <1>0, <2>1, <2>2, <2>3, <2>4, Zenon DEF WorkerTypeOK, Working, Stages
<1>6. ASSUME NEW w \in Workers, NEW e \in Events, LockOwnership(w, e)
      PROVE  WorkerTypeOK' /\ Working'
  <2>1. pc' = [pc EXCEPT ![w] = "locked"] \/ pc' = [pc EXCEPT ![w] = "failing"]
    BY <1>6, Zenon DEF LockOwnership
  <2>2. cur' = [cur EXCEPT ![w] = e] /\ UNCHANGED <<host, batch, held, polled>>
    BY <1>6, Zenon DEF LockOwnership
  <2> QED
    BY <1>0, <2>1, <2>2, Zenon DEF WorkerTypeOK, Working, Stages
<1>7. ASSUME NEW w \in Workers, ProcessGrid(w) PROVE WorkerTypeOK' /\ Working'
  <2>1. /\ pc' = [pc EXCEPT ![w] = "posted"] \/ pc' = [pc EXCEPT ![w] = "failing"]
        /\ pc[w] = "locked" /\ UNCHANGED <<host, batch, cur, held, polled>>
    BY <1>7, Zenon DEF ProcessGrid
  <2> QED
    BY <1>0, <2>1, Zenon DEF WorkerTypeOK, Working, Stages
<1>8. ASSUME NEW w \in Workers, Complete(w) \/ FailEvent(w) PROVE WorkerTypeOK' /\ Working'
  <2>1. /\ UNCHANGED <<host, polled>>
        /\ pc[w] \in {"posted", "failing"}
        /\ \/ Advance(w)
           \/ /\ pc' = [pc EXCEPT ![w] = "failing"]
              /\ UNCHANGED <<batch, cur, held>>
    BY <1>8, Zenon DEF Complete, FailEvent
  <2>2. CASE pc' = [pc EXCEPT ![w] = "failing"] /\ UNCHANGED <<batch, cur, held>>
    BY <1>0, <2>1, <2>2, Zenon DEF WorkerTypeOK, Working, Stages
  <2>3. CASE Advance(w)
    <3>1. pc' = [pc EXCEPT ![w] = "idle"] \/ pc' = [pc EXCEPT ![w] = "batch"]
      BY <2>3, Zenon DEF Advance
    <3>2. /\ batch' = [batch EXCEPT ![w] = @ \ {cur[w]}]
          /\ cur' = [cur EXCEPT ![w] = 0]
          /\ held' = [held EXCEPT ![w] = 0] \/ held' = [held EXCEPT ![w] = @]
      BY <2>3, Zenon DEF Advance
    <3> QED
      BY <1>0, <2>1, <3>1, <3>2 DEF WorkerTypeOK, Working, Stages
  <2> QED
    BY <2>1, <2>2, <2>3, Zenon
<1>10. CASE UNCHANGED vars
  BY <1>0, <1>10, Zenon DEF vars, threadVars, WorkerTypeOK, Working
<1> QED
  BY <1>1, <1>2, <1>4, <1>5, <1>6, <1>7, <1>8, <1>10, Zenon
  DEF Next, Drain, Aside

(* Every step keeps the types of the lease and of the ledger, and posts    *)
(* only what the exchange has filled.                                      *)
LEMMA LedgerStep == IInv /\ [Next]_vars => LeaseTypeOK' /\ LedgerTypeOK' /\ Reached'
<1> SUFFICES ASSUME IInv, [Next]_vars PROVE LeaseTypeOK' /\ LedgerTypeOK' /\ Reached'
  OBVIOUS
<1> USE GridAssumption
<1>0. WorkerTypeOK /\ Working /\ LeaseTypeOK /\ LedgerTypeOK /\ Reached
  BY Zenon DEF IInv, TypeOK
<1>1. LeaseTypeOK'
  <2>1. ASSUME NEW w \in Workers, Acquire(w) PROVE LeaseTypeOK'
    <3>1. token' \in {token, token + 1}
      BY <2>1, Zenon DEF Acquire
    <3> QED
      BY <1>0, <2>1, <3>1 DEF Acquire, LeaseTypeOK
  <2>2. ASSUME NEW w \in Workers, Release(w) PROVE LeaseTypeOK'
    BY <1>0, <2>2, Zenon DEF Release, LeaseTypeOK
  <2>3. CASE Lapses
    BY <1>0, <2>3, Zenon DEF Lapses, LeaseTypeOK
  <2>4. CASE UNCHANGED leaseVars
    BY <1>0, <2>4, Zenon DEF leaseVars, LeaseTypeOK
  <2> QED
    BY <2>1, <2>2, <2>3, <2>4, Zenon
    DEF Next, Fill, Ingest, Route, Register, Expire, ExpireDead, Detach, Crash,
        ClaimEnds, Drain, Claim, LockOwnership, ProcessGrid, Complete,
        FailEvent, Polling, Poll, PostPolled, vars
<1>2. faults' \in 0 .. MaxFaults
  <2>1. Fault \/ UNCHANGED faults
    BY Zenon
    DEF Next, Fill, Ingest, Route, Acquire, Register, Expire, ExpireDead, Lapses,
        Detach, Release, Crash, ClaimEnds, Drain, Claim, LockOwnership,
        ProcessGrid, Complete, FailEvent, Polling, Poll, PostPolled, vars
  <2> QED
    BY <1>0, <2>1 DEF LedgerTypeOK, Fault
<1>3. CASE Fill
  BY <1>0, <1>1, <1>2, <1>3 DEF Fill, LedgerTypeOK, Reached, ledgerVars, WorkerTypeOK, Nothing
<1>4. CASE \E e \in Events : Ingest(e)
  BY <1>0, <1>1, <1>2, <1>4, Zenon DEF Ingest, LedgerTypeOK, Reached, ledgerVars, Events
<1>5. ASSUME NEW w \in Workers, ProcessGrid(w)
      PROVE  LeaseTypeOK' /\ LedgerTypeOK' /\ Reached'
  <2>1. UNCHANGED <<filled, stored, polled>> /\ cur[w] \in Events
    BY <1>0, <1>5, Zenon DEF ProcessGrid, Working
  <2>2. /\ seen' \in 0 .. Qty /\ booked' \in 0 .. Qty
        /\ booked' = seen' /\ booked' <= filled
        /\ traded' \subseteq traded \union {cur[w]}
    BY <1>5, ProcessReached, Zenon
  <2> QED
    BY <1>0, <1>1, <1>2, <2>1, <2>2, Zenon DEF LedgerTypeOK, Reached
<1>6. ASSUME NEW w \in Workers, Poll(w)
      PROVE  LeaseTypeOK' /\ LedgerTypeOK' /\ Reached'
  BY <1>0, <1>1, <1>2, <1>6 DEF Poll, LedgerTypeOK, Reached, ledgerVars, WorkerTypeOK
<1>7. ASSUME NEW w \in Workers, PostPolled(w)
      PROVE  LeaseTypeOK' /\ LedgerTypeOK' /\ Reached'
  <2>1. /\ UNCHANGED <<filled, stored, traded>> /\ Project(polled[w])
        /\ polled' = [polled EXCEPT ![w] = Nothing]
    BY <1>7, Zenon DEF PostPolled
  <2>2. polled[w] \in 0 .. filled
    BY <1>0, <1>7 DEF PostPolled, WorkerTypeOK, Reached, LedgerTypeOK
  <2>3. /\ seen' \in 0 .. Qty /\ booked' \in 0 .. Qty
        /\ booked' = seen' /\ booked' <= filled
    BY <2>1, <2>2, ProjectReached, Zenon
  <2>4. \A x \in Workers : polled'[x] <= filled
    BY <1>0, <2>1 DEF WorkerTypeOK, Reached, LedgerTypeOK, Nothing
  <2> QED
    BY <1>0, <1>1, <1>2, <2>1, <2>3, <2>4, Zenon DEF LedgerTypeOK, Reached
<1>8. ASSUME NEW w \in Workers, Crash(w)
      PROVE  LeaseTypeOK' /\ LedgerTypeOK' /\ Reached'
  BY <1>0, <1>1, <1>2, <1>8
  DEF Crash, LedgerTypeOK, Reached, ledgerVars, WorkerTypeOK, Nothing
<1>9. CASE UNCHANGED <<filled, stored, ledgerVars, polled>>
  BY <1>0, <1>1, <1>2, <1>9, Zenon DEF LedgerTypeOK, Reached, ledgerVars
<1> QED
  BY <1>3, <1>4, <1>5, <1>6, <1>7, <1>8, <1>9, Zenon
  DEF Next, Route, Acquire, Register, Expire, ExpireDead, Lapses, Detach,
      Release, ClaimEnds, Drain, Claim, LockOwnership, Complete, FailEvent,
      Polling, vars
(* The ledger covers what is traded, posted or completed: it never shrinks,*)
(* and an event is posted or completed after its fill has been.            *)
LEMMA CoveredStep == IInv /\ [Next]_vars => Covered'
<1> SUFFICES ASSUME IInv, [Next]_vars, Cumulative
             PROVE  /\ \A e \in traded' : e <= booked'
                    /\ \A w \in Workers : pc'[w] = "posted" => cur'[w] <= booked'
                    /\ \A e \in Events : mail'[e] = "completed" => e <= booked'
  BY Zenon DEF Covered
<1> DEFINE Goal == /\ \A e \in traded' : e <= booked'
                   /\ \A w \in Workers : pc'[w] = "posted" => cur'[w] <= booked'
                   /\ \A e \in Events : mail'[e] = "completed" => e <= booked'
<1> USE GridAssumption
<1>0. /\ MailTypeOK /\ WorkerTypeOK /\ LedgerTypeOK /\ Working
      /\ \A e \in traded : e <= booked
      /\ \A w \in Workers : pc[w] = "posted" => cur[w] <= booked
      /\ \A e \in Events : mail[e] = "completed" => e <= booked
  BY Zenon DEF IInv, TypeOK, Covered
<1>1. CASE UNCHANGED <<mail, pc, cur, traded, booked>>
  BY <1>0, <1>1, Zenon
<1>2. ASSUME NEW w \in Workers, PostPolled(w) PROVE Goal
  <2>1. polled[w] \in 0 .. filled
    BY <1>2 DEF PostPolled, IInv, TypeOK, WorkerTypeOK, Reached, LedgerTypeOK
  <2>2. booked <= booked' /\ booked' \in 0 .. Qty
    BY <1>2, <2>1, ProjectReached, Zenon DEF PostPolled
  <2>3. UNCHANGED <<mail, pc, cur, traded>>
    BY <1>2, Zenon DEF PostPolled, mailVars, threadVars
  <2>4. /\ cur \in [Workers -> Events \union {0}]
        /\ booked \in 0 .. Qty /\ traded \subseteq Events
    BY <1>0, Zenon DEF WorkerTypeOK, LedgerTypeOK
  <2> QED
    BY <1>0, <2>2, <2>3, <2>4 DEF Events
<1>3. ASSUME NEW e \in Events, Route(e) PROVE Goal
  BY <1>0, <1>3, Zenon DEF Route, MailTypeOK, ledgerVars, threadVars
<1>4. ASSUME NEW w \in Workers, Crash(w) PROVE Goal
  BY <1>0, <1>4, Zenon DEF Crash, WorkerTypeOK, mailVars, ledgerVars
<1>5. ASSUME NEW w \in Workers, Claim(w) PROVE Goal
  <2>1. \A e \in Events : mail'[e] = "completed" => mail[e] = "completed"
    BY <1>5, ClaimRows, Zenon
  <2>2. pc' = [pc EXCEPT ![w] = "idle"] \/ pc' = [pc EXCEPT ![w] = "batch"]
    BY <1>5, ClaimRows, Zenon
  <2>3. UNCHANGED <<booked, traded, cur>>
    BY <1>5, Zenon DEF Claim, ledgerVars
  <2> QED
    BY <1>0, <2>1, <2>2, <2>3, Zenon DEF WorkerTypeOK
<1>6. ASSUME NEW w \in Workers, NEW e \in Events, LockOwnership(w, e) PROVE Goal
  <2>1. pc' = [pc EXCEPT ![w] = "locked"] \/ pc' = [pc EXCEPT ![w] = "failing"]
    BY <1>6, Zenon DEF LockOwnership
  <2>2. cur' = [cur EXCEPT ![w] = e] /\ UNCHANGED <<mail, booked, traded>>
    BY <1>6, Zenon DEF LockOwnership, mailVars, ledgerVars
  <2> QED
    BY <1>0, <2>1, <2>2, Zenon DEF WorkerTypeOK
<1>7. ASSUME NEW w \in Workers, ProcessGrid(w) PROVE Goal
  <2>1. /\ booked <= booked' /\ booked' \in 0 .. Qty
        /\ traded' \subseteq traded \union {cur[w]}
        /\ (pc'[w] = "posted" \/ cur[w] \in traded') => cur[w] <= booked'
    BY <1>7, ProcessReached, Zenon
  <2>2. /\ UNCHANGED <<mail, cur>>
        /\ \A x \in Workers \ {w} : pc'[x] = pc[x]
    BY <1>0, <1>7, Zenon DEF ProcessGrid, mailVars, WorkerTypeOK
  <2>3. /\ cur \in [Workers -> Events \union {0}]
        /\ booked \in 0 .. Qty /\ traded \subseteq Events
    BY <1>0, Zenon DEF WorkerTypeOK, LedgerTypeOK
  <2>4. \A e \in traded' : e <= booked'
    BY <1>0, <2>1, <2>3 DEF Events
  <2>5. \A x \in Workers : pc'[x] = "posted" => cur'[x] <= booked'
    BY <1>0, <2>1, <2>2, <2>3 DEF Events
  <2>6. \A e \in Events : mail'[e] = "completed" => e <= booked'
    BY <1>0, <2>1, <2>2, <2>3 DEF Events
  <2> QED
    BY <2>4, <2>5, <2>6, Zenon
<1>8. ASSUME NEW w \in Workers, Complete(w) \/ FailEvent(w) PROVE Goal
  <2>1. /\ UNCHANGED <<booked, traded>> /\ cur[w] \in Events
        /\ \A x \in Workers \ {w} : pc'[x] = pc[x] /\ cur'[x] = cur[x]
    BY <1>0, <1>8, Zenon DEF Complete, FailEvent, Advance, ledgerVars, WorkerTypeOK, Working
  <2>2. pc'[w] # "posted"
    BY <1>0, <1>8, Zenon DEF Complete, FailEvent, Advance, WorkerTypeOK
  <2>3. \A e \in Events : mail'[e] = "completed" =>
           mail[e] = "completed" \/ (e = cur[w] /\ pc[w] = "posted")
    <3>1. \/ mail' = mail
          \/ pc[w] = "posted" /\ mail' = [mail EXCEPT ![cur[w]] = "completed"]
          \/ mail' = [mail EXCEPT ![cur[w]] = "dead"]
          \/ mail' = [mail EXCEPT ![cur[w]] = "failed"]
      BY <1>8, Zenon DEF Complete, FailEvent
    <3> QED
      BY <1>0, <2>1, <3>1, Zenon DEF MailTypeOK
  <2> QED
    BY <1>0, <2>1, <2>2, <2>3, Zenon
<1> QED
  BY <1>1, <1>2, <1>3, <1>4, <1>5, <1>6, <1>7, <1>8, Zenon
  DEF Next, Fill, Ingest, Acquire, Register, Expire, ExpireDead, Lapses, Detach,
      Release, ClaimEnds, Drain, Polling, Poll, mailVars, threadVars, ledgerVars, vars

(* No step takes the lease, or the claim on the event, from a worker that  *)
(* projects.                                                               *)
LEMMA FencedStep == IInv /\ [Next]_vars => ProjectionFenced'
<1> SUFFICES ASSUME IInv, [Next]_vars, NEW v \in Workers, pc'[v] = "locked"
             PROVE  /\ owner' = v /\ token' = held'[v]
                    /\ claimer'[cur'[v]] = v /\ stamp'[cur'[v]] = held'[v]
                    /\ mail'[cur'[v]] \in {"processing", "dead"}
  BY Zenon DEF ProjectionFenced, Mine
<1> DEFINE Goal == /\ owner' = v /\ token' = held'[v]
                   /\ claimer'[cur'[v]] = v /\ stamp'[cur'[v]] = held'[v]
                   /\ mail'[cur'[v]] \in {"processing", "dead"}
<1>0. MailTypeOK /\ WorkerTypeOK /\ Working
  BY Zenon DEF IInv, TypeOK
<1>1. pc[v] = "locked" =>
        /\ owner = v /\ token = held[v] /\ cur[v] \in Events
        /\ claimer[cur[v]] = v /\ stamp[cur[v]] = held[v]
        /\ mail[cur[v]] \in {"processing", "dead"}
  BY <1>0, Zenon DEF IInv, ProjectionFenced, Mine, Working
<1>2. CASE UNCHANGED <<mail, claimer, stamp, owner, token, pc, cur, held>>
  BY <1>1, <1>2, Zenon
<1>3. ASSUME NEW e \in Events, Route(e) PROVE Goal
  BY <1>0, <1>1, <1>3, Zenon DEF Route, MailTypeOK, leaseVars, threadVars
<1>4. ASSUME NEW w \in Workers, Acquire(w) \/ Release(w) PROVE Goal
  BY <1>4, Zenon DEF Acquire, Release, RowLocked, threadVars
<1>5. ASSUME NEW w \in Workers, Crash(w) PROVE Goal
  <2>1. v # w
    BY <1>0, <1>5, Zenon DEF Crash, WorkerTypeOK
  <2> QED
    BY <1>0, <1>1, <1>5, <2>1, Zenon DEF Crash, WorkerTypeOK, mailVars, leaseVars
<1>6. ASSUME NEW w \in Workers, Claim(w) PROVE Goal
  <2>1. PICK mine \in SUBSET Events :
             /\ mine # {} => owner = w
             /\ mail' = [e \in Events |-> IF e \in Exhausted THEN "dead"
                                          ELSE IF e \in mine THEN "processing"
                                          ELSE mail[e]]
             /\ claimer' = [e \in Events |-> IF e \in mine THEN w ELSE claimer[e]]
             /\ stamp' = [e \in Events |-> IF e \in mine THEN token ELSE stamp[e]]
             /\ pc' = [pc EXCEPT ![w] = IF mine = {} THEN "idle" ELSE "batch"]
             /\ held' = [held EXCEPT ![w] = IF mine = {} THEN 0 ELSE token]
    BY <1>6, ClaimRows, Zenon
  <2>2. v # w
    BY <1>0, <2>1, Zenon DEF WorkerTypeOK
  <2>3. /\ pc[v] = "locked" /\ held'[v] = held[v]
        /\ UNCHANGED <<owner, token, cur>>
    BY <1>0, <1>6, <2>1, <2>2 DEF WorkerTypeOK, Claim, leaseVars
  <2>4. mine = {}
    BY <1>1, <2>1, <2>2, <2>3, Zenon
  <2> QED
    BY <1>1, <2>1, <2>3, <2>4, Zenon
<1>7. ASSUME NEW w \in Workers, NEW e \in Events, LockOwnership(w, e) PROVE Goal
  <2>1. UNCHANGED <<mail, claimer, stamp, owner, token, held>>
    BY <1>7, Zenon DEF LockOwnership, mailVars, leaseVars
  <2>2. CASE v = w
    <3>1. cur'[v] = e
      BY <1>0, <1>7, <2>2, Zenon DEF LockOwnership, WorkerTypeOK
    <3>2. Owned(w, e)
      BY <1>0, <1>7, <2>2, Zenon DEF LockOwnership, WorkerTypeOK
    <3> QED
      BY <2>1, <2>2, <3>1, <3>2, Zenon DEF Owned, Mine
  <2>3. CASE v # w
    BY <1>0, <1>1, <1>7, <2>1, <2>3, Zenon DEF LockOwnership, WorkerTypeOK
  <2> QED
    BY <2>2, <2>3, Zenon
<1>8. ASSUME NEW w \in Workers, ProcessGrid(w) PROVE Goal
  <2>1. v # w
    BY <1>0, <1>8, Zenon DEF ProcessGrid, WorkerTypeOK
  <2> QED
    BY <1>0, <1>1, <1>8, <2>1, Zenon DEF ProcessGrid, WorkerTypeOK, mailVars, leaseVars
<1>9. ASSUME NEW w \in Workers, Complete(w) \/ FailEvent(w) PROVE Goal
  <2>1. /\ v # w /\ pc[v] = "locked"
        /\ held'[v] = held[v] /\ cur'[v] = cur[v]
        /\ UNCHANGED <<claimer, stamp, owner, token>>
    BY <1>0, <1>9, Zenon DEF Complete, FailEvent, Advance, WorkerTypeOK, leaseVars
  <2>2. claimer[cur[w]] = w \/ mail' = mail
    BY <1>9, Zenon DEF Complete, FailEvent, Owned, Mine
  <2>3. mail'[cur[v]] = mail[cur[v]]
    BY <1>0, <1>1, <1>9, <2>1, <2>2, Zenon DEF Complete, FailEvent, MailTypeOK
  <2> QED
    BY <1>1, <2>1, <2>3, Zenon
<1> QED
  BY <1>2, <1>3, <1>4, <1>5, <1>6, <1>7, <1>8, <1>9, Zenon
  DEF Next, Fill, Ingest, Register, Expire, ExpireDead, Lapses, Detach,
      ClaimEnds, Drain, Polling, Poll, PostPolled, mailVars, threadVars,
      leaseVars, vars

-----------------------------------------------------------------------------
LEMMA Invariance == Spec => []IInv
<1>1. IInv /\ [Next]_vars => IInv'
  BY MailTypeStep, WorkerTypeStep, LedgerStep, CoveredStep, FencedStep, Zenon
  DEF IInv, TypeOK
<1> QED
  BY <1>1, InitialState, PTL DEF Spec

(* The state keeps its types; no row is claimed more often than            *)
(* claim_for_owner allows.                                                 *)
THEOREM TypeCorrect == Spec => []TypeOK
<1>1. IInv => TypeOK
  BY Zenon DEF IInv
<1> QED
  BY <1>1, Invariance, PTL

(* Mailbox and pollers together post exactly what the order row shows and  *)
(* never more than was filled (_project_grid).                             *)
THEOREM LedgerStaysExact == Spec => []LedgerExact
<1>1. IInv => LedgerExact
  BY Zenon DEF IInv, Reached, Covered, LedgerExact
<1> QED
  BY <1>1, Invariance, PTL

(* A worker that projects holds the lease with the token of its claim      *)
(* until it commits (lock_ownership).                                      *)
THEOREM ProjectionsFenced == Spec => []ProjectionFenced
<1>1. IInv => ProjectionFenced
  BY Zenon DEF IInv
<1> QED
  BY <1>1, Invariance, PTL

(* Hence no two workers project events of the grid at the same time. *)
THEOREM OneProjector ==
    Spec => [](\A v, w \in Workers : pc[v] = "locked" /\ pc[w] = "locked" => v = w)
<1>1. ProjectionFenced =>
        \A v, w \in Workers : pc[v] = "locked" /\ pc[w] = "locked" => v = w
  BY Zenon DEF ProjectionFenced
<1> QED
  BY <1>1, ProjectionsFenced, PTL
=============================================================================
