------------------------ MODULE EvaluatorInboxProofs ------------------------
(***************************************************************************)
(* For every number of evaluators, batches, messages, attempts and faults: *)
(* the evaluators implement BatchLedger, a completed batch was evaluated,  *)
(* and a superseded shard owner completes nothing.                         *)
(***************************************************************************)
EXTENDS EvaluatorInbox, TLAPS

(* An evaluator with a message in hand, and the part of that in which the  *)
(* inbox row has been claimed and not been given an outcome.               *)
Claiming == {"claimed", "shardbusy", "fenced", "evaluating", "completing",
             "failing"}
Handling == Claiming \cup {"polled", "releasing", "ack", "nack"}

(* The message in hand is the one before the next to be read. *)
InHand ==
    \A e \in Evaluators : pc[e] \in Handling =>
        pos[e] >= 1 /\ cur[e] = log[pos[e]]

TInv == TypeOK /\ InHand

(* The offset passes settled batches only, and no message beyond the first *)
(* uncommitted one is ever in hand.  The member the partition is assigned  *)
(* to reads on from the committed offset, and nobody else claims.          *)
Passed == \A i \in 1 .. committed : Settled(log[i])

Reading ==
    \A e \in Evaluators :
        /\ pc[e] \in Handling => pos[e] <= committed + 1
        /\ assigned = e /\ pc[e] = "idle" => pos[e] = committed
        /\ assigned = e /\ pc[e] \in Handling => pos[e] = committed + 1
        /\ pc[e] \in {"polled", "claimed"} => assigned = e

(* The assigned member keeps its claim, and acknowledges settled batches.  *)
Answering ==
    \A e \in Evaluators :
        /\ pc[e] \in Claiming \cup {"idle", "polled"} => ~ret[e]
        /\ assigned = e /\ pc[e] \in Claiming => Mine(e)
        /\ assigned = e /\ (pc[e] = "ack" \/ (pc[e] = "releasing" /\ ret[e]))
             => Settled(cur[e])

(* Whoever still has the claim of its batch has the newest shard token.    *)
Fenced ==
    \A e \in Evaluators :
        pc[e] \in {"fenced", "evaluating", "completing"} /\ Mine(e) => tok[e] = stoken

OInv == offsetKept /\ Passed /\ Reading /\ Answering /\ Fenced

(* Futures that succeeded were counted, and a strategy without a future is *)
(* not running any more.                                                   *)
Evaluating ==
    \A e \in Evaluators, s \in Strategies :
        /\ pc[e] = "evaluating" /\ fut[e][s] = "ok" => evals[cur[e]][s] > 0
        /\ pc[e] = "evaluating" /\ fut[e][s] = "none" => s \notin running
        /\ pc[e] = "completing" /\ s \in running => evals[cur[e]][s] > 0

EInv == Evaluating /\ CompletedEvaluated
-----------------------------------------------------------------------------
LEMMA InitialTypes == Init => TInv
<1> SUFFICES ASSUME Init PROVE TInv
  OBVIOUS
<1> USE InboxAssumption DEF Init
<1>1. KafkaTypeOK
  BY DEF KafkaTypeOK
<1>2. InboxTypeOK
  BY DEF InboxTypeOK, Statuses
<1>3. ShardTypeOK
  BY Zenon DEF ShardTypeOK
<1>4. HandTypeOK
  BY DEF HandTypeOK, Steps
<1>5. WorkTypeOK
  BY DEF WorkTypeOK, NoFutures, NoEvals, Results
<1>6. InHand
  BY Zenon DEF InHand, Handling, Claiming
<1> QED
  BY <1>1, <1>2, <1>3, <1>4, <1>5, <1>6, Zenon DEF TInv, TypeOK

(* Which steps touch the partition, the inbox and the shard lease at all.  *)
LEMMA KafkaSteps ==
    ASSUME [Next]_vars
    PROVE  \/ UNCHANGED kafkaVars
           \/ \E b \in Batches : Publish(b)
           \/ \E e \in Evaluators :
                \/ Assign(e) \/ Revoke(e) \/ LoseSession(e) \/ NoticeLost(e) \/ Evict(e)
                \/ Poll(e) \/ Commit(e) \/ Rewind(e) \/ Close(e) \/ Crash(e)
<1>1. ASSUME NEW e \in Evaluators,
             \/ Claim(e) \/ ClaimRefused(e) \/ AcquireShard(e) \/ ReadRunning(e)
             \/ Collect(e) \/ Complete(e) \/ FailBusy(e) \/ Fail(e) \/ ReleaseShard(e)
      PROVE  UNCHANGED kafkaVars
  BY <1>1, Zenon DEF HandUnchanged, Claim, ClaimRefused, AcquireShard, ReadRunning, Collect,
     Complete, FailBusy, Fail, ReleaseShard
<1>2. ASSUME NEW e \in Evaluators, Evaluate(e) \/ SqlError(e) \/ Shutdown(e)
      PROVE  UNCHANGED kafkaVars
  BY <1>2, Zenon DEF HandUnchanged, Evaluate, Evaluated, StrayEnds, SqlError, Shutdown
<1>3. ASSUME \/ \E b \in Batches : ExpireInbox(b)
             \/ ExpireShard
             \/ \E s \in Strategies : StopStrategy(s)
      PROVE  UNCHANGED kafkaVars
  BY <1>3, Zenon DEF ExpireInbox, ExpireShard, StopStrategy
<1>4. ASSUME UNCHANGED vars PROVE UNCHANGED kafkaVars
  BY <1>4, Zenon DEF vars
<1> QED
  BY <1>1, <1>2, <1>3, <1>4, Zenon DEF Next, Handle

LEMMA InboxSteps ==
    ASSUME [Next]_vars
    PROVE  \/ UNCHANGED inboxVars
           \/ \E b \in Batches : ExpireInbox(b)
           \/ \E e \in Evaluators : Claim(e) \/ Complete(e) \/ FailBusy(e) \/ Fail(e)
<1>1. ASSUME NEW e \in Evaluators,
             \/ ClaimRefused(e) \/ AcquireShard(e) \/ ReadRunning(e) \/ Collect(e)
             \/ ReleaseShard(e) \/ Commit(e) \/ Rewind(e)
      PROVE  UNCHANGED inboxVars
  BY <1>1, Zenon DEF ClaimRefused, AcquireShard, ReadRunning, Collect, ReleaseShard, Commit,
     Rewind
<1>2. ASSUME NEW e \in Evaluators, Evaluate(e) \/ SqlError(e) \/ Shutdown(e)
      PROVE  UNCHANGED inboxVars
  BY <1>2, Zenon DEF Evaluate, Evaluated, StrayEnds, SqlError, Shutdown
<1>3. ASSUME NEW e \in Evaluators,
             \/ Assign(e) \/ Revoke(e) \/ LoseSession(e) \/ NoticeLost(e) \/ Evict(e)
             \/ Poll(e) \/ Close(e) \/ Crash(e)
      PROVE  UNCHANGED inboxVars
  BY <1>3, Zenon DEF Assign, Revoke, LoseSession, NoticeLost, Evict, Poll, Close, Crash
<1>4. ASSUME \/ \E b \in Batches : Publish(b)
             \/ ExpireShard
             \/ \E s \in Strategies : StopStrategy(s)
      PROVE  UNCHANGED inboxVars
  BY <1>4, Zenon DEF Publish, ExpireShard, StopStrategy
<1>5. ASSUME UNCHANGED vars PROVE UNCHANGED inboxVars
  BY <1>5, Zenon DEF vars
<1> QED
  BY <1>1, <1>2, <1>3, <1>4, <1>5, Zenon DEF Next, Handle

LEMMA ShardSteps ==
    ASSUME [Next]_vars
    PROVE  \/ UNCHANGED shardVars
           \/ ExpireShard
           \/ \E e \in Evaluators : AcquireShard(e) \/ ReleaseShard(e) \/ Close(e)
<1>1. ASSUME NEW e \in Evaluators,
             \/ Claim(e) \/ ClaimRefused(e) \/ ReadRunning(e) \/ Collect(e)
             \/ Complete(e) \/ FailBusy(e) \/ Fail(e) \/ Commit(e) \/ Rewind(e)
      PROVE  UNCHANGED shardVars
  BY <1>1, Zenon DEF Claim, ClaimRefused, ReadRunning, Collect, Complete, FailBusy, Fail, Commit,
     Rewind
<1>2. ASSUME NEW e \in Evaluators, Evaluate(e) \/ SqlError(e) \/ Shutdown(e)
      PROVE  UNCHANGED shardVars
  BY <1>2, Zenon DEF Evaluate, Evaluated, StrayEnds, SqlError, Shutdown
<1>3. ASSUME NEW e \in Evaluators,
             \/ Assign(e) \/ Revoke(e) \/ LoseSession(e) \/ NoticeLost(e) \/ Evict(e)
             \/ Poll(e) \/ Crash(e)
      PROVE  UNCHANGED shardVars
  BY <1>3, Zenon DEF Assign, Revoke, LoseSession, NoticeLost, Evict, Poll, Crash
<1>4. ASSUME \/ \E b \in Batches : Publish(b) \/ ExpireInbox(b)
             \/ \E s \in Strategies : StopStrategy(s)
      PROVE  UNCHANGED shardVars
  BY <1>4, Zenon DEF Publish, ExpireInbox, StopStrategy
<1>5. ASSUME UNCHANGED vars PROVE UNCHANGED shardVars
  BY <1>5, Zenon DEF vars
<1> QED
  BY <1>1, <1>2, <1>3, <1>4, <1>5, Zenon DEF Next, Handle

(* The batch of the message in hand. *)
LEMMA BatchInHand ==
    ASSUME TInv, NEW e \in Evaluators, pc[e] \in Handling
    PROVE  cur[e] \in Batches /\ pos[e] \in 1 .. Len(log)
BY DEF TInv, InHand, TypeOK, KafkaTypeOK

LEMMA KafkaTypes == TInv /\ [Next]_vars => KafkaTypeOK'
<1> SUFFICES ASSUME TInv, [Next]_vars PROVE KafkaTypeOK'
  OBVIOUS
<1> USE InboxAssumption DEF TInv, TypeOK, KafkaTypeOK
<1>1. ASSUME NEW b \in Batches, Publish(b) PROVE KafkaTypeOK'
  BY <1>1 DEF Publish
<1>2. ASSUME NEW e \in Evaluators, Assign(e) PROVE KafkaTypeOK'
  BY <1>2 DEF Assign
<1>3. ASSUME NEW e \in Evaluators, Revoke(e) \/ LoseSession(e) \/ NoticeLost(e) \/ Evict(e)
      PROVE KafkaTypeOK'
  BY <1>3, Zenon DEF Revoke, LoseSession, NoticeLost, Evict
<1>4. ASSUME NEW e \in Evaluators, Poll(e) PROVE KafkaTypeOK'
  BY <1>4 DEF Poll
<1>5. ASSUME NEW e \in Evaluators, Commit(e) PROVE KafkaTypeOK'
  BY <1>5, Zenon DEF Commit, CommittedOffset
<1>6. ASSUME NEW e \in Evaluators, Rewind(e) PROVE KafkaTypeOK'
  BY <1>6 DEF Rewind, Rewound, InHand, Handling
<1>7. ASSUME NEW e \in Evaluators, Close(e) \/ Crash(e) PROVE KafkaTypeOK'
  BY <1>7, Zenon DEF Close, Crash
<1>8. CASE UNCHANGED kafkaVars
  BY <1>8, Zenon DEF kafkaVars
<1> QED
  BY <1>1, <1>2, <1>3, <1>4, <1>5, <1>6, <1>7, <1>8, KafkaSteps, Zenon

LEMMA InboxTypes == TInv /\ [Next]_vars => InboxTypeOK'
<1> SUFFICES ASSUME TInv, [Next]_vars PROVE InboxTypeOK'
  OBVIOUS
<1> USE InboxAssumption DEF TInv, TypeOK, InboxTypeOK, HandTypeOK, Statuses
<1>1. ASSUME NEW e \in Evaluators, Claim(e) PROVE InboxTypeOK'
  BY <1>1, BatchInHand DEF Claim, OneMoreAttempt, Handling
<1>2. ASSUME NEW e \in Evaluators, Complete(e) PROVE InboxTypeOK'
  BY <1>2, Zenon DEF Complete, Ended
<1>3. ASSUME NEW e \in Evaluators, FailBusy(e) PROVE InboxTypeOK'
  BY <1>3, Zenon DEF FailBusy, Ended
<1>4. ASSUME NEW e \in Evaluators, Fail(e) PROVE InboxTypeOK'
  BY <1>4, Zenon DEF Fail, Ended
<1>5. ASSUME NEW b \in Batches, ExpireInbox(b) PROVE InboxTypeOK'
  BY <1>5, Zenon DEF ExpireInbox
<1>6. CASE UNCHANGED inboxVars
  BY <1>6, Zenon DEF inboxVars
<1> QED
  BY <1>1, <1>2, <1>3, <1>4, <1>5, <1>6, InboxSteps, Zenon

LEMMA ShardTypes == TInv /\ [Next]_vars => ShardTypeOK'
<1> SUFFICES ASSUME TInv, [Next]_vars PROVE ShardTypeOK'
  OBVIOUS
<1> USE DEF TInv, TypeOK, ShardTypeOK
<1>1. ASSUME NEW e \in Evaluators, AcquireShard(e) PROVE ShardTypeOK'
  <2>1. CASE ShardFree(e)
    BY <1>1, <2>1 DEF AcquireShard
  <2>2. CASE ~ShardFree(e)
    BY <1>1, <2>2, Zenon DEF AcquireShard, shardVars
  <2> QED
    BY <2>1, <2>2, Zenon
<1>2. ASSUME NEW e \in Evaluators, ReleaseShard(e) \/ Close(e) PROVE ShardTypeOK'
  BY <1>2, Zenon DEF ReleaseShard, Close
<1>3. CASE ExpireShard
  BY <1>3, Zenon DEF ExpireShard
<1>4. CASE UNCHANGED shardVars
  BY <1>4, Zenon DEF shardVars
<1> QED
  BY <1>1, <1>2, <1>3, <1>4, ShardSteps, Zenon

LEMMA HandTypes == TInv /\ [Next]_vars => HandTypeOK'
<1> SUFFICES ASSUME TInv, [Next]_vars PROVE HandTypeOK'
  OBVIOUS
<1> USE InboxAssumption DEF TInv, TypeOK, HandTypeOK, Steps, Handling, Claiming, handVars
<1>1. ASSUME NEW e \in Evaluators, Assign(e) \/ Revoke(e) \/ LoseSession(e) \/ NoticeLost(e)
                                     \/ Evict(e) \/ Evaluate(e)
      PROVE  UNCHANGED <<pc, cur, att, tok, ret>>
  BY <1>1, Zenon DEF Assign, Revoke, LoseSession, NoticeLost, Evict, Evaluate, Evaluated, StrayEnds
<1>2. ASSUME \/ \E b \in Batches : Publish(b) \/ ExpireInbox(b)
             \/ ExpireShard
             \/ \E s \in Strategies : StopStrategy(s)
             \/ UNCHANGED vars
      PROVE  UNCHANGED <<pc, cur, att, tok, ret>>
  BY <1>2, Zenon DEF Publish, ExpireInbox, ExpireShard, StopStrategy, vars
<1>3. CASE UNCHANGED <<pc, cur, att, tok, ret>>
  BY <1>3, Zenon
<1>4. ASSUME NEW e \in Evaluators, Poll(e) PROVE HandTypeOK'
  BY <1>4 DEF Poll, KafkaTypeOK
<1>5. ASSUME NEW e \in Evaluators, Claim(e) PROVE HandTypeOK'
  BY <1>5, BatchInHand DEF Claim, OneMoreAttempt, InboxTypeOK
<1>6. ASSUME NEW e \in Evaluators, ClaimRefused(e) PROVE HandTypeOK'
  BY <1>6, Zenon DEF ClaimRefused
<1>7. ASSUME NEW e \in Evaluators, AcquireShard(e) PROVE HandTypeOK'
  BY <1>7 DEF AcquireShard, ShardTypeOK
<1>8. ASSUME NEW e \in Evaluators, ReadRunning(e) \/ Collect(e) PROVE HandTypeOK'
  BY <1>8, Zenon DEF ReadRunning, Collect
<1>9. ASSUME NEW e \in Evaluators, Complete(e) PROVE HandTypeOK'
  BY <1>9, Zenon DEF Complete, Returning, Mine
<1>10. ASSUME NEW e \in Evaluators, FailBusy(e) PROVE HandTypeOK'
  BY <1>10, Zenon DEF FailBusy, Returning
<1>11. ASSUME NEW e \in Evaluators, Fail(e) PROVE HandTypeOK'
  BY <1>11 DEF Fail, Returning
<1>12. ASSUME NEW e \in Evaluators, ReleaseShard(e) PROVE HandTypeOK'
  BY <1>12, Zenon DEF ReleaseShard
<1>13. ASSUME NEW e \in Evaluators, Commit(e) \/ Rewind(e) PROVE HandTypeOK'
  <2>1. Forget(e) /\ pc' \in [Evaluators -> Steps]
    BY <1>13, Zenon DEF Commit, Rewind
  <2> QED
    BY <2>1 DEF Forget
<1>14. ASSUME NEW e \in Evaluators, SqlError(e) PROVE HandTypeOK'
  BY <1>14, Zenon DEF SqlError
<1>15. ASSUME NEW e \in Evaluators, Shutdown(e) \/ Close(e) PROVE HandTypeOK'
  BY <1>15, Zenon DEF Shutdown, Close
<1>16. ASSUME NEW e \in Evaluators, Crash(e) PROVE HandTypeOK'
  BY <1>16 DEF Crash, Forget
<1> QED
  BY <1>1, <1>2, <1>3, <1>4, <1>5, <1>6, <1>7, <1>8, <1>9, <1>10, <1>11, <1>12, <1>13,
     <1>14, <1>15, <1>16, Zenon DEF Next, Handle

LEMMA WorkTypes == TInv /\ [Next]_vars => WorkTypeOK'
<1> SUFFICES ASSUME TInv, [Next]_vars PROVE WorkTypeOK'
  OBVIOUS
<1> USE InboxAssumption DEF TInv, TypeOK, WorkTypeOK, Results, NoFutures, Handling,
      Claiming
<1>1. ASSUME NEW e \in Evaluators, ReadRunning(e) PROVE WorkTypeOK'
  BY <1>1, Zenon DEF ReadRunning, HandUnchanged
<1>2. ASSUME NEW e \in Evaluators, NEW s \in Strategies, NEW r \in {"ok", "bad", "raise"},
             Evaluated(e, s, r)
      PROVE WorkTypeOK'
  BY <1>2, BatchInHand DEF Evaluated, HandUnchanged, Counted
<1>3. ASSUME NEW e \in Evaluators, NEW b \in Batches, NEW s \in Strategies,
             NEW r \in {"ok", "bad"}, StrayEnds(e, b, s, r)
      PROVE WorkTypeOK'
  BY <1>3 DEF StrayEnds, Counted, handVars
<1>4. ASSUME NEW e \in Evaluators, Collect(e) PROVE WorkTypeOK'
  <2>1. cur[e] \in Batches
    BY <1>4, BatchInHand, Zenon DEF Collect
  <2>2. CASE UNCHANGED stray
    BY <1>4, <2>2, Zenon DEF Collect
  <2>3. CASE stray' = [stray EXCEPT ![e] = stray[e] \cup
                 {<<cur[e], r>> : r \in {q \in Strategies : fut[e][q] = "run"}}]
    BY <1>4, <2>1, <2>3 DEF Collect
  <2> QED
    BY <1>4, <2>2, <2>3, Zenon DEF Collect
<1>5. ASSUME NEW e \in Evaluators, Commit(e) \/ Rewind(e) PROVE WorkTypeOK'
  <2>1. Forget(e) /\ UNCHANGED <<running, stray, evals, faults>>
    BY <1>5, Zenon DEF Commit, Rewind
  <2> QED
    BY <2>1, Zenon DEF Forget
<1>6. ASSUME NEW e \in Evaluators, Crash(e) PROVE WorkTypeOK'
  BY <1>6 DEF Crash, Forget, Fault
<1>7. ASSUME NEW s \in Strategies, StopStrategy(s) PROVE WorkTypeOK'
  BY <1>7, Zenon DEF StopStrategy, handVars
<1>8. ASSUME NEW e \in Evaluators, Revoke(e) \/ LoseSession(e) \/ SqlError(e) \/ Shutdown(e)
      PROVE WorkTypeOK'
  BY <1>8 DEF Revoke, LoseSession, SqlError, Shutdown, Fault, handVars
<1>9. ASSUME NEW e \in Evaluators,
             \/ Claim(e) \/ ClaimRefused(e) \/ AcquireShard(e) \/ Complete(e) \/ FailBusy(e)
             \/ Fail(e) \/ ReleaseShard(e)
      PROVE UNCHANGED <<running, fut, stray, evals, faults>>
  BY <1>9, Zenon DEF Claim, ClaimRefused, AcquireShard, Complete, FailBusy, Fail, ReleaseShard,
     HandUnchanged, handVars
<1>10. ASSUME NEW e \in Evaluators,
              Assign(e) \/ NoticeLost(e) \/ Evict(e) \/ Poll(e) \/ Close(e)
       PROVE UNCHANGED <<running, fut, stray, evals, faults>>
  BY <1>10, Zenon DEF Assign, NoticeLost, Evict, Poll, Close, handVars
<1>11. ASSUME \/ \E b \in Batches : Publish(b) \/ ExpireInbox(b)
              \/ ExpireShard
              \/ UNCHANGED vars
       PROVE  UNCHANGED <<running, fut, stray, evals, faults>>
  BY <1>11, Zenon DEF Publish, ExpireInbox, ExpireShard, vars, handVars
<1>12. CASE UNCHANGED <<running, fut, stray, evals, faults>>
  BY <1>12, Zenon
<1>13. ASSUME NEW e \in Evaluators, Evaluate(e) PROVE WorkTypeOK'
  BY <1>2, <1>3, <1>13 DEF Evaluate
<1> HIDE DEF WorkTypeOK
<1> QED
  BY <1>1, <1>4, <1>5, <1>6, <1>7, <1>8, <1>9, <1>10, <1>11, <1>12, <1>13, Zenon
  DEF Next, Handle

(* The state with its types, and the message in hand, after any step.      *)
LEMMA HandKept == TInv /\ [Next]_vars => InHand'
<1> SUFFICES ASSUME TInv, [Next]_vars PROVE InHand'
  OBVIOUS
<1> USE DEF TInv, TypeOK, InHand, KafkaTypeOK, HandTypeOK, Handling, Claiming
<1>1. ASSUME NEW b \in Batches, Publish(b) PROVE InHand'
  BY <1>1 DEF Publish, handVars
<1>2. ASSUME NEW e \in Evaluators, Assign(e) PROVE InHand'
  BY <1>2, Zenon DEF Assign, handVars
<1>3. ASSUME NEW e \in Evaluators, Poll(e) PROVE InHand'
  BY <1>3 DEF Poll
<1>4. ASSUME NEW e \in Evaluators, Commit(e) \/ Rewind(e) PROVE InHand'
  <2>1. /\ pc' = [pc EXCEPT ![e] = "idle"] \/ pc' = [pc EXCEPT ![e] = "closing"]
        /\ pos' = pos \/ pos' = [pos EXCEPT ![e] = Rewound(e)]
        /\ cur' = [cur EXCEPT ![e] = 0]
        /\ log' = log
    BY <1>4, Zenon DEF Commit, Rewind, Forget
  <2> QED
    BY <2>1
<1>5. ASSUME NEW e \in Evaluators, Crash(e) \/ Close(e) \/ Shutdown(e) PROVE InHand'
  <2>1. /\ pc' = [pc EXCEPT ![e] = "dead"] \/ pc' = [pc EXCEPT ![e] = "closing"]
        /\ cur' = cur \/ cur' = [cur EXCEPT ![e] = 0]
        /\ log' = log /\ pos' = pos
    BY <1>5, Zenon DEF Crash, Close, Shutdown, Forget, kafkaVars, handVars
  <2> QED
    BY <2>1
<1>6. ASSUME NEW e \in Evaluators,
             \/ Claim(e) \/ ClaimRefused(e) \/ AcquireShard(e) \/ ReadRunning(e)
             \/ Collect(e) \/ Complete(e) \/ FailBusy(e) \/ Fail(e) \/ ReleaseShard(e)
             \/ SqlError(e)
      PROVE InHand'
  <2>1. /\ pc[e] \in Handling
        /\ \A f \in Evaluators : f # e => pc'[f] = pc[f]
        /\ UNCHANGED <<log, pos, cur>>
    BY <1>6, Zenon DEF Claim, ClaimRefused, AcquireShard, ReadRunning, Collect, Complete, FailBusy,
       Fail, ReleaseShard, SqlError, Returning, HandUnchanged, kafkaVars, handVars
  <2> QED
    BY <2>1, Zenon
<1>7. ASSUME NEW e \in Evaluators,
             Revoke(e) \/ LoseSession(e) \/ NoticeLost(e) \/ Evict(e) \/ Evaluate(e)
      PROVE  UNCHANGED <<log, pos, pc, cur>>
  BY <1>7, Zenon DEF Revoke, LoseSession, NoticeLost, Evict, Evaluate, Evaluated, StrayEnds,
     HandUnchanged, kafkaVars, handVars
<1>8. ASSUME \/ \E b \in Batches : ExpireInbox(b)
             \/ ExpireShard
             \/ \E s \in Strategies : StopStrategy(s)
             \/ UNCHANGED vars
      PROVE  UNCHANGED <<log, pos, pc, cur>>
  BY <1>8, Zenon DEF ExpireInbox, ExpireShard, StopStrategy, vars, kafkaVars, handVars
<1>9. CASE UNCHANGED <<log, pos, pc, cur>>
  BY <1>9, Zenon
<1> HIDE DEF InHand
<1> QED
  BY <1>1, <1>2, <1>3, <1>4, <1>5, <1>6, <1>7, <1>8, <1>9, Zenon DEF Next, Handle

LEMMA TypeInvariance == Spec => []TInv
<1>1. TInv /\ [Next]_vars => TInv'
  BY KafkaTypes, InboxTypes, ShardTypes, HandTypes, WorkTypes, HandKept, Zenon DEF TInv, TypeOK
<1> QED
  BY <1>1, InitialTypes, PTL DEF Spec

(* The state keeps its types and no offset points past the log, whatever   *)
(* crashes, rebalances and errors happen (poll_once, handle).              *)
THEOREM TypeCorrect == Spec => []TypeOK
<1>1. TInv => TypeOK
  BY Zenon DEF TInv
<1> QED
  BY <1>1, TypeInvariance, PTL

-----------------------------------------------------------------------------
(* Successful evaluations are never uncounted. *)
LEMMA CountGrows ==
    ASSUME TInv, NEW b \in Batches, NEW s \in Strategies
    PROVE  /\ Counted(b, s)[b][s] > 0
           /\ \A c \in Batches, q \in Strategies :
                evals[c][q] > 0 => Counted(b, s)[c][q] > 0
BY DEF TInv, TypeOK, WorkTypeOK, Counted

LEMMA EvaluationKept == TInv /\ EInv /\ [Next]_vars => EInv'
<1> SUFFICES ASSUME TInv, EInv, [Next]_vars PROVE EInv'
  OBVIOUS
<1> USE DEF EInv, Evaluating, CompletedEvaluated
<1>1. ASSUME NEW e \in Evaluators, ReadRunning(e) PROVE EInv'
  BY <1>1, Zenon DEF ReadRunning, HandUnchanged, inboxVars, TInv, TypeOK, HandTypeOK, WorkTypeOK
<1>2. ASSUME NEW e \in Evaluators, NEW s \in Strategies, NEW r \in {"ok", "bad", "raise"},
             Evaluated(e, s, r)
      PROVE EInv'
  <2>1. cur[e] \in Batches /\ pc[e] = "evaluating"
    BY <1>2, BatchInHand, Zenon DEF Evaluated, Handling, Claiming
  <2>2. \A c \in Batches, q \in Strategies : evals[c][q] > 0 => evals'[c][q] > 0
    BY <1>2, <2>1, CountGrows, Zenon DEF Evaluated
  <2>3. r = "ok" => evals'[cur[e]][s] > 0
    BY <1>2, <2>1, CountGrows, Zenon DEF Evaluated
  <2>4. /\ UNCHANGED <<status, running, pc, cur>>
        /\ fut' = [fut EXCEPT ![e] = [fut[e] EXCEPT ![s] = r]]
    BY <1>2, Zenon DEF Evaluated, HandUnchanged, inboxVars
  <2>5. \A f \in Evaluators : pc[f] \in {"evaluating", "completing"} => cur[f] \in Batches
    BY BatchInHand, Zenon DEF Handling, Claiming
  <2> QED
    BY <2>1, <2>2, <2>3, <2>4, <2>5, Zenon DEF TInv, TypeOK, WorkTypeOK
<1>3. ASSUME NEW e \in Evaluators, NEW b \in Batches, NEW s \in Strategies,
             NEW r \in {"ok", "bad"}, StrayEnds(e, b, s, r)
      PROVE EInv'
  <2>1. \A c \in Batches, q \in Strategies : evals[c][q] > 0 => evals'[c][q] > 0
    BY <1>3, CountGrows, Zenon DEF StrayEnds
  <2>2. UNCHANGED <<status, running, pc, cur, fut>>
    BY <1>3, Zenon DEF StrayEnds, inboxVars, handVars
  <2>3. \A f \in Evaluators : pc[f] \in {"evaluating", "completing"} => cur[f] \in Batches
    BY BatchInHand, Zenon DEF Handling, Claiming
  <2> QED
    BY <2>1, <2>2, <2>3, Zenon DEF TInv, TypeOK, WorkTypeOK
<1>4. ASSUME NEW e \in Evaluators, Collect(e) PROVE EInv'
  <2>1. /\ UNCHANGED <<status, running, cur, evals>>
        /\ fut' = [fut EXCEPT ![e] = NoFutures]
    BY <1>4, Zenon DEF Collect, inboxVars
  <2>2. CASE pc' = [pc EXCEPT ![e] = "failing"]
    BY <2>1, <2>2, Zenon DEF TInv, TypeOK, HandTypeOK, WorkTypeOK
  <2>3. CASE AllTrue(e) /\ pc' = [pc EXCEPT ![e] = "completing"]
    BY <1>4, <2>1, <2>3 DEF Collect, AllTrue, TInv, TypeOK, HandTypeOK, WorkTypeOK
  <2> QED
    BY <1>4, <2>2, <2>3, Zenon DEF Collect
<1>5. ASSUME NEW e \in Evaluators, Complete(e) PROVE EInv'
  <2>1. /\ pc[e] = "completing" /\ cur[e] \in Batches
    BY <1>5, BatchInHand, Zenon DEF Complete, Handling, Claiming
  <2>2. /\ UNCHANGED <<running, cur, evals, fut>>
        /\ \A f \in Evaluators : f # e => pc'[f] = pc[f]
        /\ pc'[e] \in {"releasing", "ack", "nack"}
        /\ \A b \in Batches : b # cur[e] => status'[b] = status[b]
    BY <1>5, <2>1, Zenon DEF Complete, Ended, Returning, HandUnchanged, TInv, TypeOK, HandTypeOK,
       InboxTypeOK
  <2> QED
    BY <2>1, <2>2, Zenon DEF TInv, TypeOK, HandTypeOK, InboxTypeOK, WorkTypeOK
<1>6. ASSUME NEW s \in Strategies, StopStrategy(s) PROVE EInv'
  BY <1>6, Zenon DEF StopStrategy, inboxVars, handVars
<1>7. ASSUME NEW e \in Evaluators,
             /\ \A f \in Evaluators :
                  f # e => pc'[f] = pc[f] /\ cur'[f] = cur[f] /\ fut'[f] = fut[f]
             /\ pc'[e] \notin {"evaluating", "completing"}
             /\ \A b \in Batches : status'[b] = "completed" => status[b] = "completed"
             /\ UNCHANGED <<running, evals>>
      PROVE EInv'
  BY <1>7
<1>8. ASSUME NEW e \in Evaluators, Claim(e) \/ FailBusy(e) \/ Fail(e) PROVE EInv'
  <2>1. cur[e] \in Batches
    BY <1>8, BatchInHand, Zenon DEF Claim, FailBusy, Fail, Handling, Claiming
  <2>2. /\ UNCHANGED <<running, cur, evals, fut>>
        /\ \A f \in Evaluators : f # e => pc'[f] = pc[f]
        /\ pc'[e] \notin {"evaluating", "completing"}
        /\ \A b \in Batches : status'[b] = "completed" => status[b] = "completed"
    BY <1>8, <2>1 DEF Claim, FailBusy, Fail, Ended, Returning, HandUnchanged, TInv, TypeOK,
       HandTypeOK, InboxTypeOK
  <2> QED
    BY <2>2, <1>7, Zenon
<1>9. ASSUME NEW e \in Evaluators,
             \/ ClaimRefused(e) \/ AcquireShard(e) \/ ReleaseShard(e) \/ SqlError(e)
             \/ Shutdown(e) \/ Close(e) \/ Poll(e)
      PROVE EInv'
  <2>1. /\ UNCHANGED <<status, running, evals, fut>>
        /\ \A f \in Evaluators : f # e => pc'[f] = pc[f] /\ cur'[f] = cur[f]
        /\ pc'[e] \notin {"evaluating", "completing"}
    BY <1>9 DEF ClaimRefused, AcquireShard, ReleaseShard, SqlError, Shutdown, Close, Poll,
       HandUnchanged, handVars, inboxVars, TInv, TypeOK, HandTypeOK
  <2> QED
    BY <2>1, <1>7, Zenon
<1>10. ASSUME NEW e \in Evaluators, Commit(e) \/ Rewind(e) \/ Crash(e) PROVE EInv'
  <2>1. /\ UNCHANGED <<status, running, evals>>
        /\ \A f \in Evaluators :
             f # e => pc'[f] = pc[f] /\ cur'[f] = cur[f] /\ fut'[f] = fut[f]
        /\ pc'[e] \notin {"evaluating", "completing"}
    BY <1>10 DEF Commit, Rewind, Crash, Forget, inboxVars, TInv, TypeOK, HandTypeOK,
       WorkTypeOK
  <2> QED
    BY <2>1, <1>7, Zenon
<1>11. ASSUME NEW e \in Evaluators,
              Assign(e) \/ Revoke(e) \/ LoseSession(e) \/ NoticeLost(e) \/ Evict(e)
       PROVE  UNCHANGED <<status, running, evals, pc, cur, fut>>
  BY <1>11, Zenon DEF Assign, Revoke, LoseSession, NoticeLost, Evict, inboxVars, handVars
<1>12. ASSUME \/ \E b \in Batches : Publish(b) \/ ExpireInbox(b)
              \/ ExpireShard
              \/ UNCHANGED vars
       PROVE  UNCHANGED <<status, running, evals, pc, cur, fut>>
  BY <1>12, Zenon DEF Publish, ExpireInbox, ExpireShard, vars, inboxVars, handVars
<1>13. CASE UNCHANGED <<status, running, evals, pc, cur, fut>>
  BY <1>13, Zenon
<1>14. ASSUME NEW e \in Evaluators, Evaluate(e) PROVE EInv'
  BY <1>2, <1>3, <1>14, Zenon DEF Evaluate
<1> HIDE DEF EInv
<1> QED
  BY <1>1, <1>4, <1>5, <1>6, <1>8, <1>9, <1>10, <1>11, <1>12, <1>13, <1>14, Zenon
  DEF Next, Handle

(* A batch is completed only after each strategy that still runs was       *)
(* evaluated with success, for any number of evaluators that take the      *)
(* batch from each other (handle, complete).                               *)
THEOREM CompletedAfterEvaluation == Spec => []CompletedEvaluated
<1>1. Init => EInv
  BY Zenon DEF Init, EInv, Evaluating, CompletedEvaluated
<1>2. EInv => CompletedEvaluated
  BY Zenon DEF EInv
<1> QED
  BY <1>1, <1>2, TypeInvariance, EvaluationKept, PTL DEF Spec

-----------------------------------------------------------------------------
(* An outcome is final, and only complete and fail of the owner of the     *)
(* claim write one.                                                        *)
LEMMA OutcomesFinal ==
    ASSUME TInv, [Next]_vars, NEW b \in Batches
    PROVE  /\ Settled(b) => status'[b] = status[b]
           /\ ~Settled(b) /\ Settled(b)' =>
                \E e \in Evaluators : /\ Complete(e) \/ Fail(e)
                                      /\ cur[e] = b /\ Mine(e)
                                      /\ status' = [status EXCEPT ![b] = status'[b]]
<1> USE DEF TInv, TypeOK, InboxTypeOK, Settled
<1>1. ASSUME NEW e \in Evaluators, Claim(e)
      PROVE  status'[b] = status[b] \/ (~Settled(b) /\ ~Settled(b)')
  BY <1>1, BatchInHand, Zenon DEF Claim, Claimable, Handling
<1>2. ASSUME NEW e \in Evaluators, FailBusy(e)
      PROVE  status'[b] = status[b] \/ (~Settled(b) /\ ~Settled(b)')
  BY <1>2, BatchInHand, Zenon DEF FailBusy, Ended, Mine, Handling, Claiming
<1>3. ASSUME NEW e \in Evaluators, Complete(e) \/ Fail(e)
      PROVE  \/ status'[b] = status[b]
             \/ ~Settled(b) /\ cur[e] = b /\ Mine(e)
                  /\ status' = [status EXCEPT ![b] = status'[b]]
  <2>1. cur[e] \in Batches
    BY <1>3, BatchInHand, Zenon DEF Complete, Fail, Handling, Claiming
  <2> QED
    BY <1>3, <2>1, Zenon DEF Complete, Fail, Ended, Mine
<1>4. ASSUME NEW c \in Batches, ExpireInbox(c) PROVE status'[b] = status[b]
  BY <1>4, Zenon DEF ExpireInbox
<1>5. CASE UNCHANGED inboxVars
  BY <1>5, Zenon DEF inboxVars
<1> QED
  BY <1>1, <1>2, <1>3, <1>4, <1>5, InboxSteps, Zenon

(* The claims of the others: a step that ends or takes a claim of a batch  *)
(* is one of its owner, or a Claim.                                        *)
LEMMA ClaimsKept ==
    ASSUME TInv, [Next]_vars, NEW b \in Batches, NEW e \in Evaluators,
           status[b] = "processing", by[b] = e
    PROVE  \/ status'[b] = "processing" /\ by'[b] = e
           \/ \E f \in Evaluators : Claim(f) /\ cur[f] = b
           \/ (Complete(e) \/ FailBusy(e) \/ Fail(e)) /\ cur[e] = b
<1> USE DEF TInv, TypeOK, InboxTypeOK
<1>1. ASSUME NEW f \in Evaluators, Claim(f), cur[f] # b
      PROVE  status'[b] = "processing" /\ by'[b] = e
  BY <1>1, BatchInHand, Zenon DEF Claim, Handling
<1>2. ASSUME NEW f \in Evaluators, Complete(f) \/ FailBusy(f) \/ Fail(f),
             f # e \/ cur[f] # b
      PROVE  status'[b] = "processing" /\ by'[b] = e
  <2>1. cur[f] \in Batches
    BY <1>2, BatchInHand, Zenon DEF Complete, FailBusy, Fail, Handling, Claiming
  <2> QED
    BY <1>2, <2>1, Zenon DEF Complete, FailBusy, Fail, Ended, Mine
<1>3. ASSUME NEW c \in Batches, ExpireInbox(c)
      PROVE  status'[b] = "processing" /\ by'[b] = e
  BY <1>3, Zenon DEF ExpireInbox
<1>4. CASE UNCHANGED inboxVars
  BY <1>4, Zenon DEF inboxVars
<1> QED
  BY <1>1, <1>2, <1>3, <1>4, InboxSteps, Zenon

LEMMA PassedKept ==
    ASSUME TInv, OInv, [Next]_vars
    PROVE  offsetKept' /\ Passed'
<1> USE DEF OInv, TInv, TypeOK, KafkaTypeOK
<1>1. \A b \in Batches : Settled(b) => Settled(b)'
  BY OutcomesFinal, Zenon DEF Settled
<1>2. ASSUME NEW b \in Batches, Publish(b) PROVE offsetKept' /\ Passed'
  BY <1>1, <1>2 DEF Publish, Passed
<1>3. ASSUME NEW e \in Evaluators, Commit(e), assigned = e PROVE offsetKept' /\ Passed'
  <2>1. pos[e] = committed + 1 /\ Settled(cur[e]) /\ cur[e] = log[pos[e]]
    BY <1>3, Zenon DEF Commit, Reading, Answering, InHand, Handling
  <2>2. committed' = committed + 1 /\ offsetKept' /\ log' = log
    BY <1>3, <2>1, Zenon DEF Commit, CommittedOffset
  <2>3. \A i \in 1 .. committed + 1 : Settled(log[i]) /\ log[i] \in Batches
    BY <2>1 DEF Passed
  <2>4. \A i \in 1 .. committed + 1 : Settled(log[i])'
    BY <1>1, <2>2, <2>3, Zenon DEF Settled
  <2> QED
    BY <2>2, <2>4, Zenon DEF Passed
<1>4. CASE UNCHANGED <<log, committed, offsetKept>>
  BY <1>1, <1>4 DEF Passed, Settled
<1>5. ASSUME NEW e \in Evaluators,
             \/ Assign(e) \/ Revoke(e) \/ LoseSession(e) \/ NoticeLost(e) \/ Evict(e)
             \/ Poll(e) \/ (Commit(e) /\ assigned # e) \/ Rewind(e) \/ Close(e) \/ Crash(e)
      PROVE UNCHANGED <<log, committed, offsetKept>>
  BY <1>5, Zenon DEF Assign, Revoke, LoseSession, NoticeLost, Evict, Poll, Commit, Rewind, Close,
     Crash
<1>6. UNCHANGED kafkaVars => UNCHANGED <<log, committed, offsetKept>>
  BY Zenon DEF kafkaVars
<1> HIDE DEF OInv, TInv
<1> QED
  BY <1>2, <1>3, <1>4, <1>5, <1>6, KafkaSteps, Zenon

LEMMA ReadingKept ==
    ASSUME ~Stalls, TInv, OInv, [Next]_vars
    PROVE  Reading'
<1> USE InboxAssumption DEF OInv, TInv, TypeOK, KafkaTypeOK, HandTypeOK, Reading, Handling,
      Claiming
<1>1. ASSUME NEW e \in Evaluators, Assign(e) PROVE Reading'
  BY <1>1, Zenon DEF Assign
<1>2. ASSUME NEW e \in Evaluators, Revoke(e) \/ LoseSession(e) \/ Evict(e) PROVE Reading'
  BY <1>2, Zenon DEF Revoke, LoseSession, Evict
<1>3. ASSUME NEW e \in Evaluators, Poll(e) PROVE Reading'
  BY <1>3 DEF Poll
<1>4. ASSUME NEW e \in Evaluators, Commit(e) PROVE Reading'
  <2>1. CASE assigned = e
    <3>1. committed' = committed + 1 /\ UNCHANGED <<assigned, pos>>
      BY <1>4, <2>1, Zenon DEF Commit, CommittedOffset
    <3>2. pc' = [pc EXCEPT ![e] = "idle"] /\ pos[e] = committed'
      BY <1>4, <2>1, Zenon DEF Commit, CommittedOffset
    <3> QED
      BY <2>1, <3>1, <3>2
  <2>2. CASE assigned # e
    BY <1>4, <2>2, Zenon DEF Commit
  <2> QED
    BY <2>1, <2>2, Zenon
<1>5. ASSUME NEW e \in Evaluators, Rewind(e) PROVE Reading'
  BY <1>5 DEF Rewind, Rewound
<1>6. ASSUME NEW e \in Evaluators, Close(e) \/ Crash(e) \/ Shutdown(e) PROVE Reading'
  <2>1. /\ pc' = [pc EXCEPT ![e] = "dead"] \/ pc' = [pc EXCEPT ![e] = "closing"]
        /\ assigned' = assigned \/ (assigned = e /\ assigned' = Nobody)
        /\ UNCHANGED <<committed, pos>>
    BY <1>6, Zenon DEF Close, Crash, Shutdown, kafkaVars
  <2> QED
    BY <2>1
<1>7. ASSUME NEW e \in Evaluators,
             \/ Claim(e) \/ ClaimRefused(e) \/ AcquireShard(e) \/ ReadRunning(e)
             \/ Collect(e) \/ Complete(e) \/ FailBusy(e) \/ Fail(e) \/ ReleaseShard(e)
             \/ SqlError(e)
      PROVE Reading'
  <2>1. /\ pc[e] \in Handling /\ pc'[e] \in Handling
        /\ pc'[e] # "polled"
        /\ pc'[e] = "claimed" => pc[e] = "polled"
    BY <1>7 DEF Claim, ClaimRefused, AcquireShard, ReadRunning, Collect, Complete, FailBusy,
       Fail, ReleaseShard, SqlError, Returning
  <2>2. /\ \A f \in Evaluators : f # e => pc'[f] = pc[f]
        /\ UNCHANGED <<assigned, committed, pos>>
    BY <1>7, Zenon DEF Claim, ClaimRefused, AcquireShard, ReadRunning, Collect, Complete, FailBusy,
       Fail, ReleaseShard, SqlError, Returning, HandUnchanged, kafkaVars
  <2> QED
    BY <2>1, <2>2, Zenon
<1>8. ASSUME NEW e \in Evaluators, NoticeLost(e) \/ Evaluate(e)
      PROVE  UNCHANGED <<assigned, committed, pos, pc>>
  BY <1>8, Zenon DEF NoticeLost, Evaluate, Evaluated, StrayEnds, HandUnchanged, kafkaVars
<1>9. ASSUME \/ \E b \in Batches : Publish(b) \/ ExpireInbox(b)
             \/ ExpireShard
             \/ \E s \in Strategies : StopStrategy(s)
             \/ UNCHANGED vars
      PROVE  UNCHANGED <<assigned, committed, pos, pc>>
  BY <1>9, Zenon DEF Publish, ExpireInbox, ExpireShard, StopStrategy, vars, kafkaVars
<1>10. CASE UNCHANGED <<assigned, committed, pos, pc>>
  BY <1>10, Zenon
<1> HIDE DEF OInv, TInv, Reading
<1> QED
  BY <1>1, <1>2, <1>3, <1>4, <1>5, <1>6, <1>7, <1>8, <1>9, <1>10, Zenon DEF Next, Handle

(* Nobody but the member the partition is assigned to claims a batch. *)
LEMMA ClaimerAssigned ==
    ASSUME OInv, NEW e \in Evaluators, Claim(e) \/ AcquireShard(e)
    PROVE  assigned = e
BY Zenon DEF OInv, Reading, Claim, AcquireShard

LEMMA AnsweringKept ==
    ASSUME ~Stalls, TInv, OInv, [Next]_vars
    PROVE  Answering'
<1> USE DEF TInv, TypeOK, HandTypeOK, Handling, Claiming
<1>1. \A b \in Batches : Settled(b) => Settled(b)'
  BY OutcomesFinal, Zenon DEF Settled
(* An evaluator that does not move keeps its claim and its answer.         *)
<1> DEFINE Good(f) ==
      /\ pc[f] \in Claiming \cup {"idle", "polled"} => ~ret[f]
      /\ assigned = f /\ pc[f] \in Claiming => Mine(f)
      /\ assigned = f /\ (pc[f] = "ack" \/ (pc[f] = "releasing" /\ ret[f]))
           => Settled(cur[f])
<1>2. \A f \in Evaluators : Good(f)
  BY Zenon DEF OInv, Answering
<1>3. ASSUME NEW f \in Evaluators, assigned' = f => assigned = f,
             UNCHANGED <<pc[f], cur[f], ret[f]>>
      PROVE  Good(f)'
  <2>1. pc[f] \in Handling => cur[f] \in Batches
    BY BatchInHand, Zenon
  <2>2. ~(Complete(f) \/ FailBusy(f) \/ Fail(f) \/ Claim(f))
    BY <1>3, Zenon DEF Complete, FailBusy, Fail, Claim, Returning
  <2>3. assigned = f /\ pc[f] \in Claiming =>
          status'[cur[f]] = "processing" /\ by'[cur[f]] = f
    BY <1>2, <2>1, <2>2, ClaimsKept, ClaimerAssigned DEF Mine
  <2> QED
    BY <1>1, <1>2, <1>3, <2>1, <2>3 DEF Mine, Settled
<1>4. ASSUME NEW e \in Evaluators, Good(e)',
             \A f \in Evaluators : f # e =>
                 (assigned' = f => assigned = f) /\ UNCHANGED <<pc[f], cur[f], ret[f]>>
      PROVE  Answering'
  <2>1. ASSUME NEW f \in Evaluators PROVE Good(f)'
    BY <1>3, <1>4, Zenon
  <2> QED
    BY <2>1, Zenon DEF Answering
<1>5. ASSUME \A f \in Evaluators :
                 (assigned' = f => assigned = f) /\ UNCHANGED <<pc[f], cur[f], ret[f]>>
      PROVE  Answering'
  <2>1. ASSUME NEW f \in Evaluators PROVE Good(f)'
    BY <1>3, <1>5, Zenon
  <2> QED
    BY <2>1, Zenon DEF Answering
<1>6. ASSUME NEW e \in Evaluators, Assign(e) PROVE Answering'
  BY <1>2, <1>4, <1>6, Zenon DEF Assign, handVars, Mine
<1>7. ASSUME NEW e \in Evaluators, Poll(e) PROVE Answering'
  BY <1>2, <1>4, <1>7, Zenon DEF Poll, Mine
<1>8. ASSUME NEW e \in Evaluators, Commit(e) \/ Rewind(e) \/ Crash(e) PROVE Answering'
  <2>1. /\ pc'[e] \in {"idle", "closing", "dead"} /\ ~ret'[e]
        /\ \A f \in Evaluators : f # e => UNCHANGED <<pc[f], cur[f], ret[f]>>
        /\ assigned' = assigned
    BY <1>8 DEF Commit, Rewind, Crash, Forget
  <2> QED
    BY <1>4, <2>1, Zenon
<1>9. ASSUME NEW e \in Evaluators, Shutdown(e) \/ Close(e) PROVE Answering'
  <2>1. /\ pc'[e] \in {"closing", "dead"}
        /\ \A f \in Evaluators : f # e => UNCHANGED <<pc[f], cur[f], ret[f]>>
        /\ \A f \in Evaluators : assigned' = f => assigned = f
    BY <1>9, InboxAssumption, Zenon DEF Shutdown, Close, handVars, kafkaVars
  <2> QED
    BY <1>4, <2>1, Zenon
<1>10. ASSUME NEW e \in Evaluators, Claim(e) PROVE Answering'
  <2>1. cur[e] \in Batches
    BY <1>10, BatchInHand, Zenon DEF Claim
  <2>2. /\ pc[e] = "polled" /\ pc'[e] \in {"failing", "claimed"} /\ UNCHANGED <<cur, ret>>
        /\ \A f \in Evaluators : f # e => UNCHANGED pc[f]
        /\ assigned' = assigned
    BY <1>10, Zenon DEF Claim, HandUnchanged, kafkaVars
  <2>3. status'[cur[e]] = "processing" /\ by'[cur[e]] = e
    BY <1>10, <2>1, Zenon DEF Claim, InboxTypeOK
  <2> QED
    BY <1>2, <1>4, <2>2, <2>3, Zenon DEF Mine
<1>11. ASSUME NEW e \in Evaluators, ClaimRefused(e) PROVE Answering'
  <2>1. cur[e] \in Batches
    BY <1>11, BatchInHand, Zenon DEF ClaimRefused
  <2>2. /\ pc'[e] = "nack" \/ (pc'[e] = "ack" /\ Settled(cur[e]))
        /\ UNCHANGED <<cur, ret>>
        /\ \A f \in Evaluators : f # e => UNCHANGED <<pc[f], cur[f], ret[f]>>
        /\ assigned' = assigned
    BY <1>11, Zenon DEF ClaimRefused, Duplicate, HandUnchanged, kafkaVars, handVars
  <2>3. Settled(cur[e]) /\ UNCHANGED cur => Settled(cur[e])'
    BY <1>1, <2>1, Zenon DEF Settled
  <2> QED
    BY <1>4, <2>2, <2>3, Zenon
<1>12. ASSUME NEW e \in Evaluators, AcquireShard(e) \/ ReadRunning(e) \/ Collect(e)
       PROVE  Answering'
  <2>1. cur[e] \in Batches
    BY <1>12, BatchInHand, Zenon DEF AcquireShard, ReadRunning, Collect
  <2>2. /\ pc[e] \in Claiming /\ pc'[e] \in Claiming /\ UNCHANGED <<cur, ret>>
        /\ \A f \in Evaluators : f # e => UNCHANGED pc[f]
        /\ assigned' = assigned
        /\ UNCHANGED <<status, by>>
    BY <1>12, Zenon DEF AcquireShard, ReadRunning, Collect, HandUnchanged, kafkaVars, inboxVars
  <2> QED
    BY <1>2, <1>4, <2>2, Zenon DEF Mine
<1>13. ASSUME NEW e \in Evaluators, Complete(e) \/ FailBusy(e) \/ Fail(e) PROVE Answering'
  <2>1. /\ cur[e] \in Batches /\ pc[e] \in Claiming
    BY <1>13, BatchInHand, Zenon DEF Complete, FailBusy, Fail
  <2>2. /\ UNCHANGED <<assigned, cur>>
        /\ \A f \in Evaluators : f # e => UNCHANGED <<pc[f], ret[f]>>
        /\ pc'[e] \in {"releasing", "ack", "nack"}
        /\ pc'[e] = "ack" => ret'[e]
    BY <1>13, Zenon DEF Complete, FailBusy, Fail, Returning, HandUnchanged, kafkaVars
  <2>3. Mine(e) /\ ret'[e] => Settled(cur[e])'
    BY <1>13, <2>1, <2>2, Zenon DEF Complete, FailBusy, Fail, Returning, Ended, Settled, InboxTypeOK
  <2> QED
    BY <1>2, <1>4, <2>1, <2>2, <2>3, Zenon
<1>14. ASSUME NEW e \in Evaluators, ReleaseShard(e) PROVE Answering'
  <2>1. cur[e] \in Batches
    BY <1>14, BatchInHand, Zenon DEF ReleaseShard
  <2>2. /\ pc[e] = "releasing" /\ pc'[e] = IF ret[e] THEN "ack" ELSE "nack"
        /\ UNCHANGED <<assigned, cur, ret>>
        /\ \A f \in Evaluators : f # e => UNCHANGED pc[f]
    BY <1>14, Zenon DEF ReleaseShard, HandUnchanged, kafkaVars, handVars
  <2>3. Settled(cur[e]) /\ UNCHANGED cur => Settled(cur[e])'
    BY <1>1, <2>1, Zenon DEF Settled
  <2> QED
    BY <1>2, <1>4, <2>2, <2>3, Zenon
<1>15. ASSUME NEW e \in Evaluators, SqlError(e) PROVE Answering'
  <2>1. cur[e] \in Batches
    BY <1>15, BatchInHand, Zenon DEF SqlError
  <2>2. /\ UNCHANGED <<assigned, cur, ret, status, by>>
        /\ \A f \in Evaluators : f # e => UNCHANGED pc[f]
        /\ pc'[e] \in {"nack", "failing", "releasing", "ack"}
        /\ pc'[e] = "failing" => pc[e] \in Claiming
        /\ pc'[e] = "releasing" => pc[e] \in Claiming
        /\ pc'[e] = "ack" => pc[e] = "releasing" /\ ret[e]
    BY <1>15, Zenon DEF SqlError, kafkaVars, handVars, inboxVars
  <2> QED
    BY <1>2, <1>4, <2>2, Zenon DEF Mine, Settled
<1>16. ASSUME NEW e \in Evaluators,
              Revoke(e) \/ LoseSession(e) \/ NoticeLost(e) \/ Evict(e) \/ Evaluate(e)
       PROVE  Answering'
  <2>1. /\ UNCHANGED <<pc, cur, ret>>
        /\ \A f \in Evaluators : assigned' = f => assigned = f
    BY <1>16, InboxAssumption, Zenon DEF Revoke, LoseSession, NoticeLost, Evict, Evaluate, Evaluated,
       StrayEnds, HandUnchanged, kafkaVars, handVars
  <2> QED
    BY <1>5, <2>1, Zenon
<1>17. ASSUME \/ \E b \in Batches : Publish(b) \/ ExpireInbox(b)
              \/ ExpireShard
              \/ \E s \in Strategies : StopStrategy(s)
              \/ UNCHANGED vars
       PROVE  Answering'
  <2>1. UNCHANGED <<assigned, pc, cur, ret>>
    BY <1>17, Zenon DEF Publish, ExpireInbox, ExpireShard, StopStrategy, vars, kafkaVars, handVars
  <2> QED
    BY <1>5, <2>1, Zenon
<1> HIDE DEF TInv, Good
<1> QED
  BY <1>6, <1>7, <1>8, <1>9, <1>10, <1>11, <1>12, <1>13, <1>14, <1>15, <1>16, <1>17, Zenon
  DEF Next, Handle

(* Two evaluators never have claims at the same time: both claims would be *)
(* of the first uncommitted message.                                       *)
LEMMA OneClaim ==
    ASSUME TInv, OInv, NEW e \in Evaluators, NEW f \in Evaluators,
           pc[e] \in Claiming, Mine(e), pc[f] \in Claiming, Mine(f)
    PROVE  e = f
<1>1. ASSUME NEW g \in Evaluators, pc[g] \in Claiming, Mine(g)
      PROVE  cur[g] = log[committed + 1]
  <2>1. cur[g] = log[pos[g]] /\ pos[g] \in 1 .. Len(log) /\ pos[g] <= committed + 1
    BY <1>1, BatchInHand, Zenon DEF OInv, Reading, TInv, InHand, Handling
  <2>2. ~Settled(log[pos[g]])
    BY <1>1, <2>1, Zenon DEF Mine, Settled
  <2>3. pos[g] \notin 1 .. committed
    BY <2>2, Zenon DEF OInv, Passed
  <2> QED
    BY <2>1, <2>3 DEF TInv, TypeOK, KafkaTypeOK
<1> QED
  BY <1>1, Zenon DEF Mine

LEMMA FencedKept ==
    ASSUME ~Stalls, TInv, OInv, [Next]_vars
    PROVE  Fenced'
<1> USE DEF TInv, TypeOK, HandTypeOK, ShardTypeOK, Handling, Claiming
<1> DEFINE Held(f) == pc[f] \in {"fenced", "evaluating", "completing"} /\ Mine(f)
<1>1. \A f \in Evaluators : Held(f) => tok[f] = stoken
  BY Zenon DEF OInv, Fenced
(* Who holds a claim after a step that is not its own has held it before.  *)
<1>2. ASSUME NEW f \in Evaluators, UNCHANGED <<pc[f], cur[f]>>, Held(f)'
      PROVE  Held(f)
  <2>1. cur[f] \in Batches
    BY <1>2, BatchInHand, Zenon
  <2>2. ~Claim(f)
    BY <1>2, Zenon DEF Claim
  <2>3. ASSUME NEW g \in Evaluators, Claim(g) PROVE Mine(f)
    BY <1>2, <2>1, <2>2, <2>3, BatchInHand, Zenon DEF Claim, Mine, InboxTypeOK
  <2>4. ASSUME NEW g \in Evaluators, Complete(g) \/ FailBusy(g) \/ Fail(g) PROVE Mine(f)
    <3>1. cur[g] \in Batches
      BY <2>4, BatchInHand, Zenon DEF Complete, FailBusy, Fail
    <3>2. \E st \in {"completed", "failed", "dead"} : Ended(g, st) /\ UNCHANGED by
      BY <2>4, Zenon DEF Complete, FailBusy, Fail
    <3> QED
      BY <1>2, <2>1, <3>1, <3>2 DEF Ended, Mine, InboxTypeOK
  <2>5. ASSUME NEW b \in Batches, ExpireInbox(b) PROVE Mine(f)
    BY <1>2, <2>5, Zenon DEF ExpireInbox, Mine
  <2>6. ASSUME UNCHANGED inboxVars PROVE Mine(f)
    BY <1>2, <2>6, Zenon DEF inboxVars, Mine
  <2>7. Mine(f)
    BY <2>3, <2>4, <2>5, <2>6, InboxSteps, Zenon
  <2> QED
    BY <1>2, <2>7, Zenon
<1>3. ASSUME NEW e \in Evaluators, AcquireShard(e) PROVE Fenced'
  <2>1. /\ pc[e] = "claimed" /\ UNCHANGED <<cur, status, by>>
        /\ \A f \in Evaluators : f # e => UNCHANGED <<pc[f], tok[f]>>
    BY <1>3, Zenon DEF AcquireShard, inboxVars
  <2>2. Mine(e)
    BY <2>1, <1>3, ClaimerAssigned, Zenon DEF OInv, Answering
  <2>3. ASSUME NEW f \in Evaluators, f # e PROVE ~Held(f)
    BY <2>1, <2>2, <2>3, OneClaim, Zenon
  <2>4. Held(e)' => tok'[e] = stoken'
    BY <1>3, Zenon DEF AcquireShard
  <2>5. ASSUME NEW f \in Evaluators PROVE Held(f)' => tok'[f] = stoken'
    BY <1>2, <2>1, <2>3, <2>4, Zenon
  <2> QED
    BY <2>5, Zenon DEF Fenced
<1>4. ASSUME NEW e \in Evaluators, UNCHANGED stoken,
             \A f \in Evaluators : f # e => UNCHANGED <<pc[f], cur[f], tok[f]>>,
             Held(e)' => Held(e) /\ UNCHANGED tok[e]
      PROVE  Fenced'
  <2>1. ASSUME NEW f \in Evaluators PROVE Held(f)' => tok'[f] = stoken'
    BY <1>1, <1>2, <1>4, Zenon
  <2> QED
    BY <2>1, Zenon DEF Fenced
<1>5. ASSUME NEW e \in Evaluators, ReadRunning(e) \/ Collect(e) PROVE Fenced'
  <2>1. /\ pc[e] \in {"fenced", "evaluating"} /\ UNCHANGED <<cur, status, by, tok, stoken>>
        /\ \A f \in Evaluators : f # e => UNCHANGED pc[f]
    BY <1>5, Zenon DEF ReadRunning, Collect, inboxVars, shardVars
  <2> QED
    BY <1>4, <2>1, Zenon DEF Mine
<1>6. ASSUME NEW e \in Evaluators,
             \/ Claim(e) \/ ClaimRefused(e) \/ Complete(e) \/ FailBusy(e) \/ Fail(e)
             \/ ReleaseShard(e) \/ SqlError(e) \/ Shutdown(e) \/ Close(e) \/ Poll(e)
      PROVE  Fenced'
  <2>1. /\ UNCHANGED <<tok, stoken>>
        /\ \A f \in Evaluators : f # e => UNCHANGED <<pc[f], cur[f]>>
    BY <1>6, Zenon DEF Claim, ClaimRefused, Complete, FailBusy, Fail, ReleaseShard, SqlError,
       Shutdown, Close, Poll, Returning, shardVars, handVars
  <2>2. pc'[e] \notin {"fenced", "evaluating", "completing"}
    BY <1>6 DEF Claim, ClaimRefused, Complete, FailBusy, Fail, ReleaseShard, SqlError,
       Shutdown, Close, Poll, Returning
  <2> QED
    BY <1>4, <2>1, <2>2, Zenon
<1>7. ASSUME NEW e \in Evaluators, Commit(e) \/ Rewind(e) \/ Crash(e) PROVE Fenced'
  <2>1. /\ UNCHANGED stoken
        /\ \A f \in Evaluators : f # e => UNCHANGED <<pc[f], cur[f], tok[f]>>
        /\ pc'[e] \in {"idle", "closing", "dead"}
    BY <1>7 DEF Commit, Rewind, Crash, Forget, shardVars
  <2> QED
    BY <1>4, <2>1, Zenon
<1>8. ASSUME UNCHANGED <<pc, cur, tok, stoken>> PROVE Fenced'
  <2>1. ASSUME NEW f \in Evaluators PROVE Held(f)' => tok'[f] = stoken'
    BY <1>1, <1>2, <1>8, Zenon
  <2> QED
    BY <2>1, Zenon DEF Fenced
<1>9. ASSUME NEW e \in Evaluators,
             \/ Assign(e) \/ Revoke(e) \/ LoseSession(e) \/ NoticeLost(e) \/ Evict(e)
             \/ Evaluate(e)
      PROVE  UNCHANGED <<pc, cur, tok, stoken>>
  BY <1>9, Zenon DEF Assign, Revoke, LoseSession, NoticeLost, Evict, Evaluate, Evaluated, StrayEnds,
     shardVars, handVars
<1>10. ASSUME \/ \E b \in Batches : Publish(b) \/ ExpireInbox(b)
              \/ ExpireShard
              \/ \E s \in Strategies : StopStrategy(s)
              \/ UNCHANGED vars
       PROVE  UNCHANGED <<pc, cur, tok, stoken>>
  BY <1>10, Zenon DEF Publish, ExpireInbox, ExpireShard, StopStrategy, vars, shardVars, handVars
<1> HIDE DEF TInv, Held
<1> QED
  BY <1>3, <1>5, <1>6, <1>7, <1>8, <1>9, <1>10, Zenon DEF Next, Handle

LEMMA OrderInvariance ==
    ASSUME ~NewGroup, ~Stalls
    PROVE  Spec => []OInv
<1>1. Init => OInv
  <2> SUFFICES ASSUME Init PROVE OInv
    OBVIOUS
  <2> USE InboxAssumption DEF Handling, Claiming
  <2>1. offsetKept
    BY Zenon DEF Init
  <2>2. Passed /\ Fenced
    BY DEF Init, Passed, Fenced
  <2>3. Reading
    BY Zenon DEF Init, Reading
  <2>4. Answering
    BY Zenon DEF Init, Answering
  <2> QED
    BY <2>1, <2>2, <2>3, <2>4, Zenon DEF OInv
<1>2. TInv /\ OInv /\ [Next]_vars => OInv'
  <2> SUFFICES ASSUME TInv, OInv, [Next]_vars PROVE OInv'
    OBVIOUS
  <2>1. offsetKept' /\ Passed'
    BY PassedKept, Zenon
  <2>2. Reading'
    BY ReadingKept, Zenon
  <2>3. Answering'
    BY AnsweringKept, Zenon
  <2>4. Fenced'
    BY FencedKept, Zenon
  <2> QED
    BY <2>1, <2>2, <2>3, <2>4, Zenon DEF OInv
<1> QED
  BY <1>1, <1>2, TypeInvariance, PTL DEF Spec

-----------------------------------------------------------------------------
LEMMA LedgerStep ==
    ASSUME TInv, OInv, [Next]_vars
    PROVE  [Ledger!Next]_(Ledger!ledgerVars)
<1> USE DEF TInv, TypeOK, KafkaTypeOK, InboxTypeOK
<1>1. ASSUME NEW b \in Batches, Publish(b) PROVE Ledger!Publish(b)
  BY <1>1, Zenon DEF Publish, inboxVars, Outcome, Settled, Ledger!Publish
<1>2. ASSUME NEW e \in Evaluators, Commit(e), assigned = e PROVE Ledger!Commit
  <2>1. /\ pos[e] = committed + 1 /\ Settled(cur[e]) /\ cur[e] = log[pos[e]]
        /\ cur[e] \in Batches /\ pos[e] \in 1 .. Len(log)
    BY <1>2, BatchInHand, Zenon DEF Commit, OInv, Reading, Answering, InHand, Handling
  <2>2. committed' = committed + 1 /\ UNCHANGED <<log, status>>
    BY <1>2, <2>1, Zenon DEF Commit, CommittedOffset, inboxVars
  <2>3. Outcome[log[committed + 1]] # "open"
    BY <2>1, Zenon DEF Outcome, Settled
  <2>4. UNCHANGED Outcome
    BY <2>2, Zenon DEF Outcome, Settled
  <2> QED
    BY <2>1, <2>2, <2>3, <2>4 DEF Ledger!Commit
<1>3. ASSUME NEW b \in Batches, ~Settled(b), Settled(b)', UNCHANGED <<log, committed>>
      PROVE  \E o \in {"completed", "dead"} : Ledger!Settle(b, o)
  <2>1. PICK e \in Evaluators : /\ Complete(e) \/ Fail(e)
                                /\ cur[e] = b /\ Mine(e)
                                /\ status' = [status EXCEPT ![b] = status'[b]]
    BY <1>3, OutcomesFinal, Zenon
  <2>2. /\ cur[e] = log[pos[e]] /\ pos[e] \in 1 .. Len(log) /\ pos[e] <= committed + 1
    BY <2>1, BatchInHand, Zenon DEF Complete, Fail, OInv, Reading, InHand, Handling, Claiming
  <2>3. ASSUME NEW j \in 1 .. (pos[e] - 1) PROVE Outcome[log[j]] # "open"
    <3>1. j \in 1 .. committed /\ log[j] \in Batches
      BY <2>2
    <3> QED
      BY <3>1, Zenon DEF OInv, Passed, Outcome, Settled
  <2>4. Outcome[b] = "open"
    BY <1>3, Zenon DEF Outcome
  <2>5. Outcome' = [Outcome EXCEPT ![b] = status'[b]]
    BY <1>3, <2>1, Zenon DEF Outcome, Settled
  <2>6. status'[b] \in {"completed", "dead"}
    BY <1>3, Zenon DEF Settled
  <2>7. Ledger!Settle(b, status'[b])
    BY <1>3, <2>1, <2>2, <2>3, <2>4, <2>5, Zenon DEF Ledger!Settle, Ledger!SettledBefore
  <2> QED
    BY <2>6, <2>7, Zenon
<1>4. ASSUME UNCHANGED <<log, committed>>,
             \A b \in Batches : ~Settled(b) => ~Settled(b)'
      PROVE  UNCHANGED Ledger!ledgerVars
  <2>1. \A b \in Batches : Settled(b) => status'[b] = status[b]
    BY OutcomesFinal, Zenon
  <2>2. Outcome' = Outcome
    BY <1>4, <2>1, Zenon DEF Outcome, Settled
  <2> QED
    BY <1>4, <2>2, Zenon DEF Ledger!ledgerVars
<1>5. \/ UNCHANGED <<log, committed>>
      \/ \E b \in Batches : Publish(b)
      \/ \E e \in Evaluators : Commit(e) /\ assigned = e
  BY KafkaSteps, Zenon DEF kafkaVars, Assign, Revoke, LoseSession, NoticeLost, Evict, Poll, Commit,
     Rewind, Close, Crash
<1> QED
  BY <1>1, <1>2, <1>3, <1>4, <1>5, Zenon DEF Ledger!Next

(* The evaluators implement BatchLedger, for a group that has committed an *)
(* offset and workers that do not claim after they lost the partition:     *)
(* handle settles batches once and in log order, and poll_once commits     *)
(* only past settled ones.                                                 *)
THEOREM ImplementsLedger ==
    ASSUME ~NewGroup, ~Stalls
    PROVE  Spec => SettledInOrder
<1>1. Init => Ledger!Init
  BY Zenon DEF Init, Ledger!Init, Outcome, Settled
<1>2. TInv /\ OInv /\ [Next]_vars => [Ledger!Next]_(Ledger!ledgerVars)
  BY LedgerStep, Zenon
<1> QED
  BY <1>1, <1>2, TypeInvariance, OrderInvariance, PTL DEF Spec, SettledInOrder, Ledger!Spec

(* Under the same assumptions an evaluator whose shard token was           *)
(* superseded completes no batch, although complete looks at the inbox row *)
(* alone.                                                                  *)
THEOREM CompletionsFenced ==
    ASSUME ~NewGroup, ~Stalls
    PROVE  Spec => FencedCompletion
<1>1. OInv => \A e \in Evaluators :
        (pc[e] = "completing" /\ Mine(e) /\ status'[cur[e]] = "completed")
            => tok[e] = stoken
  BY Zenon DEF OInv, Fenced
<1> QED
  BY <1>1, OrderInvariance, PTL DEF FencedCompletion

=============================================================================
