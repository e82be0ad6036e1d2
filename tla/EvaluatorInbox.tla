--------------------------- MODULE EvaluatorInbox ---------------------------
(***************************************************************************)
(* Strategy evaluators of one consumer group on one partition of           *)
(* qd.strategy.evaluate.v1: the Kafka consumer (events/kafka.py), the      *)
(* batch handler (events/evaluator.py), the durable inbox and the shard    *)
(* lease (services/event_inbox.py).                                        *)
(*                                                                         *)
(* All batches of one strategy shard have the same key, hence one          *)
(* partition; one shard is modelled.  An evaluator runs poll_once in a     *)
(* single thread, so `pc' is where that thread is; the strategies of a     *)
(* batch are evaluated by a pool, one future each.  Every SQL statement    *)
(* and every Kafka call is one step.  Lease expiry is a step of its own:   *)
(* the handler renews nothing while it waits for the evaluations.          *)
(***************************************************************************)
EXTENDS Integers, Sequences, FiniteSets

CONSTANTS
    Evaluators,   \* worker ids; a restarted process has a new one
    Nobody,       \* owner_id = '', and a partition nobody is assigned
    Strategies,   \* ids of the strategies of every batch
    MaxBatches,   \* batches are 1 .. MaxBatches, in the order they are due
    Poison,       \* batches that _validate rejects
    MaxLog,       \* bound on the messages published
    MaxAttempts,  \* STRATEGY_EVALUATOR_MAX_ATTEMPTS
    MaxFaults,    \* bound on crashes, rebalances, lost sessions and SQL errors
    NewGroup,     \* the group has never committed an offset of the partition
    Stalls        \* a worker that lost its session may still claim a batch

Batches == 1 .. MaxBatches

ASSUME InboxAssumption ==
    /\ Nobody \notin Evaluators
    /\ Strategies \subseteq Nat
    /\ MaxBatches \in Nat /\ MaxLog \in Nat /\ MaxFaults \in Nat
    /\ MaxAttempts \in Nat \ {0}
    /\ Poison \subseteq Batches
    /\ NewGroup \in BOOLEAN /\ Stalls \in BOOLEAN

VARIABLES
    log,       \* the partition
    committed, \* committed offset of the group
    offsetKept,\* the group has committed an offset at all
    assigned,  \* member the broker has assigned the partition to
    has,       \* evaluators whose client holds the partition
    pos,       \* offset of the next message the client returns
    status,    \* qd_event_inbox.status; "none" when there is no row
    by,        \* claimed_by
    ilease,    \* lease_expires_at of the row: null, live or expired
    attempts,  \* attempts, counted up to MaxAttempts
    sowner,    \* qd_strategy_shard_leases.owner_id
    slive,     \* its lease has not expired
    stoken,    \* its fencing_token
    running,   \* strategies whose status is 'running'
    pc,        \* where poll_once and handle are
    cur,       \* the batch in hand
    att,       \* claim.attempts
    tok,       \* acquired_token; 0 when no shard was acquired
    ret,       \* what handle is about to return
    fut,       \* futures of the batch in hand
    stray,     \* futures left running by an earlier handle
    evals,     \* evaluations that succeeded (history, counted to 2)
    faults     \* faults so far

kafkaVars == <<log, committed, offsetKept, assigned, has, pos>>
inboxVars == <<status, by, ilease, attempts>>
shardVars == <<sowner, slive, stoken>>
handVars == <<cur, att, tok, ret, fut>>
vars == <<kafkaVars, inboxVars, shardVars, running, pc, handVars, stray, evals,
          faults>>

-----------------------------------------------------------------------------
Statuses == {"none", "processing", "failed", "completed", "dead"}
Steps == {"idle", "polled", "claimed", "shardbusy", "fenced", "evaluating",
          "completing", "failing", "releasing", "ack", "nack", "closing",
          "dead"}
Results == {"none", "run", "ok", "bad", "raise"}
NoFutures == [s \in Strategies |-> "none"]
NoEvals == [s \in Strategies |-> 0]

(* Types by group: the partition, the inbox rows, the shard lease and the  *)
(* evaluators.                                                             *)
KafkaTypeOK ==
    /\ log \in Seq(Batches)
    /\ committed \in 0 .. Len(log)
    /\ offsetKept \in BOOLEAN
    /\ assigned \in Evaluators \cup {Nobody}
    /\ has \in [Evaluators -> BOOLEAN]
    /\ pos \in [Evaluators -> 0 .. Len(log)]

InboxTypeOK ==
    /\ status \in [Batches -> Statuses]
    /\ by \in [Batches -> Evaluators \cup {Nobody}]
    /\ ilease \in [Batches -> {"null", "live", "expired"}]
    /\ attempts \in [Batches -> 0 .. MaxAttempts]

ShardTypeOK ==
    /\ sowner \in Evaluators \cup {Nobody}
    /\ slive \in BOOLEAN
    /\ stoken \in Nat

HandTypeOK ==
    /\ pc \in [Evaluators -> Steps]
    /\ cur \in [Evaluators -> Batches \cup {0}]
    /\ att \in [Evaluators -> 0 .. MaxAttempts]
    /\ tok \in [Evaluators -> Nat]
    /\ ret \in [Evaluators -> BOOLEAN]

WorkTypeOK ==
    /\ running \in SUBSET Strategies
    /\ fut \in [Evaluators -> [Strategies -> Results]]
    /\ stray \in [Evaluators -> SUBSET (Batches \X Strategies)]
    /\ evals \in [Batches -> [Strategies -> 0 .. 2]]
    /\ faults \in 0 .. MaxFaults

(* Type invariant: log, offsets, inbox rows, shard lease and evaluators    *)
(* keep their types, and no offset points past the log.                    *)
TypeOK == KafkaTypeOK /\ InboxTypeOK /\ ShardTypeOK /\ HandTypeOK /\ WorkTypeOK

Init ==
    /\ log = <<>>
    /\ committed = 0
    /\ offsetKept = ~NewGroup
    /\ assigned = Nobody
    /\ has = [e \in Evaluators |-> FALSE]
    /\ pos = [e \in Evaluators |-> 0]
    /\ status = [b \in Batches |-> "none"]
    /\ by = [b \in Batches |-> Nobody]
    /\ ilease = [b \in Batches |-> "null"]
    /\ attempts = [b \in Batches |-> 0]
    /\ sowner = Nobody
    /\ slive = FALSE
    /\ stoken = 0
    /\ running = Strategies
    /\ pc = [e \in Evaluators |-> "idle"]
    /\ cur = [e \in Evaluators |-> 0]
    /\ att = [e \in Evaluators |-> 0]
    /\ tok = [e \in Evaluators |-> 0]
    /\ ret = [e \in Evaluators |-> FALSE]
    /\ fut = [e \in Evaluators |-> NoFutures]
    /\ stray = [e \in Evaluators |-> {}]
    /\ evals = [b \in Batches |-> NoEvals]
    /\ faults = 0

Fault == faults < MaxFaults /\ faults' = faults + 1

-----------------------------------------------------------------------------
(* The broker and the client library.                                      *)

(* The dispatcher publishes batches as bars close, and publishes a batch   *)
(* again when its own delivery or commit failed.                           *)
Publish(b) ==
    /\ Len(log) < MaxLog
    /\ b = 1 \/ \E i \in 1 .. Len(log) : log[i] \in {b, b - 1}
    /\ log' = Append(log, b)
    /\ UNCHANGED <<committed, offsetKept, assigned, has, pos, inboxVars,
                   shardVars, running, pc, handVars, stray, evals, faults>>

(* A member without a committed offset starts at the end of the log        *)
(* (auto.offset.reset is latest).                                          *)
Assign(e) ==
    /\ assigned = Nobody
    /\ pc[e] = "idle"
    /\ ~has[e]
    /\ assigned' = e
    /\ has' = [has EXCEPT ![e] = TRUE]
    /\ pos' = [pos EXCEPT ![e] = IF offsetKept THEN committed ELSE Len(log)]
    /\ UNCHANGED <<log, committed, offsetKept, inboxVars, shardVars, running,
                   pc, handVars, stray, evals, faults>>

(* A cooperative rebalance takes the partition away inside poll.           *)
Revoke(e) ==
    /\ Fault
    /\ assigned = e
    /\ pc[e] = "idle"
    /\ assigned' = Nobody
    /\ has' = [has EXCEPT ![e] = FALSE]
    /\ UNCHANGED <<log, committed, offsetKept, pos, inboxVars, shardVars,
                   running, pc, handVars, stray, evals>>

(* The session times out at the broker; the client learns of it in poll.   *)
(* Unless workers stall, that happens only after the claim and the shard   *)
(* are taken: the evaluations are what takes long.                         *)
LoseSession(e) ==
    /\ Fault
    /\ assigned = e
    /\ pc[e] # "dead"
    /\ Stalls \/ pc[e] \notin {"polled", "claimed"}
    /\ assigned' = Nobody
    /\ UNCHANGED <<log, committed, offsetKept, has, pos, inboxVars, shardVars,
                   running, pc, handVars, stray, evals>>

NoticeLost(e) ==
    /\ pc[e] = "idle"
    /\ has[e]
    /\ assigned # e
    /\ has' = [has EXCEPT ![e] = FALSE]
    /\ UNCHANGED <<log, committed, offsetKept, assigned, pos, inboxVars,
                   shardVars, running, pc, handVars, stray, evals, faults>>

(* The broker drops a member that is gone.                                 *)
Evict(e) ==
    /\ assigned = e
    /\ pc[e] = "dead"
    /\ assigned' = Nobody
    /\ UNCHANGED <<log, committed, offsetKept, has, pos, inboxVars, shardVars,
                   running, pc, handVars, stray, evals, faults>>

(* poll_once: a stalled client may still return a message it has fetched   *)
(* before it lost the partition.                                           *)
Poll(e) ==
    /\ pc[e] = "idle"
    /\ has[e]
    /\ Stalls \/ assigned = e
    /\ pos[e] < Len(log)
    /\ pos' = [pos EXCEPT ![e] = pos[e] + 1]
    /\ cur' = [cur EXCEPT ![e] = log[pos[e] + 1]]
    /\ pc' = [pc EXCEPT ![e] = "polled"]
    /\ UNCHANGED <<log, committed, offsetKept, assigned, has, inboxVars,
                   shardVars, running, att, tok, ret, fut, stray, evals, faults>>

(* Back to the main loop with nothing of the batch left in the handler.    *)
Forget(e) ==
    /\ cur' = [cur EXCEPT ![e] = 0]
    /\ att' = [att EXCEPT ![e] = 0]
    /\ tok' = [tok EXCEPT ![e] = 0]
    /\ ret' = [ret EXCEPT ![e] = FALSE]
    /\ fut' = [fut EXCEPT ![e] = NoFutures]

(* Mutant: the offset committed is one too high.                           *)
CommittedOffset_OneMore(e) == pos[e] + 1

(* Committing a message stores the offset that follows it.                 *)
CommittedOffset(e) == pos[e]

(* handle returned True: commit.  The broker refuses the commit of a       *)
(* member that lost the partition, and the exception ends the worker.      *)
Commit(e) ==
    /\ pc[e] = "ack"
    /\ IF assigned = e
       THEN /\ committed' = CommittedOffset(e)
            /\ offsetKept' = TRUE
            /\ pc' = [pc EXCEPT ![e] = "idle"]
       ELSE /\ pc' = [pc EXCEPT ![e] = "closing"]
            /\ UNCHANGED <<committed, offsetKept>>
    /\ Forget(e)
    /\ UNCHANGED <<log, assigned, has, pos, inboxVars, shardVars, running,
                   stray, evals, faults>>

Rewound(e) == pos[e] - 1

(* handle returned False or raised: seek back to the message.              *)
Rewind(e) ==
    /\ pc[e] = "nack"
    /\ pos' = [pos EXCEPT ![e] = Rewound(e)]
    /\ pc' = [pc EXCEPT ![e] = "idle"]
    /\ Forget(e)
    /\ UNCHANGED <<log, committed, offsetKept, assigned, has, inboxVars,
                   shardVars, running, stray, evals, faults>>

-----------------------------------------------------------------------------
(* handle.                                                                 *)

HandUnchanged == UNCHANGED <<kafkaVars, running, stray, faults>>

(* Mutant: an expired claim of another evaluator is not taken over.        *)
Claimable_NoTakeover(e, b) ==
    \/ status[b] = "none"
    \/ /\ status[b] \in {"processing", "failed"}
       /\ by[b] = e \/ ilease[b] = "null"

(* The row is inserted, or taken over by the ON CONFLICT branch.           *)
Claimable(e, b) ==
    \/ status[b] = "none"
    \/ /\ status[b] \in {"processing", "failed"}
       /\ by[b] = e \/ ilease[b] # "live"

OneMoreAttempt(b) ==
    IF attempts[b] < MaxAttempts THEN attempts[b] + 1 ELSE MaxAttempts

Claim(e) ==
    /\ pc[e] = "polled"
    /\ Claimable(e, cur[e])
    /\ status' = [status EXCEPT ![cur[e]] = "processing"]
    /\ by' = [by EXCEPT ![cur[e]] = e]
    /\ ilease' = [ilease EXCEPT ![cur[e]] = "live"]
    /\ attempts' = [attempts EXCEPT ![cur[e]] = OneMoreAttempt(cur[e])]
    /\ att' = [att EXCEPT ![e] = OneMoreAttempt(cur[e])]
    /\ pc' = [pc EXCEPT ![e] = IF cur[e] \in Poison THEN "failing" ELSE "claimed"]
    /\ HandUnchanged
    /\ UNCHANGED <<shardVars, cur, tok, ret, fut, evals>>

Settled(b) == status[b] \in {"completed", "dead"}

(* Mutant: a batch another evaluator is working on is taken for done.      *)
Duplicate_Busy(b) == TRUE

(* A batch that is completed or dead is acknowledged; a busy one is not.   *)
Duplicate(b) == Settled(b)

ClaimRefused(e) ==
    /\ pc[e] = "polled"
    /\ ~Claimable(e, cur[e])
    /\ pc' = [pc EXCEPT ![e] = IF Duplicate(cur[e]) THEN "ack" ELSE "nack"]
    /\ HandUnchanged
    /\ UNCHANGED <<inboxVars, shardVars, handVars, evals>>

(* The shard lease is free, the caller's or expired.                       *)
ShardFree(e) == sowner = e \/ ~slive

AcquireShard(e) ==
    /\ pc[e] = "claimed"
    /\ IF ShardFree(e)
       THEN LET t == IF sowner = e THEN stoken ELSE stoken + 1
            IN  /\ sowner' = e
                /\ slive' = TRUE
                /\ stoken' = t
                /\ tok' = [tok EXCEPT ![e] = t]
                /\ pc' = [pc EXCEPT ![e] = "fenced"]
       ELSE /\ pc' = [pc EXCEPT ![e] = "shardbusy"]
            /\ UNCHANGED <<shardVars, tok>>
    /\ HandUnchanged
    /\ UNCHANGED <<inboxVars, cur, att, ret, fut, evals>>

(* running_strategy_ids, and one future for each of them.                  *)
ReadRunning(e) ==
    /\ pc[e] = "fenced"
    /\ fut' = [fut EXCEPT ![e] =
                 [s \in Strategies |-> IF s \in running THEN "run" ELSE "none"]]
    /\ pc' = [pc EXCEPT ![e] = "evaluating"]
    /\ HandUnchanged
    /\ UNCHANGED <<inboxVars, shardVars, cur, att, tok, ret, evals>>

Counted(b, s) ==
    [evals EXCEPT ![b] = [evals[b] EXCEPT ![s] = IF @ < 2 THEN @ + 1 ELSE 2]]

(* runtime_host.evaluate returns True or False, or raises.                 *)
Evaluated(e, s, r) ==
    /\ pc[e] = "evaluating"
    /\ fut[e][s] = "run"
    /\ fut' = [fut EXCEPT ![e] = [fut[e] EXCEPT ![s] = r]]
    /\ evals' = IF r = "ok" THEN Counted(cur[e], s) ELSE evals
    /\ HandUnchanged
    /\ UNCHANGED <<inboxVars, shardVars, pc, cur, att, tok, ret>>

(* A future nobody waits for any more.                                     *)
StrayEnds(e, b, s, r) ==
    /\ pc[e] # "dead"
    /\ <<b, s>> \in stray[e]
    /\ stray' = [stray EXCEPT ![e] = stray[e] \ {<<b, s>>}]
    /\ evals' = IF r = "ok" THEN Counted(b, s) ELSE evals
    /\ UNCHANGED <<kafkaVars, inboxVars, shardVars, running, pc, handVars, faults>>

(* Mutant: one evaluation is enough.                                       *)
AllTrue_Any(e) ==
    \/ \A s \in Strategies : fut[e][s] = "none"
    \/ \E s \in Strategies : fut[e][s] = "ok"

AllTrue(e) == \A s \in Strategies : fut[e][s] \in {"none", "ok"}

(* future.result() of every future, in the order of the ids: an exception  *)
(* is met only after the futures before it, and the ones after it go on.   *)
Collect(e) ==
    /\ pc[e] = "evaluating"
    /\ \/ /\ \A s \in Strategies : fut[e][s] \notin {"run", "raise"}
          /\ pc' = [pc EXCEPT ![e] = IF AllTrue(e) THEN "completing" ELSE "failing"]
          /\ UNCHANGED stray
       \/ \E s \in Strategies :
            /\ fut[e][s] = "raise"
            /\ \A r \in Strategies : r < s => fut[e][r] \notin {"run", "raise"}
            /\ pc' = [pc EXCEPT ![e] = "failing"]
            /\ stray' = [stray EXCEPT ![e] = stray[e] \cup
                           {<<cur[e], r>> : r \in {q \in Strategies : fut[e][q] = "run"}}]
    /\ fut' = [fut EXCEPT ![e] = NoFutures]
    /\ UNCHANGED <<kafkaVars, inboxVars, shardVars, running, cur, att, tok, ret,
                   evals, faults>>

(* Mutant: the claimed_by condition is missing.                            *)
Mine_AnyClaim(e) == status[cur[e]] = "processing"

(* complete and fail touch the row only while it is the caller's claim.    *)
Mine(e) == status[cur[e]] = "processing" /\ by[cur[e]] = e

Ended(e, st) ==
    IF Mine(e)
    THEN /\ status' = [status EXCEPT ![cur[e]] = st]
         /\ ilease' = [ilease EXCEPT ![cur[e]] = "null"]
    ELSE UNCHANGED <<status, ilease>>

(* The finally clause releases a shard that was acquired.                  *)
Returning(e, r) ==
    /\ ret' = [ret EXCEPT ![e] = r]
    /\ pc' = [pc EXCEPT ![e] = IF tok[e] > 0 THEN "releasing"
                               ELSE IF r THEN "ack" ELSE "nack"]

Complete(e) ==
    /\ pc[e] = "completing"
    /\ Ended(e, "completed")
    /\ Returning(e, Mine(e))
    /\ HandUnchanged
    /\ UNCHANGED <<by, attempts, shardVars, cur, att, tok, fut, evals>>

FailBusy(e) ==
    /\ pc[e] = "shardbusy"
    /\ Ended(e, "failed")
    /\ Returning(e, FALSE)
    /\ HandUnchanged
    /\ UNCHANGED <<by, attempts, shardVars, cur, att, tok, fut, evals>>

(* The except clause: the last attempt is terminal, and acknowledged       *)
(* whether or not the row was still the caller's.                          *)
Fail(e) ==
    LET terminal == att[e] >= MaxAttempts
    IN  /\ pc[e] = "failing"
        /\ Ended(e, IF terminal THEN "dead" ELSE "failed")
        /\ Returning(e, terminal)
        /\ HandUnchanged
        /\ UNCHANGED <<by, attempts, shardVars, cur, att, tok, fut, evals>>

ReleaseShard(e) ==
    /\ pc[e] = "releasing"
    /\ IF sowner = e /\ stoken = tok[e]
       THEN sowner' = Nobody /\ slive' = FALSE
       ELSE UNCHANGED <<sowner, slive>>
    /\ pc' = [pc EXCEPT ![e] = IF ret[e] THEN "ack" ELSE "nack"]
    /\ HandUnchanged
    /\ UNCHANGED <<inboxVars, stoken, handVars, evals>>

(* A statement that raises.  claim is outside the try block; an exception  *)
(* of fail leaves handle through the finally clause; an exception of       *)
(* release is logged.                                                      *)
SqlError(e) ==
    /\ Fault
    /\ pc[e] \in {"polled", "claimed", "fenced", "completing", "shardbusy",
                  "failing", "releasing"}
    /\ pc' = [pc EXCEPT ![e] =
         CASE pc[e] = "polled" -> "nack"
           [] pc[e] \in {"claimed", "fenced", "completing", "shardbusy"} -> "failing"
           [] pc[e] = "failing" -> IF tok[e] > 0 THEN "releasing" ELSE "nack"
           [] pc[e] = "releasing" -> IF ret[e] THEN "ack" ELSE "nack"]
    /\ UNCHANGED <<kafkaVars, inboxVars, shardVars, running, handVars, stray,
                   evals>>

-----------------------------------------------------------------------------
(* Leases, the process and the strategies.                                 *)

ExpireInbox(b) ==
    /\ ilease[b] = "live"
    /\ ilease' = [ilease EXCEPT ![b] = "expired"]
    /\ UNCHANGED <<kafkaVars, status, by, attempts, shardVars, running, pc,
                   handVars, stray, evals, faults>>

ExpireShard ==
    /\ slive
    /\ slive' = FALSE
    /\ UNCHANGED <<kafkaVars, inboxVars, sowner, stoken, running, pc, handVars,
                   stray, evals, faults>>

StopStrategy(s) ==
    /\ s \in running
    /\ running' = running \ {s}
    /\ UNCHANGED <<kafkaVars, inboxVars, shardVars, pc, handVars, stray, evals,
                   faults>>

(* A shutdown signal is seen between two polls.                            *)
Shutdown(e) ==
    /\ Fault
    /\ pc[e] = "idle"
    /\ pc' = [pc EXCEPT ![e] = "closing"]
    /\ UNCHANGED <<kafkaVars, inboxVars, shardVars, running, handVars, stray,
                   evals>>

(* consumer.close leaves the group; handler.close waits for the pool and   *)
(* releases every shard of the worker.                                     *)
Close(e) ==
    /\ pc[e] = "closing"
    /\ stray[e] = {}
    /\ assigned' = IF assigned = e THEN Nobody ELSE assigned
    /\ has' = [has EXCEPT ![e] = FALSE]
    /\ IF sowner = e
       THEN sowner' = Nobody /\ slive' = FALSE
       ELSE UNCHANGED <<sowner, slive>>
    /\ pc' = [pc EXCEPT ![e] = "dead"]
    /\ UNCHANGED <<log, committed, offsetKept, pos, inboxVars, stoken, running,
                   handVars, stray, evals, faults>>

Crash(e) ==
    /\ Fault
    /\ pc[e] # "dead"
    /\ pc' = [pc EXCEPT ![e] = "dead"]
    /\ has' = [has EXCEPT ![e] = FALSE]
    /\ stray' = [stray EXCEPT ![e] = {}]
    /\ Forget(e)
    /\ UNCHANGED <<log, committed, offsetKept, assigned, pos, inboxVars,
                   shardVars, running, evals>>

Handle(e) ==
    \/ Claim(e) \/ ClaimRefused(e) \/ AcquireShard(e) \/ ReadRunning(e)
    \/ Collect(e) \/ Complete(e) \/ FailBusy(e) \/ Fail(e) \/ ReleaseShard(e)
    \/ Commit(e) \/ Rewind(e)

Evaluate(e) ==
    \/ \E s \in Strategies, r \in {"ok", "bad", "raise"} : Evaluated(e, s, r)
    \/ \E b \in Batches, s \in Strategies, r \in {"ok", "bad"} : StrayEnds(e, b, s, r)

Next ==
    \/ \E b \in Batches : Publish(b) \/ ExpireInbox(b)
    \/ ExpireShard
    \/ \E s \in Strategies : StopStrategy(s)
    \/ \E e \in Evaluators :
         \/ Assign(e) \/ Revoke(e) \/ LoseSession(e) \/ NoticeLost(e) \/ Evict(e)
         \/ Poll(e) \/ Handle(e) \/ Evaluate(e) \/ SqlError(e)
         \/ Shutdown(e) \/ Close(e) \/ Crash(e)

Spec == Init /\ [][Next]_vars

(* Processes that are alive run, futures end (evaluate has a timeout),     *)
(* leases expire, and the group reassigns the partition.                   *)
Fairness ==
    /\ \A b \in Batches : WF_vars(ExpireInbox(b))
    /\ WF_vars(ExpireShard)
    /\ \A e \in Evaluators :
         /\ WF_vars(Assign(e)) /\ WF_vars(NoticeLost(e)) /\ WF_vars(Evict(e))
         /\ WF_vars(Poll(e)) /\ WF_vars(Handle(e)) /\ WF_vars(Evaluate(e))
         /\ WF_vars(Close(e))

FairSpec == Spec /\ Fairness

-----------------------------------------------------------------------------
(* Properties.                                                             *)

Outcome == [b \in Batches |-> IF Settled(b) THEN status[b] ELSE "open"]

Ledger == INSTANCE BatchLedger WITH outcome <- Outcome

(* The evaluators implement the ledger: whatever crashes, rebalances,      *)
(* duplicates and expired claims happen, handle settles a batch at most    *)
(* once and in log order, and poll_once commits only past settled ones.    *)
SettledInOrder == Ledger!Spec

(* A batch is marked completed only after each of its strategies that has  *)
(* not been stopped was evaluated with success, even when evaluators take  *)
(* the batch from each other half way through.                             *)
CompletedEvaluated ==
    \A b \in Batches : status[b] = "completed" =>
        \A s \in running : evals[b][s] > 0

(* A batch in the log is completed or dead in the end, as long as one      *)
(* evaluator survives.                                                     *)
BatchesSettle ==
    \A b \in Batches :
        (\E i \in 1 .. Len(log) : log[i] = b)
          ~> (Settled(b) \/ \A e \in Evaluators : pc[e] \in {"closing", "dead"})

(* docs/architecture/V5_6: retrying the same event id does not evaluate it *)
(* twice.                                                                  *)
EvaluatedOnce == \A b \in Batches, s \in Strategies : evals[b][s] < 2

(* docs/architecture/V5_6: the shard fence covers an old worker that is    *)
(* still finishing.  An evaluator whose token was superseded does not      *)
(* complete a batch.                                                       *)
FencedCompletion ==
    [][\A e \in Evaluators :
         (pc[e] = "completing" /\ Mine(e) /\ status'[cur[e]] = "completed")
            => tok[e] = stoken]_vars
=============================================================================
