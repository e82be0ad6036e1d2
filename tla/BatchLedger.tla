---------------------------- MODULE BatchLedger ----------------------------
(***************************************************************************)
(* What the evaluators promise about one partition of the evaluation       *)
(* topic: batches are settled once, in the order of the log, and the       *)
(* committed offset never passes a batch that is not settled.  Messages    *)
(* may repeat a batch; a repeated batch is not settled again.              *)
(***************************************************************************)
EXTENDS Naturals, Sequences

CONSTANT Batches

VARIABLES
    log,       \* messages of the partition, each naming a batch
    outcome,   \* what became of every batch
    committed  \* offset the consumer group resumes from

ledgerVars == <<log, outcome, committed>>

Outcomes == {"open", "completed", "dead"}

Init ==
    /\ log = <<>>
    /\ outcome = [b \in Batches |-> "open"]
    /\ committed = 0

Publish(b) ==
    /\ log' = Append(log, b)
    /\ UNCHANGED <<outcome, committed>>

(* Every message before the one at offset i names a settled batch.         *)
SettledBefore(i) == \A j \in 1 .. (i - 1) : outcome[log[j]] # "open"

Settle(b, o) ==
    /\ outcome[b] = "open"
    /\ \E i \in 1 .. Len(log) : log[i] = b /\ SettledBefore(i)
    /\ outcome' = [outcome EXCEPT ![b] = o]
    /\ UNCHANGED <<log, committed>>

Commit ==
    /\ committed < Len(log)
    /\ outcome[log[committed + 1]] # "open"
    /\ committed' = committed + 1
    /\ UNCHANGED <<log, outcome>>

Next ==
    \/ \E b \in Batches : Publish(b)
    \/ \E b \in Batches, o \in {"completed", "dead"} : Settle(b, o)
    \/ Commit

Spec == Init /\ [][Next]_ledgerVars
=============================================================================
