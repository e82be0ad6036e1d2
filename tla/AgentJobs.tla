------------------------------ MODULE AgentJobs ------------------------------
(***************************************************************************)
(* Billed agent jobs (utils/agent_jobs.py, tasks/agent_jobs.py): the job   *)
(* row with its charge, the Celery task that may be lost or delivered      *)
(* again, the runners, cancellation, and the periodic expiry that returns  *)
(* the credits of jobs nobody finishes.                                    *)
(***************************************************************************)
EXTENDS UserAccount

CONSTANTS
    Runners    \* Celery workers (or threads of the local executor)

ASSUME JobAssumption == Jobs \subseteq Nat \ {0}

VARIABLES
    job,       \* qd_agent_jobs.status, "none" before the submission
    progress,  \* the phase of qd_agent_jobs.progress
    sent,      \* the jobs whose task is in the queue
    old,       \* the jobs created longer ago than the billing timeout
    hand,      \* the job a runner works on, 0 for none
    stage,     \* where a runner is: idle, took, publish or run
    picked     \* the jobs the expiry scan has selected and not yet failed

jobVars == <<job, progress, sent, old, hand, stage, picked>>

Active == {"queued", "running"}
Ended == {"succeeded", "failed", "cancelled"}

JobsInit ==
    /\ job = [j \in Jobs |-> "none"]
    /\ progress = [j \in Jobs |-> "none"]
    /\ sent = {} /\ old = {} /\ picked = {}
    /\ hand = [r \in Runners |-> 0]
    /\ stage = [r \in Runners |-> "idle"]

(* submit_job up to its commit: the debit and the row are one transaction, *)
(* and a submission that repeats an idempotency key returns the first row. *)
SubmitJob(j) ==
    /\ job[j] = "none" /\ \A x \in 1 .. j - 1 : job[x] # "none"
    /\ Consume(j)
    /\ job' = [job EXCEPT ![j] = "queued"]
    /\ UNCHANGED <<progress, sent, old, hand, stage, picked>>

(* Mutant: the outcome is written without looking at the status first. *)
FinishJob_Blind(j, outcome) ==
    /\ job' = [job EXCEPT ![j] = outcome]
    /\ progress' = [progress EXCEPT ![j] = outcome]
    /\ sent' = sent \ {j} /\ old' = old \ {j}
    /\ IF outcome = "succeeded" THEN UNCHANGED <<credits, logVars>>
                                ELSE Refund(j)

(* _finish_job: the row lock is taken first, so the terminal state and the *)
(* refund belong to the one transition that wins.  Nothing looks at the    *)
(* task or the age of a job that has ended.                                *)
FinishJob(j, outcome) ==
    IF job[j] \in Active
      THEN /\ job' = [job EXCEPT ![j] = outcome]
           /\ progress' = [progress EXCEPT ![j] = outcome]
           /\ sent' = sent \ {j} /\ old' = old \ {j}
           /\ IF outcome = "succeeded" THEN UNCHANGED <<credits, logVars>>
                                       ELSE Refund(j)
      ELSE UNCHANGED <<job, progress, sent, old, credits, logVars>>

(* The dispatch after the commit: the task is queued, or the broker        *)
(* refuses it and the job fails.  A process that dies here does neither.   *)
Dispatch(j) ==
    /\ job[j] \in Active /\ j \notin sent
    /\ sent' = sent \union {j}
    /\ UNCHANGED <<credits, logVars, job, progress, old, hand, stage, picked>>

DispatchFails(j) ==
    /\ job[j] \in Active /\ j \notin sent
    /\ FinishJob(j, "failed")
    /\ UNCHANGED <<hand, stage, picked>>

(* execute_agent_job: the task is delivered at least once (acks_late), and *)
(* a job that has ended is not looked at again.                            *)
TakeJob(r, j) ==
    /\ stage[r] = "idle" /\ j \in sent /\ job[j] \in Active
    /\ hand' = [hand EXCEPT ![r] = j]
    /\ stage' = [stage EXCEPT ![r] = "took"]
    /\ UNCHANGED <<credits, logVars, job, progress, sent, old, picked>>

Drop(r) ==
    /\ hand' = [hand EXCEPT ![r] = 0]
    /\ stage' = [stage EXCEPT ![r] = "idle"]

(* _set_status(running) succeeds from queued only. *)
StartJob(r) ==
    /\ stage[r] = "took"
    /\ IF job[hand[r]] = "queued"
         THEN /\ job' = [job EXCEPT ![hand[r]] = "running"]
              /\ stage' = [stage EXCEPT ![r] = "publish"]
              /\ UNCHANGED hand
         ELSE Drop(r) /\ UNCHANGED job
    /\ UNCHANGED <<credits, logVars, progress, sent, old, picked>>

(* _publish_progress of a phase that is not terminal. *)
Publish(j) == IF job[j] \in Active
                THEN progress' = [progress EXCEPT ![j] = "running"]
                ELSE UNCHANGED progress

(* The runner reports progress, and stops when the job was cancelled. *)
ReportProgress(r) ==
    /\ stage[r] \in {"publish", "run"}
    /\ IF stage[r] = "run" /\ job[hand[r]] = "cancelled"
         THEN Drop(r) /\ UNCHANGED progress
         ELSE /\ Publish(hand[r])
              /\ stage' = [stage EXCEPT ![r] = "run"]
              /\ UNCHANGED hand
    /\ UNCHANGED <<credits, logVars, job, sent, old, picked>>

EndRun(r) ==
    /\ stage[r] = "run"
    /\ \E outcome \in {"succeeded", "failed"} : FinishJob(hand[r], outcome)
    /\ Drop(r)
    /\ UNCHANGED picked

(* A runner dies; the broker delivers its task again. *)
RunnerDies(r) ==
    /\ stage[r] # "idle"
    /\ Drop(r)
    /\ UNCHANGED <<credits, logVars, job, progress, sent, old, picked>>

CancelJob(j) ==
    /\ job[j] \in Active
    /\ FinishJob(j, "cancelled")
    /\ UNCHANGED <<hand, stage, picked>>

TimeoutPasses(j) ==
    /\ job[j] \in Active /\ j \notin old
    /\ old' = old \union {j}
    /\ UNCHANGED <<credits, logVars, job, progress, sent, hand, stage, picked>>

(* Mutant: only jobs that were never started are expired. *)
ExpireScan_QueuedOnly ==
    /\ picked = {}
    /\ picked' = {j \in old : job[j] = "queued"}
    /\ picked' # {}
    /\ UNCHANGED <<credits, logVars, job, progress, sent, old, hand, stage>>

(* expire_billed_jobs selects the jobs in one transaction ... *)
ExpireScan ==
    /\ picked = {}
    /\ picked' = {j \in old : job[j] \in Active}
    /\ picked' # {}
    /\ UNCHANGED <<credits, logVars, job, progress, sent, old, hand, stage>>

(* ... and fails each in another, by which time it may have ended. *)
ExpireJob(j) ==
    /\ j \in picked
    /\ picked' = picked \ {j}
    /\ FinishJob(j, "failed")
    /\ UNCHANGED <<hand, stage>>

JobsNext ==
    \/ \E j \in Jobs : SubmitJob(j)
    \/ \E j \in Jobs : Dispatch(j)
    \/ \E j \in Jobs : DispatchFails(j)
    \/ \E r \in Runners, j \in Jobs : TakeJob(r, j)
    \/ \E r \in Runners : StartJob(r)
    \/ \E r \in Runners : ReportProgress(r)
    \/ \E r \in Runners : EndRun(r)
    \/ \E j \in Jobs : CancelJob(j)
    \/ \E j \in Jobs : TimeoutPasses(j)
    \/ ExpireScan
    \/ \E j \in Jobs : ExpireJob(j)
=============================================================================
