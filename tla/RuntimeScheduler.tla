-------------------------- MODULE RuntimeScheduler --------------------------
(***************************************************************************)
(* The cooperative scheduler of strategy runtimes                          *)
(* (services/strategy_runtime/scheduler.py): a fixed pool of worker        *)
(* threads advances generators; a heap holds when each is due; events wake *)
(* a sleeping runtime, and an evaluator waits for the cycle it triggered.  *)
(*                                                                         *)
(* A section under `_condition' is one step, and so is each statement      *)
(* outside it that another thread can observe.  Every schedule raises the  *)
(* handle's version, which makes its older heap entries stale, so the heap *)
(* is kept as the one entry per handle that is not stale, and the version  *)
(* a worker popped as the fact that nothing was scheduled since (`fresh'). *)
(***************************************************************************)
EXTENDS Naturals, FiniteSets

CONSTANTS
    Handles,    \* runtimes, one per strategy
    Workers,    \* threads of the pool
    Waiters,    \* threads that call wake_strategy_and_wait
    MaxWakes,   \* bound on calls of wake_strategy and wake_strategy_and_wait
    EarlyWakes, \* a wake may fall inside handle.start()
    NoHandle

ASSUME SchedulerAssumption ==
    /\ NoHandle \notin Handles
    /\ MaxWakes \in Nat
    /\ EarlyWakes \in BOOLEAN

(* The states of a waiter's cycle are no names of workers.                 *)
ASSUME CycleAssumption == "none" \notin Workers /\ "over" \notin Workers

VARIABLES
    start,    \* handle.start(): "no", "half" (_started is set), "yes"
    finished, \* _done
    stop,     \* stop_event
    entry,    \* the valid heap entry of the handle
    running,  \* _running
    pending,  \* _event_pending
    queued,   \* _event_wake_queued
    runLock,  \* handles whose _run_lock is held
    pc,       \* worker thread: where it is in _run
    at,       \* the handle it popped
    fresh,    \* the version it popped is still the handle's
    delay,    \* what next(runtime) yielded: more than 0
    wait,     \* waiter: the handle it waits for
    left,     \* steps missing to target_step
    cycle,    \* the cycle the waiter triggered: "none", the worker that has
              \* begun it, or "over" (history)
    owed,     \* a wake was accepted and no cycle has begun since (history)
    closed,   \* _closed
    wakes     \* calls so far

handleVars == <<start, finished, stop, entry, running, pending, queued, owed>>
workerVars == <<runLock, pc, at, fresh, delay>>
waiterVars == <<wait, left, cycle, wakes>>
vars == <<handleVars, workerVars, waiterVars, closed>>

-----------------------------------------------------------------------------
(* Heap entries: none, one that is due, one that is not due yet; an entry  *)
(* pushed by an event says so.                                             *)
Entries == {"none", "due", "event", "later"}
Steps == {"idle", "popped", "skipping", "stepping", "stopping", "stepped",
          "marked", "ended", "over", "exited"}

(* Type invariant: handles, heap entries, threads and waiters keep their   *)
(* types, and no waiter waits for more than two steps.                     *)
TypeOK ==
    /\ start \in [Handles -> {"no", "half", "yes"}]
    /\ finished \in [Handles -> BOOLEAN]
    /\ stop \in [Handles -> BOOLEAN]
    /\ entry \in [Handles -> Entries]
    /\ running \in [Handles -> BOOLEAN]
    /\ pending \in [Handles -> BOOLEAN]
    /\ queued \in [Handles -> BOOLEAN]
    /\ runLock \in [Handles -> BOOLEAN]
    /\ pc \in [Workers -> Steps]
    /\ at \in [Workers -> Handles \cup {NoHandle}]
    /\ fresh \in [Workers -> BOOLEAN]
    /\ delay \in [Workers -> BOOLEAN]
    /\ wait \in [Waiters -> Handles \cup {NoHandle}]
    /\ left \in [Waiters -> 0 .. 2]
    /\ cycle \in [Waiters -> {"none", "over"} \cup Workers]
    /\ owed \in [Handles -> BOOLEAN]
    /\ closed \in BOOLEAN
    /\ wakes \in 0 .. MaxWakes

Init ==
    /\ start = [h \in Handles |-> "no"]
    /\ finished = [h \in Handles |-> FALSE]
    /\ stop = [h \in Handles |-> FALSE]
    /\ entry = [h \in Handles |-> "none"]
    /\ running = [h \in Handles |-> FALSE]
    /\ pending = [h \in Handles |-> FALSE]
    /\ queued = [h \in Handles |-> FALSE]
    /\ runLock = [h \in Handles |-> FALSE]
    /\ pc = [w \in Workers |-> "idle"]
    /\ at = [w \in Workers |-> NoHandle]
    /\ fresh = [w \in Workers |-> FALSE]
    /\ delay = [w \in Workers |-> FALSE]
    /\ wait = [t \in Waiters |-> NoHandle]
    /\ left = [t \in Waiters |-> 0]
    /\ cycle = [t \in Waiters |-> "none"]
    /\ owed = [h \in Handles |-> FALSE]
    /\ closed = FALSE
    /\ wakes = 0

Alive(h) == start[h] # "no" /\ ~finished[h]

(* Mutant: the version is raised and no entry is pushed.                   *)
Schedule_NoPush(h, e) ==
    /\ entry' = entry
    /\ fresh' = [w \in Workers |-> fresh[w] /\ at[w] # h]

(* _schedule_locked: the new entry replaces the handle's, and a worker     *)
(* that popped an earlier version will find it changed.                    *)
Schedule(h, e) ==
    /\ entry' = [entry EXCEPT ![h] = e]
    /\ fresh' = [w \in Workers |-> fresh[w] /\ at[w] # h]

-----------------------------------------------------------------------------
(* The handle.                                                             *)

(* create and the first half of start.  The thread that creates a handle   *)
(* starts it at once, and is the one that closes the scheduler.            *)
StartBegin(h) ==
    /\ start[h] = "no"
    /\ ~closed
    /\ start' = [start EXCEPT ![h] = "half"]
    /\ UNCHANGED <<finished, stop, entry, running, pending, queued, owed,
                   workerVars, waiterVars, closed>>

StartSchedule(h) ==
    /\ start[h] = "half"
    /\ start' = [start EXCEPT ![h] = "yes"]
    /\ Schedule(h, "due")
    /\ UNCHANGED <<finished, stop, running, pending, queued, owed, runLock, pc,
                   at, delay, waiterVars, closed>>

(* cancel sets the stop event and wakes the runtime if it is alive.  It is *)
(* called by stop_strategy, after start has returned.                      *)
Cancel(h) ==
    /\ start[h] # "half"
    /\ ~stop[h]
    /\ stop' = [stop EXCEPT ![h] = TRUE]
    /\ IF Alive(h) THEN Schedule(h, "due") ELSE UNCHANGED <<entry, fresh>>
    /\ UNCHANGED <<start, finished, running, pending, queued, owed, runLock, pc,
                   at, delay, waiterVars, closed>>

-----------------------------------------------------------------------------
(* Waking.                                                                 *)

Wakeable(h) ==
    /\ wakes < MaxWakes
    /\ Alive(h) /\ ~closed
    /\ EarlyWakes \/ start[h] = "yes"

(* An event is remembered; it is put in the heap unless a cycle is running *)
(* (which looks at `pending' when it ends) or an event entry is queued.    *)
MarkWake(h) ==
    /\ pending' = [pending EXCEPT ![h] = TRUE]
    /\ owed' = [owed EXCEPT ![h] = TRUE]
    /\ wakes' = wakes + 1
    /\ IF running[h] \/ queued[h]
       THEN UNCHANGED <<queued, entry, fresh>>
       ELSE queued' = [queued EXCEPT ![h] = TRUE] /\ Schedule(h, "event")

Wake(h) ==
    /\ Wakeable(h)
    /\ MarkWake(h)
    /\ UNCHANGED <<start, finished, stop, running, runLock, pc, at, delay, wait,
                   left, cycle, closed>>

(* Mutant: the step under way counts as the triggered one.                 *)
StepsToWait_One(h) == 1

(* Mutant: one step more than the running and the triggered one.           *)
StepsToWait_Three(h) == IF running[h] THEN 3 ELSE 1

(* target_step - completed_steps.                                          *)
StepsToWait(h) == IF running[h] THEN 2 ELSE 1

WakeAndWait(t, h) ==
    /\ wait[t] = NoHandle
    /\ Wakeable(h)
    /\ MarkWake(h)
    /\ wait' = [wait EXCEPT ![t] = h]
    /\ left' = [left EXCEPT ![t] = StepsToWait(h)]
    /\ cycle' = [cycle EXCEPT ![t] = "none"]
    /\ UNCHANGED <<start, finished, stop, running, runLock, pc, at, delay, closed>>

Leave(t) ==
    /\ wait' = [wait EXCEPT ![t] = NoHandle]
    /\ left' = [left EXCEPT ![t] = 0]
    /\ cycle' = [cycle EXCEPT ![t] = "none"]
    /\ UNCHANGED <<handleVars, workerVars, wakes, closed>>

(* wait_for_step returns True once target_step is reached, and False when  *)
(* the runtime is done or the timeout has passed.                          *)
Acknowledge(t) == wait[t] # NoHandle /\ left[t] = 0 /\ Leave(t)
WaitFails(t) == wait[t] # NoHandle /\ left[t] > 0 /\ Leave(t)

-----------------------------------------------------------------------------
(* The worker threads.                                                     *)

(* Time passes.                                                            *)
Elapse(h) ==
    /\ entry[h] = "later"
    /\ entry' = [entry EXCEPT ![h] = "due"]
    /\ UNCHANGED <<start, finished, stop, running, pending, queued, owed,
                   workerVars, waiterVars, closed>>

(* The entry of a runtime that is done is dropped.                         *)
Drop(h) ==
    /\ entry[h] # "none"
    /\ ~Alive(h)
    /\ entry' = [entry EXCEPT ![h] = "none"]
    /\ UNCHANGED <<start, finished, stop, running, pending, queued, owed,
                   workerVars, waiterVars, closed>>

(* The entry that is due is popped; from here on the handle is running.    *)
Pop(w, h) ==
    /\ pc[w] = "idle"
    /\ entry[h] \in {"due", "event"}
    /\ Alive(h)
    /\ entry' = [entry EXCEPT ![h] = "none"]
    /\ queued' = [queued EXCEPT ![h] = queued[h] /\ entry[h] # "event"]
    /\ pending' = [pending EXCEPT ![h] = FALSE]
    /\ running' = [running EXCEPT ![h] = TRUE]
    /\ pc' = [pc EXCEPT ![w] = "popped"]
    /\ at' = [at EXCEPT ![w] = h]
    /\ fresh' = [fresh EXCEPT ![w] = TRUE]
    /\ UNCHANGED <<start, finished, stop, owed, runLock, delay, waiterVars, closed>>

(* Under _run_lock the handle is looked at again; next(runtime) begins if  *)
(* nothing was scheduled since.  A runtime that sees its stop event ends.  *)
Lock(w) ==
    LET h == at[w]
        ok == Alive(h) /\ fresh[w]
    IN  /\ pc[w] = "popped"
        /\ ~runLock[h]
        /\ runLock' = [runLock EXCEPT ![h] = TRUE]
        /\ pc' = [pc EXCEPT ![w] = IF ~ok THEN "skipping"
                                   ELSE IF stop[h] THEN "stopping" ELSE "stepping"]
        /\ owed' = IF ok THEN [owed EXCEPT ![h] = FALSE] ELSE owed
        /\ cycle' = [t \in Waiters |->
                       IF ok /\ wait[t] = h /\ cycle[t] = "none" THEN w ELSE cycle[t]]
        /\ UNCHANGED <<start, finished, stop, entry, running, pending, queued, at,
                       fresh, delay, wait, left, wakes, closed>>

Idle(w) ==
    /\ pc' = [pc EXCEPT ![w] = "idle"]
    /\ at' = [at EXCEPT ![w] = NoHandle]
    /\ delay' = [delay EXCEPT ![w] = FALSE]

Skip(w) ==
    /\ pc[w] = "skipping"
    /\ running' = [running EXCEPT ![at[w]] = FALSE]
    /\ runLock' = [runLock EXCEPT ![at[w]] = FALSE]
    /\ Idle(w)
    /\ fresh' = [fresh EXCEPT ![w] = FALSE]
    /\ UNCHANGED <<start, finished, stop, entry, pending, queued, owed,
                   waiterVars, closed>>

(* The runtime yields the delay to its next cycle.                         *)
Yield(w, d) ==
    /\ pc[w] = "stepping"
    /\ delay' = [delay EXCEPT ![w] = d]
    /\ runLock' = [runLock EXCEPT ![at[w]] = FALSE]
    /\ pc' = [pc EXCEPT ![w] = "stepped"]
    /\ UNCHANGED <<handleVars, at, fresh, waiterVars, closed>>

(* The runtime returns or raises.                                          *)
End(w) ==
    /\ pc[w] \in {"stepping", "stopping"}
    /\ running' = [running EXCEPT ![at[w]] = FALSE]
    /\ pc' = [pc EXCEPT ![w] = "ended"]
    /\ UNCHANGED <<start, finished, stop, entry, pending, queued, owed, runLock,
                   at, fresh, delay, waiterVars, closed>>

MarkDone(w) ==
    /\ pc[w] = "ended"
    /\ finished' = [finished EXCEPT ![at[w]] = TRUE]
    /\ pc' = [pc EXCEPT ![w] = "over"]
    /\ UNCHANGED <<start, stop, entry, running, pending, queued, owed, runLock,
                   at, fresh, delay, waiterVars, closed>>

ForgetHandle(w) ==
    /\ pc[w] = "over"
    /\ runLock' = [runLock EXCEPT ![at[w]] = FALSE]
    /\ Idle(w)
    /\ fresh' = [fresh EXCEPT ![w] = FALSE]
    /\ UNCHANGED <<handleVars, waiterVars, closed>>

(* The step is counted before the handle is taken off `running'.           *)
MarkStepComplete(w) ==
    /\ pc[w] = "stepped"
    /\ left' = [t \in Waiters |->
                  IF wait[t] = at[w] /\ left[t] > 0 THEN left[t] - 1 ELSE left[t]]
    /\ cycle' = [t \in Waiters |-> IF cycle[t] = w THEN "over" ELSE cycle[t]]
    /\ pc' = [pc EXCEPT ![w] = "marked"]
    /\ UNCHANGED <<handleVars, runLock, at, fresh, delay, wait, wakes, closed>>

(* Mutant: an event that came during the cycle waits for the next delay.   *)
NextEntry_Sleeps(w) == IF delay[w] THEN "later" ELSE "due"

(* A pending event or a stop makes the next cycle due at once.             *)
NextEntry(w) ==
    IF pending[at[w]] THEN "event"
    ELSE IF stop[at[w]] \/ ~delay[w] THEN "due" ELSE "later"

Reschedule(w) ==
    LET h == at[w]
    IN  /\ pc[w] = "marked"
        /\ running' = [running EXCEPT ![h] = FALSE]
        /\ queued' = [queued EXCEPT ![h] = queued[h] \/ pending[h]]
        /\ Schedule(h, NextEntry(w))
        /\ Idle(w)
        /\ UNCHANGED <<start, finished, stop, pending, owed, runLock, waiterVars,
                       closed>>

(* close sets _closed and then cancels every handle.                       *)
Close ==
    /\ ~closed
    /\ \A h \in Handles : start[h] # "half"
    /\ closed' = TRUE
    /\ UNCHANGED <<handleVars, workerVars, waiterVars>>

(* Mutant: a worker leaves a closed scheduler with entries in the heap.    *)
Exit_Early(w) ==
    /\ pc[w] = "idle"
    /\ closed
    /\ pc' = [pc EXCEPT ![w] = "exited"]
    /\ UNCHANGED <<handleVars, runLock, at, fresh, delay, waiterVars, closed>>

Exit(w) ==
    /\ pc[w] = "idle"
    /\ closed
    /\ \A h \in Handles : entry[h] = "none"
    /\ pc' = [pc EXCEPT ![w] = "exited"]
    /\ UNCHANGED <<handleVars, runLock, at, fresh, delay, waiterVars, closed>>

Work(w) ==
    \/ \E h \in Handles : Pop(w, h)
    \/ Lock(w) \/ Skip(w) \/ End(w) \/ MarkDone(w) \/ ForgetHandle(w)
    \/ MarkStepComplete(w) \/ Reschedule(w) \/ Exit(w)
    \/ \E d \in BOOLEAN : Yield(w, d)

Next ==
    \/ \E h \in Handles :
         StartBegin(h) \/ StartSchedule(h) \/ Cancel(h) \/ Wake(h) \/ Elapse(h) \/ Drop(h)
    \/ \E t \in Waiters :
         (\E h \in Handles : WakeAndWait(t, h)) \/ Acknowledge(t) \/ WaitFails(t)
    \/ \E w \in Workers : Work(w)
    \/ Close

Spec == Init /\ [][Next]_vars

(* Threads are scheduled, a cycle ends, delays elapse; a scheduler that is *)
(* closed goes on to cancel its handles.  The heap is ordered by due time, *)
(* so an entry that is due is overtaken only finitely often: its pop is    *)
(* strongly fair.                                                          *)
Fairness ==
    /\ \A h \in Handles :
         /\ WF_vars(StartSchedule(h)) /\ WF_vars(Elapse(h)) /\ WF_vars(Drop(h))
         /\ WF_vars(closed /\ Cancel(h))
         /\ SF_vars(\E w \in Workers : Pop(w, h))
    /\ \A w \in Workers : WF_vars(Work(w))
    /\ \A t \in Waiters : WF_vars(Acknowledge(t))

FairSpec == Spec /\ Fairness

-----------------------------------------------------------------------------
(* Properties.                                                             *)

Holds(w, h) ==
    /\ at[w] = h
    /\ \/ pc[w] = "popped" /\ fresh[w]
       \/ pc[w] \in {"stepping", "stopping", "stepped", "marked", "ended"}

(* A started runtime is never forgotten by the pool: it has a valid heap   *)
(* entry, or a worker holds it and will run or reschedule it, however      *)
(* wakes, cancels and version checks interleave.                           *)
AliveScheduled ==
    \A h \in Handles : (start[h] = "yes" /\ ~finished[h]) =>
        entry[h] # "none" \/ \E w \in Workers : Holds(w, h)

(* A runtime that owes a cycle to an accepted wake does not sleep: neither *)
(* wake_strategy nor the coalescing at the end of _run loses an event.     *)
WakeHonoured ==
    \A h \in Handles : (owed[h] /\ Alive(h)) => entry[h] # "later"

Acknowledged(t) == wait[t] # NoHandle /\ left[t] = 0

(* While the runtime is not being stopped, wake_strategy_and_wait reports  *)
(* success only after a cycle that began after the wake has completed.     *)
AckSound ==
    \A t \in Waiters : (Acknowledged(t) /\ ~stop[wait[t]]) => cycle[t] = "over"

(* A cancelled or closed runtime comes to an end.                          *)
CancelEnds ==
    \A h \in Handles :
        ((stop[h] \/ closed) /\ Alive(h)) ~> finished[h]
=============================================================================
