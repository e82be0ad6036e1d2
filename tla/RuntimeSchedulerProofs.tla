----------------------- MODULE RuntimeSchedulerProofs -----------------------
(***************************************************************************)
(* The pool never forgets a runtime and never sleeps over a wake, for any  *)
(* number of runtimes, workers and waiting threads.                        *)
(***************************************************************************)
EXTENDS RuntimeScheduler, TLAPS

Busy == {"popped", "skipping", "stepping", "stopping", "stepped", "marked",
         "ended", "over"}
Locked == {"skipping", "stepping", "stopping", "ended", "over"}

(* A worker has a handle exactly while it is busy, and the lock of a       *)
(* handle is held exactly by the worker inside it.                         *)
Shape ==
    /\ \A w \in Workers : pc[w] \in Busy <=> at[w] # NoHandle
    /\ \A w, v \in Workers :
         (pc[w] \in Locked /\ pc[v] \in Locked /\ at[w] = at[v]) => w = v
    /\ \A w \in Workers : pc[w] \in Locked => runLock[at[w]]

(* A handle that is not started has left no trace.                         *)
Unstarted(h) ==
    start[h] # "yes" =>
        /\ entry[h] = "none" /\ ~running[h] /\ ~queued[h] /\ ~owed[h]
        /\ \A w \in Workers : at[w] # h

Ending(h) == \E w \in Workers : at[w] = h /\ pc[w] = "ended"

(* A runtime that is neither stopped nor about to end is with one worker   *)
(* or in the heap, never both, and the flags say which.                    *)
Regular(h) ==
    /\ \A w, v \in Workers : (at[w] = h /\ at[v] = h) => w = v
    /\ \A w \in Workers : at[w] = h =>
         /\ entry[h] = "none" /\ running[h] /\ ~queued[h]
         /\ pc[w] \in {"popped", "stepping", "stepped", "marked"}
         /\ pc[w] = "popped" => fresh[w]
         /\ (pc[w] # "popped" /\ owed[h]) => pending[h]
    /\ (\A w \in Workers : at[w] # h) => ~running[h]
    /\ entry[h] # "none" => (queued[h] => entry[h] = "event")
    /\ (\A w \in Workers : at[w] # h) => (queued[h] => entry[h] = "event")
    /\ owed[h] => entry[h] # "later"

(* While a runtime ends the lock keeps every other worker out.             *)
Finishing(h) ==
    /\ entry[h] # "later"
    /\ \A w \in Workers : at[w] = h => pc[w] \in {"popped", "ended"}

Consistent(h) ==
    /\ Unstarted(h)
    /\ (stop[h] /\ Alive(h)) => entry[h] # "later"
    /\ (Alive(h) /\ ~stop[h] /\ Ending(h)) => Finishing(h)
    /\ (Alive(h) /\ ~stop[h] /\ ~Ending(h)) => Regular(h)

Flags == \A h \in Handles : Consistent(h)

IInv == TypeOK /\ Shape /\ Flags

-----------------------------------------------------------------------------
(* Type correctness.                                                       *)

LEMMA MarkWakeType ==
    ASSUME TypeOK, NEW h \in Handles, wakes < MaxWakes, MarkWake(h)
    PROVE  /\ pending' \in [Handles -> BOOLEAN]
           /\ owed' \in [Handles -> BOOLEAN]
           /\ queued' \in [Handles -> BOOLEAN]
           /\ entry' \in [Handles -> Entries]
           /\ fresh' \in [Workers -> BOOLEAN]
           /\ wakes' \in 0 .. MaxWakes
<1>1. wakes' \in 0 .. MaxWakes
  BY SchedulerAssumption DEF TypeOK, MarkWake
<1>2. pending' \in [Handles -> BOOLEAN] /\ owed' \in [Handles -> BOOLEAN]
  BY Zenon DEF TypeOK, MarkWake
<1>3. CASE running[h] \/ queued[h]
  BY <1>1, <1>2, <1>3, Zenon DEF TypeOK, MarkWake
<1>4. CASE ~(running[h] \/ queued[h])
  <2>1. queued' = [queued EXCEPT ![h] = TRUE] /\ Schedule(h, "event")
    BY <1>4, Zenon DEF MarkWake
  <2>2. fresh' \in [Workers -> BOOLEAN]
    BY <2>1, Zenon DEF Schedule
  <2>3. QED
    BY <1>1, <1>2, <2>1, <2>2, Zenon DEF TypeOK, Schedule, Entries
<1>5. QED
  BY <1>3, <1>4, Zenon

LEMMA TypeStep == TypeOK /\ [Next]_vars => TypeOK'
<1> SUFFICES ASSUME TypeOK, [Next]_vars PROVE TypeOK'
  OBVIOUS
<1> USE SchedulerAssumption DEF TypeOK, Entries, Steps, Schedule
<1>1. ASSUME NEW h \in Handles, StartBegin(h) PROVE TypeOK'
  BY <1>1, Zenon DEF StartBegin, workerVars, waiterVars
<1>2. ASSUME NEW h \in Handles, StartSchedule(h) PROVE TypeOK'
  BY <1>2, Zenon DEF StartSchedule, waiterVars
<1>3. ASSUME NEW h \in Handles, Cancel(h) PROVE TypeOK'
  BY <1>3 DEF Cancel, waiterVars
<1>4. ASSUME NEW h \in Handles, Wake(h) PROVE TypeOK'
  BY <1>4, MarkWakeType, Zenon DEF Wake, Wakeable
<1>5. ASSUME NEW h \in Handles, Elapse(h) PROVE TypeOK'
  BY <1>5, Zenon DEF Elapse, workerVars, waiterVars
<1>6. ASSUME NEW h \in Handles, Drop(h) PROVE TypeOK'
  BY <1>6, Zenon DEF Drop, workerVars, waiterVars
<1>7. ASSUME NEW t \in Waiters, NEW h \in Handles, WakeAndWait(t, h) PROVE TypeOK'
  BY <1>7, MarkWakeType DEF WakeAndWait, Wakeable, StepsToWait
<1>8. ASSUME NEW t \in Waiters, Leave(t) PROVE TypeOK'
  BY <1>8 DEF Leave, handleVars, workerVars
<1>9. ASSUME NEW w \in Workers, NEW h \in Handles, Pop(w, h) PROVE TypeOK'
  BY <1>9, Zenon DEF Pop, waiterVars
<1>10. ASSUME NEW w \in Workers, Lock(w) PROVE TypeOK'
  BY <1>10, Zenon DEF Lock
<1>11. ASSUME NEW w \in Workers, Skip(w) PROVE TypeOK'
  BY <1>11, Zenon DEF Skip, Idle, waiterVars
<1>12. ASSUME NEW w \in Workers, End(w) PROVE TypeOK'
  BY <1>12, Zenon DEF End, waiterVars
<1>13. ASSUME NEW w \in Workers, MarkDone(w) PROVE TypeOK'
  BY <1>13, Zenon DEF MarkDone, waiterVars
<1>14. ASSUME NEW w \in Workers, ForgetHandle(w) PROVE TypeOK'
  BY <1>14, Zenon DEF ForgetHandle, Idle, handleVars, waiterVars
<1>15. ASSUME NEW w \in Workers, MarkStepComplete(w) PROVE TypeOK'
  BY <1>15 DEF MarkStepComplete, handleVars
<1>16. ASSUME NEW w \in Workers, Reschedule(w) PROVE TypeOK'
  BY <1>16, Zenon DEF Reschedule, NextEntry, Idle, waiterVars
<1>17. ASSUME NEW w \in Workers, Exit(w) PROVE TypeOK'
  BY <1>17, Zenon DEF Exit, handleVars, waiterVars
<1>18. ASSUME NEW w \in Workers, NEW d \in BOOLEAN, Yield(w, d) PROVE TypeOK'
  BY <1>18, Zenon DEF Yield, handleVars, waiterVars
<1>19. ASSUME Close PROVE TypeOK'
  BY <1>19, Zenon DEF Close, handleVars, workerVars, waiterVars
<1>20. CASE UNCHANGED vars
  BY <1>20, Zenon DEF vars, handleVars, workerVars, waiterVars
<1>21. QED
  BY <1>1, <1>2, <1>3, <1>4, <1>5, <1>6, <1>7, <1>8, <1>9, <1>10, <1>11, <1>12,
     <1>13, <1>14, <1>15, <1>16, <1>17, <1>18, <1>19, <1>20, Zenon
     DEF Next, Work, Acknowledge, WaitFails

LEMMA InitType == Init => TypeOK
<1>1. 0 \in 0 .. MaxWakes /\ 0 \in 0 .. 2
  BY SchedulerAssumption
<1> SUFFICES ASSUME Init PROVE TypeOK
  OBVIOUS
<1>2. /\ start \in [Handles -> {"no", "half", "yes"}]
      /\ entry \in [Handles -> Entries]
      /\ pc \in [Workers -> Steps]
      /\ cycle \in [Waiters -> {"none", "over"} \cup Workers]
  BY Zenon DEF Init, Entries, Steps
<1>3. left \in [Waiters -> 0 .. 2] /\ wakes \in 0 .. MaxWakes
  BY <1>1, Zenon DEF Init
<1>4. QED
  BY <1>2, <1>3, Zenon DEF Init, TypeOK

(* Every variable of the specification keeps its type.                     *)
THEOREM TypeCorrect == Spec => []TypeOK
<1>1. QED
  BY InitType, TypeStep, PTL DEF Spec

-----------------------------------------------------------------------------
(* No runtime is forgotten.                                                *)

(* A step that keeps the state of a handle and of the workers that hold it *)
(* keeps the handle scheduled.                                             *)
Kept(h) == entry[h] # "none" \/ \E w \in Workers : Holds(w, h)

LEMMA ScheduleKeeps ==
    ASSUME TypeOK, NEW h \in Handles, NEW e \in Entries \ {"none"},
           Schedule(h, e), NEW g \in Handles, Kept(g),
           \A w \in Workers : at[w] = g /\ g # h => at'[w] = g /\ pc'[w] = pc[w]
    PROVE  Kept(g)'
<1>1. CASE g = h
  BY <1>1, Zenon DEF Kept, Schedule, TypeOK
<1>2. CASE g # h /\ entry[g] # "none"
  BY <1>2, Zenon DEF Kept, Schedule, TypeOK
<1>3. CASE g # h /\ \E w \in Workers : Holds(w, g)
  <2>1. PICK w \in Workers : Holds(w, g)
    BY <1>3, Zenon
  <2>2. Holds(w, g)'
    BY <1>3, <2>1, Zenon DEF Holds, Schedule
  <2>3. QED
    BY <2>2, Zenon DEF Kept
<1>4. QED
  BY <1>1, <1>2, <1>3, Zenon DEF Kept

LEMMA AliveStep == TypeOK /\ AliveScheduled /\ [Next]_vars => AliveScheduled'
<1> SUFFICES ASSUME TypeOK, AliveScheduled, [Next]_vars,
                    NEW g \in Handles, start'[g] = "yes", ~finished'[g]
             PROVE  Kept(g)'
  BY Zenon DEF AliveScheduled, Kept
<1>a. (start[g] = "yes" /\ ~finished[g]) => Kept(g)
  BY Zenon DEF AliveScheduled, Kept
<1> USE DEF TypeOK
<1>1. ASSUME NEW h \in Handles, StartBegin(h) PROVE Kept(g)'
  BY <1>1, <1>a, Zenon DEF StartBegin, workerVars, Kept, Holds
<1>2. ASSUME NEW h \in Handles, StartSchedule(h) PROVE Kept(g)'
  <2>1. CASE g = h
    BY <1>2, <2>1, Zenon DEF StartSchedule, Schedule, Kept
  <2>2. CASE g # h
    BY <1>2, <1>a, <2>2, ScheduleKeeps, Zenon DEF StartSchedule, Entries
  <2>3. QED
    BY <2>1, <2>2, Zenon
<1>3. ASSUME NEW h \in Handles, Cancel(h) PROVE Kept(g)'
  <2>1. CASE Alive(h)
    BY <1>3, <1>a, <2>1, ScheduleKeeps, Zenon DEF Cancel, Entries
  <2>2. CASE ~Alive(h)
    BY <1>3, <1>a, <2>2, Zenon DEF Cancel, Kept, Holds
  <2>3. QED
    BY <2>1, <2>2, Zenon
<1>4. ASSUME NEW h \in Handles, MarkWake(h), UNCHANGED <<start, finished, pc, at>>
      PROVE Kept(g)'
  <2>1. CASE running[h] \/ queued[h]
    BY <1>4, <1>a, <2>1, Zenon DEF MarkWake, Kept, Holds
  <2>2. CASE ~(running[h] \/ queued[h])
    BY <1>4, <1>a, <2>2, ScheduleKeeps, Zenon DEF MarkWake, Entries
  <2>3. QED
    BY <2>1, <2>2, Zenon
<1>5. ASSUME NEW h \in Handles, Elapse(h) PROVE Kept(g)'
  BY <1>5, <1>a, Zenon DEF Elapse, workerVars, Kept, Holds
<1>6. ASSUME NEW h \in Handles, Drop(h) PROVE Kept(g)'
  BY <1>6, <1>a, Zenon DEF Drop, Alive, workerVars, Kept, Holds
<1>8. ASSUME NEW t \in Waiters, Leave(t) PROVE Kept(g)'
  BY <1>8, <1>a, Zenon DEF Leave, handleVars, workerVars, Kept, Holds
<1>9. ASSUME NEW w \in Workers, NEW h \in Handles, Pop(w, h) PROVE Kept(g)'
  <2>1. CASE g = h
    BY <1>9, <2>1, Zenon DEF Pop, Kept, Holds
  <2>2. CASE g # h /\ entry[g] # "none"
    BY <1>9, <2>2, Zenon DEF Pop, Kept
  <2>3. ASSUME g # h, NEW v \in Workers, Holds(v, g) PROVE Kept(g)'
    BY <1>9, <2>3, Zenon DEF Pop, Kept, Holds
  <2>4. QED
    BY <1>9, <1>a, <2>1, <2>2, <2>3, Zenon DEF Pop, Kept
<1>10. ASSUME NEW w \in Workers, Lock(w) PROVE Kept(g)'
  <2>1. UNCHANGED <<start, finished, entry, at, fresh>>
    BY <1>10, Zenon DEF Lock
  <2>2. ASSUME NEW v \in Workers, Holds(v, g) PROVE Holds(v, g)'
    BY <1>10, <2>1, <2>2 DEF Lock, Holds, Alive
  <2>3. QED
    BY <1>a, <2>1, <2>2, Zenon DEF Kept
<1>11. ASSUME NEW w \in Workers, Skip(w) PROVE Kept(g)'
  BY <1>11, <1>a, Zenon DEF Skip, Idle, Kept, Holds
<1>12. ASSUME NEW w \in Workers, End(w) PROVE Kept(g)'
  BY <1>12, <1>a, Zenon DEF End, Kept, Holds
<1>13. ASSUME NEW w \in Workers, MarkDone(w) PROVE Kept(g)'
  BY <1>13, <1>a, Zenon DEF MarkDone, Kept, Holds
<1>14. ASSUME NEW w \in Workers, ForgetHandle(w) PROVE Kept(g)'
  BY <1>14, <1>a, Zenon DEF ForgetHandle, Idle, handleVars, Kept, Holds
<1>15. ASSUME NEW w \in Workers, MarkStepComplete(w) PROVE Kept(g)'
  BY <1>15, <1>a, Zenon DEF MarkStepComplete, handleVars, Kept, Holds
<1>16. ASSUME NEW w \in Workers, Reschedule(w) PROVE Kept(g)'
  <2>1. NextEntry(w) \in Entries \ {"none"}
    BY Zenon DEF NextEntry, Entries
  <2>2. \A v \in Workers : at[v] = g /\ g # at[w] => at'[v] = g /\ pc'[v] = pc[v]
    BY <1>16, Zenon DEF Reschedule, Idle
  <2>3. CASE at[w] \in Handles
    BY <1>16, <1>a, <2>1, <2>2, <2>3, ScheduleKeeps, Zenon DEF Reschedule
  <2>4. CASE at[w] = NoHandle
    BY <1>16, <1>a, <2>4, SchedulerAssumption
       DEF Reschedule, Schedule, Idle, Kept, Holds
  <2>5. QED
    BY <2>3, <2>4, Zenon
<1>17. ASSUME NEW w \in Workers, Exit(w) PROVE Kept(g)'
  BY <1>17, <1>a, Zenon DEF Exit, handleVars, Kept, Holds
<1>18. ASSUME NEW w \in Workers, NEW d \in BOOLEAN, Yield(w, d) PROVE Kept(g)'
  BY <1>18, <1>a, Zenon DEF Yield, handleVars, Kept, Holds
<1>19. CASE Close
  BY <1>19, <1>a, Zenon DEF Close, handleVars, workerVars, Kept, Holds
<1>20. CASE UNCHANGED vars
  BY <1>20, <1>a, Zenon DEF vars, handleVars, workerVars, Kept, Holds
<1>21. QED
  <2>1. ASSUME NEW h \in Handles, Wake(h) PROVE Kept(g)'
    BY <1>4, <2>1, Zenon DEF Wake
  <2>2. ASSUME NEW t \in Waiters, NEW h \in Handles, WakeAndWait(t, h) PROVE Kept(g)'
    BY <1>4, <2>2, Zenon DEF WakeAndWait
  <2>3. QED
    BY <1>1, <1>2, <1>3, <1>5, <1>6, <1>8, <1>9, <1>10, <1>11, <1>12, <1>13, <1>14,
       <1>15, <1>16, <1>17, <1>18, <1>19, <1>20, <2>1, <2>2, Zenon
       DEF Next, Work, Acknowledge, WaitFails

(* The pool never forgets a started runtime (AliveScheduled).              *)
THEOREM NeverForgotten == Spec => []AliveScheduled
<1>1. Init => TypeOK /\ AliveScheduled
  <2>1. Init => AliveScheduled
    BY Zenon DEF Init, AliveScheduled
  <2>2. QED
    BY <2>1, InitType, Zenon
<1>2. TypeOK /\ AliveScheduled /\ [Next]_vars => TypeOK' /\ AliveScheduled'
  BY TypeStep, AliveStep, Zenon
<1>3. QED
  BY <1>1, <1>2, PTL DEF Spec

-----------------------------------------------------------------------------
(* No wake is lost.                                                        *)

LEMMA ShapeStep == TypeOK /\ Shape /\ [Next]_vars => Shape'
<1> SUFFICES ASSUME TypeOK, Shape, [Next]_vars PROVE Shape'
  OBVIOUS
<1> USE SchedulerAssumption DEF TypeOK, Shape, Busy, Locked
<1>1. ASSUME UNCHANGED <<pc, at, runLock>> PROVE Shape'
  BY <1>1, Zenon
<1>2. ASSUME NEW w \in Workers, NEW h \in Handles, Pop(w, h) PROVE Shape'
  BY <1>2 DEF Pop
<1>3. ASSUME NEW w \in Workers, Lock(w) PROVE Shape'
  BY <1>3 DEF Lock
<1>4. ASSUME NEW w \in Workers, Skip(w) PROVE Shape'
  BY <1>4 DEF Skip, Idle
<1>5. ASSUME NEW w \in Workers, End(w) PROVE Shape'
  BY <1>5 DEF End
<1>6. ASSUME NEW w \in Workers, MarkDone(w) PROVE Shape'
  BY <1>6 DEF MarkDone
<1>7. ASSUME NEW w \in Workers, ForgetHandle(w) PROVE Shape'
  BY <1>7 DEF ForgetHandle, Idle
<1>8. ASSUME NEW w \in Workers, MarkStepComplete(w) PROVE Shape'
  BY <1>8 DEF MarkStepComplete
<1>9. ASSUME NEW w \in Workers, Reschedule(w) PROVE Shape'
  BY <1>9 DEF Reschedule, Idle
<1>10. ASSUME NEW w \in Workers, Exit(w) PROVE Shape'
  BY <1>10 DEF Exit
<1>11. ASSUME NEW w \in Workers, NEW d \in BOOLEAN, Yield(w, d) PROVE Shape'
  BY <1>11 DEF Yield
<1>12. ASSUME \/ \E h \in Handles :
                   \/ StartBegin(h) \/ StartSchedule(h) \/ Cancel(h)
                   \/ Wake(h) \/ Elapse(h) \/ Drop(h)
              \/ \E t \in Waiters :
                   (\E h \in Handles : WakeAndWait(t, h)) \/ Leave(t)
              \/ Close
              \/ UNCHANGED vars
       PROVE  UNCHANGED <<pc, at, runLock>>
  BY <1>12, Zenon DEF StartBegin, StartSchedule, Cancel, Wake, Elapse, Drop, WakeAndWait,
               Leave, Close, vars, workerVars
<1>13. ASSUME NEW w \in Workers, Work(w) PROVE Shape'
  <2> HIDE DEF TypeOK, Shape, Busy, Locked
  <2>1. QED
    BY <1>2, <1>3, <1>4, <1>5, <1>6, <1>7, <1>8, <1>9, <1>10, <1>11, <1>13, Zenon DEF Work
<1>14. QED
  <2> HIDE DEF TypeOK, Shape, Busy, Locked
  <2>1. QED
    BY <1>1, <1>12, <1>13, Zenon DEF Next, Acknowledge, WaitFails

(* A step that touches neither a handle nor the workers that hold it keeps *)
(* it consistent.                                                          *)
Untouched(g) ==
    /\ start'[g] = start[g] /\ finished'[g] = finished[g] /\ stop'[g] = stop[g]
    /\ entry'[g] = entry[g] /\ running'[g] = running[g]
    /\ pending'[g] = pending[g] /\ queued'[g] = queued[g] /\ owed'[g] = owed[g]
    /\ \A w \in Workers :
         /\ at'[w] = g <=> at[w] = g
         /\ at[w] = g => pc'[w] = pc[w] /\ fresh'[w] = fresh[w]

LEMMA Frame ==
    ASSUME NEW g \in Handles, Consistent(g), Untouched(g)
    PROVE  Consistent(g)'
<1>1. Alive(g)' <=> Alive(g)
  BY Zenon DEF Untouched, Alive
<1>2. Ending(g)' <=> Ending(g)
  BY Zenon DEF Untouched, Ending
<1>3. Unstarted(g) => Unstarted(g)'
  BY Zenon DEF Untouched, Unstarted
<1>4. Finishing(g) => Finishing(g)'
  BY Zenon DEF Untouched, Finishing
<1>5. Regular(g) => Regular(g)'
  BY Zenon DEF Untouched, Regular
<1>6. QED
  BY <1>1, <1>2, <1>3, <1>4, <1>5, Zenon DEF Untouched, Consistent

LEMMA MarkWakeConsistent ==
    ASSUME TypeOK, NEW g \in Handles, Consistent(g), start[g] = "yes", Alive(g),
           MarkWake(g), UNCHANGED <<start, finished, stop, running, pc, at>>
    PROVE  Consistent(g)'
<1>1. Unstarted(g)'
  BY Zenon DEF Unstarted, TypeOK
<1>2. Alive(g)' /\ (stop'[g] <=> stop[g]) /\ (Ending(g)' <=> Ending(g))
  BY Zenon DEF Alive, Ending
<1>3. entry'[g] = entry[g] \/ entry'[g] = "event"
  BY Zenon DEF MarkWake, Schedule, TypeOK
<1>4. Finishing(g) => Finishing(g)'
  BY <1>3, Zenon DEF Finishing
<1>5. ASSUME Regular(g) PROVE Regular(g)'
  <2>1. CASE running[g] \/ queued[g]
    BY <1>5, <2>1 DEF MarkWake, Regular, TypeOK
  <2>2. CASE ~(running[g] \/ queued[g])
    <3>1. \A w \in Workers : at[w] # g
      BY <1>5, <2>2, Zenon DEF Regular
    <3>2. QED
      BY <1>5, <2>2, <3>1 DEF MarkWake, Schedule, Regular, TypeOK
  <2>3. QED
    BY <2>1, <2>2, Zenon
<1>6. QED
  BY <1>1, <1>2, <1>3, <1>4, <1>5, Zenon DEF Consistent

LEMMA FlagsStep == IInv /\ ~EarlyWakes /\ [Next]_vars => Flags'
<1> SUFFICES ASSUME TypeOK, Shape, Flags, ~EarlyWakes, [Next]_vars,
                    NEW g \in Handles
             PROVE  Consistent(g)'
  BY Zenon DEF Flags, IInv
<1>a. Consistent(g)
  BY Zenon DEF Flags
<1>b. Untouched(g) => Consistent(g)'
  BY <1>a, Frame, Zenon
<1>1. ASSUME NEW h \in Handles, StartBegin(h) PROVE Consistent(g)'
  <2>1. CASE g = h
    <3>1. Unstarted(g)'
      BY <1>1, <1>a, <2>1, Zenon DEF StartBegin, Consistent, Unstarted, workerVars, TypeOK
    <3>2. start'[g] = "half"
      BY <1>1, <2>1, Zenon DEF StartBegin, TypeOK
    <3>3. Regular(g)' /\ entry'[g] = "none"
      BY <3>1, <3>2, Zenon DEF Unstarted, Regular
    <3>4. ~Ending(g)'
      BY <3>1, <3>2, Zenon DEF Unstarted, Ending
    <3>5. QED
      BY <3>1, <3>3, <3>4, Zenon DEF Consistent
  <2>2. CASE g # h
    BY <1>1, <1>b, <2>2, Zenon DEF StartBegin, Untouched, workerVars, TypeOK
  <2>3. QED
    BY <2>1, <2>2, Zenon
<1>2. ASSUME NEW h \in Handles, StartSchedule(h) PROVE Consistent(g)'
  <2>1. CASE g = h
    <3>1. start'[g] = "yes" /\ entry'[g] = "due" /\ ~owed'[g]
      BY <1>2, <1>a, <2>1, Zenon DEF StartSchedule, Schedule, Consistent, Unstarted, TypeOK
    <3>2. ~running'[g] /\ ~queued'[g] /\ \A w \in Workers : at'[w] # g
      BY <1>2, <1>a, <2>1, Zenon DEF StartSchedule, Consistent, Unstarted
    <3>3. QED
      BY <3>1, <3>2, Zenon DEF Consistent, Unstarted, Regular, Ending
  <2>2. CASE g # h
    BY <1>2, <1>b, <2>2, Zenon DEF StartSchedule, Schedule, Untouched, TypeOK
  <2>3. QED
    BY <2>1, <2>2, Zenon
<1>3. ASSUME NEW h \in Handles, Cancel(h) PROVE Consistent(g)'
  <2>1. CASE g = h /\ Alive(h)
    <3>1. stop'[g] /\ entry'[g] = "due" /\ start'[g] = "yes"
      BY <1>3, <2>1, Zenon DEF Cancel, Schedule, Alive, TypeOK
    <3>2. QED
      BY <3>1, Zenon DEF Consistent, Unstarted
  <2>2. CASE g = h /\ ~Alive(h)
    <3>1. ~Alive(g)'
      BY <1>3, <2>2, Zenon DEF Cancel, Alive
    <3>2. Unstarted(g)'
      BY <1>3, <1>a, <2>2, Zenon DEF Cancel, Consistent, Unstarted
    <3>3. QED
      BY <3>1, <3>2, Zenon DEF Consistent
  <2>3. CASE g # h
    BY <1>3, <1>b, <2>3 DEF Cancel, Schedule, Untouched, TypeOK
  <2>4. QED
    BY <2>1, <2>2, <2>3, Zenon
<1>4. ASSUME NEW h \in Handles, Wakeable(h), MarkWake(h),
             UNCHANGED <<start, finished, stop, running, pc, at>>
      PROVE  Consistent(g)'
  <2>1. CASE g = h
    BY <1>4, <1>a, <2>1, MarkWakeConsistent, Zenon DEF Wakeable
  <2>2. CASE g # h
    BY <1>4, <1>b, <2>2 DEF MarkWake, Schedule, Untouched, TypeOK
  <2>3. QED
    BY <2>1, <2>2, Zenon
<1>5. ASSUME NEW h \in Handles, Elapse(h) PROVE Consistent(g)'
  <2>1. CASE g = h
    <3>1. entry[g] = "later" /\ entry'[g] = "due"
      BY <1>5, <2>1, Zenon DEF Elapse, TypeOK
    <3>2. UNCHANGED <<start, finished, stop, running, pending, queued, owed, at, pc,
                      fresh>>
      BY <1>5, Zenon DEF Elapse, workerVars
    <3>3. Regular(g) => Regular(g)'
      BY <3>1, <3>2, Zenon DEF Regular
    <3>4. QED
      BY <1>a, <3>1, <3>2, <3>3, Zenon DEF Consistent, Unstarted, Finishing, Ending, Alive
  <2>2. CASE g # h
    BY <1>5, <1>b, <2>2, Zenon DEF Elapse, workerVars, Untouched, TypeOK
  <2>3. QED
    BY <2>1, <2>2, Zenon
<1>6. ASSUME NEW h \in Handles, Drop(h) PROVE Consistent(g)'
  <2>1. CASE g = h
    BY <1>6, <1>a, <2>1, Zenon DEF Drop, workerVars, Consistent, Unstarted, Alive, TypeOK
  <2>2. CASE g # h
    BY <1>6, <1>b, <2>2, Zenon DEF Drop, workerVars, Untouched, TypeOK
  <2>3. QED
    BY <2>1, <2>2, Zenon
<1>7. ASSUME NEW w \in Workers, NEW h \in Handles, Pop(w, h) PROVE Consistent(g)'
  <2>1. CASE g = h
    <3>1. start[g] = "yes" /\ start'[g] = "yes" /\ entry'[g] = "none"
      BY <1>7, <1>a, <2>1, Zenon DEF Pop, Consistent, Unstarted, TypeOK
    <3>2. Alive(g)' <=> Alive(g)
      BY <1>7, Zenon DEF Pop, Alive
    <3>3. Ending(g)' <=> Ending(g)
      BY <1>7, <2>1, SchedulerAssumption DEF Pop, Ending, Shape, Busy, TypeOK
    <3>4. Finishing(g) => Finishing(g)'
      BY <1>7, <2>1, <3>1, Zenon DEF Pop, Finishing, TypeOK
    <3>5. ASSUME Regular(g) PROVE Regular(g)'
      <4>1. \A v \in Workers : at[v] # g
        BY <1>7, <2>1, <3>5, Zenon DEF Pop, Regular
      <4>2. \A v \in Workers : at'[v] = g <=> v = w
        BY <1>7, <2>1, <4>1, Zenon DEF Pop, TypeOK
      <4>3. running'[g] /\ ~queued'[g] /\ pc'[w] = "popped" /\ fresh'[w]
        BY <1>7, <2>1, <3>5, <4>1, Zenon DEF Pop, Regular, TypeOK
      <4>4. QED
        BY <3>1, <4>2, <4>3, Zenon DEF Regular
    <3>6. stop'[g] <=> stop[g]
      BY <1>7, Zenon DEF Pop
    <3>7. QED
      BY <1>a, <3>1, <3>2, <3>3, <3>4, <3>5, <3>6, Zenon DEF Consistent, Unstarted
  <2>2. CASE g # h
    <3>1. at[w] = NoHandle /\ g # NoHandle
      BY <1>7, SchedulerAssumption, Zenon DEF Pop, Shape, Busy, TypeOK
    <3>2. \A v \in Workers :
             /\ at'[v] = g <=> at[v] = g
             /\ at[v] = g => pc'[v] = pc[v] /\ fresh'[v] = fresh[v]
      <4>1. at'[w] # g /\ at[w] # g
        BY <1>7, <2>2, <3>1, Zenon DEF Pop, TypeOK
      <4>2. \A v \in Workers \ {w} :
               at'[v] = at[v] /\ pc'[v] = pc[v] /\ fresh'[v] = fresh[v]
        BY <1>7, Zenon DEF Pop, TypeOK
      <4>3. QED
        BY <4>1, <4>2, Zenon
    <3>3. /\ start'[g] = start[g] /\ finished'[g] = finished[g]
          /\ stop'[g] = stop[g] /\ owed'[g] = owed[g]
      BY <1>7, Zenon DEF Pop
    <3>4. /\ entry'[g] = entry[g] /\ running'[g] = running[g]
          /\ pending'[g] = pending[g] /\ queued'[g] = queued[g]
      BY <1>7, <2>2, Zenon DEF Pop, TypeOK
    <3>5. QED
      BY <1>b, <3>2, <3>3, <3>4, Zenon DEF Untouched
  <2>3. QED
    BY <2>1, <2>2, Zenon
<1>8. ASSUME NEW w \in Workers, Lock(w) PROVE Consistent(g)'
  <2>0. UNCHANGED <<start, finished, stop, entry, running, pending, queued, at, fresh>>
    BY <1>8, Zenon DEF Lock
  <2>1. CASE g = at[w]
    <3>1. Alive(g)' <=> Alive(g)
      BY <2>0, Zenon DEF Alive
    <3>2. Unstarted(g) => Unstarted(g)'
      BY <1>8, <2>0, <2>1, Zenon DEF Lock, Unstarted, TypeOK
    <3>3. ~Ending(g)
      BY <1>8, <2>1, Zenon DEF Lock, Ending, Shape, Locked
    <3>4. ASSUME Alive(g), ~stop[g], Regular(g) PROVE ~Ending(g)' /\ Regular(g)'
      <4>1. fresh[w] /\ \A v \in Workers : at[v] = g => v = w
        BY <1>8, <2>1, <3>4, Zenon DEF Lock, Regular
      <4>2. pc'[w] = "stepping" /\ ~owed'[g]
        BY <1>8, <2>1, <3>4, <4>1, Zenon DEF Lock, TypeOK
      <4>3. QED
        BY <2>0, <2>1, <3>4, <4>1, <4>2, Zenon DEF Regular, Ending
    <3>5. QED
      BY <1>a, <2>0, <3>1, <3>2, <3>3, <3>4, Zenon DEF Consistent
  <2>2. CASE g # at[w]
    BY <1>8, <1>b, <2>2, Zenon DEF Lock, Untouched, TypeOK
  <2>3. QED
    BY <2>1, <2>2, Zenon
<1>9. ASSUME NEW w \in Workers, Skip(w) PROVE Consistent(g)'
  <2>1. CASE g = at[w]
    <3>1. ~(Alive(g) /\ ~stop[g])
      BY <1>9, <1>a, <2>1, Zenon DEF Skip, Consistent, Finishing, Regular
    <3>2. UNCHANGED <<start, finished, stop, entry>>
      BY <1>9, Zenon DEF Skip
    <3>3. start[g] = "yes"
      BY <1>a, <2>1, Zenon DEF Consistent, Unstarted
    <3>4. QED
      BY <1>a, <3>1, <3>2, <3>3, Zenon DEF Consistent, Unstarted, Alive
  <2>2. CASE g # at[w]
    BY <1>9, <1>b, <2>2, SchedulerAssumption, Zenon DEF Skip, Idle, Untouched, TypeOK
  <2>3. QED
    BY <2>1, <2>2, Zenon
<1>10. ASSUME NEW w \in Workers, End(w) PROVE Consistent(g)'
  <2>1. CASE g = at[w]
    <3>1. UNCHANGED <<start, finished, stop, entry, at>> /\ Ending(g)'
      BY <1>10, <2>1, Zenon DEF End, Ending, TypeOK
    <3>2. start[g] = "yes"
      BY <1>a, <2>1, Zenon DEF Consistent, Unstarted
    <3>3. ASSUME Alive(g), ~stop[g] PROVE Finishing(g)'
      <4>1. ~Finishing(g)
        BY <1>10, <2>1, Zenon DEF End, Finishing
      <4>2. Regular(g)
        BY <1>a, <3>3, <4>1, Zenon DEF Consistent
      <4>3. entry[g] = "none" /\ \A v \in Workers : at[v] = g => v = w
        BY <2>1, <4>2, Zenon DEF Regular
      <4>4. QED
        BY <1>10, <3>1, <4>3, Zenon DEF End, Finishing, TypeOK
    <3>4. QED
      BY <1>a, <3>1, <3>2, <3>3, Zenon DEF Consistent, Unstarted, Alive
  <2>2. CASE g # at[w]
    BY <1>10, <1>b, <2>2, Zenon DEF End, Untouched, TypeOK
  <2>3. QED
    BY <2>1, <2>2, Zenon
<1>11. ASSUME NEW w \in Workers, MarkDone(w) PROVE Consistent(g)'
  <2>1. CASE g = at[w]
    <3>1. start[g] = "yes"
      BY <1>a, <2>1, Zenon DEF Consistent, Unstarted
    <3>2. finished'[g] /\ start' = start
      BY <1>11, <2>1, Zenon DEF MarkDone, TypeOK
    <3>3. QED
      BY <3>1, <3>2, Zenon DEF Consistent, Unstarted, Alive
  <2>2. CASE g # at[w]
    BY <1>11, <1>b, <2>2, Zenon DEF MarkDone, Untouched, TypeOK
  <2>3. QED
    BY <2>1, <2>2, Zenon
<1>12. ASSUME NEW w \in Workers, ForgetHandle(w) PROVE Consistent(g)'
  <2>1. CASE g = at[w]
    <3>1. ~(Alive(g) /\ ~stop[g])
      BY <1>12, <1>a, <2>1, Zenon DEF ForgetHandle, Consistent, Finishing, Regular
    <3>2. UNCHANGED <<start, finished, stop, entry>>
      BY <1>12, Zenon DEF ForgetHandle, handleVars
    <3>3. start[g] = "yes"
      BY <1>a, <2>1, Zenon DEF Consistent, Unstarted
    <3>4. QED
      BY <1>a, <3>1, <3>2, <3>3, Zenon DEF Consistent, Unstarted, Alive
  <2>2. CASE g # at[w]
    BY <1>12, <1>b, <2>2, SchedulerAssumption, Zenon
       DEF ForgetHandle, Idle, handleVars, Untouched, TypeOK
  <2>3. QED
    BY <2>1, <2>2, Zenon
(* The worker goes on with the handle, which stays as it is.               *)
<1>13. ASSUME NEW w \in Workers, UNCHANGED <<handleVars, at, fresh>>,
              \/ pc[w] = "stepping" /\ pc' = [pc EXCEPT ![w] = "stepped"]
              \/ pc[w] = "stepped" /\ pc' = [pc EXCEPT ![w] = "marked"]
       PROVE  Consistent(g)'
  <2>1. CASE g = at[w]
    <3>1. start[g] = "yes" /\ (Alive(g)' <=> Alive(g))
      BY <1>13, <1>a, <2>1, Zenon DEF Consistent, Unstarted, Alive, handleVars
    <3>2. ~Finishing(g)
      BY <1>13, <2>1, Zenon DEF Finishing
    <3>3. ASSUME Regular(g) PROVE Regular(g)' /\ ~Ending(g)'
      <4>1. \A v \in Workers : at[v] = g => v = w
        BY <2>1, <3>3, Zenon DEF Regular
      <4>2. pc'[w] \in {"stepped", "marked"} /\ pc[w] # "popped"
        BY <1>13, Zenon DEF TypeOK
      <4>3. QED
        BY <1>13, <2>1, <3>3, <4>1, <4>2, Zenon DEF Regular, Ending, handleVars
    <3>4. QED
      BY <1>13, <1>a, <3>1, <3>2, <3>3, Zenon DEF Consistent, Unstarted, handleVars
  <2>2. CASE g # at[w]
    BY <1>13, <1>b, <2>2, Zenon DEF handleVars, Untouched, TypeOK
  <2>3. QED
    BY <2>1, <2>2, Zenon
<1>14. ASSUME NEW w \in Workers, Reschedule(w) PROVE Consistent(g)'
  <2>1. CASE g = at[w]
    <3>1. start[g] = "yes" /\ start' = start /\ (Alive(g)' <=> Alive(g))
      BY <1>14, <1>a, <2>1, Zenon DEF Consistent, Unstarted, Alive, Reschedule
    <3>2. /\ entry'[g] = NextEntry(w) /\ ~running'[g]
          /\ queued'[g] <=> (queued[g] \/ pending[g])
          /\ UNCHANGED <<stop, pending, owed>>
      BY <1>14, <2>1, Zenon DEF Reschedule, Schedule, TypeOK
    <3>3. stop[g] => NextEntry(w) # "later"
      BY <2>1, Zenon DEF NextEntry
    <3>4. ~Finishing(g)
      BY <1>14, <2>1, Zenon DEF Reschedule, Finishing
    <3>5. ASSUME Regular(g), ~stop[g] PROVE Regular(g)' /\ ~Ending(g)'
      <4>1. \A v \in Workers : at[v] = g => v = w
        BY <2>1, <3>5, Zenon DEF Regular
      <4>2. \A v \in Workers : at'[v] # g
        BY <1>14, <2>1, <4>1, SchedulerAssumption, Zenon DEF Reschedule, Idle, TypeOK
      <4>3. ~queued[g] /\ (owed[g] => pending[g])
        BY <1>14, <2>1, <3>5, Zenon DEF Reschedule, Regular
      <4>4. /\ pending[g] => NextEntry(w) = "event"
            /\ ~pending[g] => ~queued'[g] /\ ~owed'[g]
        BY <2>1, <3>2, <4>3, Zenon DEF NextEntry
      <4>5. QED
        BY <3>2, <4>2, <4>3, <4>4, Zenon DEF Regular, Ending
    <3>6. QED
      BY <1>a, <3>1, <3>2, <3>3, <3>4, <3>5, Zenon DEF Consistent, Unstarted
  <2>2. CASE g # at[w]
    BY <1>14, <1>b, <2>2, SchedulerAssumption, Zenon
       DEF Reschedule, Schedule, Idle, Untouched, TypeOK
  <2>3. QED
    BY <2>1, <2>2, Zenon
<1>15. ASSUME NEW w \in Workers, Exit(w) PROVE Consistent(g)'
  BY <1>15, <1>b, SchedulerAssumption
     DEF Exit, handleVars, Untouched, Shape, Busy, TypeOK
<1>16. ASSUME UNCHANGED <<handleVars, at, pc, fresh>> PROVE Consistent(g)'
  BY <1>16, <1>b, Zenon DEF handleVars, Untouched
<1>17. QED
  <2>1. ASSUME NEW h \in Handles, Wake(h) PROVE Consistent(g)'
    BY <1>4, <2>1, Zenon DEF Wake
  <2>2. ASSUME NEW t \in Waiters, NEW h \in Handles, WakeAndWait(t, h)
        PROVE  Consistent(g)'
    BY <1>4, <2>2, Zenon DEF WakeAndWait
  <2>3. ASSUME NEW w \in Workers, Work(w) PROVE Consistent(g)'
    <3>1. ASSUME NEW d \in BOOLEAN, Yield(w, d) PROVE Consistent(g)'
      BY <1>13, <3>1, Zenon DEF Yield
    <3>2. ASSUME MarkStepComplete(w) PROVE Consistent(g)'
      BY <1>13, <3>2, Zenon DEF MarkStepComplete
    <3>3. QED
      BY <1>7, <1>8, <1>9, <1>10, <1>11, <1>12, <1>14, <1>15, <2>3, <3>1, <3>2, Zenon
         DEF Work
  <2>4. ASSUME (\E t \in Waiters : Leave(t)) \/ Close \/ UNCHANGED vars
        PROVE  Consistent(g)'
    BY <1>16, <2>4, Zenon DEF Leave, Close, vars, workerVars
  <2>5. QED
    BY <1>1, <1>2, <1>3, <1>5, <1>6, <2>1, <2>2, <2>3, <2>4, Zenon
       DEF Next, Acknowledge, WaitFails

LEMMA FlagsInit == Init => IInv
<1>1. Init => Shape
  BY DEF Init, Shape, Busy, Locked
<1>2. ASSUME Init, NEW h \in Handles PROVE Consistent(h)
  BY <1>2, SchedulerAssumption, Zenon DEF Init, Consistent, Unstarted, Alive
<1>3. QED
  BY <1>1, <1>2, InitType, Zenon DEF IInv, Flags

LEMMA InvStep == IInv /\ ~EarlyWakes /\ [Next]_vars => (IInv /\ ~EarlyWakes)'
  BY TypeStep, ShapeStep, FlagsStep, Zenon DEF IInv

(* No accepted wake is slept over (WakeHonoured), as long as no wake falls *)
(* inside handle.start().                                                  *)
THEOREM WakesHonoured == Spec /\ ~EarlyWakes => []WakeHonoured
<1>1. IInv => WakeHonoured
  BY Zenon DEF IInv, Flags, Consistent, Finishing, Regular, WakeHonoured
<1>2. QED
  BY <1>1, FlagsInit, InvStep, PTL DEF Spec

-----------------------------------------------------------------------------
(* A wake that is waited for is answered by a cycle of its own.            *)

Midway == {"stepping", "stepped"}

(* Nobody is inside a runtime that has ended by itself.                    *)
Vacated(h) ==
    (finished[h] /\ ~stop[h]) =>
        \A w \in Workers : at[w] = h => pc[w] \in {"popped", "skipping", "over"}

(* A waiter misses a step until the cycle it triggered is over.  The cycle *)
(* under way when it called is another one, so both are missing then; and  *)
(* the cycle it triggered is counted by the worker that began it.          *)
Pledged(t, h) ==
    /\ cycle[t] = "over" \/ left[t] # 0
    /\ cycle[t] = "none" =>
         \A w \in Workers : (at[w] = h /\ pc[w] \in Midway) => left[t] = 2
    /\ cycle[t] \in Workers =>
         \/ at[cycle[t]] = h /\ pc[cycle[t]] \in Midway
         \/ Ending(h) \/ finished[h]

Waits(t, h) == wait[t] = h /\ ~stop[h]

AInv ==
    /\ \A h \in Handles : Vacated(h)
    /\ \A t \in Waiters, h \in Handles : Waits(t, h) => Pledged(t, h)

(* The worker inside a cycle of a runtime that nobody stopped is alone.    *)
LEMMA Alone ==
    ASSUME IInv, AInv, NEW w \in Workers, NEW h \in Handles, at[w] = h, ~stop[h],
           pc[w] \in {"stepping", "stepped", "marked"}
    PROVE  /\ running[h] /\ ~Ending(h) /\ ~finished[h]
           /\ \A v \in Workers : at[v] = h => v = w
<1>1. ~finished[h]
  BY Zenon DEF AInv, Vacated
<1>2. Consistent(h)
  BY Zenon DEF IInv, Flags
<1>3. Alive(h)
  BY <1>1, <1>2, Zenon DEF Consistent, Unstarted, Alive
<1>4. ~Finishing(h)
  BY Zenon DEF Finishing
<1>5. Regular(h) /\ ~Ending(h)
  BY <1>2, <1>3, <1>4, Zenon DEF Consistent
<1> QED BY <1>1, <1>5, Zenon DEF Regular

(* What is pledged to a waiter survives a step that keeps its account and  *)
(* begins no cycle of its runtime.                                         *)
LEMMA PledgeFrame ==
    ASSUME NEW t \in Waiters, NEW h \in Handles, Pledged(t, h),
           left'[t] = left[t], cycle'[t] = cycle[t],
           finished[h] => finished'[h],
           Ending(h) => Ending(h)' \/ finished'[h],
           \A w \in Workers : (at'[w] = h /\ pc'[w] \in Midway)
                               => (at[w] = h /\ pc[w] \in Midway),
           \A w \in Workers : (at[w] = h /\ pc[w] \in Midway)
                               => \/ at'[w] = h /\ pc'[w] \in Midway
                                  \/ Ending(h)' \/ finished'[h]
    PROVE  Pledged(t, h)'
<1>1. cycle[t] \in Workers =>
        \/ at'[cycle[t]] = h /\ pc'[cycle[t]] \in Midway
        \/ Ending(h)' \/ finished'[h]
  BY Zenon DEF Pledged
<1> QED BY <1>1, Zenon DEF Pledged

LEMMA AInit == Init => AInv
<1> SUFFICES ASSUME Init PROVE AInv
  OBVIOUS
<1>1. /\ \A h \in Handles : ~finished[h]
      /\ \A t \in Waiters : wait[t] = NoHandle
  BY Zenon DEF Init
<1> QED BY <1>1, SchedulerAssumption, Zenon DEF AInv, Vacated, Waits

(* A step that leaves the waiters and the workers alone.                   *)
LEMMA AFrame ==
    ASSUME AInv, UNCHANGED <<wait, left, cycle, finished, at, pc>>,
           \A h \in Handles : stop[h] => stop'[h]
    PROVE  AInv'
<1>1. \A h \in Handles : Vacated(h)'
  BY Zenon DEF AInv, Vacated
<1>2. ASSUME NEW t \in Waiters, NEW h \in Handles, Waits(t, h)' PROVE Pledged(t, h)'
  <2>1. Pledged(t, h)
    BY <1>2, Zenon DEF AInv, Waits
  <2> QED BY <2>1, Zenon DEF Pledged, Ending
<1> QED BY <1>1, <1>2, Zenon DEF AInv

LEMMA VacatedStep ==
    ASSUME IInv, AInv, [Next]_vars, NEW g \in Handles
    PROVE  Vacated(g)'
<1> DEFINE Out == {"popped", "skipping", "over"}
<1>a. TypeOK /\ Shape /\ Consistent(g) /\ Vacated(g)
  BY Zenon DEF IInv, AInv, Flags
<1>b. ASSUME finished'[g] = finished[g], stop[g] => stop'[g],
             \A w \in Workers : at'[w] = g => at[w] = g /\ (pc[w] \in Out => pc'[w] \in Out)
      PROVE  Vacated(g)'
  BY <1>a, <1>b, Zenon DEF Vacated
<1>1. ASSUME UNCHANGED <<finished, at, pc>>, stop[g] => stop'[g] PROVE Vacated(g)'
  BY <1>1, <1>b, Zenon
<1>2. ASSUME NEW h \in Handles, Cancel(h) PROVE Vacated(g)'
  BY <1>2, <1>1, <1>a, Zenon DEF Cancel, TypeOK
<1>3. ASSUME NEW w \in Workers, NEW h \in Handles, Pop(w, h) PROVE Vacated(g)'
  <2>1. CASE g = h
    BY <1>3, <2>1, Zenon DEF Pop, Alive, Vacated
  <2>2. CASE g # h
    <3>1. \A v \in Workers : at'[v] = g => v # w
      BY <1>3, <1>a, <2>2, Zenon DEF Pop, TypeOK
    <3>2. \A v \in Workers : v # w => at'[v] = at[v] /\ pc'[v] = pc[v]
      BY <1>3, <1>a, Zenon DEF Pop, TypeOK
    <3> QED BY <1>3, <1>b, <3>1, <3>2, Zenon DEF Pop
  <2> QED BY <2>1, <2>2, Zenon
<1>4. ASSUME NEW w \in Workers, Lock(w) PROVE Vacated(g)'
  <2>1. CASE g = at[w] /\ finished[g]
    <3>1. pc'[w] = "skipping"
      BY <1>4, <1>a, <2>1, Zenon DEF Lock, Alive, TypeOK
    <3>2. \A v \in Workers : v # w => pc'[v] = pc[v]
      BY <1>4, <1>a, Zenon DEF Lock, TypeOK
    <3> QED BY <1>4, <1>b, <3>1, <3>2, Zenon DEF Lock
  <2>2. CASE g = at[w] /\ ~finished[g]
    BY <1>4, <2>2, Zenon DEF Lock, Vacated
  <2>3. CASE g # at[w]
    <3>1. \A v \in Workers : v # w => pc'[v] = pc[v]
      BY <1>4, <1>a, Zenon DEF Lock, TypeOK
    <3> QED BY <1>4, <1>b, <2>3, <3>1, Zenon DEF Lock
  <2> QED BY <2>1, <2>2, <2>3, Zenon
(* The worker lets go of its handle.                                       *)
<1>5. ASSUME NEW w \in Workers, Idle(w), UNCHANGED <<finished, stop>>
      PROVE  Vacated(g)'
  <2>1. \A v \in Workers : v # w => at'[v] = at[v] /\ pc'[v] = pc[v]
    BY <1>5, <1>a, Zenon DEF Idle, TypeOK
  <2>2. at'[w] # g
    BY <1>5, <1>a, SchedulerAssumption, Zenon DEF Idle, TypeOK
  <2> QED BY <1>5, <1>b, <2>1, <2>2, Zenon
(* The worker is inside a cycle, or leaves the pool.                       *)
<1>6. ASSUME NEW w \in Workers, pc[w] \notin Out, UNCHANGED <<finished, stop, at>>,
             \A v \in Workers : v # w => pc'[v] = pc[v]
      PROVE  Vacated(g)'
  <2>1. CASE at[w] = g
    BY <1>6, <1>a, <2>1, Zenon DEF Vacated
  <2>2. CASE at[w] # g
    BY <1>6, <1>b, <2>2, Zenon
  <2> QED BY <2>1, <2>2, Zenon
<1>7. ASSUME NEW w \in Workers, MarkDone(w) PROVE Vacated(g)'
  <2>1. UNCHANGED <<stop, at>> /\ \A v \in Workers : v # w => pc'[v] = pc[v]
    BY <1>7, <1>a, Zenon DEF MarkDone, TypeOK
  <2>2. pc'[w] = "over" /\ pc[w] = "ended"
    BY <1>7, <1>a, Zenon DEF MarkDone, TypeOK
  <2>3. CASE at[w] # g
    <3>1. finished'[g] = finished[g]
      BY <1>7, <1>a, <2>3, Zenon DEF MarkDone, TypeOK
    <3> QED BY <1>b, <2>1, <2>2, <3>1, Zenon
  <2>4. CASE at[w] = g /\ stop[g]
    BY <2>1, <2>4, Zenon DEF Vacated
  <2>5. CASE at[w] = g /\ ~stop[g]
    <3>1. Alive(g) /\ Ending(g)
      BY <1>a, <2>2, <2>5, Zenon DEF Vacated, Consistent, Unstarted, Alive, Ending
    <3>2. Finishing(g)
      BY <1>a, <2>5, <3>1, Zenon DEF Consistent
    <3>3. ASSUME NEW v \in Workers, at'[v] = g PROVE pc'[v] \in Out
      <4>1. CASE v = w
        BY <2>2, <4>1, Zenon
      <4>2. CASE v # w
        <5>1. at[v] = g /\ pc[v] \in {"popped", "ended"} /\ pc'[v] = pc[v]
          BY <2>1, <3>2, <3>3, <4>2, Zenon DEF Finishing
        <5>2. pc[v] # "ended"
          BY <1>a, <2>2, <2>5, <4>2, <5>1, Zenon DEF Shape, Locked
        <5> QED BY <5>1, <5>2, Zenon
      <4> QED BY <4>1, <4>2, Zenon
    <3> QED BY <3>3, Zenon DEF Vacated
  <2> QED BY <2>3, <2>4, <2>5, Zenon
<1>8. ASSUME NEW w \in Workers, NEW d \in BOOLEAN,
             End(w) \/ MarkStepComplete(w) \/ Exit(w) \/ Yield(w, d)
      PROVE  Vacated(g)'
  <2>1. pc[w] \notin Out /\ UNCHANGED <<finished, stop, at>>
    BY <1>8, Zenon DEF End, MarkStepComplete, Exit, Yield, handleVars
  <2>2. \A v \in Workers : v # w => pc'[v] = pc[v]
    BY <1>8, <1>a, Zenon DEF End, MarkStepComplete, Exit, Yield, TypeOK
  <2> QED BY <1>6, <2>1, <2>2, Zenon
<1>9. ASSUME NEW w \in Workers, Skip(w) \/ ForgetHandle(w) \/ Reschedule(w)
      PROVE  Vacated(g)'
  BY <1>5, <1>9, Zenon DEF Skip, ForgetHandle, Reschedule, handleVars
<1>10. ASSUME \/ \E h \in Handles :
                   \/ StartBegin(h) \/ StartSchedule(h)
                   \/ Wake(h) \/ Elapse(h) \/ Drop(h)
              \/ \E t \in Waiters :
                   (\E h \in Handles : WakeAndWait(t, h)) \/ Leave(t)
              \/ Close
              \/ UNCHANGED vars
       PROVE  Vacated(g)'
  <2>1. UNCHANGED <<finished, stop, at, pc>>
    BY <1>10, Zenon
       DEF StartBegin, StartSchedule, Wake, Elapse, Drop, WakeAndWait, Leave, Close,
           vars, workerVars, handleVars
  <2> QED BY <1>1, <2>1, Zenon
<1> HIDE DEF Out
<1>11. ASSUME NEW w \in Workers, Work(w) PROVE Vacated(g)'
  BY <1>3, <1>4, <1>7, <1>8, <1>9, <1>11, Zenon DEF Work
<1> QED BY <1>2, <1>10, <1>11, Zenon DEF Next, Acknowledge, WaitFails

(* A worker that begins no cycle keeps what is pledged, if it leaves the   *)
(* cycle it is in only by ending the runtime.                              *)
LEMMA WorkerFrame ==
    ASSUME NEW t \in Waiters, NEW g \in Handles, Pledged(t, g), NEW w \in Workers,
           left'[t] = left[t], cycle'[t] = cycle[t],
           finished[g] => finished'[g],
           \A v \in Workers : v # w => at'[v] = at[v] /\ pc'[v] = pc[v],
           (at'[w] = g /\ pc'[w] \in Midway) => (at[w] = g /\ pc[w] \in Midway),
           (at[w] = g /\ pc[w] \in Midway)
               => at'[w] = g /\ (pc'[w] \in Midway \/ pc'[w] = "ended"),
           (at[w] = g /\ pc[w] = "ended")
               => (at'[w] = g /\ pc'[w] = "ended") \/ finished'[g]
    PROVE  Pledged(t, g)'
<1>1. Ending(g) => Ending(g)' \/ finished'[g]
  BY Zenon DEF Ending
<1>2. \A v \in Workers : (at'[v] = g /\ pc'[v] \in Midway)
                          => (at[v] = g /\ pc[v] \in Midway)
  BY Zenon
<1>3. \A v \in Workers : (at[v] = g /\ pc[v] \in Midway)
                          => \/ at'[v] = g /\ pc'[v] \in Midway
                             \/ Ending(g)' \/ finished'[g]
  BY Zenon DEF Ending
<1> QED BY <1>1, <1>2, <1>3, PledgeFrame, Zenon

LEMMA PledgeStep ==
    ASSUME IInv, AInv, [Next]_vars, NEW t \in Waiters, NEW g \in Handles, Waits(t, g)'
    PROVE  Pledged(t, g)'
<1>a. TypeOK /\ Shape /\ Consistent(g)
  BY Zenon DEF IInv, Flags
<1>b. ASSUME Waits(t, g) PROVE Pledged(t, g)
  BY <1>b, Zenon DEF AInv
<1>c. ASSUME cycle'[t] = "over" PROVE Pledged(t, g)'
  BY <1>c, CycleAssumption, Zenon DEF Pledged
<1>d. ASSUME UNCHANGED <<wait, stop>> PROVE Waits(t, g) /\ Pledged(t, g)
  BY <1>b, <1>d, Zenon DEF Waits
<1>1. ASSUME UNCHANGED <<wait, left, cycle, finished, at, pc>>,
             \A h \in Handles : stop[h] => stop'[h]
      PROVE  Pledged(t, g)'
  BY <1>1, AFrame, Zenon DEF AInv
<1>2. ASSUME NEW h \in Handles, Cancel(h) PROVE Pledged(t, g)'
  BY <1>2, <1>1, <1>a, Zenon DEF Cancel, waiterVars, TypeOK
<1>3. ASSUME NEW u \in Waiters, u # t, UNCHANGED <<finished, stop, at, pc>>,
             wait'[t] = wait[t] /\ left'[t] = left[t] /\ cycle'[t] = cycle[t]
      PROVE  Pledged(t, g)'
  <2>1. Pledged(t, g)
    BY <1>b, <1>3, Zenon DEF Waits
  <2> QED BY <1>3, <2>1, Zenon DEF Pledged, Ending
<1>4. ASSUME NEW u \in Waiters, NEW h \in Handles, WakeAndWait(u, h) PROVE Pledged(t, g)'
  <2>1. UNCHANGED <<finished, stop, at, pc>>
    BY <1>4, Zenon DEF WakeAndWait
  <2>2. CASE u # t
    <3>1. wait'[t] = wait[t] /\ left'[t] = left[t] /\ cycle'[t] = cycle[t]
      BY <1>4, <1>a, <2>2, Zenon DEF WakeAndWait, TypeOK
    <3> QED BY <1>3, <2>1, <2>2, <3>1, Zenon
  <2>3. CASE u = t
    <3>1. wait'[t] = h /\ left'[t] = StepsToWait(h) /\ cycle'[t] = "none"
      BY <1>4, <1>a, <2>3, Zenon DEF WakeAndWait, TypeOK
    <3>2. h = g /\ ~stop[g]
      BY <2>1, <3>1, Zenon DEF Waits
    <3>3. ASSUME NEW w \in Workers, at[w] = g, pc[w] \in Midway PROVE running[g]
      BY <3>2, <3>3, Alone, Zenon DEF Midway
    <3>4. ASSUME running[g] PROVE left'[t] = 2
      BY <3>1, <3>2, <3>4, Zenon DEF StepsToWait
    <3>5. left'[t] # 0
      BY <3>1 DEF StepsToWait
    <3> QED BY <2>1, <3>1, <3>3, <3>4, <3>5, CycleAssumption, Zenon DEF Pledged
  <2> QED BY <2>2, <2>3, Zenon
<1>5. ASSUME NEW u \in Waiters, Leave(u) PROVE Pledged(t, g)'
  <2>1. CASE u # t
    <3>1. wait'[t] = wait[t] /\ left'[t] = left[t] /\ cycle'[t] = cycle[t]
      BY <1>5, <1>a, <2>1, Zenon DEF Leave, TypeOK
    <3> QED BY <1>3, <1>5, <2>1, <3>1, Zenon DEF Leave, handleVars, workerVars
  <2>2. CASE u = t
    BY <1>5, <1>a, <2>2, SchedulerAssumption, Zenon DEF Leave, Waits, TypeOK
  <2> QED BY <2>1, <2>2, Zenon
<1>6. ASSUME NEW w \in Workers, NEW h \in Handles, Pop(w, h) PROVE Pledged(t, g)'
  <2>1. Pledged(t, g)
    BY <1>d, <1>6, Zenon DEF Pop, waiterVars
  <2>2. /\ left'[t] = left[t] /\ cycle'[t] = cycle[t] /\ finished'[g] = finished[g]
        /\ pc[w] = "idle" /\ pc'[w] = "popped"
        /\ \A v \in Workers : v # w => at'[v] = at[v] /\ pc'[v] = pc[v]
    BY <1>6, <1>a, Zenon DEF Pop, waiterVars, TypeOK
  <2> QED BY <2>1, <2>2, WorkerFrame, Zenon DEF Midway
<1>7. ASSUME NEW w \in Workers, Lock(w) PROVE Pledged(t, g)'
  <2>1. UNCHANGED <<finished, stop, at, left, wait>>
    BY <1>7, Zenon DEF Lock
  <2>2. Waits(t, g) /\ Pledged(t, g)
    BY <1>d, <2>1, Zenon
  <2>3. pc[w] = "popped" /\ \A v \in Workers : v # w => pc'[v] = pc[v]
    BY <1>7, <1>a, Zenon DEF Lock, TypeOK
  <2>4. CASE at[w] # g
    <3>1. cycle'[t] = cycle[t]
      BY <1>7, <2>2, <2>4, Zenon DEF Lock, Waits
    <3> QED BY <2>1, <2>2, <2>3, <2>4, <3>1, WorkerFrame, Zenon
  <2>5. CASE at[w] = g /\ finished[g]
    <3>1. cycle'[t] = cycle[t] /\ pc'[w] = "skipping"
      BY <1>7, <1>a, <2>5, Zenon DEF Lock, Alive, TypeOK
    <3> QED BY <2>1, <2>2, <2>3, <3>1, WorkerFrame, Zenon DEF Midway
  <2>6. CASE at[w] = g /\ ~finished[g]
    <3>1. ~Ending(g)
      BY <1>7, <1>a, <2>6, Zenon DEF Lock, Ending, Shape, Locked
    <3>2. Alive(g) /\ ~stop[g]
      BY <1>a, <2>2, <2>6, Zenon DEF Consistent, Unstarted, Alive, Waits
    <3>3. Regular(g)
      BY <1>a, <3>1, <3>2, Zenon DEF Consistent
    <3>4. fresh[w] /\ \A v \in Workers : at[v] = g => v = w
      BY <2>3, <2>6, <3>3, Zenon DEF Regular
    <3>5. pc'[w] = "stepping"
      BY <1>7, <1>a, <2>6, <3>2, <3>4, Zenon DEF Lock, TypeOK
    <3>6. cycle[t] = "none" => cycle'[t] = w
      BY <1>7, <2>2, <2>6, <3>2, <3>4, Zenon DEF Lock, Waits
    <3>7. cycle[t] # "none" => cycle'[t] = cycle[t]
      BY <1>7, Zenon DEF Lock
    <3>8. cycle[t] \notin Workers
      BY <2>2, <2>3, <2>6, <3>1, <3>4, Zenon DEF Pledged, Midway
    <3>9. CASE cycle[t] = "none"
      <4>1. left'[t] # 0
        BY <2>1, <2>2, <3>9, Zenon DEF Pledged
      <4>2. at'[w] = g /\ pc'[w] \in Midway
        BY <2>1, <2>6, <3>5, Zenon DEF Midway
      <4> QED BY <3>6, <3>9, <4>1, <4>2, CycleAssumption, Zenon DEF Pledged
    <3>10. CASE cycle[t] = "over"
      BY <1>c, <3>7, <3>10, Zenon
    <3> QED BY <1>a, <3>8, <3>9, <3>10, Zenon DEF TypeOK
  <2> QED BY <2>4, <2>5, <2>6, Zenon
<1>8. ASSUME NEW w \in Workers, Skip(w) \/ ForgetHandle(w) \/ Reschedule(w)
      PROVE  Pledged(t, g)'
  <2>1. /\ Idle(w) /\ UNCHANGED <<finished, stop, left, cycle, wait>>
        /\ pc[w] \in {"skipping", "over", "marked"}
    BY <1>8, Zenon DEF Skip, ForgetHandle, Reschedule, handleVars, waiterVars
  <2>2. /\ pc'[w] = "idle"
        /\ \A v \in Workers : v # w => at'[v] = at[v] /\ pc'[v] = pc[v]
    BY <2>1, <1>a, Zenon DEF Idle, TypeOK
  <2> QED BY <1>d, <2>1, <2>2, WorkerFrame, Zenon DEF Midway
<1>9. ASSUME NEW w \in Workers, NEW d \in BOOLEAN, End(w) \/ Exit(w) \/ Yield(w, d)
      PROVE  Pledged(t, g)'
  <2>1. /\ UNCHANGED <<finished, stop, at, left, cycle, wait>>
        /\ \A v \in Workers : v # w => pc'[v] = pc[v]
    BY <1>9, <1>a, Zenon DEF End, Exit, Yield, handleVars, waiterVars, TypeOK
  <2>2. \/ pc[w] \in {"stepping", "stopping"} /\ pc'[w] = "ended"
        \/ pc[w] = "idle" /\ pc'[w] = "exited"
        \/ pc[w] = "stepping" /\ pc'[w] = "stepped"
    BY <1>9, <1>a, Zenon DEF End, Exit, Yield, TypeOK
  <2> QED BY <1>d, <2>1, <2>2, WorkerFrame, Zenon DEF Midway
<1>10. ASSUME NEW w \in Workers, MarkDone(w) PROVE Pledged(t, g)'
  <2>1. /\ UNCHANGED <<stop, at, left, cycle, wait>>
        /\ \A v \in Workers : v # w => pc'[v] = pc[v]
        /\ pc[w] = "ended" /\ pc'[w] = "over"
    BY <1>10, <1>a, Zenon DEF MarkDone, waiterVars, TypeOK
  <2>2. (finished[g] => finished'[g]) /\ (at[w] = g => finished'[g])
    BY <1>10, <1>a, Zenon DEF MarkDone, TypeOK
  <2> QED BY <1>d, <2>1, <2>2, WorkerFrame, Zenon DEF Midway
<1>11. ASSUME NEW w \in Workers, MarkStepComplete(w) PROVE Pledged(t, g)'
  <2>1. /\ UNCHANGED <<finished, stop, at, wait>>
        /\ \A v \in Workers : v # w => pc'[v] = pc[v]
        /\ pc[w] = "stepped" /\ pc'[w] = "marked"
    BY <1>11, <1>a, Zenon DEF MarkStepComplete, handleVars, TypeOK
  <2>2. Waits(t, g) /\ Pledged(t, g)
    BY <1>d, <2>1, Zenon
  <2>3. /\ cycle[t] = w => cycle'[t] = "over"
        /\ cycle[t] # w => cycle'[t] = cycle[t]
    BY <1>11, Zenon DEF MarkStepComplete
  <2>4. CASE at[w] # g /\ cycle[t] # w
    <3>1. left'[t] = left[t]
      BY <1>11, <2>2, <2>4, Zenon DEF MarkStepComplete, Waits
    <3> QED BY <2>1, <2>2, <2>3, <2>4, <3>1, WorkerFrame, Zenon
  <2>5. CASE at[w] = g /\ cycle[t] # w /\ cycle[t] # "over"
    <3>1. /\ ~Ending(g) /\ ~finished[g]
          /\ \A v \in Workers : at[v] = g => v = w
      BY <2>1, <2>2, <2>5, Alone, Zenon DEF Waits
    <3>2. cycle[t] \notin Workers
      BY <2>2, <2>5, <3>1, Zenon DEF Pledged
    <3>3. cycle[t] = "none" /\ cycle'[t] = "none"
      BY <1>a, <2>3, <2>5, <3>2, Zenon DEF TypeOK
    <3>4. left[t] = 2
      BY <2>1, <2>2, <2>5, <3>3, Zenon DEF Pledged, Midway
    <3>5. left'[t] = IF left[t] > 0 THEN left[t] - 1 ELSE left[t]
      BY <1>11, <2>2, <2>5, Zenon DEF MarkStepComplete, Waits
    <3>6. left'[t] # 0
      BY <3>4, <3>5
    <3>7. \A v \in Workers : at'[v] = g => pc'[v] \notin Midway
      BY <2>1, <3>1, Zenon DEF Midway
    <3> QED BY <3>3, <3>6, <3>7, CycleAssumption, Zenon DEF Pledged
  <2>6. CASE cycle[t] = w \/ cycle[t] = "over"
    BY <1>c, <2>3, <2>6, Zenon
  <2> QED BY <2>4, <2>5, <2>6, Zenon
<1>12. ASSUME \/ \E h \in Handles :
                   \/ StartBegin(h) \/ StartSchedule(h)
                   \/ Wake(h) \/ Elapse(h) \/ Drop(h)
              \/ Close
              \/ UNCHANGED vars
       PROVE  Pledged(t, g)'
  <2>1. UNCHANGED <<finished, stop, at, pc, wait, left, cycle>>
    BY <1>12, Zenon
       DEF StartBegin, StartSchedule, Wake, Elapse, Drop, Close,
           vars, workerVars, handleVars, waiterVars
  <2> QED BY <1>1, <2>1, Zenon
<1>13. ASSUME NEW w \in Workers, Work(w) PROVE Pledged(t, g)'
  BY <1>6, <1>7, <1>8, <1>9, <1>10, <1>11, <1>13, Zenon DEF Work
<1> QED BY <1>2, <1>4, <1>5, <1>12, <1>13, Zenon DEF Next, Acknowledge, WaitFails

(* wake_strategy_and_wait reports success only after a cycle that began    *)
(* after the wake (AckSound), for any number of workers and waiters, as    *)
(* long as no wake falls inside handle.start().                            *)
THEOREM AcksSound == Spec /\ ~EarlyWakes => []AckSound
<1>1. IInv /\ AInv /\ [Next]_vars => AInv'
  BY VacatedStep, PledgeStep, Zenon DEF AInv
<1>2. IInv /\ AInv => AckSound
  <2> SUFFICES ASSUME IInv, AInv, NEW t \in Waiters, Acknowledged(t), ~stop[wait[t]]
               PROVE  cycle[t] = "over"
    BY Zenon DEF AckSound
  <2>1. wait[t] \in Handles
    BY Zenon DEF IInv, TypeOK, Acknowledged
  <2> QED BY <2>1, Zenon DEF AInv, Waits, Pledged, Acknowledged
<1> QED BY <1>1, <1>2, AInit, FlagsInit, InvStep, PTL DEF Spec
=============================================================================
