------------------------- MODULE PendingOrdersProofs -------------------------
(***************************************************************************)
(* No fill is booked twice and no writer takes a fill back, for every      *)
(* number of dispatch and reconciliation threads, every order size, and    *)
(* with threads that stall past the recovery of their claims.  Without     *)
(* such stalls the order is sent once, and is never lost from sight.       *)
(***************************************************************************)
EXTENDS PendingOrders, TLAPS

(* Every quantity a thread or a table holds was once reached by the venue, *)
(* whose own quantity only grows.                                          *)
Reached ==
    /\ venue = "none" => vfill = 0
    /\ venue = "open" => vfill < Quantity
    /\ filled <= vfill /\ tracked <= vfill /\ posted <= vfill
    /\ \A d \in Dispatchers : dread[d] <= vfill
    /\ \A s \in Syncers :
         rowFilled[s] <= vfill /\ rowTracked[s] <= vfill /\ cum[s] <= vfill

IInv == TypeOK /\ Reached

-----------------------------------------------------------------------------
(* What reconciliation adds up stays within what it read.                  *)
LEMMA AggregateReached ==
    ASSUME IInv, NEW s \in Syncers
    PROVE  Aggregate(s) \in Amounts /\ Aggregate(s) <= vfill
<1>1. /\ rowFilled[s] \in Amounts /\ rowTracked[s] \in Amounts
      /\ cum[s] \in Amounts /\ vfill \in Amounts
  BY Zenon DEF IInv, TypeOK, SyncTypeOK, VenueTypeOK
<1>2. rowFilled[s] <= vfill /\ rowTracked[s] <= vfill /\ cum[s] <= vfill
  BY Zenon DEF IInv, Reached
<1> QED
  BY <1>1, <1>2, PendingAssumption DEF Aggregate, Grew, Baseline, Larger, Amounts

LEMMA QueueStatusType ==
    ASSUME NEW s \in Syncers
    PROVE  QueueStatus(s) \in Statuses
BY Zenon DEF QueueStatus, Statuses

LEMMA InitialState == Init => IInv
<1> SUFFICES ASSUME Init PROVE IInv
  OBVIOUS
<1> USE PendingAssumption DEF Init, Amounts
<1>1. RowTypeOK
  BY DEF RowTypeOK, Statuses
<1>6. FlagTypeOK
  BY ZenonT(30) DEF FlagTypeOK
<1>2. VenueTypeOK
  BY DEF VenueTypeOK, VenueStates
<1>3. DispatchTypeOK
  BY DEF DispatchTypeOK, DispatchPoints
<1>4. SyncTypeOK
  BY DEF SyncTypeOK, SyncPoints
<1>5. Reached
  BY DEF Reached
<1> QED
  BY <1>1, <1>2, <1>3, <1>4, <1>5, <1>6, Zenon DEF IInv, TypeOK

(* A thread that returns forgets what it read.                             *)
LEMMA LeaveKeeps ==
    ASSUME IInv, NEW d \in Dispatchers, Leave(d), vfill' = vfill
    PROVE  DispatchTypeOK' /\ \A e \in Dispatchers : dread'[e] <= vfill'
<1>1. 0 \in Amounts /\ 0 \in 0 .. MaxLeverage /\ 0 \in Nat /\ "idle" \in DispatchPoints
  BY PendingAssumption DEF Amounts, DispatchPoints
<1>2. DispatchTypeOK'
  BY <1>1, ZenonT(30) DEF Leave, IInv, TypeOK, DispatchTypeOK
<1>3. \A e \in Dispatchers : dread'[e] = dread[e] \/ dread'[e] = 0
  BY Zenon DEF Leave, IInv, TypeOK, DispatchTypeOK
<1>4. 0 <= vfill
  BY DEF IInv, TypeOK, VenueTypeOK, Amounts
<1> QED
  BY <1>2, <1>3, <1>4, Zenon DEF IInv, Reached

LEMMA SyncLeaveKeeps ==
    ASSUME IInv, NEW s \in Syncers, SyncLeave(s), vfill' = vfill
    PROVE  /\ SyncTypeOK'
           /\ \A t \in Syncers : /\ rowFilled'[t] <= vfill'
                                 /\ rowTracked'[t] <= vfill' /\ cum'[t] <= vfill'
<1>1. 0 \in Amounts /\ "idle" \in SyncPoints
  BY PendingAssumption DEF Amounts, SyncPoints
<1>2. SyncTypeOK'
  BY <1>1, ZenonT(30) DEF SyncLeave, IInv, TypeOK, SyncTypeOK
<1>3. \A t \in Syncers : /\ rowFilled'[t] \in {rowFilled[t], 0}
                         /\ rowTracked'[t] \in {rowTracked[t], 0}
                         /\ cum'[t] \in {cum[t], 0}
  BY Zenon DEF SyncLeave, IInv, TypeOK, SyncTypeOK
<1>4. 0 <= vfill
  BY DEF IInv, TypeOK, VenueTypeOK, Amounts
<1> QED
  BY <1>2, <1>3, <1>4, Zenon DEF IInv, Reached

(* Every step of every thread keeps the invariant.                         *)
LEMMA Inductive == IInv /\ [Next]_vars => IInv'
<1> SUFFICES ASSUME IInv, [Next]_vars PROVE IInv'
  OBVIOUS
<1> USE PendingAssumption
    DEF IInv, TypeOK, RowTypeOK, FlagTypeOK, VenueTypeOK, DispatchTypeOK, SyncTypeOK, Reached,
        Amounts, Statuses, VenueStates, DispatchPoints, SyncPoints, rowVars,
        venueVars, dispatchVars, syncVars
<1>1. ASSUME NEW d \in Dispatchers, RecoverSubmission(d) PROVE IInv'
  BY <1>1, Zenon DEF RecoverSubmission
<1>2. ASSUME NEW d \in Dispatchers, RequeueClaim(d) PROVE IInv'
  BY <1>2 DEF RequeueClaim
<1>3. ASSUME NEW d \in Dispatchers, FetchPending(d) PROVE IInv'
  BY <1>3 DEF FetchPending
<1>4. ASSUME NEW d \in Dispatchers, MarkProcessing(d) PROVE IInv'
  <2>1. CASE status = "pending"
    BY <2>1, <1>4 DEF MarkProcessing, Advance, Leave
  <2>2. CASE status # "pending"
    <3>1. Leave(d) /\ UNCHANGED <<rowVars, posted, venueVars, syncVars, faults>>
      BY <2>2, <1>4, Zenon DEF MarkProcessing
    <3>2. RowTypeOK' /\ FlagTypeOK' /\ VenueTypeOK' /\ SyncTypeOK'
      BY <3>1, ZenonT(30)
    <3> QED BY <3>1, <3>2, LeaveKeeps, ZenonT(30)
  <2> QED BY <2>1, <2>2, Zenon
<1>5. ASSUME NEW d \in Dispatchers, RejectFence(d) PROVE IInv'
  BY <1>5, LeaveKeeps, ZenonT(30) DEF RejectFence
<1>6. ASSUME NEW d \in Dispatchers, ReleaseBusy(d) PROVE IInv'
  <2>1. CASE status = "processing"
    <3>1. FlagTypeOK'
      BY <2>1, <1>6, ZenonT(30) DEF ReleaseBusy, Leave, Decrement
    <3>2. RowTypeOK' /\ Reached' /\ VenueTypeOK' /\ DispatchTypeOK' /\ SyncTypeOK'
      BY <2>1, <1>6 DEF ReleaseBusy, Leave, Decrement
    <3> QED BY <3>1, <3>2, Zenon
  <2>2. CASE status # "processing"
    BY <2>2, <1>6 DEF ReleaseBusy, Leave, Decrement
  <2> QED BY <2>1, <2>2, Zenon
<1>7. ASSUME NEW d \in Dispatchers, InterceptCancelled(d) PROVE IInv'
  <2>1. CASE status # "processing"
    <3>1. FlagTypeOK'
      BY <1>7, <2>1, Zenon DEF InterceptCancelled, Leave
    <3>2. RowTypeOK' /\ Reached'
      BY <1>7, <2>1, LeaveKeeps, Zenon DEF InterceptCancelled
    <3>3. VenueTypeOK' /\ DispatchTypeOK' /\ SyncTypeOK'
      BY <1>7, <2>1, LeaveKeeps, Zenon DEF InterceptCancelled
    <3> QED BY <3>1, <3>2, <3>3, Zenon
  <2>2. CASE status = "processing"
    <3>1. FlagTypeOK'
      BY <1>7, <2>2, Zenon DEF InterceptCancelled, Leave
    <3>2. RowTypeOK' /\ Reached'
      BY <1>7, <2>2, LeaveKeeps, Zenon DEF InterceptCancelled
    <3>3. VenueTypeOK' /\ DispatchTypeOK' /\ SyncTypeOK'
      BY <1>7, <2>2, LeaveKeeps, Zenon DEF InterceptCancelled
    <3> QED BY <3>1, <3>2, <3>3, Zenon
  <2> QED BY <2>1, <2>2, Zenon
<1>8. ASSUME NEW d \in Dispatchers, BeginDispatch(d) PROVE IInv'
  BY <1>8 DEF BeginDispatch
<1>9. ASSUME NEW d \in Dispatchers, RejectOrder(d) PROVE IInv'
  BY <1>9, LeaveKeeps, ZenonT(30) DEF RejectOrder, MarkFailed
<1>10. ASSUME NEW d \in Dispatchers, ScheduleLeverageRetry(d) PROVE IInv'
  <2>1. CASE faults' = faults
    <3>1. FlagTypeOK'
      BY <2>1, <1>10, ZenonT(30) DEF ScheduleLeverageRetry, Leave, Decrement
    <3>2. RowTypeOK' /\ Reached' /\ VenueTypeOK' /\ DispatchTypeOK' /\ SyncTypeOK'
      BY <2>1, <1>10 DEF ScheduleLeverageRetry, Leave, Decrement
    <3> QED BY <3>1, <3>2, Zenon
  <2>2. CASE faults' # faults /\ status = "processing"
    <3>1. FlagTypeOK'
      BY <2>2, <1>10, ZenonT(30) DEF ScheduleLeverageRetry, Leave, Decrement
    <3>2. RowTypeOK' /\ Reached' /\ VenueTypeOK' /\ DispatchTypeOK' /\ SyncTypeOK'
      BY <2>2, <1>10 DEF ScheduleLeverageRetry, Leave, Decrement
    <3> QED BY <3>1, <3>2, Zenon
  <2>3. CASE faults' # faults /\ status # "processing"
    BY <2>3, <1>10 DEF ScheduleLeverageRetry, Leave, Decrement
  <2> QED BY <2>1, <2>2, <2>3, Zenon
<1>11. ASSUME NEW d \in Dispatchers, PrepareSubmission(d) PROVE IInv'
  <2>1. CASE status = "processing"
    <3>1. FlagTypeOK'
      BY <2>1, <1>11, Zenon DEF PrepareSubmission, Advance, MarkFailed, Leave
    <3>2. RowTypeOK' /\ Reached'
      BY <2>1, <1>11 DEF PrepareSubmission, Advance, MarkFailed, Leave
    <3>3. VenueTypeOK' /\ DispatchTypeOK' /\ SyncTypeOK'
      BY <2>1, <1>11, ZenonT(30) DEF PrepareSubmission, Advance, MarkFailed, Leave
    <3> QED BY <3>1, <3>2, <3>3, Zenon
  <2>2. CASE status # "processing"
    <3>1. FlagTypeOK'
      BY <2>2, <1>11, ZenonT(30) DEF PrepareSubmission, Advance, MarkFailed, Leave
    <3>2. RowTypeOK' /\ Reached'
      BY <2>2, <1>11 DEF PrepareSubmission, Advance, MarkFailed, Leave
    <3>3. VenueTypeOK' /\ DispatchTypeOK' /\ SyncTypeOK'
      BY <2>2, <1>11, LeaveKeeps, ZenonT(30) DEF PrepareSubmission, MarkFailed
    <3> QED BY <3>1, <3>2, <3>3, Zenon
  <2> QED BY <2>1, <2>2, Zenon
<1>12. ASSUME NEW d \in Dispatchers, MarkSubmitUnknown(d) PROVE IInv'
  BY <1>12, LeaveKeeps, ZenonT(30) DEF MarkSubmitUnknown
<1>13. ASSUME NEW d \in Dispatchers, MarkRefused(d) PROVE IInv'
  BY <1>13, LeaveKeeps, ZenonT(30) DEF MarkRefused, MarkFailed
<1>14. ASSUME NEW d \in Dispatchers, ReadFill(d) PROVE IInv'
  BY <1>14 DEF ReadFill
<1>15. ASSUME NEW d \in Dispatchers, MarkSent(d) PROVE IInv'
  <2>1. CASE faults' = faults
    <3>1. FlagTypeOK'
      BY <2>1, <1>15, ZenonT(30) DEF MarkSent, Advance, Larger
    <3>2. RowTypeOK' /\ Reached' /\ VenueTypeOK' /\ DispatchTypeOK' /\ SyncTypeOK'
      BY <2>1, <1>15 DEF MarkSent, Advance, Larger
    <3> QED BY <3>1, <3>2, Zenon
  <2>2. CASE faults' # faults
    BY <2>2, <1>15 DEF MarkSent, Advance, Larger
  <2> QED BY <2>1, <2>2, Zenon
<1>16. ASSUME NEW d \in Dispatchers, RecordFill(d) PROVE IInv'
  <2>1. Leave(d) /\ UNCHANGED <<rowVars, venueVars, syncVars>>
    BY <1>16, Zenon DEF RecordFill
  <2>2. RowTypeOK' /\ FlagTypeOK' /\ VenueTypeOK' /\ posted' <= vfill'
    BY <1>16 DEF RecordFill, PostCumulative, Larger
  <2> QED BY <2>1, <2>2, LeaveKeeps, Zenon
<1>17. ASSUME NEW d \in Dispatchers, CrashDispatch(d) PROVE IInv'
  BY <1>17 DEF CrashDispatch, Leave
<1>18. ASSUME NEW d \in Dispatchers, NEW answer \in {"acked", "refused", "unknown"},
             Submit(d, answer)
      PROVE  IInv'
  <2>1. FlagTypeOK'
    BY <1>18, ZenonT(30) DEF Submit
  <2>2. RowTypeOK' /\ VenueTypeOK' /\ DispatchTypeOK' /\ SyncTypeOK'
    BY <1>18 DEF Submit, Accepted, Advance
  <2>3. Reached'
    BY <1>18 DEF Submit, Accepted, Advance
  <2> QED BY <2>1, <2>2, <2>3, Zenon
<1>19. ASSUME NEW s \in Syncers, ClaimSent(s) PROVE IInv'
  BY <1>19 DEF ClaimSent, ClaimRow
<1>20. ASSUME NEW s \in Syncers, ClaimForFee(s) PROVE IInv'
  BY <1>20 DEF ClaimForFee, ClaimRow
<1>21. ASSUME NEW s \in Syncers, QueryVenue(s) PROVE IInv'
  <2>1. /\ venue' \in VenueStates /\ (venue # "none" => venue' # "none")
        /\ venue' = "open" => venue = "open"
        /\ venue' = "none" => venue = "none"
    BY <1>21, Zenon DEF QueryVenue
  <2>2. /\ cum'[s] \in {0, vfill} /\ UNCHANGED <<vfill, rowFilled, rowTracked>>
        /\ cum' = [cum EXCEPT ![s] = cum'[s]]
    BY <1>21, Zenon DEF QueryVenue
  <2>3. Reached'
    BY <1>21, <2>1, <2>2 DEF QueryVenue
  <2>4. FlagTypeOK'
    BY <1>21, ZenonT(30) DEF QueryVenue
  <2>5. VenueTypeOK' /\ RowTypeOK' /\ DispatchTypeOK'
    BY <1>21, <2>1 DEF QueryVenue
  <2>6. state' \in [Syncers -> {"unknown", "open", "filled", "cancelled"}]
    BY <1>21, <2>1, Zenon DEF QueryVenue
  <2>7. priced' \in [Syncers -> BOOLEAN]
    <3>1. \/ priced' = [priced EXCEPT ![s] = vfill > 0]
          \/ priced' = [priced EXCEPT ![s] = FALSE]
      BY <1>21, Zenon DEF QueryVenue
    <3>2. ASSUME NEW b \in BOOLEAN, priced' = [priced EXCEPT ![s] = b]
          PROVE  priced' \in [Syncers -> BOOLEAN]
      BY <3>2, Zenon
    <3>3. (vfill > 0) = TRUE \/ (vfill > 0) = FALSE
      OBVIOUS
    <3>4. \E b \in BOOLEAN : priced' = [priced EXCEPT ![s] = b]
      BY ONLY <3>1, <3>3, Zenon
    <3> QED BY <3>2, <3>4, Zenon
  <2>8. SyncTypeOK'
    BY <1>21, <2>2, <2>6, <2>7 DEF QueryVenue
  <2> QED BY <2>3, <2>4, <2>5, <2>8, Zenon
<1>22. ASSUME NEW s \in Syncers, QueryFailed(s) PROVE IInv'
  <2>1. CASE filled <= rowFilled[s]
    <3>1. FlagTypeOK'
      BY <2>1, <1>22, ZenonT(30) DEF QueryFailed, Snapshot, SyncLeave
    <3>2. RowTypeOK' /\ Reached' /\ VenueTypeOK' /\ DispatchTypeOK' /\ SyncTypeOK'
      BY <2>1, <1>22 DEF QueryFailed, Snapshot, SyncLeave
    <3> QED BY <3>1, <3>2, Zenon
  <2>2. CASE ~(filled <= rowFilled[s])
    BY <2>2, <1>22 DEF QueryFailed, Snapshot, SyncLeave
  <2> QED BY <2>1, <2>2, Zenon
<1>23. ASSUME NEW s \in Syncers, BookFill(s) PROVE IInv'
  <2> DEFINE total == Aggregate(s)
  <2>1. total \in Amounts /\ total <= vfill
    BY AggregateReached, Zenon
  <2>2. posted' \in {posted, total}
    BY <1>23, Zenon DEF BookFill, PostCumulative, Larger
  <2>3. /\ spc' = [spc EXCEPT ![s] = "booked"]
        /\ UNCHANGED <<rowVars, venueVars, dispatchVars, rowFilled, rowTracked,
                       rowCancel, cum, state, priced, faults>>
    BY <1>23, Zenon DEF BookFill
  <2> HIDE DEF total
  <2> QED BY <2>1, <2>2, <2>3
<1>24. ASSUME NEW s \in Syncers, BookFailed(s) PROVE IInv'
  <2>1. CASE status = "syncing"
    <3>1. FlagTypeOK'
      BY <2>1, <1>24, ZenonT(30) DEF BookFailed, SyncLeave
    <3>2. RowTypeOK' /\ Reached' /\ VenueTypeOK' /\ DispatchTypeOK' /\ SyncTypeOK'
      BY <2>1, <1>24 DEF BookFailed, SyncLeave
    <3> QED BY <3>1, <3>2, Zenon
  <2>2. CASE status # "syncing"
    BY <2>2, <1>24 DEF BookFailed, SyncLeave
  <2> QED BY <2>1, <2>2, Zenon
<1>25. ASSUME NEW s \in Syncers, WriteSnapshot(s) PROVE IInv'
  <2> DEFINE total == Aggregate(s)
             newStatus == QueueStatus(s)
  <2>1. total \in Amounts /\ total <= vfill /\ newStatus \in Statuses
    BY AggregateReached, QueueStatusType, Zenon
  <2>2. /\ Snapshot(s, newStatus, total, cum[s]) /\ SyncLeave(s)
        /\ UNCHANGED <<attempts, clientId, exchangeId, cancel, leverage, posted,
                       venueVars, dispatchVars, faults>>
    BY <1>25, Zenon DEF WriteSnapshot
  <2> HIDE DEF total, newStatus
  <2>3. CASE filled <= total
    <3>1. FlagTypeOK'
      BY <2>1, <2>2, <2>3, ZenonT(30) DEF Snapshot, SyncLeave
    <3>2. RowTypeOK' /\ Reached'
      BY <2>1, <2>2, <2>3 DEF Snapshot, SyncLeave
    <3>3. VenueTypeOK' /\ DispatchTypeOK' /\ SyncTypeOK'
      BY <2>2, SyncLeaveKeeps, Zenon
    <3> QED BY <3>1, <3>2, <3>3, Zenon
  <2>4. CASE ~(filled <= total)
    <3>1. FlagTypeOK'
      BY <2>2, <2>4, Zenon DEF Snapshot, SyncLeave
    <3>2. RowTypeOK' /\ Reached'
      BY <2>2, <2>4, SyncLeaveKeeps, Zenon DEF Snapshot
    <3>3. VenueTypeOK' /\ DispatchTypeOK' /\ SyncTypeOK'
      BY <2>2, SyncLeaveKeeps, Zenon
    <3> QED BY <3>1, <3>2, <3>3, Zenon
  <2> QED BY <2>3, <2>4, Zenon
<1>26. ASSUME NEW s \in Syncers, CrashSync(s) PROVE IInv'
  BY <1>26 DEF CrashSync, SyncLeave
<1>27. ASSUME NEW s \in Syncers, RequeueSync(s) PROVE IInv'
  BY <1>27 DEF RequeueSync
<1>28. ASSUME NEW c \in 1 .. Quantity, ProjectEvent(c) PROVE IInv'
  BY <1>28 DEF ProjectEvent, PostCumulative, Larger
<1>29. CASE RequestCancel
  BY <1>29 DEF RequestCancel
<1>30. CASE VenueFill
  BY <1>30 DEF VenueFill
<1>31. CASE VenueCancel
  BY <1>31 DEF VenueCancel
<1>32. CASE Age
  <2>1. FlagTypeOK'
    BY <1>32, ZenonT(30) DEF Age
  <2>2. RowTypeOK' /\ Reached'
    BY <1>32, Zenon DEF Age
  <2>3. VenueTypeOK' /\ DispatchTypeOK' /\ SyncTypeOK'
    BY <1>32, Zenon DEF Age
  <2> QED BY <2>1, <2>2, <2>3, Zenon
<1>33. CASE UNCHANGED vars
  <2>1. FlagTypeOK'
    BY <1>33, Zenon DEF vars
  <2>2. RowTypeOK' /\ Reached'
    BY <1>33, Zenon DEF vars
  <2>3. VenueTypeOK' /\ DispatchTypeOK' /\ SyncTypeOK'
    BY <1>33, Zenon DEF vars
  <2> QED BY <2>1, <2>2, <2>3, Zenon
<1>34. ASSUME NEW d \in Dispatchers, DispatchStep(d) PROVE IInv'
  BY ONLY <1>34, <1>4, <1>5, <1>6, <1>7, <1>8, <1>9, <1>10, <1>11,
     <1>12, <1>13, <1>14, <1>15, <1>16, <1>18, ZenonT(30)
  DEF DispatchStep
<1>35. ASSUME NEW s \in Syncers, SyncStep(s) PROVE IInv'
  BY ONLY <1>35, <1>19, <1>21, <1>22, <1>23, <1>24, <1>25, ZenonT(30) DEF SyncStep
<1> QED
  BY ONLY [Next]_vars, <1>1, <1>2, <1>3, <1>17, <1>20, <1>26, <1>27, <1>28,
     <1>29, <1>30, <1>31, <1>32, <1>33, <1>34, <1>35, ZenonT(30)
  DEF Next

LEMMA Invariant == Spec => []IInv
<1>1. Init => IInv
  BY InitialState, Zenon
<1>2. IInv /\ [Next]_vars => IInv'
  BY Inductive, Zenon
<1> QED
  BY <1>1, <1>2, PTL DEF Spec

-----------------------------------------------------------------------------
(* Type correctness: no quantity of the row, of the booked trades or of a  *)
(* thread exceeds the order, and leverage retries stay within their limit. *)
THEOREM TypeCorrect == Spec => []TypeOK
<1>1. IInv => TypeOK
  BY Zenon DEF IInv
<1> QED
  BY <1>1, Invariant, PTL

(* persist_strategy_fill is idempotent across its three callers: the       *)
(* trades of an order never add up to more than the venue filled.          *)
THEOREM BookedOnce == Spec => []FillsBookedOnce
<1>1. IInv => FillsBookedOnce
  BY Zenon DEF IInv, Reached, FillsBookedOnce
<1> QED
  BY <1>1, Invariant, PTL

(* _mark_sent, the snapshot of the reconciliation and the projection of    *)
(* the stream never write a smaller fill over a larger one.                *)
THEOREM FillsOnlyGrow == Spec => FilledNeverShrinks
<1>1. IInv /\ [Next]_vars => [filled' >= filled]_vars
  <2> SUFFICES ASSUME IInv, Next PROVE filled' >= filled
    OBVIOUS
  <2>0. filled \in Nat /\ posted \in Nat
    BY DEF IInv, TypeOK, RowTypeOK, Amounts
  <2>1. ASSUME UNCHANGED filled PROVE filled' >= filled
    BY <2>0, <2>1
  <2>2. ASSUME NEW d \in Dispatchers, MarkSent(d) PROVE filled' >= filled
    <3>1. dread[d] \in Nat
      BY DEF IInv, TypeOK, DispatchTypeOK, Amounts
    <3>2. filled' = filled \/ filled' = Larger(filled, dread[d])
      BY <2>2, Zenon DEF MarkSent
    <3> QED
      BY <2>0, <3>1, <3>2 DEF Larger
  <2>3. ASSUME NEW s \in Syncers, QueryFailed(s) PROVE filled' >= filled
    BY <2>0, <2>3 DEF QueryFailed, Snapshot
  <2>4. ASSUME NEW s \in Syncers, WriteSnapshot(s) PROVE filled' >= filled
    BY <2>0, <2>4 DEF WriteSnapshot, Snapshot
  <2>5. ASSUME NEW c \in 1 .. Quantity, ProjectEvent(c) PROVE filled' >= filled
    <3>1. posted' \in Nat
      BY <2>0, <2>5 DEF ProjectEvent, PostCumulative, Larger
    <3> QED
      BY <2>0, <2>5, <3>1 DEF ProjectEvent, Larger
  <2>6. ASSUME NEW d \in Dispatchers,
               \/ RecoverSubmission(d) \/ RequeueClaim(d) \/ FetchPending(d)
               \/ DispatchStep(d) \/ CrashDispatch(d),
               ~MarkSent(d)
        PROVE  UNCHANGED filled
    BY <2>6, ZenonT(30)
    DEF RecoverSubmission, RequeueClaim, FetchPending, DispatchStep, CrashDispatch,
        MarkProcessing, RejectFence, ReleaseBusy, InterceptCancelled, BeginDispatch,
        RejectOrder, MarkFailed, ScheduleLeverageRetry, PrepareSubmission, Submit,
        MarkSubmitUnknown, MarkRefused, ReadFill, RecordFill, rowVars
  <2>7. ASSUME NEW s \in Syncers,
               SyncStep(s) \/ ClaimForFee(s) \/ CrashSync(s) \/ RequeueSync(s),
               ~QueryFailed(s), ~WriteSnapshot(s)
        PROVE  UNCHANGED filled
    BY <2>7, ZenonT(30)
    DEF SyncStep, ClaimForFee, CrashSync, RequeueSync, ClaimSent, ClaimRow,
        QueryVenue, BookFill, BookFailed, rowVars
  <2>8. ASSUME RequestCancel \/ VenueFill \/ VenueCancel \/ Age
        PROVE  UNCHANGED filled
    BY <2>8, Zenon DEF RequestCancel, VenueFill, VenueCancel, Age, rowVars
  <2> QED
    BY <2>1, <2>2, <2>3, <2>4, <2>5, <2>6, <2>7, <2>8, Zenon DEF Next
<1> QED
  BY <1>1, Invariant, PTL DEF Spec, FilledNeverShrinks

-----------------------------------------------------------------------------
(* One submission.  When no live thread sleeps past the recovery of its    *)
(* claim, a claim is exclusive: the row of a thread that holds one is      *)
(* fresh, so nobody requeues it.                                           *)

Holding == {"claimed", "checked", "prepared", "acked", "read", "marked",
            "refused", "unknown"}

Exclusive ==
    /\ \A d \in Dispatchers : dpc[d] \in Holding => fresh /\ status # "pending"
    /\ \A d, e \in Dispatchers :
         dpc[d] \in Holding /\ dpc[e] \in Holding => d = e

(* Before the client id is stored nothing was sent and nobody reconciles;  *)
(* between that and the call the row stays with its dispatcher.            *)
Phases ==
    /\ ~clientId => submits = 0 /\ ~exchangeId
    /\ submits \in {0, 1} /\ (submits = 0 => venue = "none")
    /\ status = "pending" => ~clientId
    /\ \A s \in Syncers : spc[s] # "idle" => clientId
    /\ \A d \in Dispatchers :
         /\ dpc[d] \in {"claimed", "checked"} => status = "processing" /\ ~clientId
         /\ dpc[d] = "prepared" => /\ status = "processing" /\ clientId
                                  /\ submits = 0
                                  /\ \A s \in Syncers : spc[s] = "idle"
         /\ dpc[d] = "refused" => (venue = "none" \/ lost) /\ clientId
         /\ dpc[d] \in {"acked", "read", "marked", "unknown"} => clientId

(* What a status, or a reconciler's reading, says of the venue's order.    *)
Meaning ==
    /\ status = "failed" => venue = "none" \/ lost
    /\ status = "cancelled" => venue # "open"
    /\ \A s \in Syncers : state[s] = "cancelled" => venue = "cancelled"

SInv == Exclusive /\ Phases /\ Meaning

LEMMA InitialExclusive == Init => SInv
BY PendingAssumption DEF Init, SInv, Exclusive, Phases, Meaning, Holding

LEMMA InductiveExclusive ==
    IInv /\ SInv /\ ~Stalls /\ [Next]_vars => SInv'
<1> SUFFICES ASSUME IInv, SInv, ~Stalls, [Next]_vars PROVE SInv'
  OBVIOUS
<1>a. /\ dpc \in [Dispatchers -> DispatchPoints] /\ spc \in [Syncers -> SyncPoints]
      /\ state \in [Syncers -> {"unknown", "open", "filled", "cancelled"}]
      /\ status \in Statuses /\ venue \in VenueStates /\ vfill \in Nat
      /\ venue = "none" => vfill = 0
      /\ clientId \in BOOLEAN /\ exchangeId \in BOOLEAN /\ fresh \in BOOLEAN
  BY DEF IInv, Reached, TypeOK, RowTypeOK, FlagTypeOK, VenueTypeOK, DispatchTypeOK,
         SyncTypeOK, Amounts
<1> USE <1>a DEF SInv, Exclusive, Phases, Meaning, Holding, rowVars, venueVars,
        dispatchVars, syncVars
<1>1. ASSUME NEW d \in Dispatchers, RecoverSubmission(d) PROVE SInv'
  BY <1>1, Zenon DEF RecoverSubmission
<1>2. ASSUME NEW d \in Dispatchers, RequeueClaim(d) PROVE SInv'
  BY <1>2, Zenon DEF RequeueClaim
<1>3. ASSUME NEW d \in Dispatchers, FetchPending(d) PROVE SInv'
  BY <1>3, Zenon DEF FetchPending
<1>4. ASSUME NEW d \in Dispatchers, MarkProcessing(d) PROVE SInv'
  <2>1. Exclusive'
    BY <1>4 DEF MarkProcessing, Advance, Leave
  <2>2. Phases'
    BY <1>4 DEF MarkProcessing, Advance, Leave
  <2>3. Meaning'
    BY <1>4, Zenon DEF MarkProcessing, Advance, Leave
  <2> QED BY <2>1, <2>2, <2>3, Zenon
<1>5. ASSUME NEW d \in Dispatchers, RejectFence(d) PROVE SInv'
  BY <1>5, Zenon DEF RejectFence, Leave
<1>6. ASSUME NEW d \in Dispatchers, ReleaseBusy(d) PROVE SInv'
  BY <1>6, Zenon DEF ReleaseBusy, Leave
<1>7. ASSUME NEW d \in Dispatchers, InterceptCancelled(d) PROVE SInv'
  <2>1. Exclusive'
    BY <1>7, Zenon DEF InterceptCancelled, Leave
  <2>2. Phases'
    BY <1>7 DEF InterceptCancelled, Leave
  <2>3. Meaning'
    BY <1>7, Zenon DEF InterceptCancelled, Leave
  <2> QED BY <2>1, <2>2, <2>3, Zenon
<1>8. ASSUME NEW d \in Dispatchers, BeginDispatch(d) PROVE SInv'
  BY <1>8 DEF BeginDispatch
<1>9. ASSUME NEW d \in Dispatchers, RejectOrder(d) PROVE SInv'
  BY <1>9, Zenon DEF RejectOrder, MarkFailed, Leave
<1>10. ASSUME NEW d \in Dispatchers, ScheduleLeverageRetry(d) PROVE SInv'
  BY <1>10, Zenon DEF ScheduleLeverageRetry, Leave
<1>11. ASSUME NEW d \in Dispatchers, PrepareSubmission(d) PROVE SInv'
  <2>1. Exclusive'
    BY <1>11 DEF PrepareSubmission, Advance, MarkFailed, Leave
  <2>2. Phases'
    BY <1>11 DEF PrepareSubmission, Advance, MarkFailed, Leave
  <2>3. Meaning'
    BY <1>11, Zenon DEF PrepareSubmission, Advance, MarkFailed, Leave
  <2> QED BY <2>1, <2>2, <2>3, Zenon
<1>12. ASSUME NEW d \in Dispatchers, MarkSubmitUnknown(d) PROVE SInv'
  BY <1>12 DEF MarkSubmitUnknown, Leave
<1>13. ASSUME NEW d \in Dispatchers, MarkRefused(d) PROVE SInv'
  BY <1>13, Zenon DEF MarkRefused, MarkFailed, Leave
<1>14. ASSUME NEW d \in Dispatchers, ReadFill(d) PROVE SInv'
  BY <1>14 DEF ReadFill
<1>15. ASSUME NEW d \in Dispatchers, MarkSent(d) PROVE SInv'
  <2>1. Exclusive'
    BY <1>15 DEF MarkSent, Advance
  <2>2. Phases'
    BY <1>15, Zenon DEF MarkSent, Advance
  <2>3. Meaning'
    BY <1>15, Zenon DEF MarkSent, Advance
  <2> QED BY <2>1, <2>2, <2>3, Zenon
<1>16. ASSUME NEW d \in Dispatchers, RecordFill(d) PROVE SInv'
  BY <1>16, Zenon DEF RecordFill, Leave
<1>17. ASSUME NEW d \in Dispatchers, CrashDispatch(d) PROVE SInv'
  <2>1. Exclusive'
    BY <1>17 DEF CrashDispatch, Leave
  <2>2. Phases'
    BY <1>17, Zenon DEF CrashDispatch, Leave
  <2>3. Meaning'
    BY <1>17, Zenon DEF CrashDispatch, Leave
  <2> QED BY <2>1, <2>2, <2>3, Zenon
<1>18. ASSUME NEW d \in Dispatchers,
             NEW answer \in {"acked", "refused", "unknown"}, Submit(d, answer)
      PROVE  SInv'
  <2>1. Exclusive'
    BY <1>18, Zenon DEF Submit, Accepted, Advance
  <2>2. Phases'
    BY <1>18 DEF Submit, Accepted, Advance
  <2>3. Meaning'
    BY <1>18, Zenon DEF Submit, Accepted, Advance
  <2> QED BY <2>1, <2>2, <2>3, Zenon
<1>19. ASSUME NEW s \in Syncers, ClaimSent(s) PROVE SInv'
  BY <1>19, Zenon DEF ClaimSent, SyncDue, ClaimRow
<1>20. ASSUME NEW s \in Syncers, ClaimForFee(s) PROVE SInv'
  BY <1>20, Zenon DEF ClaimForFee, FeeDue, ClaimRow
<1>21. ASSUME NEW s \in Syncers, QueryVenue(s) PROVE SInv'
  <2>1. Exclusive'
    BY <1>21 DEF QueryVenue
  <2>2. Phases'
    BY <1>21, Zenon DEF QueryVenue
  <2>3. Meaning'
    BY <1>21, Zenon DEF QueryVenue
  <2> QED BY <2>1, <2>2, <2>3, Zenon
<1>22. ASSUME NEW s \in Syncers, QueryFailed(s) PROVE SInv'
  BY <1>22, Zenon DEF QueryFailed, Snapshot, SyncLeave
<1>23. ASSUME NEW s \in Syncers, BookFill(s) PROVE SInv'
  BY <1>23, Zenon DEF BookFill
<1>24. ASSUME NEW s \in Syncers, BookFailed(s) PROVE SInv'
  BY <1>24, Zenon DEF BookFailed, SyncLeave
<1>25. ASSUME NEW s \in Syncers, WriteSnapshot(s) PROVE SInv'
  BY <1>25, ZenonT(30) DEF WriteSnapshot, Snapshot, QueueStatus, SyncLeave
<1>26. ASSUME NEW s \in Syncers, CrashSync(s) PROVE SInv'
  BY <1>26, Zenon DEF CrashSync, SyncLeave
<1>27. ASSUME NEW s \in Syncers, RequeueSync(s) PROVE SInv'
  BY <1>27, Zenon DEF RequeueSync
<1>28. ASSUME NEW c \in 1 .. Quantity, ProjectEvent(c) PROVE SInv'
  <2>1. Exclusive'
    BY <1>28, Zenon DEF ProjectEvent
  <2>2. Phases'
    BY <1>28 DEF ProjectEvent
  <2>3. Meaning'
    BY <1>28, Zenon DEF ProjectEvent
  <2> QED BY <2>1, <2>2, <2>3, ZenonT(30)
<1>29. CASE RequestCancel
  BY <1>29, Zenon DEF RequestCancel
<1>30. CASE VenueFill
  BY <1>30, Zenon DEF VenueFill
<1>31. CASE VenueCancel
  BY <1>31, Zenon DEF VenueCancel
<1>32. CASE Age
  BY <1>32, Zenon DEF Age, Working
<1>33. CASE UNCHANGED vars
  BY <1>33, Zenon DEF vars
<1>34. ASSUME NEW d \in Dispatchers, DispatchStep(d) PROVE SInv'
  BY ONLY <1>34, <1>4, <1>5, <1>6, <1>7, <1>8, <1>9, <1>10, <1>11,
     <1>12, <1>13, <1>14, <1>15, <1>16, <1>18, ZenonT(30)
  DEF DispatchStep
<1>35. ASSUME NEW s \in Syncers, SyncStep(s) PROVE SInv'
  BY ONLY <1>35, <1>19, <1>21, <1>22, <1>23, <1>24, <1>25, ZenonT(30) DEF SyncStep
<1> QED
  BY ONLY [Next]_vars, <1>1, <1>2, <1>3, <1>17, <1>20, <1>26, <1>27, <1>28,
     <1>29, <1>30, <1>31, <1>32, <1>33, <1>34, <1>35, ZenonT(30)
  DEF Next

LEMMA ExclusiveInvariant == ASSUME ~Stalls PROVE Spec => []SInv
<1>1. Init => SInv
  BY InitialExclusive, Zenon
<1>2. IInv /\ SInv /\ [Next]_vars => SInv'
  BY InductiveExclusive, Zenon
<1> QED
  BY <1>1, <1>2, Invariant, PTL DEF Spec

(* Across claims that are given back, retried, requeued after a crash or   *)
(* taken by a second worker, the venue is called for an order at most once *)
(* (when a claim is not recovered from a thread that is still running).    *)
THEOREM OneSubmission == ASSUME ~Stalls PROVE Spec => []SubmittedOnce
<1>1. SInv => SubmittedOnce
  BY DEF SInv, Phases, SubmittedOnce
<1> QED
  BY <1>1, ExclusiveInvariant, PTL

(* An order the venue accepted is never pending again, also when the       *)
(* thread died after the call, and _mark_failed gives it up only when the  *)
(* answer was lost in an exception of the transport itself.                *)
THEOREM NoneForgotten == ASSUME ~Stalls PROVE Spec => []AcceptedNotForgotten
<1>1. SInv => AcceptedNotForgotten
  BY Zenon DEF SInv, Phases, Meaning, AcceptedNotForgotten
<1> QED
  BY <1>1, ExclusiveInvariant, PTL

(* persist_cancellations, the interception before the dispatch and the     *)
(* reconciliation show an order as cancelled only when it is not open.     *)
THEOREM CancelledNotOpen == ASSUME ~Stalls PROVE Spec => []CancelledIsDead
<1>1. SInv => CancelledIsDead
  BY Zenon DEF SInv, Meaning, CancelledIsDead
<1> QED
  BY <1>1, ExclusiveInvariant, PTL
=============================================================================
