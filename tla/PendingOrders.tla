--------------------------- MODULE PendingOrders ---------------------------
(***************************************************************************)
(* The life of one live order of the pending_orders table: the dispatch    *)
(* threads that claim it and send it to the venue (PendingOrderWorker), the*)
(* reconciliation threads that read the venue and book its fills           *)
(* (PendingOrderReconciliation), the private execution stream that books   *)
(* them too, the strategy that asks for its cancellation, and the recovery *)
(* of claims whose thread died.                                            *)
(*                                                                         *)
(* The order has one exchange leg.  Quantities are small integers.  The    *)
(* venue is the environment: it accepts or refuses, fills, and cancels.    *)
(***************************************************************************)
EXTENDS Naturals

CONSTANTS
    Dispatchers,    \* threads in _run_loop; two overlap at a lease handover
    Syncers,        \* threads in _run_sync_loop
    Nobody,         \* no thread holds the trade execution lock
    Quantity,       \* the size of the order
    MaxAttempts,    \* max_attempts of the row (10 in the code)
    MaxLeverage,    \* MAX_LEVERAGE_RETRIES (3 in the code)
    MaxFaults,      \* bound: crashes, failed calls, answers without a price
    Stalls          \* may a live thread sleep past PENDING_ORDER_STALE_SEC?

ASSUME PendingAssumption ==
    /\ Nobody \notin Dispatchers
    /\ Quantity \in Nat \ {0} /\ MaxAttempts \in Nat \ {0}
    /\ MaxLeverage \in Nat /\ MaxFaults \in Nat
    /\ Stalls \in BOOLEAN

VARIABLES
    status, attempts, clientId, exchangeId, cancel, held, leverage,
    filled, tracked, fresh,          \* the pending_orders row
    posted,                          \* SUM(amount) of its qd_strategy_trades
    venue, vfill, submits,           \* the venue's order; times sent
    lost,                            \* accepted, and taken for a refusal
    dpc, seen, seenCancel, seenLev, dread, lock,    \* dispatch threads
    spc, rowFilled, rowTracked, rowCancel, cum, state, priced,   \* sync threads
    projected,                       \* execution events already projected
    faults

rowVars == <<status, attempts, clientId, exchangeId, cancel, held, leverage,
             filled, tracked, fresh>>
venueVars == <<venue, vfill, submits, lost, projected>>
dispatchVars == <<dpc, seen, seenCancel, seenLev, dread, lock>>
syncVars == <<spc, rowFilled, rowTracked, rowCancel, cum, state, priced>>
vars == <<rowVars, posted, venueVars, dispatchVars, syncVars, faults>>

Statuses == {"pending", "processing", "sent", "syncing", "filled",
             "cancelled", "failed"}
VenueStates == {"none", "open", "filled", "cancelled"}
DispatchPoints == {"idle", "fetched", "claimed", "checked", "prepared",
                   "acked", "read", "marked", "refused", "unknown"}
SyncPoints == {"idle", "claimed", "read", "booked"}

Larger(a, b) == IF a >= b THEN a ELSE b
Decrement(n) == IF n = 0 THEN 0 ELSE n - 1

Amounts == 0 .. Quantity

RowTypeOK ==
    /\ status \in Statuses /\ attempts \in Nat
    /\ leverage \in 0 .. MaxLeverage
    /\ filled \in Amounts /\ tracked \in Amounts /\ posted \in Amounts

FlagTypeOK ==
    /\ clientId \in BOOLEAN /\ exchangeId \in BOOLEAN
    /\ cancel \in BOOLEAN /\ held \in BOOLEAN /\ fresh \in BOOLEAN
    /\ lost \in BOOLEAN

VenueTypeOK ==
    /\ venue \in VenueStates /\ vfill \in Amounts /\ submits \in Nat
    /\ projected \subseteq Amounts
    /\ faults \in 0 .. MaxFaults

DispatchTypeOK ==
    /\ dpc \in [Dispatchers -> DispatchPoints]
    /\ seen \in [Dispatchers -> Nat]
    /\ seenCancel \in [Dispatchers -> BOOLEAN]
    /\ seenLev \in [Dispatchers -> 0 .. MaxLeverage]
    /\ dread \in [Dispatchers -> Amounts]
    /\ lock \in Dispatchers \cup {Nobody}

SyncTypeOK ==
    /\ spc \in [Syncers -> SyncPoints]
    /\ rowFilled \in [Syncers -> Amounts]
    /\ rowTracked \in [Syncers -> Amounts]
    /\ rowCancel \in [Syncers -> BOOLEAN]
    /\ cum \in [Syncers -> Amounts]
    /\ state \in [Syncers -> {"unknown", "open", "filled", "cancelled"}]
    /\ priced \in [Syncers -> BOOLEAN]

(* Type invariant: row, venue and threads keep their types, no quantity    *)
(* exceeds the order, and leverage retries stop at MAX_LEVERAGE_RETRIES.   *)
TypeOK ==
    RowTypeOK /\ FlagTypeOK /\ VenueTypeOK /\ DispatchTypeOK /\ SyncTypeOK

(* submit: the row is inserted pending, with no attempt made.              *)
Init ==
    /\ status = "pending" /\ attempts = 0 /\ leverage = 0
    /\ clientId = FALSE /\ exchangeId = FALSE /\ cancel = FALSE /\ held = FALSE
    /\ filled = 0 /\ tracked = 0 /\ posted = 0 /\ fresh = TRUE
    /\ venue = "none" /\ vfill = 0 /\ submits = 0 /\ lost = FALSE
    /\ dpc = [d \in Dispatchers |-> "idle"]
    /\ seen = [d \in Dispatchers |-> 0]
    /\ seenCancel = [d \in Dispatchers |-> FALSE]
    /\ seenLev = [d \in Dispatchers |-> 0]
    /\ dread = [d \in Dispatchers |-> 0]
    /\ lock = Nobody
    /\ spc = [s \in Syncers |-> "idle"]
    /\ rowFilled = [s \in Syncers |-> 0] /\ rowTracked = [s \in Syncers |-> 0]
    /\ rowCancel = [s \in Syncers |-> FALSE]
    /\ cum = [s \in Syncers |-> 0] /\ state = [s \in Syncers |-> "unknown"]
    /\ priced = [s \in Syncers |-> FALSE]
    /\ projected = {} /\ faults = 0

-----------------------------------------------------------------------------
(* Dispatch: fetch, claim, lock, intercept, prepare, submit, record.       *)

(* The dispatch returns; its local variables end with it.                  *)
Leave(d) ==
    /\ dpc' = [dpc EXCEPT ![d] = "idle"]
    /\ lock' = IF lock = d THEN Nobody ELSE lock
    /\ seen' = [seen EXCEPT ![d] = 0]
    /\ seenCancel' = [seenCancel EXCEPT ![d] = FALSE]
    /\ seenLev' = [seenLev EXCEPT ![d] = 0]
    /\ dread' = [dread EXCEPT ![d] = 0]

Advance(d, point) ==
    /\ dpc' = [dpc EXCEPT ![d] = point]
    /\ UNCHANGED <<seen, seenCancel, seenLev, dread, lock>>

(* _recover_stale_submissions: a prepared submission goes to reconciliation*)
RecoverSubmission(d) ==
    /\ dpc[d] = "idle" /\ status = "processing" /\ clientId /\ ~fresh
    /\ status' = "sent" /\ fresh' = TRUE
    /\ UNCHANGED <<attempts, clientId, exchangeId, cancel, held, leverage,
                   filled, tracked, posted, venueVars, dispatchVars,
                   syncVars, faults>>

(* Mutant: a claim is requeued even though its submission was prepared.    *)
RequeueClaim_Prepared(d) ==
    /\ dpc[d] = "idle" /\ status = "processing" /\ ~fresh
    /\ attempts < MaxAttempts \/ leverage > 0
    /\ status' = "pending" /\ fresh' = TRUE
    /\ attempts' = IF attempts >= MaxAttempts THEN MaxAttempts - 1 ELSE attempts
    /\ UNCHANGED <<clientId, exchangeId, cancel, held, leverage, filled,
                   tracked, posted, venueVars, dispatchVars, syncVars,
                   faults>>

(* ... and a claim that never prepared one is dispatched again, while      *)
(* attempts are left or a leverage retry is on the row.                    *)
RequeueClaim(d) ==
    /\ dpc[d] = "idle" /\ status = "processing" /\ ~clientId /\ ~fresh
    /\ attempts < MaxAttempts \/ leverage > 0
    /\ status' = "pending" /\ fresh' = TRUE
    /\ attempts' = IF attempts >= MaxAttempts THEN MaxAttempts - 1 ELSE attempts
    /\ UNCHANGED <<clientId, exchangeId, cancel, held, leverage, filled,
                   tracked, posted, venueVars, dispatchVars, syncVars,
                   faults>>

(* The SELECT of _fetch_pending_orders: the row as it was then stays with  *)
(* the thread for the whole dispatch.                                      *)
FetchPending(d) ==
    /\ dpc[d] = "idle"
    /\ status = "pending" /\ ~held /\ attempts < MaxAttempts
    /\ dpc' = [dpc EXCEPT ![d] = "fetched"]
    /\ seen' = [seen EXCEPT ![d] = attempts]
    /\ seenCancel' = [seenCancel EXCEPT ![d] = cancel]
    /\ seenLev' = [seenLev EXCEPT ![d] = leverage]
    /\ UNCHANGED <<rowVars, posted, venueVars, dread, lock, syncVars,
                   faults>>

(* claim_pending_order.  The row may have left pending since the SELECT.   *)
MarkProcessing(d) ==
    /\ dpc[d] = "fetched"
    /\ IF status = "pending"
         THEN /\ status' = "processing" /\ attempts' = attempts + 1 /\ fresh' = TRUE
              /\ Advance(d, "claimed")
         ELSE UNCHANGED <<status, attempts, fresh>> /\ Leave(d)
    /\ UNCHANGED <<clientId, exchangeId, cancel, held, leverage, filled,
                   tracked, posted, venueVars, syncVars, faults>>

(* ... unless the runtime that ordered it lost its fencing token.          *)
RejectFence(d) ==
    /\ dpc[d] = "fetched" /\ status = "pending"
    /\ status' = "failed" /\ fresh' = TRUE /\ held' = FALSE
    /\ Leave(d)
    /\ UNCHANGED <<attempts, clientId, exchangeId, cancel, leverage, filled,
                   tracked, posted, venueVars, syncVars, faults>>

(* TradeExecutionBusy: another order holds the account's lock.  The claim  *)
(* is given back without using up an attempt.                              *)
ReleaseBusy(d) ==
    /\ dpc[d] = "claimed"
    /\ IF status = "processing"
         THEN /\ status' = "pending" /\ attempts' = Decrement(attempts)
              /\ held' = FALSE /\ fresh' = TRUE
         ELSE UNCHANGED <<status, attempts, held, fresh>>
    /\ Leave(d)
    /\ UNCHANGED <<clientId, exchangeId, cancel, leverage, filled, tracked,
                   posted, venueVars, syncVars, faults>>

(* _dispatch_one takes the lock and looks at the row again for a cancel    *)
(* request.  Zero attempts in the fetched row prove no earlier dispatch.   *)
InterceptCancelled(d) ==
    /\ dpc[d] = "claimed" /\ lock = Nobody /\ cancel
    /\ IF status = "processing"
         THEN LET neverSent == seen[d] = 0 /\ ~exchangeId IN
              /\ status' = IF neverSent THEN "cancelled"
                           ELSE IF exchangeId THEN "sent" ELSE "pending"
              /\ held' = (status' = "pending") /\ fresh' = TRUE
         ELSE UNCHANGED <<status, held, fresh>>
    /\ Leave(d)
    /\ UNCHANGED <<attempts, clientId, exchangeId, cancel, leverage, filled,
                   tracked, posted, venueVars, syncVars, faults>>

BeginDispatch(d) ==
    /\ dpc[d] = "claimed" /\ lock = Nobody /\ ~cancel
    /\ lock' = d /\ dpc' = [dpc EXCEPT ![d] = "checked"]
    /\ UNCHANGED <<rowVars, posted, venueVars, seen, seenCancel, seenLev,
                   dread, syncVars, faults>>

(* _mark_failed: by id, whatever the row's status has become.              *)
MarkFailed(d) ==
    /\ status' = "failed" /\ held' = FALSE /\ fresh' = TRUE
    /\ Leave(d)
    /\ UNCHANGED <<attempts, clientId, exchangeId, cancel, leverage, filled,
                   tracked, posted, venueVars, syncVars, faults>>

(* A contract, client, position or size check fails before the submission. *)
RejectOrder(d) ==
    dpc[d] = "checked" /\ MarkFailed(d)

(* Mutant: the number of leverage retries is not bounded.                  *)
ScheduleLeverageRetry_Unbounded(d) ==
    /\ dpc[d] = "checked"
    /\ status' = "pending" /\ attempts' = Decrement(attempts)
    /\ cancel' = seenCancel[d] /\ leverage' = seenLev[d] + 1
    /\ held' = FALSE /\ fresh' = TRUE
    /\ Leave(d)
    /\ UNCHANGED <<clientId, exchangeId, filled, tracked, posted, venueVars,
                   syncVars, faults>>

(* schedule_leverage_retry: back to pending, with the payload the thread   *)
(* fetched and one more leverage attempt in it; when that statement fails, *)
(* back to pending with the payload the row has.                           *)
ScheduleLeverageRetry(d) ==
    /\ dpc[d] = "checked" /\ seenLev[d] < MaxLeverage
    /\ \/ /\ status' = "pending" /\ attempts' = Decrement(attempts)
          /\ cancel' = seenCancel[d] /\ leverage' = seenLev[d] + 1
          /\ held' = FALSE /\ fresh' = TRUE /\ UNCHANGED faults
       \/ /\ faults < MaxFaults /\ faults' = faults + 1
          /\ IF status = "processing"
               THEN /\ status' = "pending" /\ attempts' = Decrement(attempts)
                    /\ fresh' = TRUE
               ELSE UNCHANGED <<status, attempts, fresh>>
          /\ UNCHANGED <<cancel, leverage, held>>
    /\ Leave(d)
    /\ UNCHANGED <<clientId, exchangeId, filled, tracked, posted, venueVars,
                   syncVars>>

(* _prepare_submission: the client order id is stored while the claim is   *)
(* still there; otherwise pending_order_submission_lease_lost.             *)
PrepareSubmission(d) ==
    /\ dpc[d] = "checked"
    /\ IF status = "processing"
         THEN /\ clientId' = TRUE /\ fresh' = TRUE
              /\ Advance(d, "prepared")
              /\ UNCHANGED <<status, attempts, exchangeId, cancel, held,
                             leverage, filled, tracked, posted, venueVars,
                             syncVars, faults>>
         ELSE MarkFailed(d)

(* A client order id the venue knows makes no second order.                *)
Accepted == IF venue = "none" THEN "open" ELSE venue

(* Mutant: a submission with an unknown outcome is tried again.            *)
Submit_Retries(d, answer) ==
    /\ dpc[d] = "prepared"
    /\ submits' = submits + 1
    /\ venue' = IF answer = "refused" THEN venue ELSE Accepted
    /\ Advance(d, IF answer = "unknown" THEN "prepared" ELSE answer)
    /\ UNCHANGED <<rowVars, posted, vfill, lost, projected, syncVars, faults>>

(* The venue takes the order or refuses it, or the answer is lost and      *)
(* either may have happened.  A loss the client reports as an unknown or   *)
(* transport LiveTradingError is told from a refusal; the exceptions of    *)
(* requests, which it re-raises, are not.                                  *)
Submit(d, answer) ==
    /\ dpc[d] = "prepared"
    /\ submits' = submits + 1
    /\ \/ answer = "acked" /\ venue' = Accepted /\ UNCHANGED lost
       \/ answer = "refused" /\ UNCHANGED <<venue, lost>>
       \/ answer = "refused" /\ venue' = Accepted /\ lost' = TRUE
       \/ answer = "unknown" /\ venue' \in {venue, Accepted} /\ UNCHANGED lost
    /\ Advance(d, answer)
    /\ UNCHANGED <<rowVars, posted, vfill, projected, syncVars, faults>>

(* _mark_submit_unknown keeps an ambiguous submission in reconciliation.   *)
MarkSubmitUnknown(d) ==
    /\ dpc[d] = "unknown"
    /\ status' = "sent" /\ held' = FALSE /\ fresh' = TRUE
    /\ Leave(d)
    /\ UNCHANGED <<attempts, clientId, exchangeId, cancel, leverage, filled,
                   tracked, posted, venueVars, syncVars, faults>>

(* A refusal, and any exception but those of an unknown outcome.           *)
MarkRefused(d) ==
    dpc[d] = "refused" /\ MarkFailed(d)

(* wait_for_fill: the filled quantity so far; FillAccumulator drops one    *)
(* that comes without a price.                                             *)
ReadFill(d) ==
    /\ dpc[d] = "acked"
    /\ \/ dread' = [dread EXCEPT ![d] = vfill] /\ UNCHANGED faults
       \/ /\ vfill > 0 /\ faults < MaxFaults
          /\ dread' = [dread EXCEPT ![d] = 0] /\ faults' = faults + 1
    /\ dpc' = [dpc EXCEPT ![d] = "read"]
    /\ UNCHANGED <<rowVars, posted, venueVars, seen, seenCancel, seenLev,
                   lock, syncVars>>

(* _mark_sent, whose failure is only logged.  It replaces the response,    *)
(* and with it the reconciliation's own progress mark.                     *)
MarkSent(d) ==
    /\ dpc[d] = "read"
    /\ \/ /\ status' = IF status = "filled" \/ dread[d] = Quantity
                         THEN "filled" ELSE "sent"
          /\ clientId' = TRUE /\ exchangeId' = TRUE /\ held' = FALSE
          /\ filled' = Larger(filled, dread[d]) /\ tracked' = 0 /\ fresh' = TRUE
          /\ UNCHANGED faults
       \/ /\ faults < MaxFaults /\ faults' = faults + 1
          /\ UNCHANGED <<status, clientId, exchangeId, held, filled, tracked,
                         fresh>>
    /\ Advance(d, "marked")
    /\ UNCHANGED <<attempts, cancel, leverage, posted, venueVars, syncVars>>

(* Mutant: the cumulative quantity is booked as if it were an increment.   *)
PostCumulative_Adds(quantity) ==
    posted' = posted + quantity

(* persist_strategy_fill books what a cumulative quantity adds to the      *)
(* quantity already posted, under the strategy's fill lock.                *)
PostCumulative(quantity) ==
    posted' = Larger(posted, quantity)

(* The dispatch ends by booking what it read; a failure is only logged.    *)
RecordFill(d) ==
    /\ dpc[d] = "marked"
    /\ \/ PostCumulative(dread[d]) /\ UNCHANGED faults
       \/ faults < MaxFaults /\ faults' = faults + 1 /\ UNCHANGED posted
    /\ Leave(d)
    /\ UNCHANGED <<rowVars, venueVars, syncVars>>

(* The thread's process dies; its session gives the lock back.             *)
CrashDispatch(d) ==
    /\ dpc[d] # "idle" /\ faults < MaxFaults
    /\ faults' = faults + 1
    /\ Leave(d)
    /\ UNCHANGED <<rowVars, posted, venueVars, syncVars>>

-----------------------------------------------------------------------------
(* Reconciliation: claim, query, book, write the snapshot.                 *)

(* Mutant: a filled row whose booking failed is not looked at again.       *)
SyncDue_OutOnly ==
    /\ clientId \/ exchangeId
    /\ status = "sent" \/ (status = "filled" /\ filled = 0)

(* The row is reconciled while it is out and while its fill exceeds the    *)
(* booked trades.                                                          *)
SyncDue ==
    /\ clientId \/ exchangeId
    /\ \/ status = "sent"
       \/ status \in {"filled", "cancelled"} /\ filled > posted
       \/ status = "filled" /\ filled = 0

(* A booked trade of a filled order may still wait for its fee.            *)
FeeDue ==
    (clientId \/ exchangeId) /\ status = "filled" /\ filled > 0 /\ posted > 0

ClaimRow(s) ==
    /\ status' = "syncing" /\ fresh' = TRUE
    /\ spc' = [spc EXCEPT ![s] = "claimed"]
    /\ rowFilled' = [rowFilled EXCEPT ![s] = filled]
    /\ rowTracked' = [rowTracked EXCEPT ![s] = tracked]
    /\ rowCancel' = [rowCancel EXCEPT ![s] = cancel /\ exchangeId]
    /\ UNCHANGED <<attempts, clientId, exchangeId, cancel, held, leverage,
                   filled, tracked, posted, venueVars, dispatchVars, cum,
                   state, priced, faults>>

ClaimSent(s) ==
    spc[s] = "idle" /\ SyncDue /\ ClaimRow(s)

ClaimForFee(s) ==
    spc[s] = "idle" /\ FeeDue /\ ClaimRow(s)

(* dispatch_requested_cancel, then the order's cumulative fill.  A cancel  *)
(* may race a fill or be refused.  A query that fails inside the client    *)
(* reads as quantity zero in an unknown state.  Some brokers name the id   *)
(* of an order found by its client id, and the row is bound to it.         *)
QueryVenue(s) ==
    /\ spc[s] = "claimed"
    /\ venue' \in {venue} \cup (IF rowCancel[s] /\ venue = "open"
                                  THEN {"cancelled"} ELSE {})
    /\ \/ /\ venue # "none"
          /\ cum' = [cum EXCEPT ![s] = vfill]
          /\ state' = [state EXCEPT ![s] = venue']
          /\ \/ priced' = [priced EXCEPT ![s] = vfill > 0] /\ UNCHANGED faults
             \/ /\ vfill > 0 /\ faults < MaxFaults /\ faults' = faults + 1
                /\ priced' = [priced EXCEPT ![s] = FALSE]
          /\ \/ UNCHANGED <<exchangeId, fresh>>
             \/ ~exchangeId /\ exchangeId' = TRUE /\ fresh' = TRUE
       \/ /\ venue = "none" \/ faults < MaxFaults
          /\ faults' = IF venue = "none" THEN faults ELSE faults + 1
          /\ cum' = [cum EXCEPT ![s] = 0]
          /\ state' = [state EXCEPT ![s] = "unknown"]
          /\ priced' = [priced EXCEPT ![s] = FALSE]
          /\ UNCHANGED <<exchangeId, fresh>>
    /\ spc' = [spc EXCEPT ![s] = "read"]
    /\ UNCHANGED <<status, attempts, clientId, cancel, held, leverage,
                   filled, tracked, posted, vfill, submits, lost, projected,
                   dispatchVars, rowFilled, rowTracked, rowCancel>>

Baseline(s) == Larger(rowTracked[s], rowFilled[s])
Grew(s) == cum[s] > Baseline(s)

(* aggregate_filled: the row's fill plus what the venue adds to the mark.  *)
Aggregate(s) ==
    IF priced[s] /\ Grew(s) THEN rowFilled[s] + (cum[s] - Baseline(s))
                            ELSE rowFilled[s]

(* reconciled_queue_status; a grown fill without a price is no final state.*)
QueueStatus(s) ==
    LET known == priced[s] \/ ~Grew(s)
        final == known /\ state[s] = "filled"
    IN  IF Aggregate(s) > 0 /\ (final \/ Aggregate(s) = Quantity)
          THEN "filled"
        ELSE IF known /\ state[s] = "cancelled" THEN "cancelled" ELSE "sent"

(* _update_live_sent_order_snapshot: refused when the row's fill has grown.*)
Snapshot(s, newStatus, newFilled, newTracked) ==
    IF filled <= newFilled
      THEN /\ status' = newStatus /\ filled' = newFilled /\ tracked' = newTracked
           /\ held' = FALSE /\ fresh' = TRUE
      ELSE UNCHANGED <<status, filled, tracked, held, fresh>>

(* The reconciliation of the row returns.                                  *)
SyncLeave(s) ==
    /\ spc' = [spc EXCEPT ![s] = "idle"]
    /\ rowFilled' = [rowFilled EXCEPT ![s] = 0]
    /\ rowTracked' = [rowTracked EXCEPT ![s] = 0]
    /\ rowCancel' = [rowCancel EXCEPT ![s] = FALSE]
    /\ cum' = [cum EXCEPT ![s] = 0]
    /\ state' = [state EXCEPT ![s] = "unknown"]
    /\ priced' = [priced EXCEPT ![s] = FALSE]

(* An exception of the query itself: the row is put back as it was read.   *)
QueryFailed(s) ==
    /\ spc[s] = "claimed" /\ faults < MaxFaults
    /\ faults' = faults + 1
    /\ Snapshot(s, "sent", rowFilled[s], tracked)
    /\ SyncLeave(s)
    /\ UNCHANGED <<attempts, clientId, exchangeId, cancel, leverage, posted,
                   venueVars, dispatchVars>>

BookFill(s) ==
    /\ spc[s] = "read"
    /\ IF priced[s] THEN PostCumulative(Aggregate(s)) ELSE UNCHANGED posted
    /\ spc' = [spc EXCEPT ![s] = "booked"]
    /\ UNCHANGED <<rowVars, venueVars, dispatchVars, rowFilled, rowTracked,
                   rowCancel, cum, state, priced, faults>>

(* restore_live_sent_order_after_sync_error                                *)
BookFailed(s) ==
    /\ spc[s] = "read" /\ faults < MaxFaults
    /\ faults' = faults + 1
    /\ IF status = "syncing" THEN status' = "sent" /\ held' = FALSE /\ fresh' = TRUE
                             ELSE UNCHANGED <<status, held, fresh>>
    /\ SyncLeave(s)
    /\ UNCHANGED <<attempts, clientId, exchangeId, cancel, leverage, filled,
                   tracked, posted, venueVars, dispatchVars>>

WriteSnapshot(s) ==
    /\ spc[s] = "booked"
    /\ Snapshot(s, QueueStatus(s), Aggregate(s), cum[s])
    /\ SyncLeave(s)
    /\ UNCHANGED <<attempts, clientId, exchangeId, cancel, leverage, posted,
                   venueVars, dispatchVars, faults>>

CrashSync(s) ==
    /\ spc[s] # "idle" /\ faults < MaxFaults
    /\ faults' = faults + 1
    /\ SyncLeave(s)
    /\ UNCHANGED <<rowVars, posted, venueVars, dispatchVars>>

(* _fetch_live_sent_orders takes an abandoned reconciliation back.         *)
RequeueSync(s) ==
    /\ spc[s] = "idle" /\ status = "syncing" /\ ~fresh
    /\ status' = "sent" /\ fresh' = TRUE
    /\ UNCHANGED <<attempts, clientId, exchangeId, cancel, held, leverage,
                   filled, tracked, posted, venueVars, dispatchVars,
                   syncVars, faults>>

-----------------------------------------------------------------------------
(* The execution stream, the strategy, the venue, and time.                *)

(* _project_pending_order, one transaction under the fill lock.  Events    *)
(* may be late and out of order, and each is projected once: it names some *)
(* cumulative quantity the venue had reached, and only the last is final.  *)
ProjectEvent(c) ==
    /\ clientId /\ c \in 1 .. vfill /\ c \notin projected
    /\ projected' = projected \cup {c}
    /\ PostCumulative(c)
    /\ filled' = Larger(filled, posted')
    /\ status' = IF c = Quantity THEN "filled"
                 ELSE IF status = "failed" THEN "sent" ELSE status
    /\ fresh' = TRUE
    /\ UNCHANGED <<attempts, clientId, exchangeId, cancel, held, leverage,
                   tracked, venue, vfill, submits, lost, dispatchVars, syncVars,
                   faults>>

(* Mutant: a claimed order is cancelled locally as a pending one is.       *)
RequestCancel_Claimed ==
    /\ status \in {"pending", "processing", "sent", "syncing"}
    /\ cancel' = TRUE /\ fresh' = TRUE
    /\ status' = IF status \in {"pending", "processing"} /\ ~exchangeId
                   THEN "cancelled" ELSE status
    /\ UNCHANGED <<attempts, clientId, exchangeId, held, leverage, filled,
                   tracked, posted, venueVars, dispatchVars, syncVars,
                   faults>>

(* persist_cancellations; the strategy may ask again.                      *)
RequestCancel ==
    /\ status \in {"pending", "processing", "sent", "syncing"}
    /\ cancel' = TRUE /\ fresh' = TRUE
    /\ status' = IF status = "pending" /\ attempts = 0 /\ ~exchangeId
                   THEN "cancelled" ELSE status
    /\ UNCHANGED <<attempts, clientId, exchangeId, held, leverage, filled,
                   tracked, posted, venueVars, dispatchVars, syncVars,
                   faults>>

VenueFill ==
    /\ venue = "open"
    /\ vfill' = vfill + 1
    /\ venue' = IF vfill' = Quantity THEN "filled" ELSE "open"
    /\ UNCHANGED <<rowVars, posted, submits, lost, projected, dispatchVars,
                   syncVars, faults>>

VenueCancel ==
    /\ venue = "open" /\ venue' = "cancelled"
    /\ UNCHANGED <<rowVars, posted, vfill, submits, lost, projected, dispatchVars,
                   syncVars, faults>>

Working ==
    \/ \E d \in Dispatchers : dpc[d] \notin {"idle", "fetched"}
    \/ \E s \in Syncers : spc[s] # "idle"

(* updated_at falls more than PENDING_ORDER_STALE_SEC behind.              *)
Age ==
    /\ fresh /\ status \in {"processing", "syncing"}
    /\ Stalls \/ ~Working
    /\ fresh' = FALSE
    /\ UNCHANGED <<status, attempts, clientId, exchangeId, cancel, held,
                   leverage, filled, tracked, posted, venueVars,
                   dispatchVars, syncVars, faults>>

DispatchStep(d) ==
    \/ MarkProcessing(d) \/ RejectFence(d) \/ ReleaseBusy(d)
    \/ InterceptCancelled(d) \/ BeginDispatch(d) \/ RejectOrder(d)
    \/ ScheduleLeverageRetry(d) \/ PrepareSubmission(d)
    \/ \E answer \in {"acked", "refused", "unknown"} : Submit(d, answer)
    \/ MarkSubmitUnknown(d) \/ MarkRefused(d) \/ ReadFill(d) \/ MarkSent(d)
    \/ RecordFill(d)

SyncStep(s) ==
    \/ ClaimSent(s) \/ QueryVenue(s) \/ QueryFailed(s) \/ BookFill(s)
    \/ BookFailed(s) \/ WriteSnapshot(s)

Next ==
    \/ \E d \in Dispatchers : \/ RecoverSubmission(d) \/ RequeueClaim(d)
                              \/ FetchPending(d) \/ DispatchStep(d)
                              \/ CrashDispatch(d)
    \/ \E s \in Syncers : \/ SyncStep(s) \/ ClaimForFee(s) \/ CrashSync(s)
                          \/ RequeueSync(s)
    \/ \E c \in 1 .. Quantity : ProjectEvent(c)
    \/ RequestCancel \/ VenueFill \/ VenueCancel \/ Age

Spec == Init /\ [][Next]_vars

(* Both loops run again after poll_interval_sec whatever happened, and     *)
(* time passes.  A row that is stale again and again, between cancellation *)
(* requests that refresh it, is met by the much shorter poll.  Nothing is  *)
(* assumed of the venue, the stream, the strategy or of what the loops do  *)
(* with a row that waits for a fee or was not sent.                        *)
FairSpec ==
    /\ Spec
    /\ \A d \in Dispatchers : /\ WF_vars(DispatchStep(d))
                              /\ SF_vars(RecoverSubmission(d))
    /\ \A s \in Syncers : WF_vars(SyncStep(s)) /\ SF_vars(RequeueSync(s))
    /\ WF_vars(Age)

-----------------------------------------------------------------------------
(* No fill is booked twice: whatever the interleaving of the dispatcher,   *)
(* the reconciliation and the stream, the trades of an order never add up  *)
(* to more than the venue filled.                                          *)
FillsBookedOnce == posted <= vfill

(* The row's fill never shrinks, whichever of its three writers is late.   *)
FilledNeverShrinks == [][filled' >= filled]_vars

(* The venue is asked for the order at most once, across claims given      *)
(* back, requeued after a crash and taken by a second worker.              *)
SubmittedOnce == submits <= 1

(* An order shown as cancelled is not open at the venue.                   *)
CancelledIsDead == status = "cancelled" => venue # "open"

(* An order the venue accepted is never pending again, and it is failed    *)
(* only when the answer was lost in an exception that _execute_live_order  *)
(* takes for a refusal: every other accepted order keeps a status that     *)
(* leads to its reconciliation, also after a crash.                        *)
AcceptedNotForgotten ==
    venue # "none" => status # "pending" /\ (status = "failed" => lost)

(* A cancellation the strategy was told is durable stays on the order.     *)
CancelRemembered == [][cancel => cancel']_vars

(* When the venue is done with an order, all it filled gets booked, with   *)
(* two exceptions: the order was taken for refused and no event of the     *)
(* stream has revived it, or reconciliation moved its progress mark past a *)
(* fill it could not book for want of a price.                             *)
AllFillsBooked ==
    (venue \in {"filled", "cancelled"}) ~>
        (posted = vfill \/ (lost /\ status = "failed") \/ tracked > posted)
=============================================================================
