------------------------------ MODULE GridActor ------------------------------
(***************************************************************************)
(* How the fills of one resting grid order reach the ledger.  The private  *)
(* stream stores an execution event for every fill it sees and routes it   *)
(* to the mailbox qd_grid_actor_events; the trading worker that holds the  *)
(* runtime lease claims the rows, projects each under a share lock on the  *)
(* lease row, and completes them.  Independently the fill poller of every  *)
(* worker with a local runner asks the exchange and posts what is missing. *)
(*                                                                         *)
(* A transaction is one step, except that a projection holds its share     *)
(* lock (stage "locked") while it talks to the exchange.  Left out: the    *)
(* engine flags that checkpoint() stores, fees and prices, and the cells   *)
(* and counter-orders of the engine.                                       *)
(***************************************************************************)
EXTENDS Integers, FiniteSets

CONSTANTS
    Workers,      \* trading workers
    NoOwner,      \* owner_id = ''
    Qty,          \* the quantity of the order, in fills
    Cumulative,   \* the stream reports the cumulative quantity of an order
    MaxAttempts,  \* GRID_ACTOR_MAX_ATTEMPTS
    MaxFaults     \* bound on crashes, shutdowns, expiries and lost answers

ASSUME GridAssumption ==
    /\ NoOwner \notin Workers /\ Cumulative \in BOOLEAN
    /\ Qty \in Nat /\ MaxAttempts \in Nat \ {0} /\ MaxFaults \in Nat

(* The event with which the stream reports a cumulative quantity. *)
Events == 1 .. Qty

VARIABLES
    filled,   \* the exchange: what the order has filled
    stored,   \* rows of qd_execution_events
    mail,     \* qd_grid_actor_events.status, "none" without a row
    tries,    \* attempts
    claimer,  \* claimed_by
    stamp,    \* fencing_token of the row
    fresh,    \* the rows whose lease_expires_at lies ahead
    owner,    \* qd_strategy_runtime_leases.owner_id
    token,    \* ... fencing_token
    live,     \* ... lease_expires_at lies ahead
    seen,     \* qd_grid_resting_orders.filled_quantity
    booked,   \* the trades posted for the order (posted_totals)
    traded,   \* the events that have a trade of their own
    host,     \* the worker's runtime: none, starting, or with a runner
    pc,       \* the mailbox thread of a worker
    batch,    \* the claimed events it has not finished
    cur,      \* the one it works on, 0 for none
    held,     \* the fencing token of its claims
    polled,   \* the quantity a poller has read and not posted, or Nothing
    faults

leaseVars == <<owner, token, live>>
mailVars == <<mail, tries, claimer, stamp, fresh>>
ledgerVars == <<seen, booked, traded>>
threadVars == <<pc, batch, cur, held>>
vars == <<filled, stored, mailVars, leaseVars, ledgerVars, host, threadVars,
          polled, faults>>

Nothing == -1
Statuses == {"none", "pending", "processing", "failed", "completed", "dead"}
Stages == {"idle", "batch", "locked", "posted", "failing"}

Init ==
    /\ filled = 0 /\ stored = {}
    /\ mail = [e \in Events |-> "none"]
    /\ tries = [e \in Events |-> 0]
    /\ claimer = [e \in Events |-> NoOwner]
    /\ stamp = [e \in Events |-> 0]
    /\ fresh = {}
    /\ owner = NoOwner /\ token = 0 /\ live = FALSE
    /\ seen = 0 /\ booked = 0 /\ traded = {}
    /\ host = [w \in Workers |-> "none"]
    /\ pc = [w \in Workers |-> "idle"]
    /\ batch = [w \in Workers |-> {}]
    /\ cur = [w \in Workers |-> 0]
    /\ held = [w \in Workers |-> 0]
    /\ polled = [w \in Workers |-> Nothing]
    /\ faults = 0

Fault == faults < MaxFaults /\ faults' = faults + 1

-----------------------------------------------------------------------------
(* The exchange, the stream and the router.                                *)

Fill ==
    /\ filled < Qty
    /\ filled' = filled + 1
    /\ UNCHANGED <<stored, mailVars, leaseVars, ledgerVars, host, threadVars,
                   polled, faults>>

(* The stream reports a fill, in any order and perhaps never; a repeated   *)
(* report meets the event key and stores nothing.                          *)
Ingest(e) ==
    /\ e \in 1 .. filled \ stored
    /\ stored' = stored \union {e}
    /\ UNCHANGED <<filled, mailVars, leaseVars, ledgerVars, host, threadVars,
                   polled, faults>>

(* process_pending routes an event that has no mailbox row. *)
Route(e) ==
    /\ e \in stored /\ mail[e] = "none"
    /\ mail' = [mail EXCEPT ![e] = "pending"]
    /\ UNCHANGED <<filled, stored, tries, claimer, stamp, fresh, leaseVars,
                   ledgerVars, host, threadVars, polled, faults>>

-----------------------------------------------------------------------------
(* The runtime lease and the runner.                                       *)

(* lock_ownership holds FOR SHARE on the row until its transaction ends,   *)
(* so no other statement changes the row.                                  *)
RowLocked == \E w \in Workers : pc[w] = "locked"

(* Mutant: the projection has no lock on the lease row. *)
Acquire_Unlocked(w) ==
    /\ host[w] = "none" /\ pc[w] = "idle"
    /\ owner \in {NoOwner, w} \/ ~live
    /\ owner' = w
    /\ token' = IF owner = w THEN token ELSE token + 1
    /\ live' = TRUE
    /\ host' = [host EXCEPT ![w] = "starting"]
    /\ UNCHANGED <<filled, stored, mailVars, ledgerVars, threadVars, polled,
                   faults>>

(* A worker without a runtime takes a free or expired lease and starts. *)
Acquire(w) ==
    /\ host[w] = "none" /\ pc[w] = "idle"
    /\ owner \in {NoOwner, w} \/ ~live
    /\ ~RowLocked
    /\ owner' = w
    /\ token' = IF owner = w THEN token ELSE token + 1
    /\ live' = TRUE
    /\ host' = [host EXCEPT ![w] = "starting"]
    /\ UNCHANGED <<filled, stored, mailVars, ledgerVars, threadVars, polled,
                   faults>>

(* startup ends with register_runner, whoever holds the lease by then. *)
Register(w) ==
    /\ host[w] = "starting"
    /\ host' = [host EXCEPT ![w] = "running"]
    /\ UNCHANGED <<filled, stored, mailVars, leaseVars, ledgerVars,
                   threadVars, polled, faults>>

Lapses ==
    /\ live' = FALSE
    /\ UNCHANGED <<filled, stored, mailVars, owner, token, ledgerVars, host,
                   threadVars, polled>>

(* The lease of a running owner expires: renewals fail or wait for a lock. *)
Expire ==
    /\ live /\ Fault /\ Lapses

(* Nobody renews the lease of a worker that has died. *)
ExpireDead ==
    /\ live /\ owner \in Workers
    /\ host[owner] = "none"
    /\ Lapses /\ UNCHANGED faults

(* The runtime thread of a worker that has lost its lease ends. *)
Detach(w) ==
    /\ host[w] # "none" /\ (owner # w \/ ~live)
    /\ host' = [host EXCEPT ![w] = "none"]
    /\ UNCHANGED <<filled, stored, mailVars, leaseVars, ledgerVars,
                   threadVars, polled, faults>>

(* A worker shuts down: the runtime ends, then the lease is released. *)
Release(w) ==
    /\ host[w] # "none" /\ owner = w /\ live /\ pc[w] = "idle"
    /\ ~RowLocked
    /\ Fault
    /\ host' = [host EXCEPT ![w] = "none"]
    /\ owner' = NoOwner /\ live' = FALSE
    /\ UNCHANGED <<filled, stored, mailVars, token, ledgerVars, threadVars,
                   polled>>

(* A worker dies; the database rolls its transaction back. *)
Crash(w) ==
    /\ host[w] # "none" \/ pc[w] # "idle"
    /\ Fault
    /\ host' = [host EXCEPT ![w] = "none"]
    /\ pc' = [pc EXCEPT ![w] = "idle"]
    /\ batch' = [batch EXCEPT ![w] = {}]
    /\ cur' = [cur EXCEPT ![w] = 0]
    /\ held' = [held EXCEPT ![w] = 0]
    /\ polled' = [polled EXCEPT ![w] = Nothing]
    /\ UNCHANGED <<filled, stored, mailVars, leaseVars, ledgerVars>>

-----------------------------------------------------------------------------
(* Posting to the ledger: _project_grid under the advisory lock of the     *)
(* strategy.  A snapshot below what the order row shows is dropped, and    *)
(* only what the trades do not cover yet is posted.                        *)

(* Mutant: the quantity of the fill is posted, not the difference. *)
Project_Incremental(total) ==
    IF total < seen
      THEN UNCHANGED <<seen, booked>>
      ELSE seen' = total /\ booked' = booked + 1

Project(total) ==
    IF total < seen
      THEN UNCHANGED <<seen, booked>>
      ELSE seen' = total /\ booked' = booked + (total - booked)

-----------------------------------------------------------------------------
(* The mailbox thread: drain_owned.                                        *)

(* Mutant: a row that is being processed does not run out of attempts. *)
Exhausted_NotProcessing == {e \in Events \ fresh : tries[e] >= MaxAttempts
                               /\ mail[e] \in {"pending", "failed"}}

Exhausted == {e \in Events \ fresh : tries[e] >= MaxAttempts
                 /\ mail[e] \in {"pending", "failed", "processing"}}

(* Mutant: the attempts of a due row are not counted. *)
Due_Uncounted == {e \in Events :
    mail[e] = "pending" \/ (mail[e] = "processing" /\ e \notin fresh)}

(* A failed row is claimable again when its back-off is over. *)
Due == {e \in Events : tries[e] < MaxAttempts
           /\ (mail[e] = "pending" \/ (mail[e] = "processing" /\ e \notin fresh))}
BackedOff == {e \in Events : tries[e] < MaxAttempts /\ mail[e] = "failed"}

(* claim_for_owner: rows out of attempts die, whoever asks; the rows that  *)
(* are due are claimed if the caller holds the lease.                      *)
Claim(w) ==
    /\ pc[w] = "idle" /\ host[w] # "none"
    /\ \E again \in SUBSET BackedOff :
         LET mine == IF owner = w /\ live THEN Due \union again ELSE {} IN
         /\ Exhausted \union mine # {}
         /\ again \subseteq mine
         /\ mail' = [e \in Events |-> IF e \in Exhausted THEN "dead"
                                      ELSE IF e \in mine THEN "processing"
                                      ELSE mail[e]]
         /\ tries' = [e \in Events |-> IF e \in mine THEN tries[e] + 1
                                       ELSE tries[e]]
         /\ claimer' = [e \in Events |-> IF e \in mine THEN w ELSE claimer[e]]
         /\ stamp' = [e \in Events |-> IF e \in mine THEN token ELSE stamp[e]]
         /\ fresh' = fresh \union mine
         /\ batch' = [batch EXCEPT ![w] = mine]
         /\ pc' = [pc EXCEPT ![w] = IF mine = {} THEN "idle" ELSE "batch"]
         /\ held' = [held EXCEPT ![w] = IF mine = {} THEN 0 ELSE token]
    /\ UNCHANGED <<filled, stored, leaseVars, ledgerVars, host, cur, polled,
                   faults>>

(* The claim of a row runs out while its worker is slow or dead. *)
ClaimEnds(e) ==
    /\ e \in fresh
    /\ fresh' = fresh \ {e}
    /\ UNCHANGED <<filled, stored, mail, tries, claimer, stamp, leaseVars,
                   ledgerVars, host, threadVars, polled, faults>>

(* The row still carries the worker's claim; the claim and the lease are   *)
(* still the worker's.                                                     *)
Mine(w, e) == claimer[e] = w /\ stamp[e] = held[w]
Owned(w, e) == /\ mail[e] = "processing" /\ Mine(w, e)
               /\ owner = w /\ token = held[w] /\ live

(* The next event: without a runner, or when lock_ownership finds the      *)
(* claim or the lease gone, it fails; otherwise the lease row is locked.   *)
LockOwnership(w, e) ==
    /\ pc[w] = "batch" /\ e \in batch[w]
    /\ cur' = [cur EXCEPT ![w] = e]
    /\ pc' = [pc EXCEPT ![w] = IF host[w] = "running" /\ Owned(w, e)
                                 THEN "locked" ELSE "failing"]
    /\ UNCHANGED <<filled, stored, mailVars, leaseVars, ledgerVars, host,
                   batch, held, polled, faults>>

(* complete_snapshot: the quantity of the report, or one read from the     *)
(* exchange that is not below it.  When the report has none, the cached    *)
(* snapshot of an earlier event serves as well.                            *)
Snapshot(e) == IF Cumulative THEN e .. filled ELSE 1 .. filled

(* The projection commits, unless the event has a trade already; or the    *)
(* exchange does not give a usable snapshot and it is rolled back.         *)
ProcessGrid(w) ==
    /\ pc[w] = "locked"
    /\ \/ /\ IF cur[w] \in traded
               THEN UNCHANGED ledgerVars
               ELSE \E total \in Snapshot(cur[w]) :
                      /\ Project(total)
                      /\ traded' = IF total > booked
                                     THEN traded \union {cur[w]} ELSE traded
          /\ pc' = [pc EXCEPT ![w] = "posted"]
       \/ /\ pc' = [pc EXCEPT ![w] = "failing"]
          /\ UNCHANGED ledgerVars
    /\ UNCHANGED <<filled, stored, mailVars, leaseVars, host, batch, cur,
                   held, polled, faults>>

(* On to the next event of the batch. *)
Advance(w) ==
    /\ batch' = [batch EXCEPT ![w] = @ \ {cur[w]}]
    /\ pc' = [pc EXCEPT ![w] = IF batch[w] = {cur[w]} THEN "idle" ELSE "batch"]
    /\ held' = [held EXCEPT ![w] = IF batch[w] = {cur[w]} THEN 0 ELSE @]
    /\ cur' = [cur EXCEPT ![w] = 0]

(* complete: only under the claim and the lease.  When the answer to the   *)
(* commit is lost the worker goes on to fail().                            *)
Complete(w) ==
    /\ pc[w] = "posted"
    /\ IF Owned(w, cur[w])
         THEN /\ mail' = [mail EXCEPT ![cur[w]] = "completed"]
              /\ fresh' = fresh \ {cur[w]}
              /\ \/ Advance(w) /\ UNCHANGED faults
                 \/ /\ Fault
                    /\ pc' = [pc EXCEPT ![w] = "failing"]
                    /\ UNCHANGED <<batch, cur, held>>
         ELSE /\ pc' = [pc EXCEPT ![w] = "failing"]
              /\ UNCHANGED <<mail, fresh, batch, cur, held, faults>>
    /\ UNCHANGED <<filled, stored, tries, claimer, stamp, leaseVars,
                   ledgerVars, host, polled>>

(* fail: the row if it still carries the claim, whatever its status. *)
FailEvent(w) ==
    /\ pc[w] = "failing"
    /\ IF Mine(w, cur[w])
         THEN /\ mail' = [mail EXCEPT ![cur[w]] =
                    IF tries[cur[w]] >= MaxAttempts THEN "dead" ELSE "failed"]
              /\ fresh' = fresh \ {cur[w]}
         ELSE UNCHANGED <<mail, fresh>>
    /\ Advance(w)
    /\ UNCHANGED <<filled, stored, tries, claimer, stamp, leaseVars,
                   ledgerVars, host, polled, faults>>

-----------------------------------------------------------------------------
(* The fill poller of a worker, a thread of its own.                       *)

(* _poll_once: an order that is open in the table and has a runner in this *)
(* process is queried.  (An answer "unknown" changes nothing.)             *)
Poll(w) ==
    /\ polled[w] = Nothing
    /\ host[w] = "running" /\ seen < Qty
    /\ polled' = [polled EXCEPT ![w] = filled]
    /\ UNCHANGED <<filled, stored, mailVars, leaseVars, ledgerVars, host,
                   threadVars, faults>>

(* _poll_order posts the snapshot; nothing asks for the lease. *)
PostPolled(w) ==
    /\ polled[w] # Nothing
    /\ Project(polled[w])
    /\ polled' = [polled EXCEPT ![w] = Nothing]
    /\ UNCHANGED <<filled, stored, mailVars, leaseVars, traded, host,
                   threadVars, faults>>

-----------------------------------------------------------------------------
Drain(w) ==
    \/ Claim(w)
    \/ \E e \in Events : LockOwnership(w, e)
    \/ ProcessGrid(w)
    \/ Complete(w)
    \/ FailEvent(w)

Polling(w) == Poll(w) \/ PostPolled(w)

Next ==
    \/ Fill
    \/ \E e \in Events : Ingest(e)
    \/ \E e \in Events : Route(e)
    \/ \E w \in Workers : Acquire(w)
    \/ \E w \in Workers : Register(w)
    \/ Expire
    \/ ExpireDead
    \/ \E w \in Workers : Detach(w)
    \/ \E w \in Workers : Release(w)
    \/ \E w \in Workers : Crash(w)
    \/ \E e \in Events : ClaimEnds(e)
    \/ \E w \in Workers : Drain(w)
    \/ \E w \in Workers : Polling(w)

Spec == Init /\ [][Next]_vars

(* The router, the workers' loops and the passing of time.  Each of these  *)
(* happens a bounded number of times between two faults.  The fills, the   *)
(* stream and the faults are not obliged to happen.                        *)
Steady ==
    \/ \E e \in Events : Route(e) \/ ClaimEnds(e)
    \/ \E w \in Workers : Acquire(w) \/ Register(w) \/ Detach(w) \/ Drain(w)
    \/ ExpireDead

(* The pollers loop on their own threads, and the exchange answers. *)
Fairness == WF_vars(Steady) /\ WF_vars(\E w \in Workers : Polling(w))

FairSpec == Spec /\ Fairness

-----------------------------------------------------------------------------
MailTypeOK ==
    /\ mail \in [Events -> Statuses]
    /\ tries \in [Events -> 0 .. MaxAttempts]
    /\ claimer \in [Events -> Workers \union {NoOwner}]
    /\ stamp \in [Events -> Nat]
    /\ fresh \subseteq Events

WorkerTypeOK ==
    /\ host \in [Workers -> {"none", "starting", "running"}]
    /\ pc \in [Workers -> Stages]
    /\ batch \in [Workers -> SUBSET Events]
    /\ cur \in [Workers -> Events \union {0}]
    /\ held \in [Workers -> Nat]
    /\ polled \in [Workers -> 0 .. Qty \union {Nothing}]

LeaseTypeOK ==
    owner \in Workers \union {NoOwner} /\ token \in Nat /\ live \in BOOLEAN

LedgerTypeOK ==
    /\ filled \in 0 .. Qty /\ stored \subseteq Events
    /\ seen \in 0 .. Qty /\ booked \in 0 .. Qty /\ traded \subseteq Events
    /\ faults \in 0 .. MaxFaults

(* The types of the state.  A row is never claimed more than MaxAttempts   *)
(* times, and no quantity exceeds the order.                               *)
TypeOK == MailTypeOK /\ WorkerTypeOK /\ LeaseTypeOK /\ LedgerTypeOK

(* The ledger holds what the order row shows and never more than the       *)
(* exchange has filled, although the mailbox and the pollers post the same *)
(* fills from old and new snapshots; an event of a stream that reports     *)
(* cumulative quantities is completed only when its fill is in the ledger. *)
LedgerExact ==
    /\ booked = seen
    /\ booked <= filled
    /\ \A e \in Events : Cumulative /\ mail[e] = "completed" => e <= booked

(* A worker that projects an event holds the lease, with the token of its  *)
(* claim, until it commits, and the event's row still carries that claim:  *)
(* a lease that changes hands, or a worker that is late with its fail(),   *)
(* cannot touch it.  Hence no two workers project at the same time.        *)
ProjectionFenced ==
    \A w \in Workers : pc[w] = "locked" =>
        /\ owner = w /\ token = held[w]
        /\ Mine(w, cur[w])
        /\ mail[cur[w]] \in {"processing", "dead"}

(* "without allowing another worker to poll or replenish a grid it does    *)
(* not own": what a poller posts is posted by the owner of the lease.      *)
PolledByOwner ==
    [][\A w \in Workers : PostPolled(w) /\ booked' # booked => owner = w]_vars

(* Every fill reaches the ledger, and every mailbox row ends.  A row that  *)
(* dies after its last attempt costs nothing: the poller posts its fill.   *)
Settled ==
    /\ booked = filled
    /\ \A e \in Events : mail[e] \in {"none", "completed", "dead"}

FillsSettle == <>[]Settled
=============================================================================
