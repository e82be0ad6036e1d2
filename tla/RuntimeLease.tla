---------------------------- MODULE RuntimeLease ----------------------------
(***************************************************************************)
(* The lease that lets one worker run one live strategy, and the fencing   *)
(* token that every order of that runtime carries.                         *)
(*                                                                         *)
(* One row of qd_strategy_runtime_leases is modelled; the rows of two      *)
(* strategies never meet.  Each worker is a process: an evaluator          *)
(* (DistributedRuntimeHost) or a trading worker (TradingWorker).  Inside a *)
(* process these threads interleave: the control threads that acquire,     *)
(* start, stop and release (`ctl'), the runtime thread that stamps and     *)
(* submits orders (`run'), and the heartbeat thread (`hb').  A trading     *)
(* worker has one control thread.  An evaluator has its pool and its       *)
(* consumer's thread: the handler leaves a batch at the first evaluation   *)
(* that raises, the others go on, and the next delivery or a reconcile     *)
(* meets them.  host._lock covers the acquiring part of evaluate, but not  *)
(* _release_runtime.                                                       *)
(*                                                                         *)
(* A worker is felt by the others only through the row, so peers, the      *)
(* workers that compete with them, issue the row's statements in any order *)
(* whatever.                                                               *)
(*                                                                         *)
(* Every database statement is one step; what a process does between two   *)
(* statements may be overtaken by any other process.  `now' stands for     *)
(* NOW() of the database and for time.monotonic() of every process.        *)
(***************************************************************************)
EXTENDS Integers, FiniteSets

CONSTANTS
    Workers,      \* worker ids (build_worker_id) whose threads are modelled
    Threads,      \* their control threads
    HostOf,       \* the worker a control thread belongs to
    NoThread,     \* host._lock is free
    Peers,        \* workers of which only the database statements are modelled
    NoOwner,      \* owner_id = ''
    OrderIds,     \* rows of pending_orders; a row serves again once it is claimed
    LeaseSeconds, \* STRATEGY_LEASE_SEC
    Retention,    \* seconds an expired row is kept (one day)
    MaxToken,     \* bound on the fencing token
    MaxTime       \* bound on the clock

Owners == Workers \cup Peers

ASSUME OwnersAssumption ==
    /\ Workers \cap Peers = {}
    /\ NoOwner \notin Owners
ASSUME ThreadsAssumption ==
    HostOf \in [Threads -> Workers] /\ NoThread \notin Threads
ASSUME TimeAssumption ==
    LeaseSeconds \in Nat \ {0} /\ Retention \in Nat /\ MaxToken \in Nat
    /\ MaxTime \in Nat

VARIABLES
    role,     \* the process: an evaluator or a trading worker
    now,      \* the clock
    lease,    \* the row: present, owner, token, expires
    epoch,    \* how often the row has been purged (history only)
    ctl,      \* control threads: where each is in evaluate / _start / _release_runtime
    held,     \* the token acquire_strategy_lease has just returned to a thread
    lock,     \* host._lock: the control thread that holds it, or NoThread
    owned,    \* host._owned_strategies
    tok,      \* executor._runtime_fencing_tokens
    deadline, \* LeaseHeartbeat._strategies; 0 when the strategy is not watched
    granted,  \* the deadline was set by watch_strategy, not by a renewal (history)
    lost,     \* host._lost_strategies
    stop,     \* the runtime's stop_event
    run,      \* runtime thread: where it is in its loop and in _execute_signal
    etok,     \* request.runtime_fencing_token of the signal in flight
    hb,       \* heartbeat thread: one call of renew
    orders,   \* pending_orders
    crossed   \* the runtime was acquired inside another thread's release (history)

vars == <<role, now, lease, epoch, ctl, held, lock, owned, tok, deadline, granted,
          lost, stop, run, etok, hb, orders, crossed>>
hostVars == <<role, ctl, held, lock, owned, tok, deadline, granted, lost, stop, run,
              etok, hb, crossed>>
(* What runtime and heartbeat leave alone (an exit resets `crossed').      *)
ctlVars == <<role, ctl, held, lock, owned, crossed>>
(* What most control steps leave alone.                                    *)
runVars == <<run, etok, hb, orders>>

-----------------------------------------------------------------------------
(* A token together with the incarnation of the row it was read from.  The *)
(* code has only the number; the epoch is history for the properties.      *)
Stamp == [n : Nat, epoch : Nat]
NoStamp == [n |-> 0, epoch |-> 0]

CtlStates == {"idle", "acquired", "watched", "forgetting", "releasing",
              "clearing"}
(* Inside _release_runtime.                                                *)
Releasing == {"forgetting", "releasing", "clearing"}
RunStates == {"none", "loop", "pass", "stamped", "guarded", "fenced"}
HbStates == {"idle", "sent", "answered", "lost"}
HbResults == {"none", "renewed", "refused", "error"}
OrderStates == {"none", "pending", "processing"}

IdleHb == [state |-> "idle", started |-> 0, same |-> FALSE, result |-> "none"]
LostHb == [state |-> "lost", started |-> 0, same |-> FALSE, result |-> "none"]
NoLease == [present |-> FALSE, owner |-> NoOwner, token |-> 0, expires |-> 0]
NoOrder == [status |-> "none", stamp |-> NoStamp, owner |-> NoOwner]

Lease == [present : BOOLEAN, owner : Owners \cup {NoOwner}, token : Nat,
          expires : Int]
Heartbeat == [state : HbStates, started : Nat, same : BOOLEAN, result : HbResults]
Order == [status : OrderStates, stamp : Stamp, owner : Workers \cup {NoOwner}]

(* Type invariant: row, threads, heartbeat snapshots and orders keep their *)
(* types; an owner of the row is a worker, a peer or nobody.               *)
TypeOK ==
    /\ role \in [Workers -> {"evaluator", "trader"}]
    /\ now \in Nat
    /\ lease \in Lease
    /\ epoch \in Nat
    /\ ctl \in [Threads -> CtlStates]
    /\ held \in [Threads -> Stamp]
    /\ lock \in [Workers -> Threads \cup {NoThread}]
    /\ owned \in [Workers -> BOOLEAN]
    /\ tok \in [Workers -> Stamp]
    /\ deadline \in [Workers -> Nat]
    /\ granted \in [Workers -> BOOLEAN]
    /\ lost \in [Workers -> BOOLEAN]
    /\ stop \in [Workers -> BOOLEAN]
    /\ run \in [Workers -> RunStates]
    /\ etok \in [Workers -> Stamp]
    /\ hb \in [Workers -> Heartbeat]
    /\ orders \in [OrderIds -> Order]
    /\ crossed \in [Workers -> BOOLEAN]

Init ==
    /\ role \in [Workers -> {"evaluator", "trader"}]
    /\ now = 1
    /\ lease = NoLease
    /\ epoch = 0
    /\ ctl = [t \in Threads |-> "idle"]
    /\ held = [t \in Threads |-> NoStamp]
    /\ lock = [o \in Workers |-> NoThread]
    /\ owned = [o \in Workers |-> FALSE]
    /\ tok = [o \in Workers |-> NoStamp]
    /\ deadline = [o \in Workers |-> 0]
    /\ granted = [o \in Workers |-> FALSE]
    /\ lost = [o \in Workers |-> FALSE]
    /\ stop = [o \in Workers |-> FALSE]
    /\ run = [o \in Workers |-> "none"]
    /\ etok = [o \in Workers |-> NoStamp]
    /\ hb = [o \in Workers |-> IdleHb]
    /\ orders = [i \in OrderIds |-> NoOrder]
    /\ crossed = [o \in Workers |-> FALSE]

-----------------------------------------------------------------------------
(* The row.                                                                *)

(* acquire_strategy_lease returns a token only when the row is absent, is  *)
(* the caller's, or has expired.                                           *)
CanAcquire(o) ==
    ~lease.present \/ lease.owner = o \/ lease.expires < now

(* Mutant: a takeover that keeps the previous owner's token.               *)
AcquiredToken_Kept(o) == IF ~lease.present THEN 1 ELSE lease.token

(* A takeover raises the token; the same owner keeps it.                   *)
AcquiredToken(o) ==
    IF ~lease.present THEN 1
    ELSE IF lease.owner = o THEN lease.token ELSE lease.token + 1

AcquiredLease(o) ==
    [present |-> TRUE, owner |-> o, token |-> AcquiredToken(o),
     expires |-> now + LeaseSeconds]

(* release_strategy_lease keeps the row and its token.                     *)
ReleasedLease(o) ==
    IF lease.present /\ lease.owner = o
    THEN [present |-> TRUE, owner |-> NoOwner, token |-> lease.token,
          expires |-> now - 1]
    ELSE lease

(* Mutant: a revoke that marks the row by a token of its own.              *)
RevokedLease_Marked ==
    [present |-> TRUE, owner |-> NoOwner, token |-> -1,
     expires |-> now - 1]

RevokedLease ==
    [present |-> TRUE, owner |-> NoOwner, token |-> lease.token + 1,
     expires |-> now - 1]

CanRenew(o) == lease.present /\ lease.owner = o /\ lease.expires >= now

RenewedLease ==
    [present |-> TRUE, owner |-> lease.owner, token |-> lease.token,
     expires |-> now + LeaseSeconds]

(* Mutant: the fence without its expiry comparison.                        *)
FenceCurrent_NoExpiry(t) == lease.present /\ lease.token = t

(* EXISTS (... fencing_token = t AND lease_expires_at >= NOW())            *)
FenceCurrent(t) == lease.present /\ lease.token = t /\ lease.expires >= now

(* The runtime guard: host._runtime_valid, which for a trading worker is   *)
(* heartbeat.strategy_valid (nothing ever sets `lost' there).              *)
RuntimeValid(o) == ~lost[o] /\ deadline[o] > now

-----------------------------------------------------------------------------
(* Control threads.                                                        *)

(* Leaving the idle state: a trading worker has one control thread.        *)
Begins(t) ==
    /\ ctl[t] = "idle"
    /\ role[HostOf[t]] = "trader" =>
          \A u \in Threads : HostOf[u] = HostOf[t] => ctl[u] = "idle"

At(t, state) == ctl' = [ctl EXCEPT ![t] = state]

(* evaluate / _start: only without a live runtime of this process.  An     *)
(* evaluator holds its lock until the runtime is started.  A runtime that  *)
(* has died may leave its watch: a trading worker acquires over it, and so *)
(* does an evaluator when the runtime dies after _release_dead_runtime has *)
(* found it alive.                                                         *)
Acquire(t) ==
    LET o == HostOf[t] IN
    /\ Begins(t) /\ run[o] = "none"
    /\ role[o] = "evaluator" => lock[o] = NoThread
    /\ CanAcquire(o) /\ AcquiredToken(o) <= MaxToken
    /\ lease' = AcquiredLease(o)
    /\ held' = [held EXCEPT ![t] = [n |-> AcquiredToken(o), epoch |-> epoch]]
    /\ lock' = [lock EXCEPT ![o] = IF role[o] = "evaluator" THEN t ELSE NoThread]
    /\ crossed' = [crossed EXCEPT ![o] =
                     \E u \in Threads : HostOf[u] = o /\ ctl[u] \in Releasing]
    /\ At(t, "acquired")
    /\ UNCHANGED <<role, now, epoch, owned, tok, deadline, granted, lost, stop,
                   runVars>>

(* A watch set or dropped while renew is under way: its deadline is not    *)
(* the one renew has read.                                                 *)
Overtaken(o) ==
    [state |-> hb[o].state, started |-> hb[o].started, same |-> FALSE,
     result |-> hb[o].result]

(* set_runtime_fencing_token, then watch_strategy.  The local deadline     *)
(* starts when the answer is handled, not when the row was written.        *)
Watch(t) ==
    LET o == HostOf[t] IN
    /\ ctl[t] = "acquired"
    /\ tok' = [tok EXCEPT ![o] = held[t]]
    /\ held' = [held EXCEPT ![t] = NoStamp]
    /\ owned' = [owned EXCEPT ![o] = role[o] = "evaluator"]
    /\ deadline' = [deadline EXCEPT ![o] = now + LeaseSeconds]
    /\ granted' = [granted EXCEPT ![o] = TRUE]
    /\ hb' = [hb EXCEPT ![o] = Overtaken(o)]
    /\ At(t, "watched")
    /\ UNCHANGED <<role, now, lease, epoch, lock, lost, stop, run, etok, orders,
                   crossed>>

(* start_strategy, after which an evaluator gives its lock back.           *)
Start(t) ==
    LET o == HostOf[t] IN
    /\ ctl[t] = "watched"
    /\ RuntimeValid(o)
    /\ run' = [run EXCEPT ![o] = "loop"]
    /\ lock' = [lock EXCEPT ![o] = NoThread]
    /\ At(t, "idle")
    /\ UNCHANGED <<role, now, lease, epoch, held, owned, tok, deadline, granted,
                   lost, stop, etok, hb, orders, crossed>>

(* start_strategy returned False: limit, preflight, or the guard.  The     *)
(* evaluator releases while it holds its lock.                             *)
StartFailed(t) ==
    /\ ctl[t] = "watched"
    /\ owned' = [owned EXCEPT ![HostOf[t]] = FALSE]
    /\ At(t, "forgetting")
    /\ UNCHANGED <<role, now, lease, epoch, held, lock, tok, deadline, granted,
                   lost, stop, runVars, crossed>>

(* stop_strategy, from a stop command, a reconcile, a partition revoke, a  *)
(* start that did not become ready, or a shutdown.                         *)
RequestStop(t) ==
    /\ Begins(t) /\ run[HostOf[t]] # "none"
    /\ stop' = [stop EXCEPT ![HostOf[t]] = TRUE]
    /\ UNCHANGED <<ctlVars, now, lease, epoch, tok, deadline, granted, lost,
                   runVars>>

(* The join has returned, or found no runtime.  When it times out with the *)
(* runtime still in its step, a trading worker retains the lease; an       *)
(* evaluator ignores the answer and releases it.                           *)
MayRelease(o) == run[o] = "none" \/ (role[o] = "evaluator" /\ stop[o])

(* The head of _release_runtime, under the evaluator's lock: whoever takes *)
(* the strategy off the owned ones goes on.  It is called after a stop,    *)
(* for a dead runtime (by evaluate under its lock, by reconcile without)   *)
(* and at shutdown.  A trading worker keeps no such set.                   *)
EnterRelease(t) ==
    LET o == HostOf[t] IN
    /\ Begins(t) /\ MayRelease(o)
    /\ role[o] = "evaluator" => lock[o] = NoThread /\ owned[o]
    /\ owned' = [owned EXCEPT ![o] = FALSE]
    /\ At(t, "forgetting")
    /\ UNCHANGED <<role, now, lease, epoch, held, lock, tok, deadline, granted,
                   lost, stop, runVars, crossed>>

(* Mutant: the token is cleared before the watch is dropped.               *)
Forget_ClearsFirst(t) ==
    /\ ctl[t] = "forgetting"
    /\ tok' = [tok EXCEPT ![HostOf[t]] = NoStamp]
    /\ At(t, "releasing")
    /\ UNCHANGED <<role, now, lease, epoch, held, lock, owned, deadline, granted,
                   lost, stop, runVars, crossed>>

(* forget_strategy                                                         *)
Forget(t) ==
    /\ ctl[t] = "forgetting"
    /\ deadline' = [deadline EXCEPT ![HostOf[t]] = 0]
    /\ granted' = [granted EXCEPT ![HostOf[t]] = FALSE]
    /\ hb' = [hb EXCEPT ![HostOf[t]] = Overtaken(HostOf[t])]
    /\ At(t, "releasing")
    /\ UNCHANGED <<role, now, lease, epoch, held, lock, owned, tok, lost, stop,
                   run, etok, orders, crossed>>

(* release_strategy_lease                                                  *)
Release(t) ==
    /\ ctl[t] = "releasing"
    /\ lease' = ReleasedLease(HostOf[t])
    /\ At(t, "clearing")
    /\ UNCHANGED <<role, now, epoch, held, lock, owned, tok, deadline, granted,
                   lost, stop, runVars, crossed>>

(* clear_runtime_fencing_token; then, under the evaluator's lock, the lost *)
(* mark goes.  While another evaluation holds the lock there is no runtime *)
(* to see the token, so both are one step.  An evaluation that failed to   *)
(* start gives the lock back.                                              *)
ClearToken(t) ==
    LET o == HostOf[t] IN
    /\ ctl[t] = "clearing" /\ lock[o] \in {NoThread, t}
    /\ tok' = [tok EXCEPT ![o] = NoStamp]
    /\ lost' = [lost EXCEPT ![o] = FALSE]
    /\ lock' = [lock EXCEPT ![o] = NoThread]
    /\ At(t, "idle")
    /\ UNCHANGED <<role, now, lease, epoch, held, owned, deadline, granted, stop,
                   runVars, crossed>>

-----------------------------------------------------------------------------
(* Runtime thread: passes of the strategy loop, each with any number of    *)
(* signals.                                                                *)

(* _is_strategy_running at the head of the loop.                           *)
BeginPass(o) ==
    /\ run[o] = "loop" /\ ~stop[o] /\ RuntimeValid(o)
    /\ run' = [run EXCEPT ![o] = "pass"]
    /\ UNCHANGED <<ctlVars, now, lease, epoch, tok, deadline, granted, lost,
                   stop, etok, hb, orders>>

(* _execute_signal builds the request with the token of the moment.        *)
StampSignal(o) ==
    /\ run[o] = "pass"
    /\ etok' = [etok EXCEPT ![o] = tok[o]]
    /\ run' = [run EXCEPT ![o] = "stamped"]
    /\ UNCHANGED <<ctlVars, now, lease, epoch, tok, deadline, granted, lost,
                   stop, hb, orders>>

(* The request is gone and the pass goes on.                               *)
DropSignal(o) ==
    /\ run' = [run EXCEPT ![o] = "pass"]
    /\ etok' = [etok EXCEPT ![o] = NoStamp]

(* The guard of _execute_signal, after the inflight query.                 *)
GuardSignal(o) ==
    /\ run[o] = "stamped"
    /\ \/ RuntimeValid(o) /\ run' = [run EXCEPT ![o] = "guarded"] /\ etok' = etok
       \/ ~RuntimeValid(o) /\ DropSignal(o)
    /\ UNCHANGED <<ctlVars, now, lease, epoch, tok, deadline, granted, lost,
                   stop, hb, orders>>

(* _assert_runtime_fence, in a transaction of its own.                     *)
AssertFence(o) ==
    /\ run[o] = "guarded"
    /\ IF etok[o].n = 0 \/ FenceCurrent(etok[o].n)
       THEN run' = [run EXCEPT ![o] = "fenced"] /\ etok' = etok
       ELSE DropSignal(o)
    /\ UNCHANGED <<ctlVars, now, lease, epoch, tok, deadline, granted, lost,
                   stop, hb, orders>>

(* INSERT INTO pending_orders.                                             *)
EnqueueOrder(o, i) ==
    /\ run[o] = "fenced"
    /\ orders[i].status # "pending"
    /\ orders' = [orders EXCEPT ![i] =
                    [status |-> "pending", stamp |-> etok[o], owner |-> o]]
    /\ DropSignal(o)
    /\ UNCHANGED <<ctlVars, now, lease, epoch, tok, deadline, granted, lost,
                   stop, hb>>

EndPass(o) ==
    /\ run[o] = "pass"
    /\ run' = [run EXCEPT ![o] = "loop"]
    /\ UNCHANGED <<ctlVars, now, lease, epoch, tok, deadline, granted, lost,
                   stop, etok, hb, orders>>

(* The loop ends on its test or on an exception; its finally block drops   *)
(* the stop event and the executor's token.                                *)
RuntimeExit(o) ==
    /\ run[o] \in {"loop", "pass"}
    /\ run' = [run EXCEPT ![o] = "none"]
    /\ stop' = [stop EXCEPT ![o] = FALSE]
    /\ tok' = [tok EXCEPT ![o] = NoStamp]
    /\ crossed' = [crossed EXCEPT ![o] = FALSE]
    /\ UNCHANGED <<role, now, lease, epoch, ctl, held, lock, owned, deadline,
                   granted, lost, etok, hb, orders>>

-----------------------------------------------------------------------------
(* Heartbeat thread: one call of renew.                                    *)

HbBegin(o) ==
    /\ hb[o].state = "idle" /\ deadline[o] # 0
    /\ hb' = [hb EXCEPT ![o] = [state |-> "sent", started |-> now,
                                same |-> TRUE, result |-> "none"]]
    /\ UNCHANGED <<ctlVars, now, lease, epoch, tok, deadline, granted, lost,
                   stop, run, etok, orders>>

(* The statement has returned or raised.                                   *)
Answered(o, result) ==
    [state |-> "answered", started |-> hb[o].started, same |-> hb[o].same,
     result |-> result]

HbUpdate(o) ==
    /\ hb[o].state = "sent"
    /\ lease' = IF CanRenew(o) THEN RenewedLease ELSE lease
    /\ hb' = [hb EXCEPT ![o] =
                 Answered(o, IF CanRenew(o) THEN "renewed" ELSE "refused")]
    /\ UNCHANGED <<ctlVars, now, epoch, tok, deadline, granted, lost, stop,
                   run, etok, orders>>

(* The statement raised: it may or may not have been applied.              *)
HbError(o) ==
    /\ hb[o].state = "sent"
    /\ \/ lease' = lease
       \/ CanRenew(o) /\ lease' = RenewedLease
    /\ hb' = [hb EXCEPT ![o] = Answered(o, "error")]
    /\ UNCHANGED <<ctlVars, now, epoch, tok, deadline, granted, lost, stop,
                   run, etok, orders>>

(* Mutant: a renewal counted from its answer.                              *)
RenewedDeadline_FromAnswer(o) == now + LeaseSeconds

(* A renewal counts from the moment before its request.                    *)
RenewedDeadline(o) == hb[o].started + LeaseSeconds

(* The answer is applied under the heartbeat's lock, unless the watch has  *)
(* changed meanwhile.                                                      *)
HbApply(o) ==
    /\ hb[o].state = "answered"
    /\ LET isLost == hb[o].same /\ \/ hb[o].result = "refused"
                                   \/ hb[o].result = "error" /\ now >= deadline[o]
       IN /\ deadline' = [deadline EXCEPT ![o] =
                            IF hb[o].same /\ hb[o].result = "renewed"
                            THEN RenewedDeadline(o)
                            ELSE IF isLost THEN 0 ELSE deadline[o]]
          /\ granted' = [granted EXCEPT ![o] =
                           ~(hb[o].same /\ hb[o].result = "renewed") /\ ~isLost
                           /\ granted[o]]
          /\ hb' = [hb EXCEPT ![o] =
                      IF isLost THEN LostHb ELSE IdleHb]
    /\ UNCHANGED <<ctlVars, now, lease, epoch, tok, lost, stop, run, etok,
                   orders>>

(* on_loss, outside the heartbeat's lock: an evaluator marks the strategy  *)
(* lost under its own lock and stops it; a trading worker only records the *)
(* loss.                                                                   *)
HbLoss(o) ==
    /\ hb[o].state = "lost" /\ lock[o] = NoThread
    /\ hb' = [hb EXCEPT ![o] = IdleHb]
    /\ lost' = [lost EXCEPT ![o] = lost[o] \/ role[o] = "evaluator"]
    /\ stop' = [stop EXCEPT ![o] = stop[o] \/ (role[o] = "evaluator" /\ run[o] # "none")]
    /\ UNCHANGED <<ctlVars, now, lease, epoch, tok, deadline, granted, run,
                   etok, orders>>

-----------------------------------------------------------------------------
(* Other processes.                                                        *)

(* A claimed order: its token is not read again.                           *)
ClaimedOrder == [status |-> "processing", stamp |-> NoStamp, owner |-> NoOwner]

(* claim_pending_order: one transaction that claims the order or fails it. *)
ClaimOrder(i) ==
    /\ orders[i].status = "pending"
    /\ orders' = [orders EXCEPT ![i] =
                    IF orders[i].stamp.n = 0 \/ FenceCurrent(orders[i].stamp.n)
                    THEN ClaimedOrder ELSE NoOrder]
    /\ UNCHANGED <<now, lease, epoch, hostVars>>

(* A stop command, on whatever worker claimed it.                          *)
Revoke ==
    /\ lease.present /\ lease.token < MaxToken
    /\ lease' = RevokedLease
    /\ UNCHANGED <<now, epoch, hostVars, orders>>

(* cleanup_runtime_metadata deletes rows that expired long ago.            *)
Purge ==
    /\ lease.present /\ lease.expires < now - Retention
    /\ lease' = NoLease
    /\ epoch' = epoch + 1
    /\ UNCHANGED <<now, hostVars, orders>>

PeerAcquire(p) ==
    /\ CanAcquire(p) /\ AcquiredToken(p) <= MaxToken
    /\ lease' = AcquiredLease(p)
    /\ UNCHANGED <<now, epoch, hostVars, orders>>

PeerRenew(p) ==
    /\ CanRenew(p)
    /\ lease' = RenewedLease
    /\ UNCHANGED <<now, epoch, hostVars, orders>>

PeerRelease(p) ==
    /\ lease' = ReleasedLease(p)
    /\ UNCHANGED <<now, epoch, hostVars, orders>>

(* The process is gone with everything it held in memory.  A worker with a *)
(* configured QD_WORKER_ID comes back under the same id.                   *)
Restart(o) ==
    /\ ctl' = [t \in Threads |-> IF HostOf[t] = o THEN "idle" ELSE ctl[t]]
    /\ held' = [t \in Threads |-> IF HostOf[t] = o THEN NoStamp ELSE held[t]]
    /\ lock' = [lock EXCEPT ![o] = NoThread]
    /\ owned' = [owned EXCEPT ![o] = FALSE]
    /\ tok' = [tok EXCEPT ![o] = NoStamp]
    /\ deadline' = [deadline EXCEPT ![o] = 0]
    /\ granted' = [granted EXCEPT ![o] = FALSE]
    /\ lost' = [lost EXCEPT ![o] = FALSE]
    /\ stop' = [stop EXCEPT ![o] = FALSE]
    /\ run' = [run EXCEPT ![o] = "none"]
    /\ etok' = [etok EXCEPT ![o] = NoStamp]
    /\ hb' = [hb EXCEPT ![o] = IdleHb]
    /\ crossed' = [crossed EXCEPT ![o] = FALSE]
    /\ UNCHANGED <<role, now, lease, epoch, orders>>

Tick ==
    /\ now < MaxTime
    /\ now' = now + 1
    /\ UNCHANGED <<lease, epoch, hostVars, orders>>

ControlStep(t) ==
    \/ Acquire(t) \/ Watch(t) \/ Start(t) \/ StartFailed(t) \/ RequestStop(t)
    \/ EnterRelease(t) \/ Forget(t) \/ Release(t) \/ ClearToken(t)

RuntimeStep(o) ==
    \/ BeginPass(o) \/ EndPass(o) \/ StampSignal(o) \/ GuardSignal(o) \/ AssertFence(o)
    \/ RuntimeExit(o)
    \/ \E i \in OrderIds : EnqueueOrder(o, i)

HeartbeatStep(o) ==
    HbBegin(o) \/ HbUpdate(o) \/ HbError(o) \/ HbApply(o) \/ HbLoss(o)

Next ==
    \/ \E t \in Threads : ControlStep(t)
    \/ \E o \in Workers : RuntimeStep(o) \/ HeartbeatStep(o) \/ Restart(o)
    \/ \E i \in OrderIds : ClaimOrder(i)
    \/ \E p \in Peers : PeerAcquire(p) \/ PeerRenew(p) \/ PeerRelease(p)
    \/ Revoke \/ Purge \/ Tick

Spec == Init /\ [][Next]_vars

-----------------------------------------------------------------------------
(* An order that carries a token is claimed for dispatch only while the    *)
(* worker whose runtime produced it owns the lease, within one lifetime of *)
(* the row: whatever the threads and the other workers did in between.     *)
StaleOrderNotClaimed ==
    [][\A i \in OrderIds :
          (/\ orders[i].status = "pending" /\ orders'[i].status = "processing"
           /\ orders[i].stamp.n > 0 /\ orders[i].stamp.epoch = epoch)
          => lease.owner = orders[i].owner /\ lease.expires >= now]_vars

(* Every order a runtime queues carries a token, also when the stop, the   *)
(* loss or the release of the lease clears the token in mid-signal: a      *)
(* token of zero would bypass both fence checks.  One overlap is excepted: *)
(* a runtime acquired while another thread of its evaluator is inside      *)
(* _release_runtime, whose last lines clear the new runtime's token.       *)
RuntimeOrdersFenced ==
    [][\A i \in OrderIds : \A o \in Workers :
          (orders'[i] # orders[i] /\ orders'[i].owner = o)
          => orders'[i].stamp.n > 0 \/ crossed[o]]_vars

(* A stamp of the present lifetime of the row is not ahead of the row, and *)
(* one that equals its token was made by its owner.                        *)
Fenced(stamp, o, row, e) ==
    (stamp.n > 0 /\ stamp.epoch = e) =>
        /\ row.present
        /\ stamp.n <= row.token
        /\ stamp.n = row.token => row.owner \in {o, NoOwner}

(* A token names one owner: this holds of every stamp a worker carries and *)
(* of every queued order, across releases, takeovers and revocations.      *)
TokenNamesOwner ==
    /\ \A t \in Threads : Fenced(held[t], HostOf[t], lease, epoch)
    /\ \A o \in Workers : /\ Fenced(tok[o], o, lease, epoch)
                          /\ Fenced(etok[o], o, lease, epoch)
    /\ \A i \in OrderIds : Fenced(orders[i].stamp, orders[i].owner, lease, epoch)

(* A lease passes from a worker to a peer by expiry only when the worker's *)
(* own deadline has passed, once that deadline comes from a renewal: the   *)
(* guard of the old runtime is down before the new one can start.          *)
TakeoverAfterDeadline ==
    [][\A o \in Workers :
          (lease.owner = o /\ lease'.owner \in Owners \ {o} /\ ~granted[o])
          => deadline[o] <= now]_vars
=============================================================================
