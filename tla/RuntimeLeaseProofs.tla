------------------------- MODULE RuntimeLeaseProofs -------------------------
(***************************************************************************)
(* Proofs about RuntimeLease, for any number of workers, peers and orders  *)
(* and any lease and retention time.                                       *)
(***************************************************************************)
EXTENDS RuntimeLease, TLAPS

(* A stamp comes from this lifetime of the row or an earlier one, and is   *)
(* fenced.                                                                 *)
Good(stamp, w, row, e) == stamp.epoch <= e /\ Fenced(stamp, w, row, e)

StampsGood ==
    /\ \A t \in Threads : Good(held[t], HostOf[t], lease, epoch)
    /\ \A o \in Workers : /\ Good(tok[o], o, lease, epoch)
                          /\ Good(etok[o], o, lease, epoch)
    /\ \A i \in OrderIds : Good(orders[i].stamp, orders[i].owner, lease, epoch)

(* The row's fields agree: an owned row exists, a row without an owner has *)
(* expired, and a row that exists has a token.                             *)
RowCoherent ==
    /\ lease.owner # NoOwner => lease.present
    /\ (lease.present /\ lease.owner = NoOwner) => lease.expires < now
    /\ lease.present => lease.token > 0

FenceInv == TypeOK /\ RowCoherent /\ StampsGood

(* What a step may do to the stamps without making a new one.              *)
StampsMove ==
    /\ \A t \in Threads : held'[t] \in {held[t], NoStamp}
    /\ \A o \in Workers :
          /\ \/ tok'[o] \in {tok[o], NoStamp}
             \/ \E t \in Threads : HostOf[t] = o /\ tok'[o] = held[t]
          /\ etok'[o] \in {etok[o], tok[o], NoStamp}
    /\ \A i \in OrderIds :
          \/ orders'[i].stamp = orders[i].stamp /\ orders'[i].owner = orders[i].owner
          \/ orders'[i].stamp = NoStamp /\ orders'[i].owner = NoOwner
          \/ \E o \in Workers : orders'[i].stamp = etok[o] /\ orders'[i].owner = o

USE DEF Owners

LEMMA InitFence == Init => FenceInv
  BY OwnersAssumption, ThreadsAssumption, TimeAssumption
  DEF Init, FenceInv, TypeOK, StampsGood, Good, RowCoherent, Fenced,
      Stamp, NoStamp, CtlStates, RunStates, HbStates, HbResults,
      OrderStates, IdleHb, NoLease, NoOrder, Lease, Heartbeat, Order

(* The constants of the module have their types.                           *)
LEMMA ValueTypes ==
  /\ NoStamp \in Stamp
  /\ IdleHb \in Heartbeat /\ LostHb \in Heartbeat
  /\ NoLease \in Lease
  /\ NoOrder \in Order /\ ClaimedOrder \in Order
  /\ \A t \in Threads : HostOf[t] \in Workers /\ HostOf[t] \in Owners
  BY OwnersAssumption, ThreadsAssumption
  DEF NoStamp, Stamp, IdleHb, LostHb, Heartbeat, HbStates, HbResults, NoLease, Lease,
      NoOrder, ClaimedOrder, Order, OrderStates

(* What the statements make of the row is a row.                           *)
LEMMA RowTypes ==
  ASSUME TypeOK
  PROVE  /\ RevokedLease \in Lease
         /\ RenewedLease \in Lease
         /\ \A o \in Owners : /\ AcquiredToken(o) \in Nat
                             /\ AcquiredLease(o) \in Lease
                             /\ ReleasedLease(o) \in Lease
  BY OwnersAssumption, TimeAssumption
  DEF TypeOK, Lease, AcquiredLease, AcquiredToken, ReleasedLease, RevokedLease,
      RenewedLease

LEMMA AnswerType ==
  ASSUME TypeOK, NEW o \in Workers, NEW r \in HbResults
  PROVE  Answered(o, r) \in Heartbeat
  BY Zenon DEF TypeOK, Answered, Heartbeat, HbStates

LEMMA OvertakenType ==
  ASSUME TypeOK, NEW o \in Workers
  PROVE  Overtaken(o) \in Heartbeat
  BY Zenon DEF TypeOK, Overtaken, Heartbeat

(* Every step keeps the types.                                             *)
LEMMA TypeStep == TypeOK /\ [Next]_vars => TypeOK'
<1> SUFFICES ASSUME TypeOK, [Next]_vars PROVE TypeOK'
  OBVIOUS
<1> USE OwnersAssumption, ThreadsAssumption, TimeAssumption, ValueTypes
<1> USE DEF TypeOK, CtlStates, RunStates
<1>1. ASSUME NEW t \in Threads, ControlStep(t) PROVE TypeOK'
  <2>o. HostOf[t] \in Workers /\ HostOf[t] \in Owners
    BY Zenon
  <2> USE <2>o DEF At
  <2>1. CASE Acquire(t) BY <2>1, RowTypes, Zenon DEF Acquire, runVars, Stamp
  <2>2. CASE Watch(t)
    <3>1. now + LeaseSeconds \in Nat
      OBVIOUS
    <3> QED BY <2>2, <3>1, OvertakenType, Zenon DEF Watch
  <2>3. CASE Start(t) BY <2>3, Zenon DEF Start
  <2>4. CASE StartFailed(t) BY <2>4, Zenon DEF StartFailed, runVars
  <2>5. CASE RequestStop(t) BY <2>5, Zenon DEF RequestStop, ctlVars, runVars
  <2>6. CASE EnterRelease(t) BY <2>6, Zenon DEF EnterRelease, runVars
  <2>7. CASE Forget(t) BY <2>7, OvertakenType, Zenon DEF Forget
  <2>8. CASE Release(t) BY <2>8, RowTypes, Zenon DEF Release, runVars
  <2>9. CASE ClearToken(t) BY <2>9, Zenon DEF ClearToken, runVars
  <2> QED BY <1>1, <2>1, <2>2, <2>3, <2>4, <2>5, <2>6, <2>7, <2>8, <2>9,
             Zenon DEF ControlStep
<1>2. ASSUME NEW o \in Workers, RuntimeStep(o) PROVE TypeOK'
  <2>1. CASE BeginPass(o) BY <2>1, Zenon DEF BeginPass, ctlVars
  <2>2. CASE EndPass(o) BY <2>2, Zenon DEF EndPass, ctlVars
  <2>3. CASE StampSignal(o) BY <2>3, Zenon DEF StampSignal, ctlVars
  <2>4. CASE GuardSignal(o) BY <2>4 DEF GuardSignal, DropSignal, ctlVars
  <2>5. CASE AssertFence(o) BY <2>5 DEF AssertFence, DropSignal, ctlVars
  <2>6. CASE RuntimeExit(o) BY <2>6, Zenon DEF RuntimeExit
  <2>7. ASSUME NEW i \in OrderIds, EnqueueOrder(o, i) PROVE TypeOK'
    BY <2>7, Zenon DEF EnqueueOrder, DropSignal, Order, OrderStates, ctlVars
  <2> QED BY <1>2, <2>1, <2>2, <2>3, <2>4, <2>5, <2>6, <2>7, Zenon DEF RuntimeStep
<1>3. ASSUME NEW o \in Workers, HeartbeatStep(o) PROVE TypeOK'
  <2>1. CASE HbBegin(o) BY <2>1, Zenon DEF HbBegin, ctlVars, Heartbeat, HbStates, HbResults
  <2>2. CASE HbUpdate(o) BY <2>2, RowTypes, AnswerType, Zenon DEF HbUpdate, ctlVars, HbResults
  <2>3. CASE HbError(o) BY <2>3, RowTypes, AnswerType, Zenon DEF HbError, ctlVars, HbResults
  <2>4. CASE HbApply(o)
    <3>1. RenewedDeadline(o) \in Nat BY DEF RenewedDeadline, Heartbeat
    <3> QED BY <2>4, <3>1, Zenon DEF HbApply, ctlVars
  <2>5. CASE HbLoss(o) BY <2>5, Zenon DEF HbLoss, ctlVars
  <2> QED BY <1>3, <2>1, <2>2, <2>3, <2>4, <2>5, Zenon DEF HeartbeatStep
<1>r. ASSUME NEW o \in Workers, Restart(o) PROVE TypeOK'
  BY <1>r, Zenon DEF Restart
<1>4. ASSUME NEW i \in OrderIds, ClaimOrder(i) PROVE TypeOK'
  BY <1>4, Zenon DEF ClaimOrder, hostVars
<1>5. ASSUME NEW p \in Peers, PeerAcquire(p) \/ PeerRenew(p) \/ PeerRelease(p)
      PROVE TypeOK'
  BY <1>5, RowTypes DEF PeerAcquire, PeerRenew, PeerRelease, hostVars
<1>6. CASE Revoke \/ Purge \/ Tick
  BY <1>6, RowTypes DEF Revoke, Purge, Tick, hostVars
<1>7. CASE UNCHANGED vars
  BY <1>7, Zenon DEF vars
<1> QED BY <1>1, <1>2, <1>3, <1>r, <1>4, <1>5, <1>6, <1>7, Zenon DEF Next

(* The variables of the model always have their types.                     *)
THEOREM TypeCorrect == Spec => []TypeOK
<1>1. Init => TypeOK
  BY InitFence, Zenon DEF FenceInv
<1> QED BY <1>1, TypeStep, PTL DEF Spec

(* A stamp stays good when the row is acquired, renewed, released or       *)
(* revoked.                                                                *)
LEMMA GoodKept ==
  ASSUME TypeOK, epoch' = epoch,
         \/ lease' = lease
         \/ lease.present /\ lease' = RevokedLease
         \/ \E x \in Owners : \/ CanAcquire(x) /\ lease' = AcquiredLease(x)
                              \/ CanRenew(x) /\ lease' = RenewedLease
                              \/ lease' = ReleasedLease(x)
  PROVE  \A st \in Stamp, w \in Workers \cup {NoOwner} :
            Good(st, w, lease, epoch) => Good(st, w, lease', epoch')
<1> DEFINE Kept == \A st \in Stamp, w \in Workers \cup {NoOwner} :
                      Good(st, w, lease, epoch) => Good(st, w, lease', epoch')
<1> USE OwnersAssumption DEF TypeOK, Good, Fenced, Stamp, Lease
<1>1. CASE lease' = lease
  BY <1>1, Zenon
<1>2. CASE lease.present /\ lease' = RevokedLease
  BY <1>2 DEF RevokedLease
<1>3. ASSUME NEW x \in Owners, CanAcquire(x), lease' = AcquiredLease(x) PROVE Kept
  BY <1>3 DEF AcquiredLease, AcquiredToken
<1>4. ASSUME NEW x \in Owners, CanRenew(x), lease' = RenewedLease PROVE Kept
  BY <1>4, Zenon DEF CanRenew, RenewedLease
<1>5. ASSUME NEW x \in Owners, lease' = ReleasedLease(x) PROVE Kept
  BY <1>5, Zenon DEF ReleasedLease
<1> QED BY <1>1, <1>2, <1>3, <1>4, <1>5, Zenon

LEMMA NoStampGood == ASSUME NEW w, NEW row, NEW e \in Nat
                     PROVE  Good(NoStamp, w, row, e)
  BY DEF Good, Fenced, NoStamp

(* Stamps that only move stay good.                                        *)
LEMMA MovedGood ==
  ASSUME TypeOK, TypeOK', StampsGood, StampsMove,
         \A st \in Stamp, w \in Workers \cup {NoOwner} :
            Good(st, w, lease, epoch) => Good(st, w, lease', epoch')
  PROVE  StampsGood'
<1>1. /\ \A t \in Threads : held[t] \in Stamp /\ HostOf[t] \in Workers
      /\ \A o \in Workers : tok[o] \in Stamp /\ etok[o] \in Stamp
  BY ThreadsAssumption, Zenon DEF TypeOK
<1>2. \A i \in OrderIds : /\ orders[i].stamp \in Stamp
                          /\ orders[i].owner \in Workers \cup {NoOwner}
  BY Zenon DEF TypeOK, Order
<1>3. \A w : Good(NoStamp, w, lease', epoch')
  BY NoStampGood, Zenon DEF TypeOK
<1>t. ASSUME NEW t \in Threads PROVE Good(held'[t], HostOf[t], lease', epoch')
  BY <1>1, <1>3, Zenon DEF StampsGood, StampsMove
<1>4. ASSUME NEW o \in Workers
      PROVE  /\ Good(tok'[o], o, lease', epoch')
             /\ Good(etok'[o], o, lease', epoch')
  BY <1>1, <1>3, Zenon DEF StampsGood, StampsMove
<1>5. ASSUME NEW i \in OrderIds
      PROVE  Good(orders'[i].stamp, orders'[i].owner, lease', epoch')
  <2>1. CASE orders'[i].stamp = NoStamp
    BY <1>3, <2>1, Zenon
  <2>2. CASE orders'[i].stamp # NoStamp
    BY <1>1, <1>2, <2>2, Zenon DEF StampsGood, StampsMove
  <2> QED BY <2>1, <2>2, Zenon
<1> QED BY <1>t, <1>4, <1>5, Zenon DEF StampsGood

(* The statements keep the row coherent.                                   *)
LEMMA RowKept ==
  ASSUME TypeOK, RowCoherent, now' = now,
         NEW x \in Owners,
         \/ CanAcquire(x) /\ lease' = AcquiredLease(x)
         \/ CanRenew(x) /\ lease' = RenewedLease
         \/ lease' = ReleasedLease(x)
         \/ lease.present /\ lease' = RevokedLease
         \/ lease' = lease
  PROVE  RowCoherent'
  BY OwnersAssumption
  DEF TypeOK, RowCoherent, CanAcquire, CanRenew, AcquiredLease, AcquiredToken,
      RenewedLease, ReleasedLease, RevokedLease, Lease

(* Apart from Acquire and Purge, a step only moves stamps and issues at    *)
(* most one statement on the row.                                          *)
LEMMA StepMoves ==
  ASSUME TypeOK, Next,
         \A t \in Threads : ~Acquire(t),
         ~Purge
  PROVE  /\ StampsMove
         /\ epoch' = epoch
         /\ \/ lease' = lease
            \/ lease.present /\ lease' = RevokedLease
            \/ \E x \in Owners : \/ CanAcquire(x) /\ lease' = AcquiredLease(x)
                                 \/ CanRenew(x) /\ lease' = RenewedLease
                                 \/ lease' = ReleasedLease(x)
<1> DEFINE Row == /\ epoch' = epoch
                  /\ \/ lease' = lease
                     \/ lease.present /\ lease' = RevokedLease
                     \/ \E x \in Owners :
                           \/ CanAcquire(x) /\ lease' = AcquiredLease(x)
                           \/ CanRenew(x) /\ lease' = RenewedLease
                           \/ lease' = ReleasedLease(x)
<1>0. /\ held \in [Threads -> Stamp]
      /\ tok \in [Workers -> Stamp]
      /\ etok \in [Workers -> Stamp]
      /\ orders \in [OrderIds -> Order]
      /\ \A t \in Threads : HostOf[t] \in Workers /\ HostOf[t] \in Owners
  BY ValueTypes, Zenon DEF TypeOK
<1>1. ASSUME NEW t \in Threads, ControlStep(t) PROVE StampsMove /\ Row
  <2> USE <1>0 DEF StampsMove
  <2>1. CASE Watch(t) BY <2>1, Zenon DEF Watch
  <2>2. CASE Start(t) BY <2>2, Zenon DEF Start
  <2>3. CASE StartFailed(t) BY <2>3, Zenon DEF StartFailed, runVars
  <2>4. CASE RequestStop(t) BY <2>4, Zenon DEF RequestStop, ctlVars, runVars
  <2>5. CASE EnterRelease(t) BY <2>5, Zenon DEF EnterRelease, runVars
  <2>6. CASE Forget(t) BY <2>6, Zenon DEF Forget
  <2>7. CASE Release(t) BY <2>7, Zenon DEF Release, runVars
  <2>8. CASE ClearToken(t) BY <2>8, Zenon DEF ClearToken, runVars
  <2> QED BY <1>1, <2>1, <2>2, <2>3, <2>4, <2>5, <2>6, <2>7, <2>8, Zenon DEF ControlStep
<1>2. ASSUME NEW o \in Workers, RuntimeStep(o) PROVE StampsMove /\ Row
  <2> USE <1>0 DEF StampsMove, ctlVars
  <2>1. CASE BeginPass(o) BY <2>1, Zenon DEF BeginPass
  <2>2. CASE EndPass(o) BY <2>2, Zenon DEF EndPass
  <2>3. CASE StampSignal(o) BY <2>3, Zenon DEF StampSignal
  <2>4. CASE GuardSignal(o) BY <2>4, Zenon DEF GuardSignal, DropSignal
  <2>5. CASE AssertFence(o) BY <2>5, Zenon DEF AssertFence, DropSignal
  <2>6. CASE RuntimeExit(o) BY <2>6, Zenon DEF RuntimeExit
  <2>7. ASSUME NEW i \in OrderIds, EnqueueOrder(o, i) PROVE StampsMove /\ Row
    BY <2>7, Zenon DEF EnqueueOrder, DropSignal
  <2> QED BY <1>2, <2>1, <2>2, <2>3, <2>4, <2>5, <2>6, <2>7, Zenon DEF RuntimeStep
<1>3. ASSUME NEW o \in Workers, HeartbeatStep(o) PROVE StampsMove /\ Row
  <2> USE <1>0 DEF StampsMove, ctlVars
  <2>1. CASE HbBegin(o) BY <2>1, Zenon DEF HbBegin
  <2>2. CASE HbUpdate(o) BY <2>2, Zenon DEF HbUpdate
  <2>3. CASE HbError(o) BY <2>3, Zenon DEF HbError
  <2>4. CASE HbApply(o) BY <2>4, Zenon DEF HbApply
  <2>5. CASE HbLoss(o) BY <2>5, Zenon DEF HbLoss
  <2> QED BY <1>3, <2>1, <2>2, <2>3, <2>4, <2>5, Zenon DEF HeartbeatStep
<1>r. ASSUME NEW o \in Workers, Restart(o) PROVE StampsMove /\ Row
  BY <1>0, <1>r, Zenon DEF Restart, StampsMove
<1>4. ASSUME NEW i \in OrderIds, ClaimOrder(i) PROVE StampsMove /\ Row
  BY <1>0, <1>4, Zenon
  DEF ClaimOrder, ClaimedOrder, NoOrder, hostVars, StampsMove
<1>5. ASSUME NEW p \in Peers, PeerAcquire(p) \/ PeerRenew(p) \/ PeerRelease(p)
      PROVE  StampsMove /\ Row
  BY <1>5, Zenon DEF PeerAcquire, PeerRenew, PeerRelease, hostVars, StampsMove
<1>6. CASE Revoke \/ Tick
  BY <1>6, Zenon DEF Revoke, Tick, hostVars, StampsMove
<1> QED BY <1>1, <1>2, <1>3, <1>r, <1>4, <1>5, <1>6, Zenon DEF Next

(* Every step keeps all stamps good.                                       *)
LEMMA StampStep == FenceInv /\ Next => StampsGood'
<1> SUFFICES ASSUME FenceInv, Next PROVE StampsGood'
  OBVIOUS
<1>0. TypeOK /\ TypeOK' /\ StampsGood
  BY TypeStep, Zenon DEF FenceInv
<1>1. CASE (\A t \in Threads : ~Acquire(t)) /\ ~Purge
  BY <1>0, <1>1, StepMoves, GoodKept, MovedGood, Zenon
<1>2. ASSUME NEW t \in Threads, Acquire(t) PROVE StampsGood'
  <2>o. HostOf[t] \in Workers /\ HostOf[t] \in Owners
    BY ValueTypes, Zenon
  <2>1. \A st \in Stamp, w \in Workers \cup {NoOwner} :
           Good(st, w, lease, epoch) => Good(st, w, lease', epoch')
    BY <1>0, <1>2, <2>o, GoodKept, Zenon DEF Acquire
  <2>2. held'[t].n = AcquiredToken(HostOf[t]) /\ held'[t].epoch = epoch
    BY <1>0, <1>2, Zenon DEF Acquire, TypeOK
  <2>3. Good(held'[t], HostOf[t], lease', epoch')
    <3>1. AcquiredToken(HostOf[t]) \in Nat /\ epoch \in Nat
      BY <1>0, <2>o, RowTypes, Zenon DEF TypeOK
    <3> QED BY <1>2, <2>2, <3>1 DEF Acquire, Good, Fenced, AcquiredLease
  <2>4. \A u \in Threads \ {t} : held'[u] = held[u]
    BY <1>0, <1>2, Zenon DEF Acquire, TypeOK
  <2>5. UNCHANGED <<epoch, tok, etok, orders>>
    BY <1>2, Zenon DEF Acquire, runVars
  <2>6. /\ \A u \in Threads : held[u] \in Stamp /\ HostOf[u] \in Workers
        /\ \A p \in Workers : tok[p] \in Stamp /\ etok[p] \in Stamp
    BY <1>0, ThreadsAssumption, Zenon DEF TypeOK
  <2>7. \A i \in OrderIds : /\ orders[i].stamp \in Stamp
                            /\ orders[i].owner \in Workers \cup {NoOwner}
    BY <1>0, Zenon DEF TypeOK, Order
  <2>8. \A u \in Threads : Good(held'[u], HostOf[u], lease', epoch')
    BY <1>0, <2>1, <2>3, <2>4, <2>6, Zenon DEF StampsGood
  <2> QED BY <1>0, <2>1, <2>5, <2>6, <2>7, <2>8, Zenon DEF StampsGood
<1>3. CASE Purge
  <2>1. epoch' = epoch + 1 /\ UNCHANGED <<held, tok, etok, orders>>
    BY <1>3, Zenon DEF Purge, hostVars
  <2>2. \A st \in Stamp : \A w : st.epoch <= epoch => Good(st, w, lease', epoch')
    BY <1>0, <2>1 DEF Good, Fenced, Stamp, TypeOK
  <2>3. /\ \A t \in Threads : held[t] \in Stamp
        /\ \A o \in Workers : tok[o] \in Stamp /\ etok[o] \in Stamp
    BY <1>0, Zenon DEF TypeOK
  <2>4. \A i \in OrderIds : orders[i].stamp \in Stamp
    BY <1>0, Zenon DEF TypeOK, Order
  <2>5. /\ \A t \in Threads : held[t].epoch <= epoch
        /\ \A o \in Workers : tok[o].epoch <= epoch /\ etok[o].epoch <= epoch
        /\ \A i \in OrderIds : orders[i].stamp.epoch <= epoch
    BY <1>0, Zenon DEF StampsGood, Good
  <2> QED BY <2>1, <2>2, <2>3, <2>4, <2>5, Zenon DEF StampsGood
<1> QED BY <1>1, <1>2, <1>3, Zenon

(* Every step keeps the row coherent.                                      *)
LEMMA RowStep == FenceInv /\ Next => RowCoherent'
<1> SUFFICES ASSUME FenceInv, Next PROVE RowCoherent'
  OBVIOUS
<1> USE DEF FenceInv
<1>0. ASSUME UNCHANGED <<lease, now>> PROVE RowCoherent'
  BY <1>0, Zenon DEF RowCoherent
<1>1. ASSUME NEW t \in Threads, ControlStep(t) PROVE RowCoherent'
  <2>1. HostOf[t] \in Owners
    BY ValueTypes, Zenon
  <2> QED BY <1>0, <1>1, <2>1, RowKept, Zenon
          DEF ControlStep, Acquire, Watch, Start, StartFailed, RequestStop, EnterRelease,
              Forget, Release, ClearToken
<1>r. ASSUME NEW o \in Workers, Restart(o) PROVE RowCoherent'
  BY <1>0, <1>r, Zenon DEF Restart
<1>2. ASSUME NEW o \in Workers, RuntimeStep(o) PROVE RowCoherent'
  BY <1>0, <1>2, Zenon
  DEF RuntimeStep, BeginPass, EndPass, StampSignal, GuardSignal, AssertFence,
      RuntimeExit, EnqueueOrder
<1>3. ASSUME NEW o \in Workers, HeartbeatStep(o) PROVE RowCoherent'
  BY <1>0, <1>3, RowKept, Zenon
  DEF HeartbeatStep, HbBegin, HbUpdate, HbError, HbApply, HbLoss
<1>4. ASSUME NEW i \in OrderIds, ClaimOrder(i) PROVE RowCoherent'
  BY <1>0, <1>4, Zenon DEF ClaimOrder
<1>5. ASSUME NEW p \in Peers, PeerAcquire(p) \/ PeerRenew(p) \/ PeerRelease(p)
      PROVE RowCoherent'
  BY <1>5, RowKept, Zenon DEF PeerAcquire, PeerRenew, PeerRelease
<1>6. CASE Revoke
  BY <1>6 DEF Revoke, RevokedLease, RowCoherent, TypeOK, Lease
<1>7. CASE Purge
  BY <1>7, Zenon DEF Purge, NoLease, RowCoherent
<1>8. CASE Tick
  BY <1>8 DEF Tick, RowCoherent, TypeOK, Lease
<1> QED BY <1>1, <1>r, <1>2, <1>3, <1>4, <1>5, <1>6, <1>7, <1>8, Zenon DEF Next

LEMMA FenceStep == FenceInv /\ [Next]_vars => FenceInv'
<1> SUFFICES ASSUME FenceInv, [Next]_vars PROVE FenceInv'
  OBVIOUS
<1>1. CASE Next
  BY <1>1, TypeStep, StampStep, RowStep, Zenon DEF FenceInv
<1>2. CASE UNCHANGED vars
  BY <1>2, TypeStep, Zenon
  DEF FenceInv, vars, StampsGood, RowCoherent
<1> QED BY <1>1, <1>2, Zenon

LEMMA FenceInvariant == Spec => []FenceInv
  BY InitFence, FenceStep, PTL DEF Spec

(* Within one lifetime of the row, the row's token is stamped by nobody    *)
(* but the row's owner.                                                    *)
THEOREM TokensFenced == Spec => []TokenNamesOwner
<1>1. FenceInv => TokenNamesOwner
  BY Zenon DEF FenceInv, StampsGood, Good, TokenNamesOwner
<1> QED BY <1>1, FenceInvariant, PTL

(* Within one lifetime of the row, claim_pending_order never claims an     *)
(* order for a worker that does not hold the live lease.                   *)
THEOREM NoStaleClaim == Spec => StaleOrderNotClaimed
<1> DEFINE Claimed(i) ==
      /\ orders[i].status = "pending" /\ orders'[i].status = "processing"
      /\ orders[i].stamp.n > 0 /\ orders[i].stamp.epoch = epoch
<1>1. FenceInv /\ [Next]_vars =>
         [\A i \in OrderIds :
             Claimed(i) => lease.owner = orders[i].owner /\ lease.expires >= now]_vars
  <2> SUFFICES ASSUME FenceInv, Next, NEW i \in OrderIds, Claimed(i)
               PROVE  lease.owner = orders[i].owner /\ lease.expires >= now
    OBVIOUS
  <2>1. ClaimOrder(i)
    <3>1. orders'[i] # orders[i]
      OBVIOUS
    <3>2. ASSUME NEW j \in OrderIds, NEW o \in Workers, EnqueueOrder(o, j) PROVE FALSE
      BY <3>2, Zenon DEF EnqueueOrder, FenceInv, TypeOK
    <3>4. ASSUME NEW j \in OrderIds, ClaimOrder(j) PROVE j = i
      BY <3>1, <3>4, Zenon DEF ClaimOrder, FenceInv, TypeOK
    <3>3. ASSUME NEW t \in Threads, ControlStep(t) PROVE FALSE
      BY <3>1, <3>3, Zenon
      DEF ControlStep, Acquire, Watch, Start, StartFailed, RequestStop, EnterRelease,
          Forget, Release, ClearToken, runVars
    <3>5. ASSUME NEW o \in Workers, HeartbeatStep(o) \/ Restart(o) PROVE FALSE
      BY <3>1, <3>5, Zenon
      DEF HeartbeatStep, HbBegin, HbUpdate, HbError, HbApply, HbLoss, Restart
    <3>6. ASSUME NEW o \in Workers, RuntimeStep(o) PROVE FALSE
      BY <3>1, <3>2, <3>6, Zenon
      DEF RuntimeStep, BeginPass, EndPass, StampSignal, GuardSignal, AssertFence,
          RuntimeExit
    <3>7. ~(Revoke \/ Purge \/ Tick)
      BY <3>1, Zenon DEF Revoke, Purge, Tick
    <3>8. ASSUME NEW p \in Peers, PeerAcquire(p) \/ PeerRenew(p) \/ PeerRelease(p)
          PROVE FALSE
      BY <3>1, <3>8, Zenon DEF PeerAcquire, PeerRenew, PeerRelease
    <3> QED BY <3>3, <3>4, <3>5, <3>6, <3>7, <3>8, Zenon DEF Next
  <2>2. FenceCurrent(orders[i].stamp.n)
    BY <2>1 DEF ClaimOrder, ClaimedOrder, NoOrder, FenceInv, TypeOK
  <2>3. lease.owner \in {orders[i].owner, NoOwner}
    BY <2>2, Zenon DEF FenceCurrent, FenceInv, StampsGood, Good, Fenced
  <2>4. lease.owner # NoOwner
    BY <2>2 DEF FenceCurrent, FenceInv, RowCoherent, TypeOK, Lease
  <2> QED BY <2>2, <2>3, <2>4, Zenon DEF FenceCurrent
<1> QED BY <1>1, FenceInvariant, PTL DEF Spec, StaleOrderNotClaimed

-----------------------------------------------------------------------------
(* What a control thread knows between Acquire and Start: it is alone      *)
(* there, by the evaluator's lock or as the only thread of a trading       *)
(* worker, and nobody is inside a release unless the runtime is `crossed'. *)
(* A release that meets a runtime not so acquired has dropped its watch.   *)
Setting == {"acquired", "watched"}

Seated(t) ==
    LET o == HostOf[t] IN
    /\ ctl[t] \in Setting => run[o] = "none"
    /\ ctl[t] \in Setting /\ role[o] = "evaluator" => lock[o] = t
    /\ ctl[t] # "idle" /\ role[o] = "trader" =>
          \A u \in Threads : HostOf[u] = o /\ u # t => ctl[u] = "idle"
    /\ ctl[t] = "acquired" => held[t].n > 0
    /\ ctl[t] \in Setting /\ ~crossed[o] =>
          \A u \in Threads : HostOf[u] = o => ctl[u] \notin Releasing
    /\ ctl[t] = "watched" /\ ~crossed[o] => tok[o].n > 0
    /\ ctl[t] \in {"releasing", "clearing"} /\ run[o] # "none" /\ ~crossed[o] =>
          deadline[o] = 0

(* A signal carries a token, because a runtime that outlives the token of  *)
(* its worker has outlived the watch as well: the guard drops what it      *)
(* stamps then.                                                            *)
Signed(o) ==
    /\ hb[o].same => deadline[o] # 0
    /\ ~crossed[o] =>
          /\ run[o] # "none" => tok[o].n > 0 \/ deadline[o] = 0
          /\ run[o] = "stamped" => etok[o].n > 0 \/ deadline[o] = 0
          /\ run[o] \in {"guarded", "fenced"} => etok[o].n > 0

SInv == (\A t \in Threads : Seated(t)) /\ (\A o \in Workers : Signed(o))

LEMMA SignedInit == Init => SInv
<1> SUFFICES ASSUME Init PROVE SInv
  OBVIOUS
<1>1. \A t \in Threads : ctl[t] = "idle"
  BY Zenon DEF Init
<1>2. \A o \in Workers : run[o] = "none" /\ ~hb[o].same
  BY Zenon DEF Init, IdleHb
<1>3. \A t \in Threads : Seated(t)
  BY <1>1, Zenon DEF Seated, Setting
<1>4. \A o \in Workers : Signed(o)
  BY <1>2, Zenon DEF Signed
<1> QED BY <1>3, <1>4, Zenon DEF SInv

(* Nothing a thread relies on has changed.                                 *)
LEMMA SeatedKept ==
  ASSUME NEW s \in Threads, Seated(s),
         \A u \in Threads : HostOf[u] = HostOf[s] => ctl'[u] = ctl[u],
         held'[s] = held[s], role'[HostOf[s]] = role[HostOf[s]],
         run[HostOf[s]] = "none" => run'[HostOf[s]] = "none",
         lock'[HostOf[s]] = lock[HostOf[s]],
         crossed'[HostOf[s]] = crossed[HostOf[s]], tok'[HostOf[s]] = tok[HostOf[s]],
         deadline[HostOf[s]] = 0 => deadline'[HostOf[s]] = 0
  PROVE  Seated(s)'
  BY Zenon DEF Seated

LEMMA SignedKept ==
  ASSUME NEW p \in Workers, Signed(p),
         crossed'[p] = crossed[p], run'[p] = run[p], tok'[p] = tok[p],
         etok'[p] = etok[p], deadline'[p] = deadline[p],
         hb'[p] = hb[p] \/ ~hb'[p].same
  PROVE  Signed(p)'
  BY Zenon DEF Signed

(* Two threads of a worker are never both between Acquire and Start, and   *)
(* while one is there nobody else begins or ends a release that changes it.*)
LEMMA Alone ==
  ASSUME TypeOK, SInv, NEW s \in Threads, ctl[s] \in Setting,
         NEW t \in Threads, HostOf[t] = HostOf[s], t # s
  PROVE  /\ ctl[t] \notin Setting
         /\ lock[HostOf[s]] # NoThread \/ ~Begins(t)
         /\ role[HostOf[s]] = "evaluator" => lock[HostOf[s]] = s
         /\ role[HostOf[s]] # "evaluator" => ctl[t] = "idle" /\ ~Begins(t)
<1>1. Seated(s) /\ Seated(t) /\ HostOf[s] \in Workers /\ s # NoThread
  BY ThreadsAssumption, Zenon DEF SInv
<1>2. role[HostOf[s]] \in {"evaluator", "trader"}
  BY <1>1, Zenon DEF TypeOK
<1>3. ctl[s] # "idle"
  BY Zenon DEF Setting
<1> QED BY <1>1, <1>2, <1>3, Zenon DEF Seated, Setting, Begins

LEMMA SeatedStep ==
  ASSUME FenceInv, SInv, NEW t \in Threads, ControlStep(t), NEW s \in Threads
  PROVE  Seated(s)'
<1>0. /\ TypeOK
      /\ Seated(s) /\ Seated(t)
      /\ HostOf[t] \in Workers /\ HostOf[s] \in Workers
      /\ s # NoThread /\ t # NoThread
  BY ThreadsAssumption, Zenon DEF FenceInv, SInv
<1>t. /\ role \in [Workers -> {"evaluator", "trader"}]
      /\ ctl \in [Threads -> CtlStates]
      /\ held \in [Threads -> Stamp]
      /\ lock \in [Workers -> Threads \cup {NoThread}]
      /\ owned \in [Workers -> BOOLEAN]
      /\ tok \in [Workers -> Stamp]
      /\ deadline \in [Workers -> Nat]
      /\ run \in [Workers -> RunStates]
      /\ crossed \in [Workers -> BOOLEAN]
  BY <1>0, Zenon DEF TypeOK
<1>1. CASE HostOf[s] # HostOf[t]
  <2>1. /\ \A u \in Threads : HostOf[u] = HostOf[s] => ctl'[u] = ctl[u]
        /\ held'[s] = held[s]
        /\ role' = role
    BY <1>0, <1>t, <1>1, Zenon
    DEF ControlStep, At, Acquire, Watch, Start, StartFailed, RequestStop, EnterRelease, Forget,
        Release, ClearToken, ctlVars
  <2>2. /\ run'[HostOf[s]] = run[HostOf[s]]
        /\ lock'[HostOf[s]] = lock[HostOf[s]]
        /\ crossed'[HostOf[s]] = crossed[HostOf[s]]
        /\ tok'[HostOf[s]] = tok[HostOf[s]]
        /\ deadline'[HostOf[s]] = deadline[HostOf[s]]
    BY <1>0, <1>t, <1>1, Zenon
    DEF ControlStep, At, Acquire, Watch, Start, StartFailed, RequestStop, EnterRelease, Forget,
        Release, ClearToken, ctlVars, runVars
  <2> QED BY <1>0, <2>1, <2>2, SeatedKept, Zenon
<1>2. CASE HostOf[s] = HostOf[t]
  <2> DEFINE o == HostOf[t]
  <2>a. ctl[s] \in Setting /\ t # s =>
          /\ ctl[t] \notin Setting
          /\ lock[o] # NoThread \/ ~Begins(t)
          /\ role[o] = "evaluator" => lock[o] = s
          /\ role[o] # "evaluator" => ctl[t] = "idle" /\ ~Begins(t)
    BY <1>0, <1>2, Alone, Zenon
  <2>b. ctl[t] \in Setting /\ t # s =>
          /\ ctl[s] \notin Setting
          /\ role[o] # "evaluator" => ctl[s] = "idle"
    BY <1>0, <1>2, Alone, Zenon
  <2>c. \A u \in Threads \ {t} : At(t, "idle") => ctl'[u] = ctl[u]
    BY <1>t, Zenon DEF At
  <2>i. "idle" \notin Setting /\ "idle" \notin Releasing /\ "acquired" \notin Releasing
        /\ "watched" \notin Releasing /\ "forgetting" \notin Setting
        /\ "releasing" \notin Setting /\ "clearing" \notin Setting
        /\ "acquired" \in Setting /\ "watched" \in Setting /\ "releasing" \in Releasing
        /\ "clearing" \in Releasing /\ "forgetting" \in Releasing
    BY Zenon DEF Setting, Releasing
  <2>r. role[o] = "evaluator" \/ role[o] = "trader"
    BY <1>0, <1>t, Zenon
  <2> USE <1>0, <1>t, <1>2
  <2>1. CASE Acquire(t)
    <3>1. AcquiredToken(o) > 0
      <4>1. lease.token \in Nat /\ (lease.present => lease.token > 0)
        BY Zenon DEF FenceInv, RowCoherent, TypeOK, Lease
      <4> QED BY <4>1 DEF AcquiredToken
    <3>2. CASE s = t
      <4>1. /\ ctl'[t] = "acquired" /\ \A u \in Threads : u # t => ctl'[u] = ctl[u]
            /\ held'[t].n > 0 /\ run'[o] = "none" /\ role' = role
        BY <2>1, <3>1, Zenon DEF Acquire, At, runVars
      <4>2. role[o] = "evaluator" => lock'[o] = t
        BY <2>1, Zenon DEF Acquire
      <4>3. role[o] = "trader" => \A u \in Threads : HostOf[u] = o => ctl[u] = "idle"
        BY <2>1, Zenon DEF Acquire, Begins
      <4>4. ~crossed'[o] => \A u \in Threads : HostOf[u] = o => ctl'[u] \notin Releasing
        BY <2>1, <2>i, <4>1, Zenon DEF Acquire
      <4> QED BY <2>i, <3>2, <4>1, <4>2, <4>3, <4>4, Zenon DEF Seated
    <3>3. CASE s # t
      BY <2>1, <2>a, <2>i, <2>r, <3>3, Zenon DEF Acquire, At, Seated, Begins
    <3> QED BY <3>2, <3>3, Zenon
  <2>2. CASE Watch(t)
    <3>2. CASE s = t
      BY <2>2, <2>i, <2>r, <3>2, Zenon DEF Watch, At, Seated
    <3>3. CASE s # t
      BY <2>2, <2>b, <2>i, <2>r, <3>3, Zenon DEF Watch, At, Seated
    <3> QED BY <3>2, <3>3, Zenon
  <2>3. CASE Start(t)
    <3>2. CASE s = t
      BY <2>3, <2>i, <3>2, Zenon DEF Start, At, Seated
    <3>3. CASE s # t
      BY <2>3, <2>b, <2>i, <2>r, <3>3, Zenon DEF Start, At, Seated
    <3> QED BY <3>2, <3>3, Zenon
  <2>4. CASE StartFailed(t)
    <3>2. CASE s = t
      BY <2>4, <2>i, <3>2, Zenon DEF StartFailed, At, Seated, runVars
    <3>3. CASE s # t
      BY <2>4, <2>b, <2>i, <2>r, <3>3, Zenon DEF StartFailed, At, Seated, runVars
    <3> QED BY <3>2, <3>3, Zenon
  <2>5. CASE RequestStop(t)
    BY <2>5, SeatedKept, Zenon DEF RequestStop, ctlVars, runVars
  <2>6. CASE EnterRelease(t)
    <3>2. CASE s = t
      BY <2>6, <2>i, <2>r, <3>2, Zenon DEF EnterRelease, At, Seated, Begins, runVars
    <3>3. CASE s # t
      BY <2>6, <2>a, <2>i, <2>r, <3>3, Zenon DEF EnterRelease, At, Seated, Begins, runVars
    <3> QED BY <3>2, <3>3, Zenon
  <2>7. CASE Forget(t)
    <3>2. CASE s = t
      BY <2>7, <2>i, <3>2, Zenon DEF Forget, At, Seated
    <3>3. CASE s # t
      BY <2>7, <2>a, <2>i, <3>3, Zenon DEF Forget, At, Seated
    <3> QED BY <3>2, <3>3, Zenon
  <2>8. CASE Release(t)
    <3>2. CASE s = t
      BY <2>8, <2>i, <3>2, Zenon DEF Release, At, Seated, runVars
    <3>3. CASE s # t
      BY <2>8, <2>a, <2>i, <3>3, Zenon DEF Release, At, Seated, runVars
    <3> QED BY <3>2, <3>3, Zenon
  <2>9. CASE ClearToken(t)
    <3>2. CASE s = t
      BY <2>9, <2>i, <3>2, Zenon DEF ClearToken, At, Seated, runVars
    <3>3. CASE s # t
      BY <2>9, <2>a, <2>i, <2>r, <3>3, Zenon DEF ClearToken, At, Seated, runVars
    <3> QED BY <3>2, <3>3, Zenon
  <2> QED BY <2>1, <2>2, <2>3, <2>4, <2>5, <2>6, <2>7, <2>8, <2>9, Zenon DEF ControlStep
<1> QED BY <1>1, <1>2, Zenon

LEMMA SignedStep ==
  ASSUME FenceInv, SInv, NEW t \in Threads, ControlStep(t), NEW p \in Workers
  PROVE  Signed(p)'
<1>0. TypeOK /\ Signed(p) /\ Seated(t) /\ HostOf[t] \in Workers
  BY ThreadsAssumption, Zenon DEF FenceInv, SInv
<1>t. /\ tok \in [Workers -> Stamp]
      /\ deadline \in [Workers -> Nat]
      /\ run \in [Workers -> RunStates]
      /\ crossed \in [Workers -> BOOLEAN]
      /\ hb \in [Workers -> Heartbeat]
  BY <1>0, Zenon DEF TypeOK
<1> USE <1>0, <1>t
<1>1. CASE Acquire(t) BY <1>1, Zenon DEF Acquire, Signed, runVars
<1>2. CASE Watch(t)
  <2>1. CASE p = HostOf[t]
    <3>1. run[p] = "none" /\ ~hb'[p].same /\ run' = run
      BY <1>2, <2>1, Zenon DEF Watch, Seated, Setting, Overtaken
    <3> QED BY <3>1, Zenon DEF Signed
  <2>2. CASE p # HostOf[t]
    BY <1>2, <2>2, SignedKept, Zenon DEF Watch
  <2> QED BY <2>1, <2>2, Zenon
<1>3. CASE Start(t)
  <2>1. CASE p = HostOf[t]
    BY <1>3, <2>1, Zenon DEF Start, Seated, Setting, Signed
  <2>2. CASE p # HostOf[t]
    BY <1>3, <2>2, SignedKept, Zenon DEF Start
  <2> QED BY <2>1, <2>2, Zenon
<1>4. CASE StartFailed(t) BY <1>4, SignedKept, Zenon DEF StartFailed, runVars
<1>5. CASE RequestStop(t) BY <1>5, SignedKept, Zenon DEF RequestStop, ctlVars, runVars
<1>6. CASE EnterRelease(t) BY <1>6, SignedKept, Zenon DEF EnterRelease, runVars
<1>7. CASE Forget(t)
  <2>1. CASE p = HostOf[t]
    <3>1. deadline'[p] = 0 /\ ~hb'[p].same /\ UNCHANGED <<run, etok, crossed>>
      BY <1>7, <2>1, Zenon DEF Forget, Overtaken
    <3> QED BY <3>1, Zenon DEF Signed
  <2>2. CASE p # HostOf[t]
    BY <1>7, <2>2, SignedKept, Zenon DEF Forget
  <2> QED BY <2>1, <2>2, Zenon
<1>8. CASE Release(t) BY <1>8, SignedKept, Zenon DEF Release, runVars
<1>9. CASE ClearToken(t)
  <2>1. CASE p = HostOf[t]
    BY <1>9, <2>1, Zenon DEF ClearToken, Seated, Signed, runVars
  <2>2. CASE p # HostOf[t]
    BY <1>9, <2>2, SignedKept, Zenon DEF ClearToken, runVars
  <2> QED BY <2>1, <2>2, Zenon
<1> QED BY <1>1, <1>2, <1>3, <1>4, <1>5, <1>6, <1>7, <1>8, <1>9, Zenon DEF ControlStep

LEMMA SInvStep == FenceInv /\ SInv /\ [Next]_vars => SInv'
<1> SUFFICES ASSUME FenceInv, SInv, [Next]_vars PROVE SInv'
  OBVIOUS
<1>0. /\ TypeOK
      /\ \A t \in Threads : Seated(t)
      /\ \A o \in Workers : Signed(o)
      /\ \A t \in Threads : HostOf[t] \in Workers
  BY ThreadsAssumption, Zenon DEF FenceInv, SInv
<1>t. /\ tok \in [Workers -> Stamp]
      /\ etok \in [Workers -> Stamp]
      /\ deadline \in [Workers -> Nat]
      /\ run \in [Workers -> RunStates]
      /\ crossed \in [Workers -> BOOLEAN]
      /\ hb \in [Workers -> Heartbeat]
  BY <1>0, Zenon DEF TypeOK
<1>h. ASSUME UNCHANGED hostVars PROVE SInv'
  <2>1. UNCHANGED <<role, ctl, held, lock, crossed, tok, deadline, run, etok, hb>>
    BY <1>h, Zenon DEF hostVars, ctlVars
  <2> QED BY <1>0, <2>1, SeatedKept, SignedKept, Zenon DEF SInv
<1>1. ASSUME NEW t \in Threads, ControlStep(t) PROVE SInv'
  BY <1>1, SeatedStep, SignedStep, Zenon DEF SInv
<1>2. ASSUME NEW o \in Workers, RuntimeStep(o) PROVE SInv'
  <2>v. RuntimeValid(o) => deadline[o] # 0
    <3>1. now \in Nat /\ deadline[o] \in Nat
      BY <1>0, Zenon DEF TypeOK
    <3>2. ASSUME NEW d \in Nat, NEW n \in Nat, d > n PROVE d # 0
      BY <3>2
    <3> QED BY <3>1, <3>2, Zenon DEF RuntimeValid
  <2>1. ASSUME ~RuntimeExit(o), NEW s \in Threads PROVE Seated(s)'
    <3>1. UNCHANGED <<ctl, held, role, lock, crossed, tok, deadline>>
      BY <1>2, <2>1, Zenon
      DEF RuntimeStep, BeginPass, EndPass, StampSignal, GuardSignal, AssertFence, EnqueueOrder,
          ctlVars
    <3>2. run[HostOf[s]] = "none" => run'[HostOf[s]] = "none"
      BY <1>0, <1>t, <1>2, <2>1, Zenon
      DEF RuntimeStep, BeginPass, EndPass, StampSignal, GuardSignal, AssertFence, EnqueueOrder,
          DropSignal
    <3> QED BY <1>0, <3>1, <3>2, SeatedKept, Zenon
  <2>2. ASSUME RuntimeExit(o), NEW s \in Threads PROVE Seated(s)'
    <3>1. CASE HostOf[s] # o
      BY <1>0, <1>t, <2>2, <3>1, SeatedKept, Zenon DEF RuntimeExit
    <3>2. CASE HostOf[s] = o
      <4>1. ctl[s] \notin Setting /\ run'[o] = "none"
            /\ UNCHANGED <<ctl, held, role, lock, deadline>>
        BY <1>0, <1>t, <2>2, <3>2, Zenon DEF RuntimeExit, Seated
      <4> QED BY <1>0, <3>2, <4>1, Zenon DEF Seated, Setting
    <3> QED BY <3>1, <3>2, Zenon
  <2>3. ASSUME NEW p \in Workers PROVE Signed(p)'
    <3>0. Signed(p) /\ (RuntimeValid(o) => deadline[o] # 0)
      BY <1>0, <2>v, Zenon
    <3>1. CASE BeginPass(o) BY <1>t, <3>0, <3>1, Zenon DEF BeginPass, Signed, ctlVars
    <3>2. CASE EndPass(o) BY <1>t, <3>0, <3>2, Zenon DEF EndPass, Signed, ctlVars
    <3>3. CASE StampSignal(o) BY <1>t, <3>0, <3>3, Zenon DEF StampSignal, Signed, ctlVars
    <3>4. CASE GuardSignal(o)
      BY <1>t, <3>0, <3>4, Zenon DEF GuardSignal, DropSignal, Signed, ctlVars
    <3>5. CASE AssertFence(o)
      BY <1>t, <3>0, <3>5, Zenon DEF AssertFence, DropSignal, Signed, ctlVars
    <3>6. CASE RuntimeExit(o) BY <1>t, <3>0, <3>6, Zenon DEF RuntimeExit, Signed
    <3>7. ASSUME NEW i \in OrderIds, EnqueueOrder(o, i) PROVE Signed(p)'
      BY <1>t, <3>0, <3>7, Zenon DEF EnqueueOrder, DropSignal, Signed, ctlVars
    <3> QED BY <1>2, <3>1, <3>2, <3>3, <3>4, <3>5, <3>6, <3>7, Zenon DEF RuntimeStep
  <2> QED BY <2>1, <2>2, <2>3, Zenon DEF SInv
<1>3. ASSUME NEW o \in Workers, HeartbeatStep(o) PROVE SInv'
  <2>1. UNCHANGED <<ctl, held, role, lock, crossed, tok, run, etok>>
    BY <1>3, Zenon DEF HeartbeatStep, HbBegin, HbUpdate, HbError, HbApply, HbLoss, ctlVars
  <2>2. ASSUME NEW p \in Workers
        PROVE  /\ deadline[p] = 0 => deadline'[p] = 0
               /\ hb'[p].same => deadline'[p] # 0
    <3>0. hb[p].same => deadline[p] # 0
      BY <1>0, Zenon DEF Signed
    <3>1. CASE HbBegin(o) BY <1>t, <3>0, <3>1, Zenon DEF HbBegin
    <3>2. CASE HbUpdate(o) BY <1>t, <3>0, <3>2, Zenon DEF HbUpdate, Answered
    <3>3. CASE HbError(o) BY <1>t, <3>0, <3>3, Zenon DEF HbError, Answered
    <3>4. CASE HbApply(o) BY <1>t, <3>0, <3>4, Zenon DEF HbApply, IdleHb, LostHb
    <3>5. CASE HbLoss(o) BY <1>t, <3>0, <3>5, Zenon DEF HbLoss, IdleHb
    <3> QED BY <1>3, <3>1, <3>2, <3>3, <3>4, <3>5, Zenon DEF HeartbeatStep
  <2>3. \A s \in Threads : Seated(s)'
    BY <1>0, <2>1, <2>2, SeatedKept, Zenon
  <2>4. \A p \in Workers : Signed(p)'
    BY <1>0, <2>1, <2>2, Zenon DEF Signed
  <2> QED BY <2>3, <2>4, Zenon DEF SInv
<1>r. ASSUME NEW o \in Workers, Restart(o) PROVE SInv'
  <2>1. ASSUME NEW s \in Threads PROVE Seated(s)'
    <3>0. s \in Threads /\ HostOf[s] \in Workers /\ Seated(s)
      BY <1>0, Zenon
    <3>1. CASE HostOf[s] # o
      <4>1. /\ \A u \in Threads : HostOf[u] = HostOf[s] => ctl'[u] = ctl[u]
            /\ held'[s] = held[s] /\ role' = role
        BY <1>r, <3>1, Zenon DEF Restart
      <4>2. /\ run'[HostOf[s]] = run[HostOf[s]]
            /\ lock'[HostOf[s]] = lock[HostOf[s]]
            /\ crossed'[HostOf[s]] = crossed[HostOf[s]]
            /\ tok'[HostOf[s]] = tok[HostOf[s]]
            /\ deadline'[HostOf[s]] = deadline[HostOf[s]]
        BY <1>0, <1>r, <1>t, <3>0, <3>1, Zenon DEF Restart, TypeOK
      <4> QED BY <3>0, <4>1, <4>2, SeatedKept, Zenon
    <3>2. CASE HostOf[s] = o
      <4>1. ctl'[s] = "idle"
        BY <1>r, <3>2, Zenon DEF Restart
      <4> QED BY <4>1, Zenon DEF Seated, Setting
    <3> QED BY <3>1, <3>2, Zenon
  <2>2. ASSUME NEW p \in Workers PROVE Signed(p)'
    BY <1>0, <1>t, <1>r, Zenon DEF Restart, Signed, IdleHb
  <2> QED BY <2>1, <2>2, Zenon DEF SInv
<1>4. ASSUME NEW i \in OrderIds, ClaimOrder(i) PROVE SInv'
  BY <1>4, <1>h, Zenon DEF ClaimOrder
<1>5. ASSUME NEW p \in Peers, PeerAcquire(p) \/ PeerRenew(p) \/ PeerRelease(p)
      PROVE SInv'
  BY <1>5, <1>h, Zenon DEF PeerAcquire, PeerRenew, PeerRelease
<1>6. CASE Revoke \/ Purge \/ Tick
  BY <1>6, <1>h, Zenon DEF Revoke, Purge, Tick
<1>7. CASE UNCHANGED vars
  BY <1>7, <1>h, Zenon DEF vars, hostVars
<1> QED BY <1>1, <1>2, <1>3, <1>r, <1>4, <1>5, <1>6, <1>7, Zenon DEF Next

(* An order row changes to one of a worker in EnqueueOrder alone.          *)
LEMMA OrderOrigin ==
  ASSUME TypeOK, [Next]_vars, NEW i \in OrderIds, NEW o \in Workers,
         orders'[i] # orders[i], orders'[i].owner = o
  PROVE  run[o] = "fenced" /\ orders'[i].stamp = etok[o]
<1>0. orders \in [OrderIds -> Order] /\ NoOwner # o
  BY OwnersAssumption, Zenon DEF TypeOK
<1>1. orders' # orders
  OBVIOUS
<1>2. ASSUME NEW j \in OrderIds, NEW p \in Workers, EnqueueOrder(p, j)
      PROVE  run[o] = "fenced" /\ orders'[i].stamp = etok[o]
  <2>1. /\ run[p] = "fenced"
        /\ orders' = [orders EXCEPT ![j] =
                        [status |-> "pending", stamp |-> etok[p], owner |-> p]]
    BY <1>2, Zenon DEF EnqueueOrder
  <2>2. i = j
    BY <1>0, <2>1, Zenon
  <2>3. orders'[i] = [status |-> "pending", stamp |-> etok[p], owner |-> p]
    BY <1>0, <2>1, <2>2, Zenon
  <2>4. p = o /\ orders'[i].stamp = etok[p]
    BY <2>3
  <2> QED BY <2>1, <2>4, Zenon
<1>3. ASSUME NEW j \in OrderIds, ClaimOrder(j) PROVE FALSE
  <2>1. orders'[i] \in {orders[i], ClaimedOrder, NoOrder}
    BY <1>0, <1>3, Zenon DEF ClaimOrder
  <2> QED BY <1>0, <2>1 DEF ClaimedOrder, NoOrder
<1>4. ASSUME NEW t \in Threads, ControlStep(t) PROVE FALSE
  BY <1>1, <1>4, Zenon
  DEF ControlStep, Acquire, Watch, Start, StartFailed, RequestStop, EnterRelease, Forget,
      Release, ClearToken, runVars
<1>5. ASSUME NEW p \in Workers, HeartbeatStep(p) \/ Restart(p) PROVE FALSE
  BY <1>1, <1>5, Zenon
  DEF HeartbeatStep, HbBegin, HbUpdate, HbError, HbApply, HbLoss, Restart
<1>6. ASSUME NEW p \in Workers, RuntimeStep(p)
      PROVE  run[o] = "fenced" /\ orders'[i].stamp = etok[o]
  BY <1>1, <1>2, <1>6, Zenon
  DEF RuntimeStep, BeginPass, EndPass, StampSignal, GuardSignal, AssertFence, RuntimeExit
<1>7. ASSUME NEW p \in Peers, PeerAcquire(p) \/ PeerRenew(p) \/ PeerRelease(p) PROVE FALSE
  BY <1>1, <1>7, Zenon DEF PeerAcquire, PeerRenew, PeerRelease
<1>8. ~(Revoke \/ Purge \/ Tick \/ UNCHANGED vars)
  BY <1>1, Zenon DEF Revoke, Purge, Tick, vars
<1> QED BY <1>3, <1>4, <1>5, <1>6, <1>7, <1>8, Zenon DEF Next

(* No order of a runtime is queued without a token, whatever is stopped,   *)
(* lost or released while the signal is on its way, for any number of      *)
(* control threads: only a runtime that was acquired while another thread  *)
(* of its worker was inside a release can queue one.                       *)
THEOREM OrdersSigned == Spec => RuntimeOrdersFenced
<1>1. ASSUME FenceInv, SInv, [Next]_vars, NEW i \in OrderIds, NEW o \in Workers,
             orders'[i] # orders[i], orders'[i].owner = o
      PROVE  orders'[i].stamp.n > 0 \/ crossed[o]
  <2>1. TypeOK /\ Signed(o)
    BY <1>1, Zenon DEF FenceInv, SInv
  <2>2. run[o] = "fenced" /\ orders'[i].stamp = etok[o]
    BY <1>1, <2>1, OrderOrigin, Zenon
  <2> QED BY <2>1, <2>2, Zenon DEF Signed
<1>2. FenceInv /\ SInv /\ [Next]_vars =>
        [\A i \in OrderIds : \A o \in Workers :
           (orders'[i] # orders[i] /\ orders'[i].owner = o)
           => orders'[i].stamp.n > 0 \/ crossed[o]]_vars
  BY <1>1, Zenon
<1> QED BY <1>2, FenceInvariant, SignedInit, SInvStep, PTL
        DEF Spec, RuntimeOrdersFenced

-----------------------------------------------------------------------------
(* A deadline that a renewal wrote ends no later than the row it renewed,  *)
(* and neither does the one an answer still on its way will write: both    *)
(* count from before the statement, the row from within it.                *)
InTime(o) ==
    /\ deadline[o] <= now + LeaseSeconds
    /\ hb[o].started <= now
    /\ lease.owner = o =>
          /\ ~granted[o] /\ deadline[o] # 0 => deadline[o] <= lease.expires
          /\ hb[o].state = "answered" /\ hb[o].result = "renewed" =>
                hb[o].started + LeaseSeconds <= lease.expires

DInv == \A o \in Workers : InTime(o)

LEMMA InTimeInit == Init => DInv
  BY TimeAssumption DEF Init, DInv, InTime, IdleHb

(* Whoever writes the row writes the longest term there is.                *)
LEMMA InTimeRow ==
  ASSUME TypeOK, NEW o \in Workers, InTime(o), UNCHANGED <<now, deadline, granted, hb>>,
         \/ lease' = lease
         \/ lease'.owner # o
         \/ lease'.expires = now + LeaseSeconds
  PROVE  InTime(o)'
<1>1. /\ now \in Nat /\ deadline[o] \in Nat /\ hb[o].started \in Nat
      /\ LeaseSeconds \in Nat
  BY TimeAssumption, Zenon DEF TypeOK, Heartbeat
<1> QED BY <1>1 DEF InTime

(* The same with the deadline given up, or freshly granted.                *)
LEMMA InTimeHost ==
  ASSUME TypeOK, NEW o \in Workers, InTime(o), UNCHANGED <<now, lease>>,
         \/ deadline'[o] = deadline[o] /\ granted'[o] = granted[o]
         \/ deadline'[o] = 0
         \/ deadline'[o] = now + LeaseSeconds /\ granted'[o],
         hb'[o] \in {hb[o], IdleHb, Overtaken(o)}
  PROVE  InTime(o)'
<1>1. /\ now \in Nat /\ deadline[o] \in Nat /\ hb[o].started \in Nat
      /\ LeaseSeconds \in Nat
  BY TimeAssumption, Zenon DEF TypeOK, Heartbeat
<1>2. deadline'[o] <= now' + LeaseSeconds
  <2>1. deadline[o] <= now + LeaseSeconds /\ now' = now
    BY Zenon DEF InTime
  <2>2. CASE deadline'[o] = deadline[o]
    BY <2>1, <2>2, Zenon
  <2>3. CASE deadline'[o] = 0
    <3>1. 0 <= now + LeaseSeconds
      BY <1>1
    <3> QED BY <2>1, <2>3, <3>1, Zenon
  <2>4. CASE deadline'[o] = now + LeaseSeconds
    <3>1. now + LeaseSeconds <= now + LeaseSeconds
      BY <1>1
    <3> QED BY <2>1, <2>4, <3>1, Zenon
  <2> QED BY <2>2, <2>3, <2>4, Zenon
<1>3. hb'[o].started <= now'
  BY <1>1 DEF InTime, IdleHb, Overtaken
<1>4. ASSUME lease'.owner = o, ~granted'[o], deadline'[o] # 0
      PROVE  deadline'[o] <= lease'.expires
  BY <1>4, Zenon DEF InTime
<1>5. ASSUME lease'.owner = o, hb'[o].state = "answered", hb'[o].result = "renewed"
      PROVE  hb'[o].started + LeaseSeconds <= lease'.expires
  BY <1>5 DEF InTime, IdleHb, Overtaken
<1> QED BY <1>2, <1>3, <1>4, <1>5, Zenon DEF InTime

LEMMA InTimeStep == FenceInv /\ DInv /\ [Next]_vars => DInv'
<1> SUFFICES ASSUME FenceInv, [Next]_vars, NEW p \in Workers, InTime(p)
             PROVE  InTime(p)'
  BY Zenon DEF DInv
<1>0. TypeOK /\ p # NoOwner
  BY OwnersAssumption, Zenon DEF FenceInv
<1>t. /\ now \in Nat /\ deadline[p] \in Nat /\ hb[p].started \in Nat
      /\ LeaseSeconds \in Nat /\ lease.expires \in Int
  BY <1>0, TimeAssumption, Zenon DEF TypeOK, Heartbeat, Lease
<1>1. ASSUME NEW t \in Threads, ControlStep(t) PROVE InTime(p)'
  <2>1. CASE Acquire(t) BY <2>1, <1>0, InTimeRow, Zenon DEF Acquire, AcquiredLease, runVars
  <2>2. CASE Release(t) BY <2>2, <1>0, InTimeRow, Zenon DEF Release, ReleasedLease, runVars
  <2>3. CASE Watch(t) BY <2>3, <1>0, InTimeHost, Zenon DEF Watch, TypeOK
  <2>4. CASE Start(t) BY <2>4, <1>0, InTimeHost, Zenon DEF Start
  <2>5. CASE StartFailed(t) BY <2>5, <1>0, InTimeHost, Zenon DEF StartFailed, runVars
  <2>6. CASE RequestStop(t) BY <2>6, <1>0, InTimeHost, Zenon DEF RequestStop, runVars
  <2>7. CASE EnterRelease(t) BY <2>7, <1>0, InTimeHost, Zenon DEF EnterRelease, runVars
  <2>8. CASE Forget(t) BY <2>8, <1>0, InTimeHost, Zenon DEF Forget, TypeOK
  <2>9. CASE ClearToken(t) BY <2>9, <1>0, InTimeHost, Zenon DEF ClearToken, runVars
  <2> QED BY <1>1, <2>1, <2>2, <2>3, <2>4, <2>5, <2>6, <2>7, <2>8, <2>9, Zenon DEF ControlStep
<1>r. ASSUME NEW o \in Workers, Restart(o) PROVE InTime(p)'
  BY <1>r, <1>0, InTimeHost, Zenon DEF Restart, TypeOK
<1>2. ASSUME NEW o \in Workers, RuntimeStep(o) PROVE InTime(p)'
  <2>1. UNCHANGED <<now, lease, deadline, granted, hb>>
    BY <1>2, Zenon DEF RuntimeStep, BeginPass, EndPass, StampSignal, GuardSignal, AssertFence,
                RuntimeExit, EnqueueOrder
  <2> QED BY <1>0, <2>1, InTimeRow, Zenon
<1>3. ASSUME NEW o \in Workers, HeartbeatStep(o) PROVE InTime(p)'
  <2>h. hb \in [Workers -> Heartbeat] /\ deadline \in [Workers -> Nat]
        /\ granted \in [Workers -> BOOLEAN]
    BY <1>0, Zenon DEF TypeOK
  <2>1. CASE HbBegin(o) BY <2>1, <1>t, <2>h DEF HbBegin, InTime
  <2>2. CASE HbUpdate(o)
    BY <2>2, <1>t, <2>h DEF HbUpdate, Answered, CanRenew, RenewedLease, InTime
  <2>3. CASE HbError(o)
    BY <2>3, <1>t, <2>h DEF HbError, Answered, CanRenew, RenewedLease, InTime
  <2>4. CASE HbApply(o)
    <3>1. CASE p # o
      <4>1. /\ deadline'[p] = deadline[p] /\ granted'[p] = granted[p] /\ hb'[p] = hb[p]
            /\ UNCHANGED <<now, lease>>
        BY <2>4, <2>h, <3>1, Zenon DEF HbApply
      <4> QED BY <1>0, <4>1, InTimeHost, Zenon
    <3>2. CASE p = o
      <4>1. /\ hb'[p] \in {IdleHb, LostHb} /\ UNCHANGED <<now, lease>>
            /\ hb[p].state = "answered"
        BY <2>4, <2>h, <3>2, Zenon DEF HbApply
      <4>2. \/ deadline'[p] = 0
            \/ deadline'[p] = deadline[p] /\ granted'[p] = granted[p]
            \/ deadline'[p] = hb[p].started + LeaseSeconds /\ hb[p].result = "renewed"
        BY <2>4, <2>h, <3>2, Zenon DEF HbApply, RenewedDeadline
      <4> QED BY <1>t, <4>1, <4>2 DEF InTime, IdleHb, LostHb
    <3> QED BY <3>1, <3>2, Zenon
  <2>5. CASE HbLoss(o) BY <2>5, <1>0, <2>h, InTimeHost, Zenon DEF HbLoss
  <2> QED BY <1>3, <2>1, <2>2, <2>3, <2>4, <2>5, Zenon DEF HeartbeatStep
<1>4. ASSUME NEW i \in OrderIds, ClaimOrder(i) PROVE InTime(p)'
  BY <1>4, <1>0, InTimeRow, Zenon DEF ClaimOrder, hostVars
<1>5. ASSUME NEW q \in Peers, PeerAcquire(q) \/ PeerRenew(q) \/ PeerRelease(q)
      PROVE InTime(p)'
  BY <1>5, <1>0, InTimeRow
  DEF PeerAcquire, PeerRenew, PeerRelease, hostVars, AcquiredLease, RenewedLease, ReleasedLease
<1>6. CASE Revoke \/ Purge
  BY <1>6, <1>0, InTimeRow DEF Revoke, Purge, RevokedLease, NoLease, hostVars
<1>7. CASE Tick
  <2>1. now' = now + 1 /\ UNCHANGED <<lease, deadline, granted, hb>>
    BY <1>7, Zenon DEF Tick, hostVars
  <2> QED BY <1>t, <2>1 DEF InTime
<1>8. CASE UNCHANGED vars
  BY <1>8, <1>0, InTimeRow, Zenon DEF vars, hostVars
<1> QED BY <1>1, <1>r, <1>2, <1>3, <1>4, <1>5, <1>6, <1>7, <1>8, Zenon DEF Next

(* The row moves to another owner in two statements, and only when expired.*)
LEMMA Takeover ==
  ASSUME FenceInv, [Next]_vars, NEW o \in Workers,
         lease.owner = o, lease'.owner \in Owners \ {o}
  PROVE  lease.expires < now
<1>1. lease.present /\ o # NoOwner /\ NoOwner \notin Owners
  BY OwnersAssumption, Zenon DEF FenceInv, RowCoherent
<1>2. ASSUME NEW q \in Owners, CanAcquire(q), lease' = AcquiredLease(q)
      PROVE  lease.expires < now
  BY <1>1, <1>2, Zenon DEF CanAcquire, AcquiredLease
<1>3. ASSUME lease'.owner = lease.owner \/ lease'.owner = NoOwner PROVE FALSE
  BY <1>1, <1>3, Zenon
<1>4. ASSUME NEW q \in Threads, ControlStep(q) PROVE lease.expires < now
  <2>1. CASE Acquire(q)
    BY <1>2, <2>1, ValueTypes, Zenon DEF Acquire
  <2>2. CASE Release(q)
    BY <1>3, <2>2, Zenon DEF Release, ReleasedLease
  <2>3. CASE ~Acquire(q) /\ ~Release(q)
    <3>1. lease' = lease
      BY <1>4, <2>3, Zenon
      DEF ControlStep, Watch, Start, StartFailed, RequestStop, EnterRelease, Forget,
          ClearToken
    <3> QED BY <1>3, <3>1, Zenon
  <2> QED BY <2>1, <2>2, <2>3, Zenon
<1>5. ASSUME NEW q \in Workers, RuntimeStep(q) PROVE FALSE
  BY <1>3, <1>5, Zenon DEF RuntimeStep, BeginPass, EndPass, StampSignal, GuardSignal, AssertFence,
                    RuntimeExit, EnqueueOrder
<1>6. ASSUME NEW q \in Workers, HeartbeatStep(q) PROVE FALSE
  <2>1. lease' = lease \/ lease' = RenewedLease
    BY <1>6, Zenon DEF HeartbeatStep, HbBegin, HbUpdate, HbError, HbApply, HbLoss
  <2> QED BY <1>3, <2>1 DEF RenewedLease
<1>7. ASSUME NEW q \in Peers, PeerAcquire(q) \/ PeerRenew(q) \/ PeerRelease(q)
      PROVE  lease.expires < now
  BY <1>2, <1>3, <1>7 DEF PeerAcquire, PeerRenew, PeerRelease, RenewedLease, ReleasedLease
<1>8. ASSUME NEW i \in OrderIds, ClaimOrder(i) PROVE FALSE
  BY <1>3, <1>8, Zenon DEF ClaimOrder
<1>r. ASSUME NEW q \in Workers, Restart(q) PROVE FALSE
  BY <1>3, <1>r, Zenon DEF Restart
<1>9. CASE Revoke \/ Purge \/ Tick \/ UNCHANGED vars
  BY <1>3, <1>9 DEF Revoke, Purge, Tick, vars, RevokedLease, NoLease
<1> QED BY <1>4, <1>5, <1>6, <1>7, <1>8, <1>r, <1>9, Zenon DEF Next

(* A lease is taken over only after the deadline of the worker that loses  *)
(* it, once that deadline comes from a renewal.                            *)
THEOREM TakeoversWait == Spec => TakeoverAfterDeadline
<1>1. ASSUME FenceInv, DInv, [Next]_vars, NEW o \in Workers,
             lease.owner = o, lease'.owner \in Owners \ {o}, ~granted[o]
      PROVE  deadline[o] <= now
  <2>1. lease.expires < now
    BY <1>1, Takeover, Zenon
  <2>2. now \in Nat /\ deadline[o] \in Nat /\ lease.expires \in Int
    BY <1>1, Zenon DEF FenceInv, TypeOK, Lease
  <2>3. InTime(o)
    BY <1>1, Zenon DEF DInv
  <2> QED BY <1>1, <2>1, <2>2, <2>3 DEF InTime
<1>2. FenceInv /\ DInv /\ [Next]_vars =>
        [\A o \in Workers :
           (lease.owner = o /\ lease'.owner \in Owners \ {o} /\ ~granted[o])
           => deadline[o] <= now]_vars
  BY <1>1, Zenon
<1> QED BY <1>2, FenceInvariant, InTimeInit, InTimeStep, PTL DEF Spec, TakeoverAfterDeadline
=============================================================================
