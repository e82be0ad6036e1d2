---------------------------- MODULE BillingProofs ----------------------------
(***************************************************************************)
(* Every job is paid for or refunded once, and every payment that is not   *)
(* confirmed by hand is fulfilled once, for every number of orders, jobs,  *)
(* runners and faults.                                                     *)
(***************************************************************************)
EXTENDS Billing, FiniteSetTheorems, TLAPS

-----------------------------------------------------------------------------
(* The jobs.  A runner that is not idle has a job in hand.                 *)
Busy == \A r \in Runners : stage[r] # "idle" => hand[r] \in Jobs

JobInv == JobTypeOK /\ Busy /\ JobsPaidFor

LEMMA JobsInitially == Init => JobInv
<1> SUFFICES ASSUME Init PROVE JobInv
  OBVIOUS
<1> USE DEF Init, AccountInit, JobsInit, Active, Ended
<1>1. JobTypeOK
  BY Zenon DEF JobTypeOK
<1>2. Busy
  BY Zenon DEF Busy
<1>3. JobsPaidFor
  BY DEF JobsPaidFor
<1> QED
  BY <1>1, <1>2, <1>3, Zenon DEF JobInv

(* The payments touch no job and no debit or refund. *)
LEMMA PaymentsLeaveJobs ==
    ASSUME PaymentsNext
    PROVE  UNCHANGED logVars
<1> USE DEF logVars
<1>1. ASSUME NEW t \in Threads, Purchase(t) PROVE UNCHANGED logVars
  BY <1>1, Zenon DEF Purchase, BeginPurchase, Activate, TopUpRead, TopUpWrite, Abort, CommitPurchase
<1>2. ASSUME NEW t \in Reconcilers, Reconcile(t) PROVE UNCHANGED logVars
  BY <1>2, Zenon DEF Reconcile, LoadOrder, Watch, MarkPaid, MarkExpired, CheckConfirmed,
      MarkConfirmed
<1>3. ASSUME NEW o \in Orders,
             \/ WindowCloses(o) \/ Transfer(o) \/ ManualRead(o) \/ CheckoutAnswered(o)
             \/ SessionEnds(o) \/ HookExpired(o) \/ HookRead(o)
      PROVE  UNCHANGED logVars
  BY <1>3, Zenon DEF WindowCloses, Transfer, ManualRead, CheckoutAnswered, SessionEnds,
              HookExpired, HookRead
<1>4. ASSUME \/ \E o \in Orders, p \in Plans, a \in Amounts : CreateOrder(o, p, a)
             \/ \E o \in Orders, p \in Plans : CreateCheckout(o, p)
             \/ ManualStamp \/ ManualDone \/ HookMark
      PROVE  UNCHANGED logVars
  BY <1>4, Zenon DEF CreateOrder, CreateCheckout, ManualStamp, ManualDone, HookMark
<1> QED
  BY <1>1, <1>2, <1>3, <1>4, Zenon DEF PaymentsNext

(* Ending a job: whoever comes first decides, and pays back if need be. *)
LEMMA FinishKeeps ==
    ASSUME JobInv, NEW j \in Jobs, NEW outcome \in Ended, FinishJob(j, outcome)
    PROVE  /\ JobsPaidFor'
           /\ debits' \subseteq Jobs /\ refunds' \subseteq Jobs
           /\ job' \in [Jobs -> {"none"} \union Active \union Ended]
           /\ progress' \in [Jobs -> {"none", "running"} \union Ended]
           /\ sent' \subseteq Jobs /\ old' \subseteq Jobs
<1> USE DEF Active, Ended
<1>0. JobTypeOK /\ JobsPaidFor
  BY Zenon DEF JobInv
<1>1. CASE job[j] \notin Active
  BY <1>0, <1>1 DEF FinishJob, JobTypeOK, JobsPaidFor, logVars
<1>2. CASE job[j] \in Active /\ outcome = "succeeded"
  BY <1>0, <1>2 DEF FinishJob, JobTypeOK, JobsPaidFor, logVars
<1>3. CASE job[j] \in Active /\ outcome # "succeeded"
  <2>1. /\ refunds' = refunds \union {j} /\ debits' = debits
        /\ job' = [job EXCEPT ![j] = outcome]
        /\ progress' = [progress EXCEPT ![j] = outcome]
        /\ sent' = sent \ {j} /\ old' = old \ {j}
    BY <1>3, Zenon DEF FinishJob, Refund
  <2> QED
    BY <1>0, <1>3, <2>1 DEF JobTypeOK, JobsPaidFor
<1> QED
  BY <1>1, <1>2, <1>3, Zenon

LEMMA JobsStep == JobInv /\ [Next]_vars => JobInv'
<1> SUFFICES ASSUME JobInv, [Next]_vars PROVE JobInv'
  OBVIOUS
<1> USE DEF Active, Ended
<1>0. JobTypeOK /\ JobsPaidFor /\ Busy
  BY Zenon DEF JobInv
<1>1. CASE UNCHANGED <<logVars, jobVars>>
  BY <1>0, <1>1, Zenon DEF JobInv, JobTypeOK, JobsPaidFor, Busy, jobVars, logVars
<1>2. ASSUME NEW j \in Jobs, SubmitJob(j) PROVE JobInv'
  <2>1. /\ debits' = debits \union {j} /\ UNCHANGED refunds
        /\ job[j] = "none" /\ job' = [job EXCEPT ![j] = "queued"]
        /\ UNCHANGED <<progress, sent, old, hand, stage, picked>>
    BY <1>2, Zenon DEF SubmitJob, Consume
  <2> QED
    BY <1>0, <2>1 DEF JobInv, JobTypeOK, JobsPaidFor, Busy
<1>3. ASSUME NEW j \in Jobs, Dispatch(j) \/ TimeoutPasses(j) PROVE JobInv'
  BY <1>0, <1>3 DEF Dispatch, TimeoutPasses, JobInv, JobTypeOK, JobsPaidFor, Busy, logVars
<1>4. ASSUME NEW j \in Jobs, NEW outcome \in Ended, FinishJob(j, outcome),
             UNCHANGED <<hand, stage>>, picked' \subseteq picked
      PROVE  JobInv'
  <2>1. /\ JobsPaidFor'
        /\ debits' \subseteq Jobs /\ refunds' \subseteq Jobs
        /\ job' \in [Jobs -> {"none"} \union Active \union Ended]
        /\ progress' \in [Jobs -> {"none", "running"} \union Ended]
        /\ sent' \subseteq Jobs /\ old' \subseteq Jobs
    BY <1>4, FinishKeeps, Zenon
  <2> QED
    BY <1>0, <1>4, <2>1, Zenon DEF JobInv, JobTypeOK, Busy
<1>5. ASSUME NEW r \in Runners, NEW j \in Jobs, TakeJob(r, j) PROVE JobInv'
  BY <1>0, <1>5, Zenon DEF TakeJob, JobInv, JobTypeOK, JobsPaidFor, Busy, logVars
<1>6. ASSUME NEW r \in Runners, RunnerDies(r) PROVE JobInv'
  BY <1>0, <1>6, Zenon DEF RunnerDies, Drop, JobInv, JobTypeOK, JobsPaidFor, Busy, logVars
<1>7. ASSUME NEW r \in Runners, StartJob(r) PROVE JobInv'
  <2>1. hand[r] \in Jobs
    BY <1>0, <1>7, Zenon DEF StartJob, Busy
  <2>2. CASE job[hand[r]] = "queued"
    BY <1>0, <1>7, <2>1, <2>2
    DEF StartJob, JobInv, JobTypeOK, JobsPaidFor, Busy, logVars
  <2>3. CASE job[hand[r]] # "queued"
    BY <1>0, <1>7, <2>3
    DEF StartJob, Drop, JobInv, JobTypeOK, JobsPaidFor, Busy, logVars
  <2> QED
    BY <2>2, <2>3, Zenon
<1>8. ASSUME NEW r \in Runners, ReportProgress(r) PROVE JobInv'
  <2>1. hand[r] \in Jobs /\ stage[r] \in {"publish", "run"}
    BY <1>0, <1>8, Zenon DEF ReportProgress, Busy
  <2>2. UNCHANGED <<logVars, job, sent, old, picked>>
    BY <1>8, Zenon DEF ReportProgress
  <2>3. CASE Drop(r) /\ UNCHANGED progress
    BY <1>0, <2>2, <2>3, Zenon DEF Drop, JobInv, JobTypeOK, JobsPaidFor, Busy, logVars
  <2>4. CASE Publish(hand[r]) /\ stage' = [stage EXCEPT ![r] = "run"] /\ UNCHANGED hand
    <3>1. \/ progress' = progress
          \/ job[hand[r]] \in Active /\ progress' = [progress EXCEPT ![hand[r]] = "running"]
      BY <2>4, Zenon DEF Publish
    <3> QED
      BY <1>0, <2>1, <2>2, <2>4, <3>1 DEF JobInv, JobTypeOK, JobsPaidFor, Busy, logVars
  <2> QED
    BY <1>8, <2>3, <2>4, Zenon DEF ReportProgress
<1>9. ASSUME NEW r \in Runners, EndRun(r) PROVE JobInv'
  <2>1. hand[r] \in Jobs /\ Drop(r) /\ UNCHANGED picked
    BY <1>0, <1>9, Zenon DEF EndRun, Busy
  <2>2. PICK outcome \in Ended : FinishJob(hand[r], outcome)
    BY <1>9, Zenon DEF EndRun
  <2>3. /\ JobsPaidFor'
        /\ debits' \subseteq Jobs /\ refunds' \subseteq Jobs
        /\ job' \in [Jobs -> {"none"} \union Active \union Ended]
        /\ progress' \in [Jobs -> {"none", "running"} \union Ended]
        /\ sent' \subseteq Jobs /\ old' \subseteq Jobs
    BY <2>1, <2>2, FinishKeeps, Zenon
  <2> QED
    BY <1>0, <2>1, <2>3, Zenon DEF Drop, JobInv, JobTypeOK, Busy
<1>10. CASE ExpireScan
  BY <1>0, <1>10, Zenon DEF ExpireScan, JobInv, JobTypeOK, JobsPaidFor, Busy, logVars
<1>11. CASE PaymentStep
  BY <1>1, <1>11, PaymentsLeaveJobs, Zenon DEF PaymentStep
<1>12. CASE JobsNext
  BY <1>2, <1>3, <1>4, <1>5, <1>7, <1>8, <1>9, <1>10, <1>12, Zenon
  DEF JobsNext, DispatchFails, CancelJob, ExpireJob
<1>13. CASE UNCHANGED vars
  BY <1>1, <1>13, Zenon DEF vars
<1> QED
  BY <1>6, <1>11, <1>12, <1>13, Zenon DEF Next, JobStep

(* Whatever a runner, a cancellation, the expiry and a failed dispatch do  *)
(* to a job at the same time (_finish_job), it is paid for when it         *)
(* succeeds and refunded once when it does not.                            *)
THEOREM JobsArePaidFor == Spec => []JobsPaidFor
<1>1. JobInv => JobsPaidFor
  BY Zenon DEF JobInv
<1> QED
  BY <1>1, JobsInitially, JobsStep, PTL DEF Spec
-----------------------------------------------------------------------------
(* The payments.  The reference under which the order worker, the page or  *)
(* the webhook fulfils an order.                                           *)
RefOf(o) == IF Crypto(o) THEN <<"usdt_order", o>> ELSE <<"stripe_session", o>>

PayTypes ==
    /\ pc \in [Threads -> Stages]
    /\ at \in [Threads -> Orders \union {0}]
    /\ status \in [Orders -> {"none", "pending", "paid", "confirmed",
                               "expired", "failed"}]
    /\ amount \in [Orders -> Amounts \union {0}]
    /\ session \in [Orders -> {"none", "asked", "refused", "open",
                                "completed", "expired"}]
    /\ grants \in [Orders -> Nat]

(* What holds of a thread at a stage for an order: the order is of its     *)
(* kind; inside the purchase its reference is neither committed nor in the *)
(* hands of another thread; after the purchase the reference is committed. *)
Good(t, s, o, hands) ==
    s # "idle" =>
      /\ o \in Orders /\ status[o] # "none"
      /\ t \in Reconcilers => Crypto(o)
      /\ t = "hook" => ~Crypto(o)
      /\ t = "admin" => s = "stamp" \/ o \in hands
      /\ s \in Inside => /\ Ref(t, o) \notin fulfilled
                         /\ \A u \in Threads \ {t} :
                              pc[u] \in Inside => Ref(u, at[u]) # Ref(t, o)
      /\ s = "mark" => Ref(t, o) \in fulfilled

ThreadsGood == \A t \in Threads : Good(t, pc[t], at[t], byHand)

(* An id that is not in use has left no trace. *)
Unused ==
    \A o \in Orders :
      /\ session[o] # "none" => ~Crypto(o) /\ status[o] # "none"
      /\ status[o] = "none" =>
           /\ amount[o] = 0 /\ grants[o] = 0
           /\ <<"usdt_order", o>> \notin fulfilled
           /\ <<"stripe_session", o>> \notin fulfilled

(* An order is granted when its reference is committed. *)
Counted ==
    \A o \in Orders \ byHand : grants[o] = IF RefOf(o) \in fulfilled THEN 1 ELSE 0

(* An order is closed only when its reference is committed. *)
Closed ==
    \A o \in Orders \ byHand :
      status[o] = "confirmed" \/ (status[o] = "paid" /\ ~Crypto(o))
        => RefOf(o) \in fulfilled

PayInv == PayTypes /\ ThreadsGood /\ Unused /\ Counted /\ Closed

LEMMA PayInitially == Init => PayInv
<1> SUFFICES ASSUME Init PROVE PayInv
  OBVIOUS
<1> USE DEF Init, AccountInit, PaymentsInit
<1>1. PayTypes
  BY Zenon DEF PayTypes, Stages
<1>2. ThreadsGood
  BY Zenon DEF ThreadsGood, Good
<1>3. Unused /\ Closed
  BY Zenon DEF Unused, Closed, Crypto
<1>4. Counted
  BY Zenon DEF Counted, RefOf
<1> QED
  BY <1>1, <1>2, <1>3, <1>4, Zenon DEF PayInv

(* A thread moves to a stage that is good for it, while orders keep their  *)
(* kind and no purchase commits: all threads remain good.                  *)
LEMMA MoveKeeps ==
    ASSUME PayInv, NEW t \in Threads, NEW s \in Stages, NEW o \in Orders \union {0},
           pc' = [pc EXCEPT ![t] = s], at' = [at EXCEPT ![t] = o],
           \A x \in Orders : status[x] # "none" => status'[x] # "none" /\ amount'[x] = amount[x],
           byHand \subseteq byHand', fulfilled' = fulfilled,
           Good(t, s, o, byHand')
    PROVE  ThreadsGood'
<1> SUFFICES ASSUME NEW u \in Threads PROVE Good(u, pc[u], at[u], byHand)'
  BY Zenon DEF ThreadsGood
<1>1. pc \in [Threads -> Stages] /\ at \in [Threads -> Orders \union {0}]
  BY Zenon DEF PayInv, PayTypes
<1>2. Good(u, pc[u], at[u], byHand)
  BY Zenon DEF PayInv, ThreadsGood
<1>3. CASE u = t
  BY <1>1, <1>3, Zenon DEF Good, Crypto
<1>4. CASE u # t
  <2>1. pc'[u] = pc[u] /\ at'[u] = at[u] /\ pc'[t] = s /\ at'[t] = o
    BY <1>1, <1>4, Zenon
  <2>2. pc[u] # "idle" =>
          /\ at[u] \in Orders /\ status'[at[u]] # "none"
          /\ u \in Reconcilers => amount'[at[u]] # 0
          /\ u = "hook" => amount'[at[u]] = 0
          /\ u = "admin" => pc[u] = "stamp" \/ at[u] \in byHand'
          /\ pc[u] = "mark" => Ref(u, at[u]) \in fulfilled'
    BY <1>2, Zenon DEF Good, Crypto
  <2>3. ASSUME pc[u] \in Inside, NEW x \in Threads \ {u}, pc'[x] \in Inside
        PROVE  Ref(x, at'[x]) # Ref(u, at[u]) /\ Ref(u, at[u]) \notin fulfilled'
    <3>1. pc[u] # "idle"
      BY <2>3, Zenon DEF Inside
    <3>2. CASE x = t
      BY <1>2, <2>1, <2>3, <3>1, <3>2, <1>4, Zenon DEF Good, Inside
    <3>3. CASE x # t
      BY <1>1, <1>2, <2>3, <3>1, <3>3, Zenon DEF Good
    <3> QED
      BY <3>2, <3>3, Zenon
  <2>4. pc[u] \in Inside => Ref(u, at[u]) \notin fulfilled'
    BY <1>2, Zenon DEF Good, Inside
  <2> QED
    BY <2>1, <2>2, <2>3, <2>4, Zenon DEF Good, Crypto
<1> QED
  BY <1>3, <1>4, Zenon
(* A thread moves and no order changes. *)
LEMMA QuietMove ==
    ASSUME PayInv, NEW t \in Threads, NEW s \in Stages, NEW o \in Orders \union {0},
           pc' = [pc EXCEPT ![t] = s], at' = [at EXCEPT ![t] = o],
           UNCHANGED <<status, amount, session, byHand, fulfilled, grants>>,
           Good(t, s, o, byHand)
    PROVE  PayInv'
<1>1. ThreadsGood'
  BY MoveKeeps, Zenon
<1>2. PayTypes'
  BY Zenon DEF PayInv, PayTypes
<1>3. Unused' /\ Counted' /\ Closed'
  BY Zenon DEF PayInv, Unused, Counted, Closed, RefOf, Crypto
<1> QED
  BY <1>1, <1>2, <1>3, Zenon DEF PayInv

(* The status of one order in use changes, and a thread moves.  An order   *)
(* that is closed now is fulfilled, or was confirmed by hand.              *)
LEMMA StatusMove ==
    ASSUME PayInv, NEW t \in Threads, NEW s \in Stages, NEW o \in Orders \union {0},
           NEW x \in Orders,
           NEW new \in {"pending", "paid", "confirmed", "expired", "failed"},
           pc' = [pc EXCEPT ![t] = s], at' = [at EXCEPT ![t] = o],
           status[x] # "none", status' = [status EXCEPT ![x] = new],
           UNCHANGED <<amount, session, fulfilled, grants>>,
           byHand \subseteq byHand', Good(t, s, o, byHand'),
           new = "confirmed" \/ (new = "paid" /\ ~Crypto(x))
              => RefOf(x) \in fulfilled \/ x \in byHand'
    PROVE  PayInv'
<1>0. PayTypes /\ Unused /\ Counted /\ Closed
  BY Zenon DEF PayInv
<1>1. \A y \in Orders : status[y] # "none" => status'[y] # "none" /\ amount'[y] = amount[y]
  BY <1>0, Zenon DEF PayTypes
<1>2. ThreadsGood'
  BY <1>1, MoveKeeps, Zenon
<1>3. PayTypes'
  BY <1>0, Zenon DEF PayTypes
<1>4. Unused'
  BY <1>0, <1>1, Zenon DEF PayTypes, Unused, Crypto
<1>5. Counted'
  BY <1>0, Zenon DEF Counted, RefOf, Crypto
<1>6. Closed'
  BY <1>0, Zenon DEF PayTypes, Closed, RefOf, Crypto
<1> QED
  BY <1>2, <1>3, <1>4, <1>5, <1>6, Zenon DEF PayInv

(* A purchase commits: its thread held the reference alone. *)
LEMMA CommitKeeps ==
    ASSUME PayInv, NEW t \in Threads, pc[t] \in Inside, CommitPurchase(t),
           UNCHANGED <<status, amount, session, byHand>>
    PROVE  PayInv'
<1> DEFINE o == at[t]
<1>0. PayTypes /\ Unused /\ Counted /\ Closed /\ Good(t, pc[t], o, byHand)
  BY Zenon DEF PayInv, ThreadsGood
<1>1. /\ o \in Orders /\ status[o] # "none"
      /\ t \in Reconcilers => Crypto(o)
      /\ t = "hook" => ~Crypto(o)
      /\ t = "admin" => o \in byHand
      /\ Ref(t, o) \notin fulfilled
      /\ \A u \in Threads \ {t} : pc[u] \in Inside => Ref(u, at[u]) # Ref(t, o)
  BY <1>0, Zenon DEF Good, Inside
<1>2. /\ fulfilled' = fulfilled \union {Ref(t, o)}
      /\ grants' = [grants EXCEPT ![o] = @ + 1]
      /\ pc' = [pc EXCEPT ![t] = "mark"] /\ UNCHANGED at
  BY Zenon DEF CommitPurchase, Go
<1>3. PayTypes'
  BY <1>0, <1>1, <1>2 DEF PayTypes, Stages
<1>4. ThreadsGood'
  <2> SUFFICES ASSUME NEW u \in Threads PROVE Good(u, pc[u], at[u], byHand)'
    BY Zenon DEF ThreadsGood
  <2>1. CASE u = t
    BY <1>0, <1>1, <1>2, <2>1, Zenon DEF PayTypes, Good, Inside, Crypto
  <2>2. CASE u # t
    <3>1. pc'[u] = pc[u] /\ at'[u] = at[u] /\ Good(u, pc[u], at[u], byHand)
      BY <1>0, <1>2, <2>2, Zenon DEF PayTypes, PayInv, ThreadsGood
    <3>2. pc[u] \in Inside => Ref(u, at[u]) \notin fulfilled'
      BY <1>1, <1>2, <2>2, <3>1, Zenon DEF Good, Inside
    <3>3. ASSUME pc[u] \in Inside, NEW v \in Threads \ {u}, pc'[v] \in Inside
          PROVE  Ref(v, at[v]) # Ref(u, at[u])
      <4>1. v # t /\ pc'[v] = pc[v]
        BY <1>0, <1>2, <3>3, Zenon DEF PayTypes, Inside
      <4> QED
        BY <3>1, <3>3, <4>1, Zenon DEF Good, Inside
    <3> QED
      BY <1>2, <3>1, <3>2, <3>3, Zenon DEF Good, Crypto
  <2> QED
    BY <2>1, <2>2, Zenon
<1>5. Unused'
  BY <1>0, <1>1, <1>2, Zenon DEF PayTypes, Unused, Crypto, Ref
<1>6. Counted'
  <2> SUFFICES ASSUME NEW x \in Orders \ byHand
               PROVE  grants'[x] = IF RefOf(x)' \in fulfilled' THEN 1 ELSE 0
    BY Zenon DEF Counted
  <2>1. RefOf(x)' = RefOf(x) /\ grants[x] = IF RefOf(x) \in fulfilled THEN 1 ELSE 0
    BY <1>0, Zenon DEF Counted, RefOf, Crypto
  <2>2. CASE x = o
    <3>1. Ref(t, o) = RefOf(o)
      BY <1>1, <2>2, PaymentAssumption, Zenon DEF Ref, RefOf, Reconcilers
    <3> QED
      BY <1>0, <1>1, <1>2, <2>1, <2>2, <3>1 DEF PayTypes
  <2>3. CASE x # o
    <3>1. Ref(t, o) # RefOf(x)
      BY <2>3, Zenon DEF Ref, RefOf
    <3> QED
      BY <1>0, <1>1, <1>2, <2>1, <2>3, <3>1, Zenon DEF PayTypes
  <2> QED
    BY <2>2, <2>3, Zenon
<1>7. Closed'
  BY <1>0, <1>2, Zenon DEF Closed, RefOf, Crypto
<1> QED
  BY <1>3, <1>4, <1>5, <1>6, <1>7, Zenon DEF PayInv
(* The steps of purchase_membership. *)
LEMMA PurchaseKeeps ==
    ASSUME PayInv, NEW t \in Threads, Purchase(t), UNCHANGED orderVars
    PROVE  PayInv'
<1>0. /\ UNCHANGED <<status, amount, session, byHand>>
      /\ pc \in [Threads -> Stages] /\ at \in [Threads -> Orders \union {0}]
      /\ Good(t, pc[t], at[t], byHand)
  BY Zenon DEF orderVars, PayInv, PayTypes, ThreadsGood
<1>1. CASE Activate(t) \/ TopUpWrite(t)
  BY <1>0, <1>1, CommitKeeps, Zenon DEF Activate, TopUpWrite, Inside
<1>2. CASE TopUpRead(t)
  <2>1. /\ pc' = [pc EXCEPT ![t] = "write"] /\ pc[t] = "topup"
        /\ at' = [at EXCEPT ![t] = at[t]] /\ UNCHANGED <<fulfilled, grants>>
    BY <1>0, <1>2, Zenon DEF TopUpRead, Go, accountVars
  <2>2. Good(t, "write", at[t], byHand)
    BY <1>0, <2>1, Zenon DEF Good, Inside
  <2> QED
    BY <1>0, <2>1, <2>2, QuietMove, Zenon DEF Stages, Inside
<1>3. CASE Abort(t)
  <2>1. /\ pc' = [pc EXCEPT ![t] = "idle"]
        /\ at' = [at EXCEPT ![t] = 0] /\ UNCHANGED <<fulfilled, grants>>
    BY <1>3, Zenon DEF Abort, Return, Go, accountVars
  <2>2. Good(t, "idle", 0, byHand)
    BY Zenon DEF Good
  <2> QED
    BY <1>0, <2>1, <2>2, QuietMove, Zenon DEF Stages
<1>4. CASE BeginPurchase(t)
  <2>1. /\ pc[t] = "buy"
        /\ at' = [at EXCEPT ![t] = at[t]] /\ UNCHANGED <<fulfilled, grants>>
        /\ \A u \in Threads \ {t} : pc[u] \in Inside => Ref(u, at[u]) # Ref(t, at[t])
    BY <1>0, <1>4, Zenon DEF BeginPurchase, accountVars
  <2>2. CASE Ref(t, at[t]) \in fulfilled
    <3>1. pc' = [pc EXCEPT ![t] = "mark"]
      BY <1>4, <2>2, Zenon DEF BeginPurchase, Go
    <3>2. Good(t, "mark", at[t], byHand)
      BY <1>0, <2>1, <2>2, Zenon DEF Good, Inside
    <3> QED
      BY <1>0, <2>1, <3>1, <3>2, QuietMove, Zenon DEF Stages
  <2>3. CASE Ref(t, at[t]) \notin fulfilled
    <3>1. PICK s \in {"topup", "activate"} : pc' = [pc EXCEPT ![t] = s]
      BY <1>4, <2>3, Zenon DEF BeginPurchase, Go
    <3>2. Good(t, s, at[t], byHand)
      BY <1>0, <2>1, <2>3, Zenon DEF Good
    <3> QED
      BY <1>0, <2>1, <3>1, <3>2, QuietMove, Zenon DEF Stages, Inside
  <2> QED
    BY <2>2, <2>3, Zenon
<1> QED
  BY <1>1, <1>2, <1>3, <1>4, Zenon DEF Purchase

(* The steps of the order worker and of the order page. *)
LEMMA ReconcileKeeps ==
    ASSUME PayInv, NEW t \in Reconcilers, Reconcile(t)
    PROVE  PayInv'
<1>0. /\ t \in Threads /\ t # "admin" /\ t # "hook"
      /\ pc \in [Threads -> Stages] /\ at \in [Threads -> Orders \union {0}]
      /\ Good(t, pc[t], at[t], byHand)
      /\ status \in [Orders -> {"none", "pending", "paid", "confirmed",
                                 "expired", "failed"}]
  BY PaymentAssumption, Zenon DEF Reconcilers, PayInv, PayTypes, ThreadsGood
<1>1. Good(t, "idle", 0, byHand)
  BY Zenon DEF Good
<1>2. ASSUME NEW o \in Orders, LoadOrder(t, o) PROVE PayInv'
  <2>1. PICK s \in {"check", "watch"} : pc' = [pc EXCEPT ![t] = s]
    BY <1>2, Zenon DEF LoadOrder, Begin, Go
  <2>2. /\ at' = [at EXCEPT ![t] = o] /\ Crypto(o) /\ status[o] # "none"
        /\ UNCHANGED <<status, amount, session, byHand, fulfilled, grants>>
    BY <1>2, Zenon DEF LoadOrder, Begin, Live, orderVars, accountVars
  <2>3. Good(t, s, o, byHand)
    BY <1>0, <2>2, Zenon DEF Good, Inside
  <2> QED
    BY <1>0, <2>1, <2>2, <2>3, QuietMove, Zenon DEF Stages
<1>3. CASE Watch(t) \/ CheckConfirmed(t)
  <2>1. /\ UNCHANGED <<status, amount, session, byHand, fulfilled, grants>>
        /\ pc[t] \in {"watch", "check"}
    BY <1>3, Zenon DEF Watch, CheckConfirmed, orderVars, accountVars
  <2>2. \/ Return(t)
        \/ UNCHANGED at /\ \E s \in {"found", "lapse", "buy"} : Go(t, s)
    BY <1>3, Zenon DEF Watch, CheckConfirmed
  <2>3. CASE Return(t)
    BY <1>0, <1>1, <2>1, <2>3, QuietMove, Zenon DEF Return, Go, Stages
  <2>4. ASSUME NEW s \in {"found", "lapse", "buy"}, Go(t, s), UNCHANGED at PROVE PayInv'
    <3>1. Good(t, s, at[t], byHand)
      BY <1>0, <2>1, Zenon DEF Good, Inside
    <3>2. at' = [at EXCEPT ![t] = at[t]]
      BY <1>0, <2>4, Zenon
    <3> QED
      BY <1>0, <2>1, <2>4, <3>1, <3>2, QuietMove, Zenon DEF Go, Stages
  <2> QED
    BY <2>2, <2>3, <2>4, Zenon
<1>4. CASE MarkPaid(t)
  <2>1. /\ UNCHANGED <<amount, session, byHand, fulfilled, grants>>
        /\ pc[t] = "found"
    BY <1>4, Zenon DEF MarkPaid, accountVars
  <2>2. at[t] \in Orders /\ Crypto(at[t]) /\ status[at[t]] # "none"
    BY <1>0, <2>1, Zenon DEF Good
  <2>3. \/ Return(t)
        \/ Go(t, "check") /\ UNCHANGED at
    BY <1>4, Zenon DEF MarkPaid
  <2>4. PICK s \in {"idle", "check"}, o \in Orders \union {0} :
          /\ pc' = [pc EXCEPT ![t] = s] /\ at' = [at EXCEPT ![t] = o]
          /\ Good(t, s, o, byHand)
    <3>1. CASE Return(t)
      BY <1>1, <3>1, Zenon DEF Return, Go
    <3>2. CASE Go(t, "check") /\ UNCHANGED at
      <4>1. Good(t, "check", at[t], byHand)
        BY <1>0, <2>1, <2>2, Zenon DEF Good, Inside
      <4>2. at' = [at EXCEPT ![t] = at[t]] /\ pc' = [pc EXCEPT ![t] = "check"]
        BY <1>0, <3>2, Zenon DEF Go
      <4> QED
        BY <2>2, <4>1, <4>2, Zenon
    <3> QED
      BY <2>3, <3>1, <3>2, Zenon
  <2>5. UNCHANGED status \/ status' = [status EXCEPT ![at[t]] = "paid"]
    BY <1>4, Zenon DEF MarkPaid, Set
  <2>6. CASE UNCHANGED status
    BY <1>0, <2>1, <2>4, <2>6, QuietMove, Zenon DEF Stages
  <2>7. CASE status' = [status EXCEPT ![at[t]] = "paid"]
    BY <1>0, <2>1, <2>2, <2>4, <2>7, StatusMove, Zenon DEF Stages
  <2> QED
    BY <2>5, <2>6, <2>7, Zenon
<1>5. CASE MarkExpired(t)
  <2>1. /\ UNCHANGED <<amount, session, byHand, fulfilled, grants>>
        /\ pc[t] = "lapse" /\ Return(t)
        /\ UNCHANGED status \/ status' = [status EXCEPT ![at[t]] = "expired"]
    BY <1>5, Zenon DEF MarkExpired, accountVars, Set
  <2>2. at[t] \in Orders /\ status[at[t]] # "none"
    BY <1>0, <2>1, Zenon DEF Good
  <2>3. CASE UNCHANGED status
    BY <1>0, <1>1, <2>1, <2>3, QuietMove, Zenon DEF Stages, Return, Go
  <2>4. CASE status' = [status EXCEPT ![at[t]] = "expired"]
    BY <1>0, <1>1, <2>1, <2>2, <2>4, StatusMove, Zenon DEF Stages, Return, Go
  <2> QED
    BY <2>1, <2>3, <2>4, Zenon
<1>6. CASE MarkConfirmed(t)
  <2>1. /\ UNCHANGED <<amount, session, byHand, fulfilled, grants>>
        /\ pc[t] = "mark" /\ Return(t)
        /\ UNCHANGED status \/ status' = [status EXCEPT ![at[t]] = "confirmed"]
    BY <1>6, Zenon DEF MarkConfirmed, accountVars, Set
  <2>2. /\ at[t] \in Orders /\ status[at[t]] # "none" /\ Crypto(at[t])
        /\ Ref(t, at[t]) \in fulfilled
    BY <1>0, <2>1, Zenon DEF Good
  <2>3. RefOf(at[t]) \in fulfilled
    BY <1>0, <2>2, Zenon DEF RefOf, Ref
  <2>4. CASE UNCHANGED status
    BY <1>0, <1>1, <2>1, <2>4, QuietMove, Zenon DEF Stages, Return, Go
  <2>5. CASE status' = [status EXCEPT ![at[t]] = "confirmed"]
    BY <1>0, <1>1, <2>1, <2>2, <2>3, <2>5, StatusMove, Zenon DEF Stages, Return, Go
  <2> QED
    BY <2>1, <2>4, <2>5, Zenon
<1> QED
  BY <1>2, <1>3, <1>4, <1>5, <1>6, Zenon DEF Reconcile
(* The steps of the administrator. *)
LEMMA ManualKeeps ==
    ASSUME PayInv, (\E o \in Orders : ManualRead(o)) \/ ManualStamp \/ ManualDone
    PROVE  PayInv'
<1>0. /\ "admin" \in Threads /\ "admin" \notin Reconcilers
      /\ pc \in [Threads -> Stages] /\ at \in [Threads -> Orders \union {0}]
      /\ Good("admin", pc["admin"], at["admin"], byHand)
  BY PaymentAssumption, Zenon DEF PayInv, PayTypes, ThreadsGood, Reconcilers
<1>1. \A hands : Good("admin", "idle", 0, hands)
  BY Zenon DEF Good
<1>2. ASSUME NEW o \in Orders, ManualRead(o) PROVE PayInv'
  <2>1. /\ pc' = [pc EXCEPT !["admin"] = "stamp"] /\ at' = [at EXCEPT !["admin"] = o]
        /\ status[o] # "none"
        /\ UNCHANGED <<status, amount, session, byHand, fulfilled, grants>>
    BY <1>2, Zenon DEF ManualRead, Begin, Go, orderVars, accountVars
  <2>2. Good("admin", "stamp", o, byHand)
    BY <1>0, <2>1, Zenon DEF Good, Inside
  <2> QED
    BY <1>0, <2>1, <2>2, QuietMove, Zenon DEF Stages
<1>3. CASE ManualDone
  BY <1>0, <1>1, <1>3, QuietMove, Zenon
  DEF ManualDone, Return, Go, orderVars, accountVars, Stages
<1>4. CASE ManualStamp
  <2>1. /\ UNCHANGED <<amount, session, fulfilled, grants>> /\ pc["admin"] = "stamp"
        /\ status' = [status EXCEPT ![at["admin"]] = "confirmed"]
        /\ byHand' = byHand \union {at["admin"]}
        /\ Return("admin") \/ (Go("admin", "buy") /\ UNCHANGED at)
    BY <1>4, Zenon DEF ManualStamp, Set, accountVars
  <2>2. at["admin"] \in Orders /\ status[at["admin"]] # "none"
    BY <1>0, <2>1, Zenon DEF Good
  <2>3. CASE Return("admin")
    BY <1>0, <1>1, <2>1, <2>2, <2>3, StatusMove, Zenon DEF Return, Go, Stages
  <2>4. CASE Go("admin", "buy") /\ UNCHANGED at
    <3>1. Good("admin", "buy", at["admin"], byHand')
      BY <1>0, <2>1, <2>2, Zenon DEF Good, Inside
    <3>2. /\ at' = [at EXCEPT !["admin"] = at["admin"]]
          /\ pc' = [pc EXCEPT !["admin"] = "buy"]
      BY <1>0, <2>4, Zenon DEF Go
    <3> QED
      BY <1>0, <2>1, <2>2, <3>1, <3>2, StatusMove, Zenon DEF Stages
  <2> QED
    BY <2>1, <2>3, <2>4, Zenon
<1> QED
  BY <1>2, <1>3, <1>4, Zenon

(* The steps of the Stripe webhook. *)
LEMMA HookKeeps ==
    ASSUME PayInv, HookMark \/ \E o \in Orders : HookRead(o) \/ HookExpired(o)
    PROVE  PayInv'
<1>0. /\ "hook" \in Threads /\ "hook" \notin Reconcilers
      /\ pc \in [Threads -> Stages] /\ at \in [Threads -> Orders \union {0}]
      /\ Good("hook", pc["hook"], at["hook"], byHand)
  BY PaymentAssumption, Zenon DEF PayInv, PayTypes, ThreadsGood, Reconcilers
<1>1. Good("hook", "idle", 0, byHand)
  BY Zenon DEF Good
<1>2. ASSUME NEW o \in Orders, HookRead(o) PROVE PayInv'
  <2>1. /\ pc' = [pc EXCEPT !["hook"] = "buy"] /\ at' = [at EXCEPT !["hook"] = o]
        /\ session[o] = "completed"
        /\ UNCHANGED <<status, amount, session, byHand, fulfilled, grants>>
    BY <1>2, Zenon DEF HookRead, Begin, Go, orderVars, accountVars
  <2>2. ~Crypto(o) /\ status[o] # "none"
    BY <2>1, Zenon DEF PayInv, Unused
  <2>3. Good("hook", "buy", o, byHand)
    BY <1>0, <2>2, Zenon DEF Good, Inside
  <2> QED
    BY <1>0, <2>1, <2>3, QuietMove, Zenon DEF Stages
<1>3. ASSUME NEW o \in Orders, HookExpired(o) PROVE PayInv'
  <2>1. /\ pc' = [pc EXCEPT !["hook"] = pc["hook"]]
        /\ at' = [at EXCEPT !["hook"] = at["hook"]]
        /\ status[o] # "none" /\ status' = [status EXCEPT ![o] = "expired"]
        /\ UNCHANGED <<amount, session, byHand, fulfilled, grants>>
    BY <1>0, <1>3, Zenon DEF HookExpired, Set, threadVars, accountVars
  <2> QED
    BY <1>0, <2>1, StatusMove, Zenon
<1>4. CASE HookMark
  <2>1. /\ UNCHANGED <<amount, session, byHand, fulfilled, grants>>
        /\ pc["hook"] = "mark" /\ Return("hook")
        /\ status' = [status EXCEPT ![at["hook"]] = "paid"]
    BY <1>4, Zenon DEF HookMark, Set, accountVars
  <2>2. /\ at["hook"] \in Orders /\ status[at["hook"]] # "none"
        /\ ~Crypto(at["hook"]) /\ Ref("hook", at["hook"]) \in fulfilled
    BY <1>0, <2>1, Zenon DEF Good
  <2>3. RefOf(at["hook"]) \in fulfilled
    BY <2>2, Zenon DEF RefOf, Ref
  <2> QED
    BY <1>0, <1>1, <2>1, <2>2, <2>3, StatusMove, Zenon DEF Return, Go, Stages
<1> QED
  BY <1>2, <1>3, <1>4, Zenon

(* An unused id becomes an order. *)
LEMMA CreateKeeps ==
    ASSUME PayInv, NEW o \in Orders, status[o] = "none", session[o] = "none",
           NEW a \in Amounts \union {0}, NEW sess \in {"none", "asked"},
           a = 0 \/ sess = "none",
           status' = [status EXCEPT ![o] = "pending"],
           amount' = [amount EXCEPT ![o] = a],
           session' = [session EXCEPT ![o] = sess],
           UNCHANGED <<pc, at, byHand, fulfilled, grants>>
    PROVE  PayInv'
<1>0. PayTypes /\ ThreadsGood /\ Unused /\ Counted /\ Closed
  BY Zenon DEF PayInv
<1>1. PayTypes'
  BY <1>0, Zenon DEF PayTypes
<1>2. \A y \in Orders : y # o =>
         status'[y] = status[y] /\ amount'[y] = amount[y] /\ session'[y] = session[y]
  BY <1>0, Zenon DEF PayTypes
<1>3. /\ status'[o] = "pending" /\ amount'[o] = a /\ session'[o] = sess
      /\ amount[o] = 0 /\ grants[o] = 0
      /\ <<"usdt_order", o>> \notin fulfilled /\ <<"stripe_session", o>> \notin fulfilled
  BY <1>0, Zenon DEF PayTypes, Unused
<1>4. ThreadsGood'
  BY <1>0, <1>2, <1>3 DEF ThreadsGood, Good, Crypto
<1>5. Unused'
  BY <1>0, <1>2, <1>3, Zenon DEF Unused, Crypto
<1>6. ASSUME NEW y \in Orders \ byHand'
      PROVE  grants'[y] = IF RefOf(y)' \in fulfilled' THEN 1 ELSE 0
  <2>1. CASE y = o
    <3>1. RefOf(y)' \notin fulfilled
      BY <1>3, <2>1, Zenon DEF RefOf
    <3> QED BY <1>3, <2>1, <3>1, Zenon
  <2>2. CASE y # o
    <3>1. RefOf(y)' = RefOf(y)
      BY <1>2, <2>2, Zenon DEF RefOf, Crypto
    <3> QED BY <1>0, <3>1, Zenon DEF Counted
  <2> QED BY <2>1, <2>2, Zenon
<1>7. ASSUME NEW y \in Orders \ byHand',
             status'[y] = "confirmed" \/ (status'[y] = "paid" /\ ~Crypto(y)')
      PROVE  RefOf(y)' \in fulfilled'
  <2>1. y # o
    BY <1>3, <1>7, Zenon
  <2>2. status'[y] = status[y] /\ (Crypto(y)' <=> Crypto(y)) /\ RefOf(y)' = RefOf(y)
    BY <1>2, <2>1, Zenon DEF RefOf, Crypto
  <2> QED BY <1>0, <1>7, <2>2, Zenon DEF Closed
<1>8. Counted' /\ Closed'
  BY <1>6, <1>7, Zenon DEF Counted, Closed
<1> QED
  BY <1>1, <1>4, <1>5, <1>8, Zenon DEF PayInv

LEMMA PayStep == PayInv /\ [Next]_vars => PayInv'
<1> SUFFICES ASSUME PayInv, [Next]_vars PROVE PayInv'
  OBVIOUS
<1>0. PayTypes /\ Unused /\ ThreadsGood
  BY Zenon DEF PayInv
<1>1. CASE UNCHANGED <<pc, at, status, amount, session, byHand, fulfilled, grants>>
  BY <1>1, Zenon DEF PayInv, PayTypes, ThreadsGood, Good, Unused, Counted, Closed, RefOf, Crypto
<1>2. ASSUME NEW o \in Orders, NEW p \in Plans, NEW a \in Amounts, CreateOrder(o, p, a)
      PROVE  PayInv'
  <2>1. /\ status[o] = "none" /\ status' = [status EXCEPT ![o] = "pending"]
        /\ amount' = [amount EXCEPT ![o] = a]
        /\ UNCHANGED <<pc, at, session, byHand, fulfilled, grants>>
    BY <1>2, Zenon DEF CreateOrder, NextId, Set, threadVars, accountVars
  <2>2. session[o] = "none" /\ session' = [session EXCEPT ![o] = "none"]
    BY <1>0, <2>1, Zenon DEF Unused, PayTypes
  <2> QED
    BY <2>1, <2>2, CreateKeeps, Zenon
<1>3. ASSUME NEW o \in Orders, NEW p \in Plans, CreateCheckout(o, p) PROVE PayInv'
  <2>1. /\ status[o] = "none" /\ status' = [status EXCEPT ![o] = "pending"]
        /\ session' = [session EXCEPT ![o] = "asked"]
        /\ UNCHANGED <<pc, at, amount, byHand, fulfilled, grants>>
    BY <1>3, Zenon DEF CreateCheckout, NextId, Set, threadVars, accountVars
  <2>2. session[o] = "none" /\ amount' = [amount EXCEPT ![o] = 0]
    BY <1>0, <2>1, Zenon DEF Unused, PayTypes
  <2> QED
    BY <2>1, <2>2, CreateKeeps, Zenon
<1>4. ASSUME NEW o \in Orders, CheckoutAnswered(o) \/ SessionEnds(o) PROVE PayInv'
  <2>1. /\ UNCHANGED <<pc, at, amount, byHand, fulfilled, grants>>
        /\ session[o] # "none"
        /\ \E x \in {"open", "refused", "completed", "expired"} :
             session' = [session EXCEPT ![o] = x]
        /\ UNCHANGED status \/ status' = [status EXCEPT ![o] = "failed"]
    BY <1>4, Zenon DEF CheckoutAnswered, SessionEnds, Set, threadVars, accountVars
  <2>2. PayTypes'
    BY <1>0, <2>1, Zenon DEF PayTypes
  <2>3. \A x \in Orders : (status'[x] = "none") = (status[x] = "none")
                          /\ (status'[x] # "failed" => status'[x] = status[x])
    BY <1>0, <2>1, Zenon DEF PayTypes, Unused
  <2>4. ThreadsGood'
    BY <1>0, <2>1, <2>3, Zenon DEF ThreadsGood, Good, Crypto
  <2>5. Unused'
    BY <1>0, <2>1, <2>3, Zenon DEF PayTypes, Unused, Crypto
  <2>6. Counted' /\ Closed'
    BY <2>1, <2>3, Zenon DEF PayInv, Counted, Closed, RefOf, Crypto
  <2> QED
    BY <2>2, <2>4, <2>5, <2>6, Zenon DEF PayInv
<1>5. ASSUME NEW o \in Orders, WindowCloses(o) \/ Transfer(o) PROVE PayInv'
  BY <1>1, <1>5, Zenon DEF WindowCloses, Transfer, threadVars, accountVars
<1>6. CASE PaymentStep
  BY <1>2, <1>3, <1>4, <1>5, <1>6, PurchaseKeeps, ReconcileKeeps, ManualKeeps, HookKeeps, Zenon
  DEF PaymentStep, PaymentsNext
<1>7. CASE JobStep
  BY <1>1, <1>7, Zenon DEF JobStep, beside, threadVars, orderVars
<1>8. CASE UNCHANGED vars
  BY <1>1, <1>8, Zenon DEF vars, accountVars, threadVars, orderVars
<1> QED
  BY <1>6, <1>7, <1>8, Zenon DEF Next

(* Whatever the order worker, the order page and the webhook do at the     *)
(* same time or again after a crash, an order that nobody confirmed by     *)
(* hand grants its plan at most once and is closed only when it has        *)
(* (purchase_membership and its fulfilment row).                           *)
THEOREM PaymentsFulfilledOnce == Spec => []FulfilledOnce
<1>1. PayInv => FulfilledOnce
  BY DEF PayInv, PayTypes, Counted, Closed, FulfilledOnce
<1> QED
  BY <1>1, PayInitially, PayStep, PTL DEF Spec
-----------------------------------------------------------------------------
(* The types that the jobs and the payments above do not need.             *)
AccountTypes ==
    /\ credits \in Nat /\ vip \in Nat
    /\ lifetime \in BOOLEAN /\ stale \in BOOLEAN
    /\ fulfilled \subseteq {"manual_usdt", "stripe_session", "usdt_order"} \X Orders
    /\ faults \in 0 .. MaxFaults

HandTypes == seen \in [Threads -> Nat] /\ balance \in [Threads -> Nat]

OrderTypes ==
    /\ plan \in [Orders -> Plans]
    /\ landed \in [Orders -> BOOLEAN] /\ due \in [Orders -> BOOLEAN]
    /\ byHand \subseteq Orders

Types == AccountTypes /\ HandTypes /\ OrderTypes

LEMMA TypesInitially == Init => Types
<1> SUFFICES ASSUME Init PROVE Types
  OBVIOUS
<1> USE DEF Init, AccountInit, PaymentsInit
<1>1. AccountTypes
  <2>1. 0 \in Nat /\ 0 \in 0 .. MaxFaults /\ Opening \in Nat
    <3> HIDE DEF Init, AccountInit, PaymentsInit
    <3> QED BY AccountAssumption
  <2> QED BY <2>1, Zenon DEF AccountTypes
<1>2. HandTypes
  <2>1. 0 \in Nat
    OBVIOUS
  <2> QED BY <2>1, Zenon DEF HandTypes
<1>3. OrderTypes
  BY Zenon DEF OrderTypes, Plans
<1> QED BY <1>1, <1>2, <1>3, Zenon DEF Types

(* A thread that works on an order in a purchase.                          *)
LEMMA InHand ==
    ASSUME PayInv, NEW t \in Threads, pc[t] # "idle"
    PROVE  at[t] \in Orders
  BY Zenon DEF PayInv, ThreadsGood, Good

LEMMA ReturnTypes ==
    ASSUME HandTypes, NEW t \in Threads, Return(t)
    PROVE  HandTypes'
<1>1. 0 \in Nat
  OBVIOUS
<1> QED BY <1>1, Zenon DEF HandTypes, Return

LEMMA CommitTypes ==
    ASSUME PayInv, Types, NEW t \in Threads, pc[t] \in Inside, CommitPurchase(t)
    PROVE  /\ fulfilled' \subseteq {"manual_usdt", "stripe_session", "usdt_order"} \X Orders
           /\ faults' \in 0 .. MaxFaults
           /\ HandTypes'
<1>1. at[t] \in Orders
  BY InHand, Zenon DEF Inside
<1>2. Ref(t, at[t]) \in {"manual_usdt", "stripe_session", "usdt_order"} \X Orders
  BY <1>1, Zenon DEF Ref
<1>3. 0 \in Nat
  OBVIOUS
<1> QED BY <1>2, <1>3, Zenon DEF CommitPurchase, Types, AccountTypes, HandTypes

LEMMA PurchaseTypes ==
    ASSUME PayInv, Types, NEW t \in Threads, Purchase(t)
    PROVE  AccountTypes' /\ HandTypes'
<1>0. AccountTypes /\ HandTypes
  BY Zenon DEF Types
<1>1. CASE BeginPurchase(t)
  <2>1. UNCHANGED <<accountVars, balance, faults>>
    BY <1>1, Zenon DEF BeginPurchase
  <2>2. UNCHANGED seen \/ seen' = [seen EXCEPT ![t] = vip]
    BY <1>1, Zenon DEF BeginPurchase
  <2> QED BY <1>0, <2>1, <2>2, Zenon DEF accountVars, AccountTypes, HandTypes
<1>2. CASE Activate(t)
  <2>1. CommitPurchase(t) /\ pc[t] \in Inside
    BY <1>2, Zenon DEF Activate, Inside
  <2>2. seen[t] \in Nat
    BY <1>0, Zenon DEF HandTypes
  <2>3. credits' \in Nat
    BY <1>0, <1>2, AccountAssumption DEF Activate, AccountTypes
  <2>4. vip' = Century \/ vip' = seen[t] + 1
    BY <1>2, Zenon DEF Activate
  <2>5. vip' \in Nat
    BY <2>2, <2>4 DEF Century
  <2>6. lifetime' \in BOOLEAN /\ stale' \in BOOLEAN
    BY <1>0, <1>2, Zenon DEF Activate, AccountTypes
  <2> QED BY <2>1, <2>3, <2>5, <2>6, CommitTypes, Zenon DEF AccountTypes
<1>3. CASE TopUpRead(t)
  BY <1>0, <1>3, Zenon DEF TopUpRead, accountVars, AccountTypes, HandTypes
<1>4. CASE TopUpWrite(t)
  <2>1. CommitPurchase(t) /\ pc[t] \in Inside
    BY <1>4, Zenon DEF TopUpWrite, Inside
  <2>2. balance[t] \in Nat
    BY <1>0, Zenon DEF HandTypes
  <2>3. credits' \in Nat
    BY <1>4, <2>2, AccountAssumption DEF TopUpWrite
  <2>4. vip' = vip /\ lifetime' = lifetime /\ stale' \in BOOLEAN
    BY <1>0, <1>4, Zenon DEF TopUpWrite, AccountTypes
  <2> QED BY <1>0, <2>1, <2>3, <2>4, CommitTypes, Zenon DEF AccountTypes
<1>5. CASE Abort(t)
  <2>1. faults' \in 0 .. MaxFaults
    BY <1>0, <1>5, AccountAssumption DEF Abort, AccountTypes
  <2>2. UNCHANGED accountVars /\ Return(t)
    BY <1>5, Zenon DEF Abort
  <2> QED BY <1>0, <2>1, <2>2, ReturnTypes, Zenon DEF accountVars, AccountTypes
<1> QED BY <1>1, <1>2, <1>3, <1>4, <1>5, Zenon DEF Purchase

(* The other steps of the payments leave the account alone and put 0 or 1  *)
(* in a thread's hand, if anything.                                        *)
LEMMA QuietSteps ==
    ASSUME PaymentsNext, ~\E t \in Threads : Purchase(t) /\ UNCHANGED orderVars
    PROVE  /\ UNCHANGED <<accountVars, logVars, faults>>
           /\ \/ UNCHANGED <<pc, seen, balance>>
              \/ \E t \in Threads, s \in Stages \ Inside :
                   /\ pc' = [pc EXCEPT ![t] = s]
                   /\ \/ Return(t)
                      \/ /\ UNCHANGED balance
                         /\ \/ UNCHANGED seen
                            \/ \E n \in {0, 1} : seen' = [seen EXCEPT ![t] = n]
<1> USE DEF Go, Return
<1>0. /\ Reconcilers \subseteq Threads /\ "admin" \in Threads /\ "hook" \in Threads
      /\ {"idle", "watch", "found", "lapse", "check", "stamp", "buy", "mark"}
           \subseteq Stages \ Inside
  BY PaymentAssumption, Zenon DEF Reconcilers, Stages, Inside
<1> DEFINE Moves(t) ==
      \E s \in Stages \ Inside :
         /\ pc' = [pc EXCEPT ![t] = s]
         /\ \/ Return(t)
            \/ /\ UNCHANGED balance
               /\ \/ UNCHANGED seen
                  \/ \E n \in {0, 1} : seen' = [seen EXCEPT ![t] = n]
<1> DEFINE Quiet == UNCHANGED <<accountVars, logVars, faults>>
<1>1. ASSUME NEW t \in Reconcilers, NEW o \in Orders, LoadOrder(t, o) PROVE Quiet /\ Moves(t)
  <2>1. PICK s \in {"check", "watch"} : pc' = [pc EXCEPT ![t] = s]
    BY <1>1, Zenon DEF LoadOrder, Begin
  <2>2. PICK n \in {0, 1} : seen' = [seen EXCEPT ![t] = n]
    BY <1>1, Zenon DEF LoadOrder
  <2> QED BY <1>0, <1>1, <2>1, <2>2, Zenon DEF LoadOrder
<1>2. ASSUME NEW t \in Reconcilers, Watch(t) PROVE Quiet /\ Moves(t)
  BY <1>0, <1>2, Zenon DEF Watch
<1>3. ASSUME NEW t \in Reconcilers, MarkPaid(t) PROVE Quiet /\ Moves(t)
  BY <1>0, <1>3, Zenon DEF MarkPaid
<1>4. ASSUME NEW t \in Reconcilers, MarkExpired(t) \/ MarkConfirmed(t) PROVE Quiet /\ Moves(t)
  BY <1>0, <1>4, Zenon DEF MarkExpired, MarkConfirmed
<1>5. ASSUME NEW t \in Reconcilers, CheckConfirmed(t) PROVE Quiet /\ Moves(t)
  BY <1>0, <1>5, Zenon DEF CheckConfirmed
<1>6. ASSUME NEW o \in Orders, ManualRead(o) PROVE Quiet /\ Moves("admin")
  <2>1. PICK n \in {0, 1} : seen' = [seen EXCEPT !["admin"] = n]
    BY <1>6, Zenon DEF ManualRead
  <2> QED BY <1>0, <1>6, <2>1, Zenon DEF ManualRead, Begin
<1>7. ASSUME ManualStamp \/ ManualDone PROVE Quiet /\ Moves("admin")
  BY <1>0, <1>7, Zenon DEF ManualStamp, ManualDone
<1>8. ASSUME HookMark \/ \E o \in Orders : HookRead(o) PROVE Quiet /\ Moves("hook")
  BY <1>0, <1>8, Zenon DEF HookMark, HookRead, Begin
<1>9. ASSUME \/ \E o \in Orders, p \in Plans, a \in Amounts : CreateOrder(o, p, a)
             \/ \E o \in Orders, p \in Plans : CreateCheckout(o, p)
             \/ \E o \in Orders : \/ WindowCloses(o) \/ Transfer(o) \/ CheckoutAnswered(o)
                                  \/ SessionEnds(o) \/ HookExpired(o)
      PROVE  Quiet /\ UNCHANGED <<pc, seen, balance>>
  BY <1>9, Zenon DEF CreateOrder, CreateCheckout, WindowCloses, Transfer, CheckoutAnswered,
                     SessionEnds, HookExpired, threadVars
<1> HIDE DEF Moves, Quiet
<1>10. Quiet /\ (UNCHANGED <<pc, seen, balance>> \/ \E t \in Threads : Moves(t))
  BY <1>0, <1>1, <1>2, <1>3, <1>4, <1>5, <1>6, <1>7, <1>8, <1>9, Zenon
  DEF PaymentsNext, Reconcile
<1> QED BY <1>10, Zenon DEF Moves, Quiet

(* What the payments write into the orders.                                *)
LEMMA OrderStep ==
    ASSUME PayInv, OrderTypes, PaymentsNext
    PROVE  OrderTypes' /\ \A o \in Orders : grants[o] # 0 => plan'[o] = plan[o]
<1> DEFINE Kept == OrderTypes' /\ \A o \in Orders : grants[o] # 0 => plan'[o] = plan[o]
<1>0. /\ plan \in [Orders -> Plans] /\ byHand \subseteq Orders
      /\ landed \in [Orders -> BOOLEAN] /\ due \in [Orders -> BOOLEAN]
  BY Zenon DEF OrderTypes
<1>a. ASSUME NEW o, NEW s, Set(o, s) PROVE due' \in [Orders -> BOOLEAN]
  BY <1>0, <1>a, Zenon DEF Set
<1>b. ASSUME UNCHANGED <<plan, landed, byHand>>, UNCHANGED due \/ \E o, s : Set(o, s)
      PROVE  Kept
  BY <1>0, <1>a, <1>b, Zenon DEF OrderTypes
<1>1. ASSUME UNCHANGED orderVars PROVE Kept
  BY <1>1, <1>b, Zenon DEF orderVars
<1>2. ASSUME NEW o \in Orders, NEW p \in Plans,
             CreateCheckout(o, p) \/ \E a \in Amounts : CreateOrder(o, p, a)
      PROVE  Kept
  <2>1. /\ status[o] = "none" /\ plan' = [plan EXCEPT ![o] = p]
        /\ UNCHANGED <<landed, byHand>> /\ Set(o, "pending")
    BY <1>2, Zenon DEF CreateCheckout, CreateOrder, NextId
  <2>2. grants[o] = 0
    BY <2>1, Zenon DEF PayInv, Unused
  <2>3. OrderTypes'
    BY <1>0, <1>a, <2>1, Zenon DEF OrderTypes
  <2> QED BY <1>0, <2>1, <2>2, <2>3, Zenon
<1>3. ASSUME NEW o \in Orders, WindowCloses(o) \/ Transfer(o)
      PROVE  Kept
  <2>1. CASE WindowCloses(o) BY <1>0, <2>1, Zenon DEF WindowCloses, OrderTypes
  <2>2. CASE Transfer(o)
    <3>1. \A x \in Orders : (landed[x] \/ amount[x] = amount[o]) \in BOOLEAN
      BY Zenon
    <3>2. landed' \in [Orders -> BOOLEAN]
      BY <2>2, <3>1, Zenon DEF Transfer
    <3> QED BY <1>0, <2>2, <3>2, Zenon DEF Transfer, OrderTypes
  <2> QED BY <1>3, <2>1, <2>2, Zenon
<1>4. ASSUME ManualStamp PROVE Kept
  <2>1. at["admin"] \in Orders
    BY <1>4, InHand, PaymentAssumption, Zenon DEF ManualStamp
  <2>2. /\ byHand' = byHand \union {at["admin"]} /\ UNCHANGED <<plan, landed>>
        /\ Set(at["admin"], "confirmed")
    BY <1>4, Zenon DEF ManualStamp
  <2> QED BY <1>0, <1>a, <2>1, <2>2, Zenon DEF OrderTypes
<1>5. ASSUME NEW o \in Orders,
             CheckoutAnswered(o) \/ SessionEnds(o) \/ HookExpired(o)
      PROVE  Kept
  BY <1>5, <1>b, Zenon DEF CheckoutAnswered, SessionEnds, HookExpired
<1>6. ASSUME HookMark \/ ManualDone \/ \E o \in Orders : HookRead(o) \/ ManualRead(o)
      PROVE  Kept
  BY <1>6, <1>b, Zenon DEF HookMark, ManualDone, HookRead, ManualRead, orderVars
<1>7. ASSUME NEW t \in Reconcilers, Reconcile(t) PROVE Kept
  <2>1. CASE MarkPaid(t)
    BY <2>1, <1>b, Zenon DEF MarkPaid
  <2>2. CASE MarkExpired(t) \/ MarkConfirmed(t)
    BY <2>2, <1>b, Zenon DEF MarkExpired, MarkConfirmed
  <2>3. CASE Watch(t) \/ CheckConfirmed(t) \/ \E o \in Orders : LoadOrder(t, o)
    BY <2>3, <1>1, Zenon DEF Watch, CheckConfirmed, LoadOrder
  <2> QED BY <1>7, <2>1, <2>2, <2>3, Zenon DEF Reconcile
<1> HIDE DEF Kept
<1>8. Kept
  BY <1>1, <1>2, <1>3, <1>4, <1>5, <1>6, <1>7, Zenon DEF PaymentsNext
<1> QED BY <1>8, Zenon DEF Kept

(* The jobs change the balance by their price, and not below zero.         *)
LEMMA JobBalance ==
    ASSUME JobInv, JobsNext \/ \E r \in Runners : RunnerDies(r)
    PROVE  \/ UNCHANGED <<credits, debits, refunds>>
           \/ \E j \in Jobs \ debits :
                /\ credits >= Cost /\ credits' = credits - Cost
                /\ debits' = debits \union {j} /\ UNCHANGED refunds
           \/ \E j \in Jobs \ refunds :
                /\ credits' = credits + Cost
                /\ refunds' = refunds \union {j} /\ UNCHANGED debits
<1> DEFINE Same == UNCHANGED <<credits, debits, refunds>>
<1> DEFINE Taken == \E j \in Jobs \ debits :
                      /\ credits >= Cost /\ credits' = credits - Cost
                      /\ debits' = debits \union {j} /\ UNCHANGED refunds
<1> DEFINE Returned == \E j \in Jobs \ refunds :
                         /\ credits' = credits + Cost
                         /\ refunds' = refunds \union {j} /\ UNCHANGED debits
<1>0. JobsPaidFor /\ \A r \in Runners : stage[r] # "idle" => hand[r] \in Jobs
  BY Zenon DEF JobInv, Busy
<1>1. ASSUME NEW j \in Jobs, SubmitJob(j) PROVE Taken
  <2>1. j \notin debits
    BY <1>0, <1>1, Zenon DEF JobsPaidFor, SubmitJob
  <2> QED BY <1>1, <2>1, Zenon DEF SubmitJob, Consume
<1>2. ASSUME NEW j \in Jobs, NEW outcome, FinishJob(j, outcome) PROVE Same \/ Returned
  <2>1. CASE job[j] \notin Active \/ outcome = "succeeded"
    BY <1>2, <2>1, Zenon DEF FinishJob, logVars
  <2>2. CASE job[j] \in Active /\ outcome # "succeeded"
    <3>1. j \notin refunds
      BY <1>0, <2>2, Zenon DEF JobsPaidFor, Active
    <3> QED BY <1>2, <2>2, <3>1, Zenon DEF FinishJob, Refund
  <2> QED BY <2>1, <2>2, Zenon
<1>3. ASSUME NEW j \in Jobs, Dispatch(j) \/ TimeoutPasses(j) PROVE Same
  BY <1>3, Zenon DEF Dispatch, TimeoutPasses, logVars
<1>4. ASSUME NEW r \in Runners,
             \/ \E j \in Jobs : TakeJob(r, j)
             \/ StartJob(r) \/ ReportProgress(r) \/ RunnerDies(r)
      PROVE  Same
  BY <1>4, Zenon DEF TakeJob, StartJob, ReportProgress, RunnerDies, logVars
<1>5. ASSUME NEW r \in Runners, EndRun(r) PROVE Same \/ Returned
  <2>1. hand[r] \in Jobs
    BY <1>0, <1>5, Zenon DEF EndRun
  <2> QED BY <1>2, <1>5, <2>1, Zenon DEF EndRun
<1>6. ASSUME ExpireScan PROVE Same
  BY <1>6, Zenon DEF ExpireScan, logVars
<1>7. ASSUME NEW j \in Jobs, DispatchFails(j) \/ CancelJob(j) \/ ExpireJob(j)
      PROVE  Same \/ Returned
  <2>1. FinishJob(j, "failed") \/ FinishJob(j, "cancelled")
    BY <1>7, Zenon DEF DispatchFails, CancelJob, ExpireJob
  <2> HIDE DEF Same, Returned
  <2> QED BY <1>2, <2>1, Zenon
<1> HIDE DEF Same, Taken, Returned
<1>8. Same \/ Taken \/ Returned
  BY <1>1, <1>3, <1>4, <1>5, <1>6, <1>7, Zenon DEF JobsNext
<1> QED BY <1>8, Zenon DEF Same, Taken, Returned

LEMMA TypesStep == PayInv /\ JobInv /\ Types /\ [Next]_vars => Types'
<1> SUFFICES ASSUME PayInv, JobInv, Types, [Next]_vars PROVE Types'
  OBVIOUS
<1>0. AccountTypes /\ HandTypes /\ OrderTypes
  BY Zenon DEF Types
<1>1. CASE PaymentStep
  <2>1. PaymentsNext
    BY <1>1, Zenon DEF PaymentStep
  <2>2. OrderTypes'
    BY <1>0, <2>1, OrderStep, Zenon
  <2>3. ASSUME NEW t \in Threads, Purchase(t) PROVE AccountTypes' /\ HandTypes'
    BY <2>3, PurchaseTypes, Zenon
  <2>4. CASE ~\E t \in Threads : Purchase(t) /\ UNCHANGED orderVars
    <3>1. AccountTypes'
      BY <1>0, <2>1, <2>4, QuietSteps, Zenon DEF accountVars, AccountTypes
    <3>2. 0 \in Nat /\ 1 \in Nat
      OBVIOUS
    <3>3. \/ UNCHANGED <<seen, balance>>
          \/ \E t \in Threads :
                \/ Return(t)
                \/ UNCHANGED balance /\ \E n \in {0, 1} : seen' = [seen EXCEPT ![t] = n]
      BY <2>1, <2>4, QuietSteps, Zenon
    <3>4. HandTypes'
      BY <1>0, <3>2, <3>3, ReturnTypes, Zenon DEF HandTypes
    <3> QED BY <2>2, <3>1, <3>4, Zenon DEF Types
  <2> QED BY <2>2, <2>3, <2>4, Zenon DEF Types
<1>2. CASE JobStep
  <2>1. HandTypes' /\ OrderTypes'
    BY <1>0, <1>2, Zenon DEF JobStep, beside, threadVars, orderVars, HandTypes, OrderTypes
  <2>2. UNCHANGED <<vip, lifetime, fulfilled, stale>>
    BY <1>2, Zenon DEF JobStep, beside
  <2>3. UNCHANGED faults \/ (faults < MaxFaults /\ faults' = faults + 1)
    BY <1>2, Zenon DEF JobStep
  <2>4. faults' \in 0 .. MaxFaults
    BY <1>0, <2>3, AccountAssumption DEF AccountTypes
  <2>5. JobsNext \/ \E r \in Runners : RunnerDies(r)
    BY <1>2, Zenon DEF JobStep
  <2>6. \/ credits' = credits \/ (credits >= Cost /\ credits' = credits - Cost)
        \/ credits' = credits + Cost
    BY <2>5, JobBalance, Zenon
  <2>7. credits' \in Nat
    BY <1>0, <2>6, AccountAssumption DEF AccountTypes
  <2>8. AccountTypes'
    BY <1>0, <2>2, <2>4, <2>7, Zenon DEF AccountTypes
  <2> QED BY <2>1, <2>8, Zenon DEF Types
<1>3. CASE UNCHANGED vars
  BY <1>0, <1>3, Zenon
  DEF vars, accountVars, threadVars, orderVars, Types, AccountTypes, HandTypes, OrderTypes
<1> QED BY <1>1, <1>2, <1>3, Zenon DEF Next

(* Every variable keeps its type; the balance is never negative            *)
(* (consume_in_transaction asks before it takes).                          *)
THEOREM TypeCorrect == Spec => []TypeOK
<1>1. PayInv /\ JobInv /\ Types => TypeOK
  BY Zenon DEF PayInv, PayTypes, JobInv, Types, AccountTypes, HandTypes, OrderTypes,
               TypeOK, AccountTypeOK, ThreadTypeOK, OrderTypeOK
<1> QED
  BY <1>1, PayInitially, PayStep, JobsInitially, JobsStep, TypesInitially, TypesStep, PTL
  DEF Spec

-----------------------------------------------------------------------------
(* The account and its log.  Only a lifetime member is topped up, as long  *)
(* as no purchase wrote over a row that had changed.                       *)
Topping == {"topup", "write"}

LogInv ==
    /\ IsFiniteSet(GrantRows) /\ IsFiniteSet(debits) /\ IsFiniteSet(refunds)
    /\ AccountKept
    /\ ~stale => \A t \in Threads : pc[t] \in Topping => lifetime

LEMMA LogInitially == Init => LogInv
<1> SUFFICES ASSUME Init PROVE LogInv
  OBVIOUS
<1>1. /\ credits = Opening /\ vip = 0 /\ debits = {} /\ refunds = {}
      /\ \A o \in Orders : grants[o] = 0
      /\ \A t \in Threads : pc[t] \notin Topping
  BY Zenon DEF Init, AccountInit, Topping
<1>2. GrantRows = {}
  <2>1. \A o \in Orders : {o} \X (1 .. grants[o]) = {}
    BY <1>1
  <2> QED BY <2>1, Zenon DEF GrantRows
<1>3. IsFiniteSet({}) /\ Cardinality({}) = 0
  BY FS_EmptySet, Zenon
<1>4. Logged = Opening + Bonus * 0 - Cost * 0 + Cost * 0
  BY <1>1, <1>2, <1>3, Zenon DEF Logged
<1>5. Logged = Opening
  BY <1>4, AccountAssumption
<1>6. ~\E o \in Orders : grants[o] > 0
  BY <1>1
<1> QED BY <1>1, <1>2, <1>3, <1>5, <1>6, Zenon DEF LogInv, AccountKept

(* A step that writes neither the account nor the log.                     *)
LEMMA LogFrame ==
    ASSUME LogInv, UNCHANGED <<credits, vip, lifetime, grants, stale, debits, refunds>>,
           \A o \in Orders : grants[o] > 0 => plan'[o] = plan[o],
           \A t \in Threads : pc'[t] \in Topping => pc[t] \in Topping \/ lifetime
    PROVE  LogInv'
<1>1. GrantRows' = GrantRows /\ Logged' = Logged
  BY Zenon DEF GrantRows, Logged
<1>2. AccountKept'
  BY <1>1, Zenon DEF LogInv, AccountKept
<1> QED BY <1>1, <1>2, Zenon DEF LogInv

(* An activation adds one row to the log.                                  *)
LEMMA GrantRow ==
    ASSUME PayTypes, NEW o \in Orders, grants' = [grants EXCEPT ![o] = @ + 1],
           IsFiniteSet(GrantRows)
    PROVE  /\ IsFiniteSet(GrantRows')
           /\ Cardinality(GrantRows) \in Nat
           /\ Cardinality(GrantRows') = Cardinality(GrantRows) + 1
<1>1. grants \in [Orders -> Nat] /\ grants[o] \in Nat
  BY Zenon DEF PayTypes
<1>2. 1 .. (grants[o] + 1) = (1 .. grants[o]) \union {grants[o] + 1}
  BY <1>1
<1>3. grants[o] + 1 \notin 1 .. grants[o]
  BY <1>1
<1>4. grants'[o] = grants[o] + 1 /\ \A x \in Orders \ {o} : grants'[x] = grants[x]
  BY <1>1, Zenon
<1> DEFINE row == <<o, grants[o] + 1>>
<1>5. \A x \in Orders : {x} \X (1 .. grants'[x]) =
        ({x} \X (1 .. grants[x])) \union (IF x = o THEN {row} ELSE {})
  BY <1>2, <1>4
<1>6. GrantRows' = GrantRows \union {row}
  BY <1>5 DEF GrantRows
<1>7. row \notin GrantRows
  BY <1>3 DEF GrantRows
<1>8. Cardinality(GrantRows) \in Nat
  BY FS_CardinalityType, Zenon
<1> QED BY <1>6, <1>7, <1>8, FS_AddElement, Zenon

(* A purchase that commits adds the bonus to the balance it found; what it *)
(* found was the balance of the row, or the account is marked stale.       *)
LEMMA CommitLog ==
    ASSUME PayInv, Types, LogInv, NEW t \in Threads, Activate(t) \/ TopUpWrite(t),
           UNCHANGED orderVars
    PROVE  LogInv'
<1> DEFINE o == at[t]
<1>0. /\ PayTypes /\ o \in Orders /\ pc \in [Threads -> Stages]
      /\ vip \in Nat /\ credits \in Nat /\ seen[t] \in Nat /\ balance[t] \in Nat
      /\ lifetime \in BOOLEAN /\ stale \in BOOLEAN /\ plan[o] \in Plans
      /\ grants \in [Orders -> Nat]
  BY InHand, Zenon DEF PayInv, PayTypes, Types, AccountTypes, HandTypes, OrderTypes,
                       Activate, TopUpWrite
<1>1. /\ CommitPurchase(t) /\ UNCHANGED <<debits, refunds, plan>>
      /\ grants' = [grants EXCEPT ![o] = @ + 1]
      /\ pc' = [pc EXCEPT ![t] = "mark"]
  BY Zenon DEF Activate, TopUpWrite, CommitPurchase, Go, logVars, orderVars
<1> DEFINE n == Cardinality(GrantRows)
<1>2. /\ IsFiniteSet(GrantRows') /\ n \in Nat
      /\ Cardinality(GrantRows') = n + 1
  BY <1>0, <1>1, GrantRow, Zenon DEF LogInv
<1>3. /\ IsFiniteSet(debits') /\ IsFiniteSet(refunds')
      /\ Cardinality(debits) \in Nat /\ Cardinality(refunds) \in Nat
  BY <1>1, FS_CardinalityType, Zenon DEF LogInv
<1>4. Logged' = Logged + Bonus
  <2>1. Logged' = Opening + Bonus * (n + 1) - Cost * Cardinality(debits)
                          + Cost * Cardinality(refunds)
    BY <1>1, <1>2, Zenon DEF Logged
  <2>2. Bonus * (n + 1) = Bonus * n + Bonus
    BY <1>2, AccountAssumption
  <2>3. Bonus * n \in Nat /\ Cost * Cardinality(debits) \in Nat
        /\ Cost * Cardinality(refunds) \in Nat
    BY <1>2, <1>3, AccountAssumption
  <2>4. Logged = Opening + Bonus * n - Cost * Cardinality(debits)
                         + Cost * Cardinality(refunds)
    BY Zenon DEF Logged
  <2> HIDE DEF n
  <2> QED BY <2>1, <2>2, <2>3, <2>4, AccountAssumption
<1>5. \A u \in Threads : pc'[u] \in Topping => u # t /\ pc'[u] = pc[u]
  BY <1>0, <1>1, Zenon DEF Topping
<1>6. grants'[o] = grants[o] + 1 /\ \A x \in Orders \ {o} : grants'[x] = grants[x]
  BY <1>0, <1>1, Zenon
<1>7. CASE Activate(t) /\ plan[o] = "life"
  <2>1. lifetime' = TRUE /\ stale' = stale /\ credits' = credits + Bonus
    BY <1>7, Zenon DEF Activate
  <2>2. ~stale => credits' = Logged'
    BY <1>4, <2>1, Zenon DEF LogInv, AccountKept
  <2> QED BY <1>2, <1>3, <2>1, <2>2, Zenon DEF LogInv, AccountKept
<1>8. CASE Activate(t) /\ plan[o] # "life"
  <2>1. /\ lifetime' = FALSE /\ vip' = seen[t] + 1 /\ credits' = credits + Bonus
        /\ stale' = (stale \/ lifetime \/ vip # seen[t])
    BY <1>8, Zenon DEF Activate
  <2>2. ASSUME ~stale'
        PROVE  /\ credits' = Logged' /\ vip' = n + 1
               /\ ~\E x \in Orders : plan'[x] = "life" /\ grants'[x] > 0
               /\ \A u \in Threads : pc'[u] \notin Topping
    <3>1. ~stale /\ ~lifetime /\ vip = seen[t]
      BY <2>1, <2>2, Zenon
    <3>2. /\ credits = Logged /\ vip = n
          /\ ~\E x \in Orders : plan[x] = "life" /\ grants[x] > 0
          /\ \A u \in Threads : pc[u] \notin Topping
      BY <3>1, Zenon DEF LogInv, AccountKept
    <3>3. credits' = Logged' /\ vip' = n + 1
      BY <1>4, <2>1, <3>1, <3>2, Zenon
    <3>4. ASSUME NEW x \in Orders, plan'[x] = "life", grants'[x] > 0 PROVE FALSE
      <4>1. plan[x] = "life"
        BY <1>1, <3>4, Zenon
      <4>2. x # o
        BY <1>8, <4>1, Zenon
      <4>3. grants'[x] = grants[x]
        BY <1>6, <4>2, Zenon
      <4> QED BY <3>2, <3>4, <4>1, <4>3, Zenon
    <3>5. \A u \in Threads : pc'[u] \notin Topping
      BY <1>5, <3>2, Zenon
    <3> QED BY <3>3, <3>4, <3>5, Zenon
  <2> HIDE DEF n
  <2> QED BY <1>2, <1>3, <2>2, Zenon DEF LogInv, AccountKept
<1>9. CASE TopUpWrite(t)
  <2>1. /\ credits' = balance[t] + Bonus /\ UNCHANGED <<vip, lifetime>>
        /\ stale' = (stale \/ credits # balance[t]) /\ pc[t] \in Topping
    BY <1>9, Zenon DEF TopUpWrite, Topping
  <2>2. ASSUME ~stale' PROVE lifetime' /\ credits' = Logged'
    <3>1. ~stale /\ credits = balance[t]
      BY <2>1, <2>2, Zenon
    <3>2. lifetime /\ credits = Logged
      BY <2>1, <3>1, Zenon DEF LogInv, AccountKept
    <3> QED BY <1>4, <2>1, <3>1, <3>2, Zenon
  <2> QED BY <1>2, <1>3, <2>2, Zenon DEF LogInv, AccountKept
<1> QED BY <1>7, <1>8, <1>9, Zenon

LEMMA PaymentLog ==
    ASSUME PayInv, Types, LogInv, PaymentsNext
    PROVE  LogInv'
<1>0. pc \in [Threads -> Stages] /\ grants \in [Orders -> Nat]
  BY Zenon DEF PayInv, PayTypes
<1>1. \A o \in Orders : grants[o] > 0 => plan'[o] = plan[o]
  <2>1. \A o \in Orders : grants[o] # 0 => plan'[o] = plan[o]
    BY OrderStep, Zenon DEF Types
  <2>2. \A o \in Orders : grants[o] > 0 => grants[o] # 0
    BY <1>0
  <2> QED BY <2>1, <2>2, Zenon
<1>2. ASSUME NEW t \in Threads, Purchase(t), UNCHANGED orderVars PROVE LogInv'
  <2>1. CASE Activate(t) \/ TopUpWrite(t)
    BY <1>2, <2>1, CommitLog, Zenon
  <2>2. CASE BeginPurchase(t) \/ TopUpRead(t) \/ Abort(t)
    <3>1. UNCHANGED <<credits, vip, lifetime, grants, stale, debits, refunds>>
      BY <2>2, Zenon DEF BeginPurchase, TopUpRead, Abort, accountVars, logVars
    <3>2. pc'[t] \in Topping => pc[t] \in Topping \/ lifetime
      BY <1>0, <2>2, Zenon DEF BeginPurchase, TopUpRead, Abort, Return, Go, Topping
    <3>3. \A u \in Threads \ {t} : pc'[u] = pc[u]
      BY <1>0, <2>2, Zenon DEF BeginPurchase, TopUpRead, Abort, Return, Go
    <3> QED BY <1>1, <3>1, <3>2, <3>3, LogFrame, Zenon
  <2> QED BY <1>2, <2>1, <2>2, Zenon DEF Purchase
<1>3. CASE ~\E t \in Threads : Purchase(t) /\ UNCHANGED orderVars
  <2>1. UNCHANGED <<credits, vip, lifetime, grants, stale, debits, refunds>>
    BY <1>3, QuietSteps, Zenon DEF accountVars, logVars
  <2>2. Topping \subseteq Inside
    BY Zenon DEF Topping, Inside
  <2>3. \A t \in Threads : pc'[t] \in Topping => pc[t] \in Topping
    BY <1>0, <1>3, <2>2, QuietSteps, Zenon
  <2> QED BY <1>1, <2>1, <2>3, LogFrame, Zenon
<1> QED BY <1>2, <1>3, Zenon

LEMMA JobLog ==
    ASSUME JobInv, Types, LogInv, JobStep
    PROVE  LogInv'
<1>0. UNCHANGED <<vip, lifetime, grants, stale, pc, plan>>
  BY Zenon DEF JobStep, beside, threadVars, orderVars
<1>1. /\ GrantRows' = GrantRows /\ Cardinality(GrantRows) \in Nat
      /\ Cardinality(debits) \in Nat /\ Cardinality(refunds) \in Nat
      /\ IsFiniteSet(GrantRows) /\ IsFiniteSet(debits) /\ IsFiniteSet(refunds)
  BY <1>0, FS_CardinalityType, Zenon DEF GrantRows, LogInv
<1>2. credits \in Nat
  BY Zenon DEF Types, AccountTypes
<1>3. JobsNext \/ \E r \in Runners : RunnerDies(r)
  BY Zenon DEF JobStep
<1>4. ASSUME IsFiniteSet(debits'), IsFiniteSet(refunds'), credits = Logged => credits' = Logged'
      PROVE  LogInv'
  <2>1. AccountKept'
    BY <1>0, <1>1, <1>4, Zenon DEF LogInv, AccountKept
  <2> QED BY <1>0, <1>1, <1>4, <2>1, Zenon DEF LogInv
<1> DEFINE a == Bonus * Cardinality(GrantRows)
           d == Cardinality(debits)
           r == Cardinality(refunds)
<1>5. Logged = Opening + a - Cost * d + Cost * r
  BY Zenon DEF Logged
<1>6. Logged' = Opening + a - Cost * Cardinality(debits') + Cost * Cardinality(refunds')
  BY <1>1, Zenon DEF Logged
<1>7. /\ a \in Nat /\ Cost * d \in Nat /\ Cost * r \in Nat
      /\ Cost * (d + 1) = Cost * d + Cost /\ Cost * (r + 1) = Cost * r + Cost
  BY <1>1, AccountAssumption
<1>8. CASE UNCHANGED <<credits, debits, refunds>>
  BY <1>1, <1>4, <1>5, <1>6, <1>8, Zenon
<1>9. ASSUME NEW j \in Jobs \ debits, credits' = credits - Cost,
             debits' = debits \union {j}, UNCHANGED refunds
      PROVE  LogInv'
  <2>1. IsFiniteSet(debits') /\ Cardinality(debits') = d + 1
    BY <1>1, <1>9, FS_AddElement, Zenon
  <2>2. Logged' = Opening + a - Cost * (d + 1) + Cost * r
    BY <1>6, <1>9, <2>1, Zenon
  <2>3. Logged' = Logged - Cost
    <3> HIDE DEF a, d, r
    <3> QED BY <1>5, <1>7, <2>2, AccountAssumption
  <2> QED BY <1>1, <1>4, <1>9, <2>1, <2>3, Zenon
<1>10. ASSUME NEW j \in Jobs \ refunds, credits' = credits + Cost,
              refunds' = refunds \union {j}, UNCHANGED debits
       PROVE  LogInv'
  <2>1. IsFiniteSet(refunds') /\ Cardinality(refunds') = r + 1
    BY <1>1, <1>10, FS_AddElement, Zenon
  <2>2. Logged' = Opening + a - Cost * d + Cost * (r + 1)
    BY <1>6, <1>10, <2>1, Zenon
  <2>3. Logged' = Logged + Cost
    <3> HIDE DEF a, d, r
    <3> QED BY <1>5, <1>7, <2>2, AccountAssumption
  <2> QED BY <1>1, <1>4, <1>10, <2>1, <2>3, Zenon
<1> QED BY <1>3, <1>8, <1>9, <1>10, JobBalance, Zenon

LEMMA LogStep == PayInv /\ JobInv /\ Types /\ LogInv /\ [Next]_vars => LogInv'
<1> SUFFICES ASSUME PayInv, JobInv, Types, LogInv, [Next]_vars PROVE LogInv'
  OBVIOUS
<1>1. CASE PaymentStep
  BY <1>1, PaymentLog, Zenon DEF PaymentStep
<1>2. CASE JobStep
  BY <1>2, JobLog, Zenon
<1>3. CASE UNCHANGED vars
  BY <1>3, LogFrame, Zenon DEF vars, accountVars, logVars, threadVars, orderVars
<1> QED BY <1>1, <1>2, <1>3, Zenon DEF Next

(* The balance is what the log adds up to, a lifetime stays and a term is  *)
(* added for each one sold, unless a purchase wrote over a row that had    *)
(* changed since it read it (AccountKept).                                 *)
THEOREM AccountAgreesWithLog == Spec => []AccountKept
<1>1. LogInv => AccountKept
  BY Zenon DEF LogInv
<1> QED
  BY <1>1, PayInitially, PayStep, JobsInitially, JobsStep, TypesInitially, TypesStep,
     LogInitially, LogStep, PTL DEF Spec
=============================================================================
