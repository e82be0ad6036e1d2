------------------------------- MODULE Billing -------------------------------
(***************************************************************************)
(* Payments and agent jobs on the account of one user: every purchase adds *)
(* credits to the row that every job takes them from.                      *)
(***************************************************************************)
EXTENDS Payments, AgentJobs

CONSTANTS
    MaxItems   \* the number of orders and jobs the user starts

vars == <<accountVars, logVars, threadVars, orderVars, jobVars, faults>>

Init == AccountInit /\ PaymentsInit /\ JobsInit

Items == Cardinality({o \in Orders : status[o] # "none"})
         + Cardinality({j \in Jobs : job[j] # "none"})

(* What the jobs leave alone: all of the payments but the balance. *)
beside == <<vip, lifetime, fulfilled, grants, stale, threadVars, orderVars>>

PaymentStep == PaymentsNext /\ UNCHANGED jobVars

JobStep ==
    /\ \/ JobsNext /\ UNCHANGED faults
       \/ /\ faults < MaxFaults
          /\ faults' = faults + 1
          /\ \E r \in Runners : RunnerDies(r)
    /\ UNCHANGED beside

Next == (PaymentStep \/ JobStep) /\ Items' <= MaxItems

Spec == Init /\ [][Next]_vars

(* What happens by itself once it can: windows and timeouts end, Stripe    *)
(* repeats a report until it is answered, a request under way and an open  *)
(* transaction end, and the expiry task is periodic.                       *)
Given ==
    \/ /\ \/ \E o \in Orders : WindowCloses(o) \/ HookRead(o)
          \/ HookMark \/ ManualStamp \/ ManualDone
          \/ (\E t \in Threads : Purchase(t)) /\ UNCHANGED orderVars
       /\ UNCHANGED jobVars
    \/ /\ ExpireScan \/ \E j \in Jobs : TimeoutPasses(j) \/ ExpireJob(j)
       /\ UNCHANGED <<beside, faults>>

(* The order worker ticks.  The buyer, the administrator, the order page,  *)
(* the explorer and the runners may stop at any time.                      *)
Fairness ==
    WF_vars(Reconcile("worker") /\ UNCHANGED jobVars) /\ WF_vars(Given)

FairSpec == Spec /\ Fairness

-----------------------------------------------------------------------------
AccountTypeOK ==
    /\ credits \in Nat /\ vip \in Nat
    /\ lifetime \in BOOLEAN /\ stale \in BOOLEAN
    /\ fulfilled \subseteq {"manual_usdt", "stripe_session", "usdt_order"} \X Orders
    /\ grants \in [Orders -> Nat]
    /\ faults \in 0 .. MaxFaults

ThreadTypeOK ==
    /\ pc \in [Threads -> Stages]
    /\ at \in [Threads -> Orders \union {0}]
    /\ seen \in [Threads -> Nat] /\ balance \in [Threads -> Nat]

OrderTypeOK ==
    /\ plan \in [Orders -> Plans]
    /\ status \in [Orders -> {"none", "pending", "paid", "confirmed",
                               "expired", "failed"}]
    /\ amount \in [Orders -> Amounts \union {0}]
    /\ landed \in [Orders -> BOOLEAN] /\ due \in [Orders -> BOOLEAN]
    /\ session \in [Orders -> {"none", "asked", "refused", "open",
                                "completed", "expired"}]
    /\ byHand \subseteq Orders

JobTypeOK ==
    /\ debits \subseteq Jobs /\ refunds \subseteq Jobs
    /\ job \in [Jobs -> {"none"} \union Active \union Ended]
    /\ progress \in [Jobs -> {"none", "running"} \union Ended]
    /\ sent \subseteq Jobs /\ old \subseteq Jobs /\ picked \subseteq Jobs
    /\ hand \in [Runners -> Jobs \union {0}]
    /\ stage \in [Runners -> {"idle", "took", "publish", "run"}]

(* The types of the state; the balance is never negative. *)
TypeOK == AccountTypeOK /\ ThreadTypeOK /\ OrderTypeOK /\ JobTypeOK

(* A payment is fulfilled once: whatever the worker, the order page and    *)
(* the webhook do at the same time or after a crash, an order that nobody  *)
(* confirmed by hand activates the membership at most once, and is closed  *)
(* (confirmed, or paid for Stripe) only when it has.                       *)
FulfilledOnce ==
    \A o \in Orders \ byHand :
        /\ grants[o] <= 1
        /\ status[o] = "confirmed" \/ (status[o] = "paid" /\ ~Crypto(o))
              => grants[o] = 1

(* "Calls purchase_membership exactly once per order", the manual          *)
(* confirmation included.                                                  *)
OneActivation == \A o \in Orders : grants[o] <= 1

(* The account agrees with its log: the balance is what the log adds up    *)
(* to, a term was added for every term sold, and a lifetime membership     *)
(* stays, unless a purchase wrote over a row that had changed since it     *)
(* read it.                                                                *)
AccountKept ==
    ~stale =>
        /\ credits = Logged
        /\ (\E o \in Orders : plan[o] = "life" /\ grants[o] > 0) => lifetime
        /\ ~lifetime => vip = Cardinality(GrantRows)

(* A lifetime membership is never taken away by a purchase. *)
LifetimeKept == [][lifetime => lifetime']_vars

(* A job is paid for when it succeeds and refunded once when it does not,  *)
(* whatever raced: runner, cancellation, expiry, failed dispatch.  The     *)
(* progress an ended job shows is its outcome, not a late report.          *)
JobsPaidFor ==
    \A j \in Jobs :
        /\ (j \in debits) = (job[j] # "none")
        /\ (j \in refunds) = (job[j] \in {"failed", "cancelled"})
        /\ job[j] \in Ended => progress[j] = job[j]

(* Every crypto order ends confirmed or expired, every completed checkout  *)
(* paid, and every job succeeded, failed or cancelled.                     *)
Settled ==
    /\ \A o \in Orders : Crypto(o) => status[o] \in {"confirmed", "expired"}
    /\ \A o \in Orders : session[o] = "completed" => status[o] = "paid"
    /\ \A j \in Jobs : job[j] \notin Active

BillingSettles == <>[]Settled
=============================================================================
