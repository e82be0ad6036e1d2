----------------------------- MODULE UserAccount -----------------------------
(***************************************************************************)
(* The account of one user: the qd_users row (credits and membership), the *)
(* credits log and the table of fulfilled payments, with the transactions  *)
(* of billing_service.py on them.                                          *)
(*                                                                         *)
(* A transaction is one step from the moment it holds the lock of the user *)
(* row, because nobody else changes the row until it commits.  What a      *)
(* transaction read BEFORE it took that lock is a snapshot in the hand of  *)
(* the thread and may be stale when it is used: purchase_membership reads  *)
(* the membership without a lock, and _add_credits_in_tx reads the balance *)
(* without a lock when a lifetime member tops up.                          *)
(***************************************************************************)
EXTENDS Integers, FiniteSets

CONSTANTS
    Orders,    \* the ids of payment orders
    Jobs,      \* the ids of billed agent jobs
    Threads,   \* what may be inside purchase_membership at the same time
    Opening,   \* the credits of the account at the start
    Bonus,     \* the credits a plan grants (credits_once, credits_monthly)
    Cost,      \* what one job costs
    MaxBusy,   \* the number of threads that work at the same time
    MaxFaults  \* the number of crashes and failed transactions

ASSUME AccountAssumption ==
    /\ Opening \in Nat /\ Bonus \in Nat /\ Cost \in Nat \ {0}
    /\ MaxBusy \in Nat \ {0} /\ MaxFaults \in Nat

VARIABLES
    credits,    \* qd_users.credits
    vip,        \* qd_users.vip_expires_at, in plan terms from now
    lifetime,   \* qd_users.vip_is_lifetime
    fulfilled,  \* the committed rows of qd_membership_fulfillments
    grants,     \* how often an order activated the membership (log rows)
    debits,     \* the jobs with a consume row in qd_credits_log
    refunds,    \* the jobs with a refund row in qd_credits_log
    plan,       \* the plan of an order: a term or a lifetime
    pc,         \* where a thread is
    at,         \* the order a thread works on, 0 for none
    seen,       \* the expiry a purchase read before its first lock; before
                \* that, 1 when a refresh read the order past its window or
                \* the administrator read it confirmed
    balance,    \* the credits a top-up read without a lock
    stale,      \* history: a purchase wrote over a row that had changed
    faults

accountVars == <<credits, vip, lifetime, fulfilled, grants, stale>>
logVars == <<debits, refunds>>
threadVars == <<pc, at, seen, balance>>

Plans == {"term", "life"}

(* now + 100 years: further than any number of terms these orders can buy. *)
Century == 100

(* The stages of a thread inside purchase_membership. *)
Inside == {"activate", "topup", "write"}
Stages == Inside \union
          {"idle", "watch", "found", "lapse", "check", "stamp", "buy", "mark"}

(* provider_ref: the crypto reconcilers, the Stripe webhook and the manual *)
(* confirmation each build their own.                                      *)
Ref(t, o) == IF t = "admin" THEN <<"manual_usdt", o>>
             ELSE IF t = "hook" THEN <<"stripe_session", o>>
             ELSE <<"usdt_order", o>>

Go(t, stage) == pc' = [pc EXCEPT ![t] = stage]

(* A thread begins a call for an order. *)
Begin(t, o, first) ==
    /\ pc[t] = "idle"
    /\ Cardinality({u \in Threads : pc[u] # "idle"}) < MaxBusy
    /\ Go(t, first)
    /\ at' = [at EXCEPT ![t] = o]

(* A thread ends its call and forgets what it had in hand. *)
Return(t) ==
    /\ Go(t, "idle")
    /\ at' = [at EXCEPT ![t] = 0]
    /\ seen' = [seen EXCEPT ![t] = 0]
    /\ balance' = [balance EXCEPT ![t] = 0]

AccountInit ==
    /\ credits = Opening
    /\ vip = 0
    /\ lifetime \in BOOLEAN
    /\ fulfilled = {}
    /\ grants = [o \in Orders |-> 0]
    /\ debits = {} /\ refunds = {}
    /\ pc = [t \in Threads |-> "idle"]
    /\ at = [t \in Threads |-> 0]
    /\ seen = [t \in Threads |-> 0]
    /\ balance = [t \in Threads |-> 0]
    /\ stale = FALSE
    /\ faults = 0

(* Mutant: the fulfilment row is written without looking for a conflict. *)
BeginPurchase_Unchecked(t) ==
    /\ pc[t] = "buy"
    /\ Go(t, IF lifetime /\ plan[at[t]] = "term" THEN "topup" ELSE "activate")
    /\ seen' = [seen EXCEPT ![t] = vip]
    /\ UNCHANGED <<accountVars, logVars, at, balance, faults>>

(* purchase_membership, first half: INSERT of the fulfilment, which waits  *)
(* for an uncommitted row of the same reference and reports a committed    *)
(* one, then the SELECT of the membership.  A lifetime member who buys a   *)
(* term keeps the membership and only tops up.                             *)
BeginPurchase(t) ==
    LET ref == Ref(t, at[t]) IN
    /\ pc[t] = "buy"
    /\ \A u \in Threads \ {t} :
          pc[u] \in Inside => Ref(u, at[u]) # ref
    /\ IF ref \in fulfilled
         THEN Go(t, "mark") /\ UNCHANGED seen
         ELSE /\ Go(t, IF lifetime /\ plan[at[t]] = "term"
                         THEN "topup" ELSE "activate")
              /\ seen' = [seen EXCEPT ![t] = vip]
    /\ UNCHANGED <<accountVars, logVars, at, balance, faults>>

(* COMMIT of a purchase: the fulfilment and the credit grant. *)
CommitPurchase(t) ==
    /\ fulfilled' = fulfilled \union {Ref(t, at[t])}
    /\ grants' = [grants EXCEPT ![at[t]] = @ + 1]
    /\ Go(t, "mark")
    /\ seen' = [seen EXCEPT ![t] = 0]
    /\ balance' = [balance EXCEPT ![t] = 0]
    /\ UNCHANGED <<logVars, at, faults>>

(* Mutant: a term starts now, not at the end of the current one. *)
Activate_Unstacked(t) ==
    /\ pc[t] = "activate"
    /\ IF plan[at[t]] = "life"
         THEN vip' = Century /\ lifetime' = TRUE /\ UNCHANGED stale
         ELSE /\ vip' = 1
              /\ lifetime' = FALSE
              /\ stale' = (stale \/ lifetime \/ vip # seen[t])
    /\ credits' = credits + Bonus
    /\ CommitPurchase(t)

(* purchase_membership, second half: the UPDATE of the membership takes    *)
(* the row lock, so the balance is read and written under it.              *)
Activate(t) ==
    /\ pc[t] = "activate"
    /\ IF plan[at[t]] = "life"
         THEN vip' = Century /\ lifetime' = TRUE /\ UNCHANGED stale
         ELSE /\ vip' = seen[t] + 1
              /\ lifetime' = FALSE
              /\ stale' = (stale \/ lifetime \/ vip # seen[t])
    /\ credits' = credits + Bonus
    /\ CommitPurchase(t)

(* The top-up of a lifetime member: _add_credits_in_tx reads the balance   *)
(* and writes the sum back; no statement before it locked the row.         *)
TopUpRead(t) ==
    /\ pc[t] = "topup"
    /\ balance' = [balance EXCEPT ![t] = credits]
    /\ Go(t, "write")
    /\ UNCHANGED <<accountVars, logVars, at, seen, faults>>

TopUpWrite(t) ==
    /\ pc[t] = "write"
    /\ credits' = balance[t] + Bonus
    /\ stale' = (stale \/ credits # balance[t])
    /\ CommitPurchase(t)
    /\ UNCHANGED <<vip, lifetime>>

(* The transaction fails and is rolled back, so purchase_membership        *)
(* returns False and its caller gives up; or the process dies before or    *)
(* after the purchase.  A thread that dies earlier has written nothing.    *)
Abort(t) ==
    /\ pc[t] \in Inside \union {"buy", "mark"}
    /\ faults < MaxFaults
    /\ faults' = faults + 1
    /\ Return(t)
    /\ UNCHANGED <<accountVars, logVars>>

Purchase(t) ==
    \/ BeginPurchase(t)
    \/ Activate(t)
    \/ TopUpRead(t)
    \/ TopUpWrite(t)
    \/ Abort(t)

(* Mutant: the debit does not ask whether the balance covers it. *)
Consume_Uncovered(j) ==
    /\ IF j \in debits
         THEN UNCHANGED <<credits, debits>>
         ELSE credits' = credits - Cost /\ debits' = debits \union {j}
    /\ UNCHANGED refunds

(* consume_in_transaction for the reference of a job: one debit per        *)
(* reference, and none that the balance does not cover.                    *)
Consume(j) ==
    /\ IF j \in debits
         THEN UNCHANGED <<credits, debits>>
         ELSE /\ credits >= Cost
              /\ credits' = credits - Cost
              /\ debits' = debits \union {j}
    /\ UNCHANGED refunds

(* refund_in_transaction: only a recorded debit, and only once. *)
Refund(j) ==
    /\ j \in debits
    /\ credits' = IF j \in refunds THEN credits ELSE credits + Cost
    /\ refunds' = refunds \union {j}
    /\ UNCHANGED debits

(* The rows of the credits log that grant credits: one per activation. *)
GrantRows == UNION {{o} \X (1 .. grants[o]) : o \in Orders}

(* What the log says the balance should be. *)
Logged == Opening + Bonus * Cardinality(GrantRows)
                  - Cost * Cardinality(debits) + Cost * Cardinality(refunds)
=============================================================================
