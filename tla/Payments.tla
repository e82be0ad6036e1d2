------------------------------ MODULE Payments -------------------------------
(***************************************************************************)
(* Payment orders of one user: crypto orders, matched by their exact       *)
(* amount on the chain, and Stripe checkouts.  Four threads fulfil them:   *)
(* the order worker, the buyer's order page, the Stripe webhook and an     *)
(* administrator who confirms an order by hand.  Between reading an order  *)
(* and writing it every one of them calls out (the chain explorer, or      *)
(* purchase_membership with its own transaction), so the order may have    *)
(* changed when it is written.                                             *)
(*                                                                         *)
(* The probe and the insert of create_order are one step: two requests for *)
(* the same plan at the same moment are left out.                          *)
(***************************************************************************)
EXTENDS UserAccount

CONSTANTS
    Amounts    \* the amounts (price plus suffix) that orders can be given

ASSUME PaymentAssumption ==
    /\ Threads = {"worker", "page", "admin", "hook"}
    /\ Orders \subseteq Nat \ {0} /\ 0 \notin Amounts

VARIABLES
    status,    \* qd_usdt_orders.status, qd_stripe_orders.status
    amount,    \* the amount of a crypto order, 0 for a Stripe order
    landed,    \* a transfer of this order's amount followed its creation
    due,       \* the payment window of a pending crypto order is over
    session,   \* what Stripe did with the session of the order
    byHand     \* matched_via = 'manual_admin'

orderVars == <<plan, status, amount, landed, due, session, byHand>>

Reconcilers == {"worker", "page"}
Crypto(o) == amount[o] # 0
Live == {"pending", "paid"}    \* the partial unique index on the amount

PaymentsInit ==
    /\ plan = [o \in Orders |-> "term"]
    /\ status = [o \in Orders |-> "none"]
    /\ amount = [o \in Orders |-> 0]
    /\ landed = [o \in Orders |-> FALSE]
    /\ due = [o \in Orders |-> FALSE]
    /\ session = [o \in Orders |-> "none"]
    /\ byHand = {}

(* The ids are serial. *)
NextId(o) == status[o] = "none" /\ \A x \in 1 .. o - 1 : status[x] # "none"

(* A status is written.  Only a pending order is asked for its window.     *)
Set(o, s) ==
    /\ status' = [status EXCEPT ![o] = s]
    /\ due' = [due EXCEPT ![o] = FALSE]

(* An amount no live order holds: the insert of another one violates the   *)
(* unique index and is tried again with another suffix.                    *)
FreeAmount(a) == \A o \in Orders : amount[o] = a => status[o] \notin Live

(* create_order: the open order of the same plan is returned unchanged; a  *)
(* new one gets an amount that no live order holds.                        *)
CreateOrder(o, p, a) ==
    /\ NextId(o)
    /\ \A x \in Orders : Crypto(x) /\ plan[x] = p
                            => status[x] # "pending" \/ due[x]
    /\ FreeAmount(a)
    /\ Set(o, "pending")
    /\ plan' = [plan EXCEPT ![o] = p]
    /\ amount' = [amount EXCEPT ![o] = a]
    /\ UNCHANGED <<accountVars, logVars, threadVars, landed, session,
                   byHand, faults>>

(* The payment window of a pending order closes. *)
WindowCloses(o) ==
    /\ Crypto(o) /\ status[o] = "pending" /\ ~due[o]
    /\ due' = [due EXCEPT ![o] = TRUE]
    /\ UNCHANGED <<accountVars, logVars, threadVars, plan, status, amount,
                   landed, session, byHand, faults>>

(* The buyer pays an order that is open or has lapsed.  The explorer will  *)
(* show the transfer to every order of that amount created before it.      *)
Transfer(o) ==
    /\ Crypto(o) /\ status[o] \in {"pending", "expired"} /\ ~landed[o]
    /\ landed' = [x \in Orders |-> landed[x] \/ amount[x] = amount[o]]
    /\ UNCHANGED <<accountVars, logVars, threadVars, plan, status, amount,
                   due, session, byHand, faults>>

(* The worker scans pending and paid orders, the order page refreshes the  *)
(* order it shows, an expired one included.  A paid order goes on to its   *)
(* confirmation, the others to the explorer.  (A paid order whose          *)
(* confirmation delay is not over is simply read again later.)             *)
LoadOrder(t, o) ==
    /\ t \in Reconcilers
    /\ Crypto(o)
    /\ status[o] \in Live \/ (t = "page" /\ status[o] = "expired")
    /\ Begin(t, o, IF status[o] = "paid" THEN "check" ELSE "watch")
    /\ seen' = [seen EXCEPT ![t] =
                   IF status[o] = "pending" /\ due[o] THEN 1 ELSE 0]
    /\ UNCHANGED <<accountVars, logVars, orderVars, balance, faults>>

(* find_incoming: a transfer that has landed is found, or the explorer     *)
(* does not show it (yet) or does not answer.  Without one an order that   *)
(* was pending with its window closed when it was loaded lapses.           *)
Watch(t) ==
    /\ t \in Reconcilers /\ pc[t] = "watch"
    /\ \/ /\ landed[at[t]]
          /\ Go(t, "found")
          /\ seen' = [seen EXCEPT ![t] = 0]
          /\ UNCHANGED <<at, balance>>
       \/ IF seen[t] = 1
            THEN Go(t, "lapse") /\ UNCHANGED <<at, seen, balance>>
            ELSE Return(t)
    /\ UNCHANGED <<accountVars, logVars, orderVars, faults>>

(* The UPDATE to paid, from pending or expired.  A lapsed order cannot     *)
(* come back while a live order holds its amount: the UPDATE fails and the *)
(* refresh ends.  A transfer that is old enough is confirmed at once.      *)
MarkPaid(t) ==
    LET o == at[t] IN
    /\ t \in Reconcilers /\ pc[t] = "found"
    /\ IF status[o] = "expired" /\ ~FreeAmount(amount[o])
         THEN Return(t) /\ UNCHANGED <<status, due>>
         ELSE /\ IF status[o] \in {"pending", "expired"}
                   THEN Set(o, "paid") ELSE UNCHANGED <<status, due>>
              /\ \/ Return(t)
                 \/ Go(t, "check") /\ UNCHANGED <<at, seen, balance>>
    /\ UNCHANGED <<accountVars, logVars, plan, amount, landed, session,
                   byHand, faults>>

(* The UPDATE to expired, from pending only. *)
MarkExpired(t) ==
    LET o == at[t] IN
    /\ t \in Reconcilers /\ pc[t] = "lapse"
    /\ IF status[o] = "pending" THEN Set(o, "expired")
                              ELSE UNCHANGED <<status, due>>
    /\ Return(t)
    /\ UNCHANGED <<accountVars, logVars, plan, amount, landed, session,
                   byHand, faults>>

(* _confirm_and_activate reads the status again before it buys. *)
CheckConfirmed(t) ==
    /\ t \in Reconcilers /\ pc[t] = "check"
    /\ IF status[at[t]] = "confirmed"
         THEN Return(t)
         ELSE Go(t, "buy") /\ UNCHANGED <<at, seen, balance>>
    /\ UNCHANGED <<accountVars, logVars, orderVars, faults>>

(* ... and marks the order after the purchase. *)
MarkConfirmed(t) ==
    LET o == at[t] IN
    /\ t \in Reconcilers /\ pc[t] = "mark"
    /\ IF status[o] \in Live THEN Set(o, "confirmed")
                            ELSE UNCHANGED <<status, due>>
    /\ Return(t)
    /\ UNCHANGED <<accountVars, logVars, plan, amount, landed, session,
                   byHand, faults>>

(* manual_confirm_order reads the order, ...  (A further call for an order *)
(* that was confirmed by hand already changes nothing and is left out.)    *)
ManualRead(o) ==
    /\ Crypto(o) /\ status[o] # "none" /\ o \notin byHand
    /\ Begin("admin", o, "stamp")
    /\ seen' = [seen EXCEPT !["admin"] =
                   IF status[o] = "confirmed" THEN 1 ELSE 0]
    /\ UNCHANGED <<accountVars, logVars, orderVars, balance, faults>>

(* ... stamps it confirmed, whatever it has become, and then buys, unless  *)
(* the order was confirmed when it was read.                               *)
ManualStamp ==
    LET o == at["admin"] IN
    /\ pc["admin"] = "stamp"
    /\ Set(o, "confirmed")
    /\ byHand' = byHand \union {o}
    /\ IF seen["admin"] = 1
         THEN Return("admin")
         ELSE Go("admin", "buy") /\ UNCHANGED <<at, seen, balance>>
    /\ UNCHANGED <<accountVars, logVars, plan, amount, landed, session,
                   faults>>

ManualDone ==
    /\ pc["admin"] = "mark"
    /\ Return("admin")
    /\ UNCHANGED <<accountVars, logVars, orderVars, faults>>

(* create_checkout inserts the order before it asks Stripe for a session.  *)
CreateCheckout(o, p) ==
    /\ NextId(o)
    /\ Set(o, "pending")
    /\ plan' = [plan EXCEPT ![o] = p]
    /\ session' = [session EXCEPT ![o] = "asked"]
    /\ UNCHANGED <<accountVars, logVars, threadVars, amount, landed, byHand,
                   faults>>

(* Stripe answers with a session, or the call fails and so does the order. *)
CheckoutAnswered(o) ==
    /\ session[o] = "asked"
    /\ \/ /\ session' = [session EXCEPT ![o] = "open"]
          /\ UNCHANGED <<status, due>>
       \/ /\ session' = [session EXCEPT ![o] = "refused"]
          /\ Set(o, "failed")
    /\ UNCHANGED <<accountVars, logVars, threadVars, plan, amount, landed,
                   byHand, faults>>

(* The buyer pays, or the session expires: Stripe reports it until the     *)
(* webhook answers 200, and may report it again later.                     *)
SessionEnds(o) ==
    /\ session[o] = "open"
    /\ \E s \in {"completed", "expired"} : session' = [session EXCEPT ![o] = s]
    /\ UNCHANGED <<accountVars, logVars, threadVars, plan, status, amount,
                   landed, due, byHand, faults>>

(* checkout.session.expired *)
HookExpired(o) ==
    /\ session[o] = "expired" /\ status[o] = "pending"
    /\ Set(o, "expired")
    /\ UNCHANGED <<accountVars, logVars, threadVars, plan, amount, landed,
                   session, byHand, faults>>

(* checkout.session.completed: an order that is paid already is done.      *)
HookRead(o) ==
    /\ session[o] = "completed" /\ status[o] # "paid"
    /\ Begin("hook", o, "buy")
    /\ UNCHANGED <<accountVars, logVars, orderVars, seen, balance, faults>>

HookMark ==
    /\ pc["hook"] = "mark"
    /\ Set(at["hook"], "paid")
    /\ Return("hook")
    /\ UNCHANGED <<accountVars, logVars, plan, amount, landed, session,
                   byHand, faults>>

Reconcile(t) ==
    \/ \E o \in Orders : LoadOrder(t, o)
    \/ Watch(t)
    \/ MarkPaid(t)
    \/ MarkExpired(t)
    \/ CheckConfirmed(t)
    \/ MarkConfirmed(t)

PaymentsNext ==
    \/ \E o \in Orders, p \in Plans, a \in Amounts : CreateOrder(o, p, a)
    \/ \E o \in Orders : WindowCloses(o)
    \/ \E o \in Orders : Transfer(o)
    \/ \E t \in Reconcilers : Reconcile(t)
    \/ \E o \in Orders : ManualRead(o)
    \/ ManualStamp
    \/ ManualDone
    \/ \E o \in Orders, p \in Plans : CreateCheckout(o, p)
    \/ \E o \in Orders : CheckoutAnswered(o)
    \/ \E o \in Orders : SessionEnds(o)
    \/ \E o \in Orders : HookExpired(o)
    \/ \E o \in Orders : HookRead(o)
    \/ HookMark
    \/ \E t \in Threads : Purchase(t) /\ UNCHANGED orderVars
=============================================================================
