------------------------------ MODULE MCBilling ------------------------------
(* Billing with its threads, for model checking. *)
EXTENDS Billing
=============================================================================
