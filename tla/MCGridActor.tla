----------------------------- MODULE MCGridActor -----------------------------
(***************************************************************************)
(* Two trading workers and one grid order.  The workers start alike, so    *)
(* the one that takes the lease first is called First.                     *)
(***************************************************************************)
EXTENDS GridActor

CONSTANT First

MCNext == Next /\ (token = 0 => owner' \in {NoOwner, First})
MCSpec == Init /\ [][MCNext]_vars /\ Fairness
=============================================================================
