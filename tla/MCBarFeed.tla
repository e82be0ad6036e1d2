----------------------------- MODULE MCBarFeed -----------------------------
(* Instances of BarFeed for TLC.                                           *)
EXTENDS BarFeed
=============================================================================
