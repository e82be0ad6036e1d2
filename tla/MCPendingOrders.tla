-------------------------- MODULE MCPendingOrders --------------------------
(* Small instances of PendingOrders for TLC: one or two dispatch threads   *)
(* and one reconciliation thread.                                          *)
EXTENDS PendingOrders

CONSTANTS d1, d2, s1
=============================================================================
