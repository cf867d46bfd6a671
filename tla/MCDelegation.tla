---------------------------- MODULE MCDelegation ----------------------------
(***************************************************************************)
(* Model values for the runs of DelegationObserver: every call is made on  *)
(* the same target, so that repeated calls become a thrash.                *)
(***************************************************************************)
EXTENDS DelegationObserver

CONSTANT Target
OneTarget == [c \in Calls |-> Target]
=============================================================================
