------------------------------ MODULE MCUpgrade ------------------------------
(***************************************************************************)
(* Model values for the runs of Upgrade: two C gates stand for the eight,  *)
(* the one that compares the installed version with the pin and any other. *)
(***************************************************************************)
EXTENDS Upgrade

TwoGates == <<"C1", "C2">>
=============================================================================
