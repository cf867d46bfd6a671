---------------------------- MODULE MCDispatcher ----------------------------
(***************************************************************************)
(* Model values for the runs of Dispatcher: the sets of server flags a     *)
(* dispatch is launched with.                                              *)
(***************************************************************************)
EXTENDS Dispatcher

\* --standalone and --server are alternatives in the usage line.
Alternatives == {f \in Flags : ~(f.standalone /\ f.server)}

\* ... but the argument parser accepts both.
AnyFlags == Flags
=============================================================================
