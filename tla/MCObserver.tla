----------------------------- MODULE MCObserver -----------------------------
(***************************************************************************)
(* Model values for the runs of CompletionObserver.  The flags do not      *)
(* matter to the observer: every dispatch uses --server, the form that     *)
(* leaves the most to the session after a timeout.                         *)
(***************************************************************************)
EXTENDS WakeRefinement

ServerOnly ==
    {[standalone |-> FALSE, server |-> TRUE, grants |-> FALSE, joins |-> TRUE]}
=============================================================================
