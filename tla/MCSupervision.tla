--------------------------- MODULE MCSupervision ----------------------------
(* One instance each of three modules that share no state: the completion        *)
(* observer of a dispatch, the watcher that polls a child from outside, and the  *)
(* deliveries of the delegation observer.  Each behaviour is of one of them.     *)
EXTENDS MCObserver, AgentWatch, DelegationServer

VARIABLE part    \* the module that moves

Parts == {"observed", "watch", "announcements"}
supervisionvars == <<part, vars, watchvars, servervars>>

First == CHOOSE l \in Locations : TRUE
Hang(parent, title, place, faults) ==
    [parent |-> parent, title |-> title, place |-> [s \in Sessions |-> place],
     faults |-> [l \in Locations |-> IF l = First THEN faults ELSE {}]]
Links(c, m, r) == [s \in Sessions |-> IF s = "child" THEN c ELSE IF s = "mid" THEN m ELSE r]
No == Links(Nobody, Nobody, Nobody)
MCTrees == {Hang(Links("root", Nobody, Nobody), No, First, {"lookup", "synthetic"}),
            Hang(Links("mid", Nobody, Nobody), Links(Nobody, "root", Nobody), First, {"stream"}),
            Hang(No, Links("mid", "child", Nobody), First, {"healthFile"}),
            Hang(Links("root", Nobody, Nobody), No, Nobody, {"list", "stop"})}

SupervisionInit ==
    /\ part \in Parts
    /\ Init /\ WatchInit /\ ServerInit
    /\ part # "observed" => ~orch.known /\ ~orch.busy
    /\ part # "watch" => service.up
    /\ part # "announcements" => tree = CHOOSE t \in Trees : TRUE

ObservedMoves == part = "observed" /\ UNCHANGED <<part, watchvars, servervars>>
WatchMoves    == part = "watch" /\ UNCHANGED <<part, vars, servervars>>
ServerMoves   == part = "announcements" /\ UNCHANGED <<part, vars, watchvars>>

SupervisionNext == \/ ObservedMoves /\ Next
                   \/ WatchMoves /\ WatchNext
                   \/ ServerMoves /\ ServerNext

\* The fairness of the part that moves.  A dispatcher is at one place at a time, so
\* one condition says what Fairness says of each of its steps.
DispatcherWorks ==
    Begin \/ (\E f \in LaunchFlags : Launch(f)) \/ TimeoutKill \/ Judge \/ Report \/ Record
SupervisionFairness ==
    /\ \A r \in Runs : WF_vars(part = "observed" /\ ObserverStep(r))
    /\ WF_vars(part = "observed" /\ Tick)
    /\ WF_vars(part = "observed" /\ UNCHANGED ovars /\ DispatcherWorks)
    /\ WF_watchvars(part = "watch" /\ WatchStep)
    /\ WF_servervars(part = "announcements" /\ ServerStep)

SupervisionSpec == SupervisionInit /\ [][SupervisionNext]_supervisionvars /\ SupervisionFairness
---------------------------------------------------------------------------
\* The types of the three modules.
SupervisionTypeOK == TypeOK /\ WatchTypeOK /\ ServerTypeOK
=============================================================================
