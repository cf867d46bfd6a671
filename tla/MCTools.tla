------------------------------ MODULE MCTools -------------------------------
(* One instance each of eight command-line tools, which share no state: each    *)
(* behaviour is one of theirs.                                                  *)
EXTENDS MCDispatcher, MCUpgrade, EvalReport, SessionGuard, IssueSync, RunConfigs, Canary, Cutover

VARIABLE part    \* the module that moves

Parts == {"dispatch", "upgrade", "eval", "guard", "sync", "configs", "canary", "cutover"}
toolvars == <<part, dvars, vars, evalvars, guardvars, syncvars, configvars, canaryvars, cutovervars>>

\* Evals 1 and 2 are of skill a, eval 3 is of skill b.
MCTraits ==
    [e \in Evals |-> [skill |-> IF e = 3 THEN "b" ELSE "a", deferred |-> e = 1,
                      paid |-> e = 3, core |-> e = 2, default |-> e = 1]]
Ask == [skills |-> {"a", "b"}, deferred |-> FALSE, ci |-> FALSE, quarantined |-> FALSE,
        mode |-> "all", limit |-> 3]
MCCommands == {[Ask EXCEPT !.mode = "default"], [Ask EXCEPT !.quarantined = TRUE, !.mode = "core"],
               [Ask EXCEPT !.skills = {"b"}, !.ci = TRUE]}
MCSettings == {[enabled |-> TRUE, key |-> TRUE], [enabled |-> TRUE, key |-> FALSE],
               [enabled |-> FALSE, key |-> FALSE]}

MCLaunches == {[mode |-> "wrap", watch |-> FALSE], [mode |-> "kill-root", watch |-> FALSE],
               [mode |-> "observe", watch |-> FALSE]}

ToolsInit ==
    /\ part \in Parts
    /\ DispatcherInit /\ Init /\ EvalInit /\ GuardInit /\ SyncInit /\ ConfigInit
    /\ CanaryInit /\ CutoverInit

DispatchMoves ==
    /\ part = "dispatch"
    /\ UNCHANGED <<part, vars, evalvars, guardvars, syncvars, configvars, canaryvars, cutovervars>>
UpgradeMoves ==
    /\ part = "upgrade"
    /\ UNCHANGED <<part, dvars, evalvars, guardvars, syncvars, configvars, canaryvars, cutovervars>>
EvalMoves ==
    /\ part = "eval"
    /\ UNCHANGED <<part, dvars, vars, guardvars, syncvars, configvars, canaryvars, cutovervars>>
GuardMoves ==
    /\ part = "guard"
    /\ UNCHANGED <<part, dvars, vars, evalvars, syncvars, configvars, canaryvars, cutovervars>>
SyncMoves ==
    /\ part = "sync"
    /\ UNCHANGED <<part, dvars, vars, evalvars, guardvars, configvars, canaryvars, cutovervars>>
ConfigMoves ==
    /\ part = "configs"
    /\ UNCHANGED <<part, dvars, vars, evalvars, guardvars, syncvars, canaryvars, cutovervars>>
CanaryMoves ==
    /\ part = "canary"
    /\ UNCHANGED <<part, dvars, vars, evalvars, guardvars, syncvars, configvars, cutovervars>>
CutoverMoves ==
    /\ part = "cutover"
    /\ UNCHANGED <<part, dvars, vars, evalvars, guardvars, syncvars, configvars, canaryvars>>

ToolsNext == \/ DispatchMoves /\ DispatcherNext
             \/ UpgradeMoves /\ Next
             \/ EvalMoves /\ EvalNext
             \/ GuardMoves /\ GuardNext
             \/ SyncMoves /\ SyncNext
             \/ ConfigMoves /\ ConfigNext
             \/ CanaryMoves /\ CanaryNext
             \/ CutoverMoves /\ CutoverNext

\* The fairness of EvalSpec and of GuardSpec, for the part that moves.
ToolsFairness ==
    /\ WF_evalvars(part = "eval" /\ EvalStep)
    /\ WF_guardvars(part = "guard" /\ GuardStep)
    /\ SF_guardvars(part = "guard" /\ Enumerate)

ToolsSpec == ToolsInit /\ [][ToolsNext]_toolvars /\ ToolsFairness
---------------------------------------------------------------------------
\* The types of the eight modules.
ToolsTypeOK == /\ DispatcherTypeOK /\ UpgradeTypeOK /\ EvalTypeOK /\ GuardTypeOK /\ SyncTypeOK
               /\ ConfigTypeOK /\ CanaryTypeOK /\ CutoverTypeOK
=============================================================================
