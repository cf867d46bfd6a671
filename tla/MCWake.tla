------------------------------- MODULE MCWake -------------------------------
(* One instance each of two modules that share no state, the completion observer *)
(* of a dispatch and the reducer of the delegation observer: each behaviour is   *)
(* one of theirs.                                                                *)
EXTENDS MCObserver, MCDelegation

VARIABLE part    \* the module that moves

Parts == {"observed", "reducer"}
wakevars == <<part, vars, reducervars>>

NoReducer == row = None /\ live = None /\ asked = [q \in Requests |-> "no"]

WakeInit ==
    /\ part \in Parts
    /\ Init /\ ReducerInit
    /\ part # "reducer" => NoReducer
    /\ part # "observed" => ~orch.known /\ ~orch.busy

ObservedMoves == part = "observed" /\ UNCHANGED <<part, reducervars>>
ReducerMoves  == part = "reducer" /\ UNCHANGED <<part, vars>>

WakeNext == (ObservedMoves /\ Next) \/ (ReducerMoves /\ ReducerNext)

WakeSpec == WakeInit /\ [][WakeNext]_wakevars
---------------------------------------------------------------------------
\* The types of the two modules.
WakeTypeOK == TypeOK /\ ReducerTypeOK
=============================================================================
