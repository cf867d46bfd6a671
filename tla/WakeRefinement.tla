--------------------------- MODULE WakeRefinement ---------------------------
(***************************************************************************)
(* The completion observer implements SupervisedDispatch: the judgement is *)
(* the dispatcher's, what the orchestrator was told is what its session    *)
(* accepted, and a dispatch is settled when its observer has exited, which *)
(* it does with its verdict line.                                          *)
(***************************************************************************)
EXTENDS CompletionObserver

ToldPrompts == [i \in DOMAIN prompts |->
                  [run |-> prompts[i].run, outcome |-> prompts[i].outcome]]
SettledRuns == {r \in Runs : At(r, "done")}

Supervised == INSTANCE SupervisedDispatch
                WITH judged <- outcome, told <- ToldPrompts, settled <- SettledRuns

\* The two processes keep the promise of SupervisedDispatch as long as the reply
\* to an accepted prompt is not lost and the heartbeat file serves one dispatch:
\* every step of them is a step of the promise or invisible to it.
ImplementsSupervision == Supervised!Spec
=============================================================================
