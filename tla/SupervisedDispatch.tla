------------------------- MODULE SupervisedDispatch -------------------------
(***************************************************************************)
(* What supervision promises the session that dispatched: of each dispatch *)
(* it is told at most once, what it is told does not contradict how the    *)
(* dispatch was judged, and once the observer has left its verdict line    *)
(* nothing more is told.  There are no files here, no windows, no          *)
(* retries and no deadline: the modules Dispatcher and CompletionObserver  *)
(* show how the scripts keep the promise (docs of observe_completion.py).  *)
(***************************************************************************)
EXTENDS Integers, Sequences

CONSTANTS Runs,      \* the dispatches
          Outcomes   \* what an orchestrator can be told of one

VARIABLES judged,    \* how the dispatcher judged each dispatch
          told,      \* what the orchestrator was told, in order
          settled    \* the dispatches whose observer has left its verdict line

svars == <<judged, told, settled>>

Unjudged == "none"
ToldOf(r) == {i \in DOMAIN told : told[i].run = r}

Init ==
    /\ judged = [r \in Runs |-> Unjudged]
    /\ told = <<>>
    /\ settled = {}

\* A dispatch is judged once.
Judge(r) ==
    /\ judged[r] = Unjudged
    /\ \E o \in Outcomes \ {"aborted"} : judged' = [judged EXCEPT ![r] = o]
    /\ UNCHANGED <<told, settled>>

\* Success is told of a success; failure and error of what was judged and was
\* none; an abort is told for want of anything else.
Warranted(r, o) ==
    /\ o = "success" => judged[r] = "success"
    /\ o \in {"failure", "error"} => judged[r] \in {"failure", "error"}

Tell(r) ==
    /\ r \notin settled /\ ToldOf(r) = {}
    /\ \E o \in Outcomes : Warranted(r, o) /\ told' = Append(told, [run |-> r, outcome |-> o])
    /\ UNCHANGED <<judged, settled>>

Settle(r) ==
    /\ r \notin settled
    /\ settled' = settled \cup {r}
    /\ UNCHANGED <<judged, told>>

Next == \E r \in Runs : Judge(r) \/ Tell(r) \/ Settle(r)

Spec == Init /\ [][Next]_svars
=============================================================================
