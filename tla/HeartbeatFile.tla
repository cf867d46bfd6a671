--------------------------- MODULE HeartbeatFile ---------------------------
(***************************************************************************)
(* The durable surface of a supervised dispatch and what is computed from  *)
(* it: the heartbeat file the dispatcher, its child and the completion     *)
(* observer append to (scripts/heartbeat_io.py), and the pure readers and  *)
(* the classifier of scripts/observe_completion.py.                        *)
(*                                                                         *)
(* A line keeps its tag, the dispatch (run) it belongs to, and for the     *)
(* observer's own lines the outcome and the reason.  Wall-clock stamps are *)
(* used by the code in two ways, and each is kept as what it is used for:  *)
(*  - to tell which run-log records are older than the START line: `at' of *)
(*    a START is the number of records that existed when it was written;   *)
(*  - to tell how long nothing has moved: an age in poll intervals, which  *)
(*    saturates one above the liveness window.                             *)
(***************************************************************************)
EXTENDS Integers, FiniteSets, SequencesExt

CONSTANT Liveness         \* liveness_seconds, in poll intervals

ASSUME LivenessAssumption == Liveness \in Nat \ {0}

TerminalTags == {"DONE", "BLOCKED"}
VerdictTags  == {"WAKE", "WAKE_DEFERRED"}
OwnerTags    == {"SURVEY"} \cup VerdictTags    \* the observer's own lines
ChildTags    == {"STEP", "CALL", "POLL", "EVAL"}

Outcomes == {"success", "failure", "error", "aborted"}
Reasons  == {"no-attach-target", "unknown-session", "call-failed",
             "quiescence-gate"}

Line(tag, r) == [tag |-> tag, run |-> r, at |-> 0,
                 outcome |-> "none", reason |-> "none"]
StartLine(r, at) == [Line("START", r) EXCEPT !.at = at]
VerdictLine(tag, r, o, why) == [Line(tag, r) EXCEPT !.outcome = o, !.reason = why]
NoLine == Line("none", 0)

LineTags == {"START"} \cup TerminalTags \cup OwnerTags \cup ChildTags

LineType == [tag : LineTags,
             run : Nat, at : Nat,
             outcome : Outcomes \cup {"none"}, reason : Reasons \cup {"none"}]

---------------------------------------------------------------------------
(* Ages.  NoAge stands for None: nothing to measure the age of.            *)

NoAge == -1
Ages  == NoAge .. (Liveness + 1)
Aged(a) == IF a = NoAge \/ a > Liveness THEN a ELSE a + 1
Freshest(a, b) == IF a = NoAge \/ (b # NoAge /\ b < a) THEN b ELSE a

---------------------------------------------------------------------------
(* Readers over a heartbeat that was read as the sequence of lines h.      *)

FirstLine(h, tags) ==
    LET I == {i \in DOMAIN h : h[i].tag \in tags}
    IN  IF I = {} THEN NoLine ELSE h[Min(I)]

TerminalLine(h) == FirstLine(h, TerminalTags)

\* The place of the first START line in the run log's order; 0 without one,
\* when no record is too old.
StartEpoch(h) == FirstLine(h, {"START"}).at

ChildEvidence(h, childHasParts) ==
    childHasParts \/ \E i \in DOMAIN h : h[i].tag \in ChildTags

\* The latest record of this agent that is not older than `since'.
LatestRecord(log, since) ==
    LET S == {i \in DOMAIN log : i > since}
    IN  IF S = {} THEN "none" ELSE log[CHOOSE i \in S : \A j \in S : j <= i]

\* The run-log record can only name a BLOCKED dispatch more precisely.
BlockedOutcome(rec) == CASE rec = "error"   -> "error"
                         [] rec = "stopped" -> "aborted"
                         [] OTHER           -> "failure"

\* Mutant: the window is closed one interval too early.
Classify_AtWindow(term, rec, liveAge, toolRunning) ==
    CASE term.tag = "DONE"    -> "success"
      [] term.tag = "BLOCKED" -> BlockedOutcome(rec)
      [] term.tag \notin TerminalTags /\ ~toolRunning /\ liveAge >= Liveness
                              -> "aborted"
      [] OTHER                -> "AWAITING"

Classify(term, rec, liveAge, toolRunning) ==
    CASE term.tag = "DONE"    -> "success"
      [] term.tag = "BLOCKED" -> BlockedOutcome(rec)
      [] term.tag \notin TerminalTags /\ ~toolRunning /\ liveAge > Liveness
                              -> "aborted"
      [] OTHER                -> "AWAITING"
=============================================================================
