---------------------------- MODULE SessionGuard ----------------------------
(***************************************************************************)
(* scripts/session_guard.py: a process that watches the sessions an        *)
(* orchestrator dispatches, one read-only pass after the other, and aborts *)
(* the orchestrator when a pass finds an abort-class pattern: a sentinel,  *)
(* one run-log record, and the kill of the process group it was given.     *)
(*                                                                         *)
(* A pass reads the children one by one while they go on, so what it       *)
(* concludes is put together from different moments.                       *)
(***************************************************************************)
EXTENDS Integers, FiniteSets, FiniteSetsExt

CONSTANTS MaxKids,        \* bound: sessions the orchestrator dispatches
          MaxClock,       \* bound: intervals of --watch that pass
          LastMove,       \* bound: the last interval the sessions do anything
          Launches,       \* what the guard is asked for
          Titles,         \* agent and title, by which a relaunch is recognised
          Stall,          \* --stall-seconds, in intervals
          Budget,         \* --budget-minutes, in intervals
          WaveWindow, WaveMin, WaveRatio,   \* a wave, and what of it must fail
          RetryCap, RetryWindow,            \* relaunches tolerated
          Contract        \* was --contract given

ASSUME GuardAssumption ==
    /\ \A n \in {MaxKids, MaxClock, LastMove, Stall, Budget, WaveWindow, WaveMin, WaveRatio,
                 RetryCap, RetryWindow} : n \in Nat
    /\ Titles # {} /\ Contract \in BOOLEAN
    /\ Launches \subseteq [mode : {"wrap", "kill-root", "observe"}, watch : BOOLEAN]

VARIABLES
    kids,      \* the dispatched sessions, as the session store has them
    clock,     \* intervals since the root session was created
    group,     \* who lives of the orchestrator's process group
    guard,     \* the guard process
    aborts     \* what it left behind: sentinels and run-log records

guardvars == <<kids, clock, group, guard, aborts>>

Kids == 1 .. MaxKids
Unborn == -1

\* The last text of a session is none, one of the message that is open, one of a
\* message before the open one, or the final one, good or malformed.
KidType == [born : Unborn .. MaxClock, title : Titles, begun : BOOLEAN,
            tool : {"none", "running", "denied"},
            text : {"none", "interim", "earlier", "result", "malformed"},
            quiet : 0 .. Stall + 1]
NoKid == [born |-> Unborn, title |-> CHOOSE t \in Titles : TRUE, begun |-> FALSE,
          tool |-> "none", text |-> "none", quiet |-> 0]
Born == {k \in Kids : kids[k].born # Unborn}

Failures == {"dead-stream", "permission-auto-reject", "empty-result"}
Classes  == Failures \cup {"unread", "done", "going on"}

GuardTypeOK ==
    /\ kids \in [Kids -> KidType]
    /\ clock \in 0 .. MaxClock
    /\ group \subseteq {"leader", "workers"}
    /\ guard \in [pc : {"off", "start", "read", "decide", "sentinel", "record", "kill", "grace",
                        "sleep", "exited"},
                  mode : {"wrap", "kill-root", "observe"}, watch : BOOLEAN, last : BOOLEAN,
                  nodes : SUBSET Kids, read : [Kids -> Classes], named : SUBSET Kids, exit : {"none", "0", "2", "4", "5", "raised"},
                  spared : SUBSET Kids]
    /\ aborts \in [sentinels : Nat, records : Nat]

Unread == [k \in Kids |-> "unread"]
GuardInit ==
    /\ kids = [k \in Kids |-> NoKid]
    /\ clock = 0 /\ group = {}
    /\ guard = [pc |-> "off", mode |-> "observe", watch |-> FALSE, last |-> FALSE,
                nodes |-> {}, read |-> Unread, named |-> {},
                exit |-> "none", spared |-> {}]
    /\ aborts = [sentinels |-> 0, records |-> 0]

---------------------------------------------------------------------------
(* The sessions.                                                           *)

Change(k, new) == kids' = [kids EXCEPT ![k] = new]

\* Bound: they move up to the clock LastMove, and while the guard begins a pass
\* or reads; nobody reads what they do at another time before its next pass.
Moving == "leader" \in group /\ guard.pc \in {"start", "read"} /\ clock <= LastMove
Finished(n) == n.text \in {"result", "malformed"}

\* A child that has done what was asked of it.
Succeeded(n) == Finished(n) /\ (Contract => n.text = "result")

\* A child is dispatched; its first message follows.
Dispatch ==
    /\ Moving
    /\ \E k \in Kids \ Born, t \in Titles :
         /\ \A j \in Kids : j < k => j \in Born
         /\ Change(k, [NoKid EXCEPT !.born = clock, !.title = t])
    /\ UNCHANGED <<clock, group, guard, aborts>>

\* What a child leaves in the store: a message, a tool call and its end or its
\* denial, interim text, the next message, a final text with its step-finish.
Session(k) ==
    /\ Moving /\ k \in Born /\ ~Finished(kids[k])
    /\ LET n == [kids[k] EXCEPT !.begun = TRUE, !.quiet = 0]
       IN  IF ~kids[k].begun THEN Change(k, n)
           ELSE \/ n.tool # "running" /\ Change(k, [n EXCEPT !.tool = "running"])
                \/ n.tool = "running" /\ \E t \in {"none", "denied"} : Change(k, [n EXCEPT !.tool = t])
                \/ n.tool # "running" /\ Change(k, [n EXCEPT !.tool = "none", !.text = "interim"])
                \/ /\ n.tool # "running" /\ n.text = "interim"
                   /\ Change(k, [n EXCEPT !.text = "earlier"])
                \/ /\ n.tool # "running"
                   /\ \E t \in {"result", "malformed"} :
                        Change(k, [n EXCEPT !.tool = "none", !.text = t])
    /\ UNCHANGED <<clock, group, guard, aborts>>

\* The orchestrator's process ends, and may leave others of its group behind.
LeaderEnds ==
    /\ "leader" \in group
    /\ \E g \in SUBSET (group \ {"leader"}) : group' = g
    /\ UNCHANGED <<kids, clock, guard, aborts>>

---------------------------------------------------------------------------
(* One child, as watch_agent and the validator read it.                    *)

\* A step-finish comes after the last text and no tool is in flight.  load_parts
\* ends every message but the last with one, so the text may be of an earlier
\* message and the last one still open.
HasTerminalResult(n) == n.text \in {"earlier", "result", "malformed"} /\ n.tool # "running"

\* result_text: the text of the last message, against the contract's markers.
Malformed(n) == Contract /\ n.text # "result"

RecentEvent(n) == n.quiet <= Stall

\* Mutant: a quiet child without interim text has failed, finished or not.
Classify_QuietFirst(n) ==
    CASE ~n.begun                                    -> "dead-stream"
      [] n.begun /\ ~RecentEvent(n) /\ n.tool = "none" /\ n.text # "interim" -> "empty-result"
      [] OTHER                                       -> "going on"

\* detect_patterns, per child: no message at all; a denial as its last event;
\* a final result, checked when there is a contract; a quiet child
\* that left no text at all.
ClassifyKid(n) ==
    CASE ~n.begun                                    -> "dead-stream"
      [] n.begun /\ HasTerminalResult(n)             ->
           IF Malformed(n) THEN "empty-result" ELSE "done"
      [] n.begun /\ ~HasTerminalResult(n) /\ n.tool = "denied" -> "permission-auto-reject"
      [] n.begun /\ ~HasTerminalResult(n) /\ n.tool # "denied" ->
           IF n.tool = "running" \/ RecentEvent(n) \/ n.text = "interim"
           THEN "going on" ELSE "empty-result"

---------------------------------------------------------------------------
(* Patterns over the tree.                                                 *)

Failing == {k \in guard.nodes : guard.read[k] \in Failures}
BornAt(k) == kids[k].born

\* A wave starts with a child that was born too late for the wave before.
WaveHeads ==
    LET head[k \in 0 .. MaxKids] ==
          IF k = 0 THEN {}
          ELSE IF k \in guard.nodes
                  /\ \A h \in head[k - 1] : BornAt(k) - BornAt(h) > WaveWindow
               THEN head[k - 1] \cup {k} ELSE head[k - 1]
    IN  head[MaxKids]
Wave(h) == {k \in guard.nodes : h <= k /\ \A g \in WaveHeads : h < g => k < g}

\* Enough of a wave failed in the same way.
FailedWaves ==
    {S \in SUBSET Failing : \E h \in WaveHeads, p \in Failures :
       /\ S = {k \in Wave(h) : guard.read[k] = p}
       /\ Cardinality(S) >= WaveMin
       /\ Cardinality(S) * 100 >= WaveRatio * Cardinality(Wave(h))}

\* All failed children of one title, if there are too many and the first and
\* the last of them are close enough.
RetryLoops ==
    {S \in SUBSET Failing : \E t \in Titles :
       /\ S = {k \in Failing : kids[k].title = t}
       /\ Cardinality(S) > RetryCap
       /\ \A j, k \in S : BornAt(k) - BornAt(j) <= RetryWindow}

\* Mutant: minutes are compared with seconds.
OverBudget_Units == clock > Budget * 60 /\ Budget > 0

OverBudget == clock > Budget /\ Budget > 0

AbortClass == RetryLoops # {} \/ FailedWaves # {} \/ OverBudget

\* The first hit is the one that is recorded, with its sessions.
Primary == IF RetryLoops # {} THEN CHOOSE S \in RetryLoops : TRUE
           ELSE IF FailedWaves # {} THEN CHOOSE S \in FailedWaves : TRUE ELSE {}

\* A failure is a warning, and so is a child that is quiet or has been.
Warnings == IF Failing # {} THEN {"2"} ELSE {"0", "2"}

---------------------------------------------------------------------------
(* The guard.                                                              *)

Goes(pc) == [guard EXCEPT !.pc = pc]

\* What a pass read is forgotten with it.
Forget(g) == [g EXCEPT !.nodes = {}, !.read = Unread, !.spared = {}]
Exits(code) == [Forget(guard) EXCEPT !.pc = "exited", !.exit = code]

\* The root is given or picked before the wrapped command starts.
LaunchGuard ==
    /\ guard.pc = "off"
    /\ \E l \in Launches :
         guard' = [guard EXCEPT !.pc = "start", !.mode = l.mode, !.watch = l.watch]
    /\ group' = {"leader", "workers"}
    /\ UNCHANGED <<kids, clock, aborts>>

\* One pass begins with the list of the sessions.
Enumerate ==
    /\ guard.pc = "start"
    /\ guard' = [guard EXCEPT !.pc = "read", !.nodes = Born, !.read = Unread,
                   !.spared = {k \in Born : Succeeded(kids[k])}]
    /\ UNCHANGED <<kids, clock, group, aborts>>

\* What comes of a pass that does not abort: with a wrapped command one more
\* pass after its end, else another one as long as --watch says so.
PassEnds(code) ==
    LET g == Forget(guard)
    IN
    CASE g.mode = "wrap" /\ g.last                           -> [g EXCEPT !.pc = "exited", !.exit = code]
      [] g.mode = "wrap" /\ ~g.last /\ "leader" \notin group -> [g EXCEPT !.pc = "start", !.last = TRUE]
      [] g.mode = "wrap" /\ ~g.last /\ "leader" \in group    -> [g EXCEPT !.pc = "sleep"]
      [] g.mode # "wrap" /\ ~g.watch                         -> [g EXCEPT !.pc = "exited", !.exit = code]
      [] g.mode # "wrap" /\ g.watch                          -> [g EXCEPT !.pc = "sleep"]

\* The store or the root is not there: a pass with an unknown result.
NothingToRead ==
    /\ guard.pc = "start"
    /\ guard' = PassEnds("4")
    /\ UNCHANGED <<kids, clock, group, aborts>>

ReadKid ==
    /\ guard.pc = "read"
    /\ LET todo == {k \in guard.nodes : guard.read[k] = "unread"}
       IN  IF todo = {} THEN guard' = Goes("decide")
           ELSE guard' = [guard EXCEPT !.read[Min(todo)] = ClassifyKid(kids[Min(todo)])]
    /\ UNCHANGED <<kids, clock, group, aborts>>

Decide ==
    /\ guard.pc = "decide"
    /\ IF AbortClass
       THEN guard' = [Forget(guard) EXCEPT !.pc = "sentinel", !.named = Primary, !.spared = guard.spared]
       ELSE \E code \in Warnings : guard' = PassEnds(code)
    /\ UNCHANGED <<kids, clock, group, aborts>>

Sentinel ==
    /\ guard.pc = "sentinel"
    /\ guard' = Goes("record")
    /\ aborts' = [aborts EXCEPT !.sentinels = @ + 1]
    /\ UNCHANGED <<kids, clock, group>>

\* A record that fails does not hold the abort up.
RecordAbort ==
    /\ guard.pc = "record"
    /\ guard' = Goes("kill")
    /\ \/ aborts' = [aborts EXCEPT !.records = @ + 1]
       \/ UNCHANGED aborts
    /\ UNCHANGED <<kids, clock, group>>

\* SIGTERM to the group, if the guard was given one; any of it may ignore it.
Kill ==
    /\ guard.pc = "kill"
    /\ IF guard.mode = "observe"
       THEN guard' = Exits("2") /\ UNCHANGED group
       ELSE guard' = [Goes("grace") EXCEPT !.named = {}, !.spared = {}] /\ \E g \in SUBSET group : group' = g
    /\ UNCHANGED <<kids, clock, aborts>>

\* After the grace period SIGKILL to the group, unless nobody of it is left.
Grace ==
    /\ guard.pc = "grace"
    /\ group' = {}
    /\ guard' = Exits("5")
    /\ UNCHANGED <<kids, clock, aborts>>

\* An exception of a pass (a locked store, a sentinel that cannot be written):
\* on the way out a wrapped command that still runs is killed with its group.
Raise ==
    /\ guard.pc \in {"start", "read", "sentinel"}
    /\ guard' = Exits("raised")
    /\ group' = IF guard.mode = "wrap" /\ "leader" \in group THEN {} ELSE group
    /\ UNCHANGED <<kids, clock, aborts>>

\* Time passes while the guard sleeps: a pass takes much less.
GuardTick ==
    /\ guard.pc = "sleep" /\ clock < MaxClock
    /\ clock' = clock + 1
    /\ kids' = [k \in Kids |-> IF k \in Born /\ kids[k].begun /\ kids[k].quiet <= Stall
                               THEN [kids[k] EXCEPT !.quiet = @ + 1] ELSE kids[k]]
    /\ guard' = Goes("start")
    /\ UNCHANGED <<group, aborts>>

\* At the bound of the clock the guard still makes its passes.
GuardWakes ==
    /\ guard.pc = "sleep" /\ clock = MaxClock
    /\ guard' = Goes("start")
    /\ UNCHANGED <<kids, clock, group, aborts>>

GuardStep == Enumerate \/ NothingToRead \/ ReadKid \/ Decide \/ Sentinel \/ RecordAbort
             \/ Kill \/ Grace \/ GuardTick \/ GuardWakes
GuardNext == LaunchGuard \/ GuardStep \/ Raise
             \/ Dispatch \/ (\E k \in Kids : Session(k)) \/ LeaderEnds

\* The guard is a running program, and a store that is there again and again is
\* read at last; the sessions owe nothing.
GuardFairness == WF_guardvars(GuardStep) /\ SF_guardvars(Enumerate)
GuardSpec == GuardInit /\ [][GuardNext]_guardvars /\ GuardFairness
---------------------------------------------------------------------------
(* Properties.                                                             *)

\* A child that had its final result when the pass began is not among those an
\* abort is blamed on, whatever the others did while the pass went on.
CompletedIsSpared ==
    guard.pc \in {"sentinel", "record", "kill"} => guard.named \cap guard.spared = {}

\* An unfinished turn is never a false empty result: no abort is blamed on a child
\* that has left a text and goes on (stated for passes in which no child is quiet
\* for long).
UnfinishedIsNotEmpty ==
    [][guard.pc = "decide" /\ guard'.pc = "sentinel" =>
         \A k \in guard'.named :
           guard.read[k] = "empty-result" => kids[k].text \notin {"interim", "earlier"}]_guardvars

\* Fail fast: a wrapped command that outlives the budget of its tree is aborted,
\* or ends by itself, or the guard fails and takes it along.
OverBudgetEnds ==
    []<>(guard.mode = "wrap" /\ clock > Budget => "leader" \notin group)
=============================================================================
