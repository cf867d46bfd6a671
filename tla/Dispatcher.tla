----------------------------- MODULE Dispatcher -----------------------------
(***************************************************************************)
(* scripts/dispatch_agent.py: one dispatcher process after the other over  *)
(* one heartbeat file, the `opencode run' child each one launches, and the *)
(* session that child drives on a server.                                  *)
(*                                                                         *)
(* The dispatcher's life is preflight (which truncates the heartbeat of a  *)
(* fresh dispatch), the START line, the launch, the wait for the child,    *)
(* the judgement of what came back, the terminal line, the run-log record  *)
(* and the exit, and it can be killed between any two of them.             *)
(***************************************************************************)
EXTENDS HeartbeatFile

CONSTANTS MaxRuns,      \* bound: dispatches over one heartbeat file
          MaxSteps,     \* bound: progress lines one child writes
          LaunchFlags,  \* the combinations of server flags dispatches are given
          Redispatch,   \* how a later dispatch may use the file
          Faults        \* what the environment may do, see below

FaultKinds == {"environment",   \* a preflight check, a launch, a spawn
                                \* or the run-log record fails
               "timeout",       \* a child runs longer than --timeout
               "crash",         \* a dispatcher is killed
               "exception",     \* a statement of it outside its guard raises
               "stuckTool",     \* a session dies with a tool call recorded as running
               "quietChild",    \* a live child says nothing for a whole window
               "foreignRecord", \* another dispatch of this agent logs its end
               "noTarget",      \* no attach target, or an unknown orchestrator
               "noStore",       \* the orchestrator's session cannot be read
               "refusal",       \* its server refuses a call
               "lostReply"}     \* ... or accepts one and its reply is lost

\* The flags that decide where a session runs: --standalone, --server, grants
\* (from --allow-dirs or the profile), and whether the dispatch belongs to an
\* orchestrator and a shared service is up for it to join.
Flags == [standalone : BOOLEAN, server : BOOLEAN, grants : BOOLEAN, joins : BOOLEAN]

ASSUME DispatcherAssumption ==
    /\ MaxRuns \in Nat /\ MaxSteps \in Nat
    /\ LaunchFlags \subseteq Flags
    /\ Redispatch \subseteq {"fresh", "resume"}
    /\ Faults \subseteq FaultKinds

VARIABLES
    hb,        \* the heartbeat file
    lineAge,   \* age of its newest line that is not the observer's
    runlog,    \* outcomes of the kind=agent records of this agent
    run,       \* number of the current dispatch, 0 before the first
    dpc,       \* where the dispatcher process is; "crashed" when it is gone before
               \* its end, killed (exit "none") or by an exception (exit "dirty")
    outcome,   \* the outcome each dispatch judged
    exit,      \* its exit code, as far as 0 differs from the others
    interrupt, \* what a timed-out dispatch says of its session
    child,     \* the child process
    session    \* what the session store knows of the child's session

filevars == <<hb, lineAge, runlog>>
dvars == <<filevars, run, dpc, outcome, exit, interrupt, child, session>>

Runs   == 1 .. MaxRuns
Judged == {"success", "failure", "error"}
Ended  == {"idle", "exited", "crashed"}
Busy   == {"preflight", "resuming", "begun", "judged", "reported"}

SessionType == [named : BOOLEAN,    \* the event stream named its id
                live  : BOOLEAN,    \* a model turn is being generated
                age   : Ages,       \* age of its newest part in the store
                tool  : BOOLEAN,    \* its last tool call is not finished
                own   : BOOLEAN,    \* it runs on a --standalone server
                private : BOOLEAN]  \* the dispatcher takes it for private
NoSession == [named |-> FALSE, live |-> FALSE, age |-> NoAge, tool |-> FALSE,
              own |-> FALSE, private |-> FALSE]

DispatcherTypeOK ==
    /\ hb \in Seq(LineType)
    /\ lineAge \in Ages
    /\ runlog \in Seq(Judged \cup {"stopped"})
    /\ run \in 0 .. MaxRuns
    /\ dpc \in Ended \cup Busy \cup {"running"}
    /\ outcome \in [Runs -> Judged \cup {"none"}]
    /\ exit \in {"none", "clean", "dirty"}
    /\ interrupt \in {"none", "not-needed", "no-session", "ok", "failed"}
    /\ child \in {"none", "running", "ok", "failed", "killed"}
    /\ session \in SessionType

DispatcherInit ==
    /\ hb = <<>> /\ lineAge = NoAge /\ runlog = <<>>
    /\ run = 0 /\ dpc = "idle" /\ exit = "none" /\ interrupt = "none"
    /\ outcome = [r \in Runs |-> "none"]
    /\ child = "none" /\ session = NoSession

---------------------------------------------------------------------------
(* Appends.  One O_APPEND write per record, so lines never interleave; a   *)
(* line that is not the observer's makes the file fresh again.             *)

WriteLine(l) == hb' = Append(hb, l)
WriteDispatchLine(l) == WriteLine(l) /\ lineAge' = 0

---------------------------------------------------------------------------
(* The dispatcher process.                                                 *)

\* check_writable opens the heartbeat before anything runs: a fresh dispatch
\* truncates it, a --session resume leaves the records of the run before.
\* The orchestrator uses a heartbeat again when the child that wrote to it
\* has ended, and for another session when the old one is idle.
Preflight(fresh) ==
    /\ dpc \in Ended /\ run < MaxRuns
    /\ child # "running" /\ (fresh => ~session.live)
    /\ run = 0 \/ (IF fresh THEN "fresh" ELSE "resume") \in Redispatch
    /\ ~fresh => session.named
    /\ run' = run + 1
    /\ dpc' = IF fresh THEN "preflight" ELSE "resuming"
    /\ IF fresh THEN hb' = <<>> /\ lineAge' = NoAge
                ELSE UNCHANGED <<hb, lineAge>>
    /\ exit' = "none" /\ interrupt' = "none" /\ child' = "none"
    /\ session' = IF fresh THEN NoSession
                           ELSE [session EXCEPT !.named = FALSE]
    /\ UNCHANGED <<runlog, outcome>>

\* A later preflight check fails (worktree, HEAD not on main): exit code 2,
\* no launch and no line.
Refuse ==
    /\ "environment" \in Faults
    /\ dpc \in {"preflight", "resuming"}
    /\ dpc' = "exited"
    /\ exit' = "dirty"
    /\ UNCHANGED <<filevars, run, outcome, interrupt, child, session>>

\* A fresh dispatch truncates once more, and with it what the observer of an
\* earlier dispatch wrote since the preflight.
Begin ==
    /\ dpc \in {"preflight", "resuming"}
    /\ dpc' = "begun"
    /\ hb' = Append(IF dpc = "preflight" THEN <<>> ELSE hb, StartLine(run, Len(runlog)))
    /\ lineAge' = 0
    /\ UNCHANGED <<runlog, run, outcome, exit, interrupt, child, session>>

\* An orchestrated dispatch without a server of its own joins the service.
GivenServer(f) == f.server \/ (f.joins /\ ~(f.standalone \/ f.grants))
PrivateServer(f) == f.standalone \/ (f.grants /\ ~f.server)

Launch(f) ==
    /\ dpc = "begun"
    /\ dpc' = "running"
    /\ \E started \in BOOLEAN :      \* a Popen that fails returns 127
         /\ started \/ "environment" \in Faults
         /\ child' = IF started THEN "running" ELSE "failed"
         /\ session' = [session EXCEPT
                          !.live = started, !.tool = FALSE,
                          !.own = ~GivenServer(f) /\ (f.standalone \/ f.grants),
                          !.private = PrivateServer(f)]
    /\ UNCHANGED <<filevars, run, outcome, exit, interrupt>>

\* A session that dies may leave its last tool call recorded as running.
SessionDies ==
    \E stuck \in BOOLEAN :
      /\ stuck => "stuckTool" \in Faults
      /\ session' = [session EXCEPT !.live = FALSE, !.tool = @ /\ stuck]

\* The wait ran out: the process group is killed, and with it a server the
\* group owns.  A session on any other server goes on.
TimeoutKill ==
    /\ "timeout" \in Faults
    /\ dpc = "running" /\ child = "running"
    /\ child' = "killed"
    /\ IF session.own THEN SessionDies ELSE UNCHANGED session
    /\ UNCHANGED <<filevars, run, dpc, outcome, exit, interrupt>>

\* Mutant: an accepted interrupt is taken for a stopped session.
InterruptSession_Unverified ==
    IF session.private
    THEN interrupt' = "not-needed" /\ UNCHANGED session
    ELSE IF ~session.named
    THEN interrupt' = "no-session" /\ UNCHANGED session
    ELSE \E accepted, stopped \in BOOLEAN :
           /\ session' = IF accepted /\ stopped
                         THEN [session EXCEPT !.live = FALSE, !.tool = FALSE]
                         ELSE session
           /\ interrupt' = IF accepted THEN "ok" ELSE "failed"

\* A timed-out session is taken for dead when its server is private, and is
\* otherwise interrupted; "ok" takes an answer that it is no longer active.
InterruptSession ==
    IF session.private
    THEN interrupt' = "not-needed" /\ UNCHANGED session
    ELSE IF ~session.named
    THEN interrupt' = "no-session" /\ UNCHANGED session
    ELSE \E accepted, stopped, answered \in BOOLEAN :
           /\ session' = IF accepted /\ stopped
                         THEN [session EXCEPT !.live = FALSE, !.tool = FALSE]
                         ELSE session
           /\ interrupt' = IF accepted /\ answered /\ ~session'.live
                           THEN "ok" ELSE "failed"

\* What the dispatch is judged to be: a timeout, a child's exit code that is
\* not 0 and a stream that named no session are errors; after that the
\* contract and the denials decide between failure and success.  A result file
\* that cannot be written, or any other exception inside the guard, makes it an
\* error too.
Verdicts ==
    {"error"} \cup (IF child = "ok" /\ session.named THEN {"success", "failure"}
                                                    ELSE {})

Judge ==
    /\ dpc = "running" /\ child \in {"ok", "failed", "killed"}
    /\ dpc' = "judged"
    /\ IF child = "killed" THEN InterruptSession
                           ELSE UNCHANGED <<interrupt, session>>
    /\ \E v \in Verdicts :
         /\ outcome' = [outcome EXCEPT ![run] = v]
         /\ exit' = IF v = "success" THEN "clean" ELSE "dirty"
    /\ UNCHANGED <<filevars, run, child>>

\* Mutant: a failed contract is still a dispatch that is done.
TerminalTag_Contract(o) == IF o = "error" THEN "BLOCKED" ELSE "DONE"

TerminalTag(o) == IF o = "success" THEN "DONE" ELSE "BLOCKED"

\* Mutant: the line is written once more on the way out.
Report_Twice ==
    /\ dpc = "judged"
    /\ dpc' \in {"judged", "reported"}
    /\ WriteDispatchLine(Line(TerminalTag(outcome[run]), run))
    /\ UNCHANGED <<runlog, run, outcome, exit, interrupt, child, session>>

Report ==
    /\ dpc = "judged"
    /\ dpc' = "reported"
    /\ WriteDispatchLine(Line(TerminalTag(outcome[run]), run))
    /\ UNCHANGED <<runlog, run, outcome, exit, interrupt, child, session>>

\* The record follows the terminal line.  One that the schema rejects makes a
\* clean exit code 2, one that cannot be written changes nothing, and a print
\* that fails after it makes the exit code 1.
Record ==
    /\ dpc = "reported"
    /\ dpc' = "exited"
    /\ \/ runlog' = Append(runlog, outcome[run])
       \/ "environment" \in Faults /\ UNCHANGED runlog
    /\ \/ UNCHANGED exit
       \/ exit' = "dirty" /\ ("exception" \in Faults \/ runlog' = runlog)
    /\ UNCHANGED <<hb, lineAge, run, outcome, interrupt, child, session>>

\* Mutant: the exit code judged before is that of the exception too.
Uncaught_Swallowed ==
    /\ "exception" \in Faults
    /\ dpc \in {"begun", "running", "judged"}
    /\ dpc' = "crashed"
    /\ UNCHANGED <<filevars, run, outcome, exit, interrupt, child, session>>

\* Only the judgement is guarded.  An exception in what surrounds it ends the
\* dispatcher without a line and without a record: before the child (the look for
\* the service, a print), beside it (a reader that cannot start), after it (the
\* close of the tees, the parse of the stream, a print), and in the append of the
\* terminal line itself.  What child and session do is theirs.
Uncaught ==
    /\ "exception" \in Faults
    /\ dpc \in {"begun", "running", "judged"}
    /\ dpc' = "crashed"
    /\ exit' = "dirty"
    /\ UNCHANGED <<filevars, run, outcome, interrupt, child, session>>

Crash ==
    /\ "crash" \in Faults
    /\ dpc \notin Ended
    /\ dpc' = "crashed"
    /\ exit' = "none"
    /\ UNCHANGED <<filevars, run, outcome, interrupt, child, session>>

---------------------------------------------------------------------------
(* The child and its session: an `opencode run' process and the server it  *)
(* talks to.  The child is in a process group of its own, so it outlives a *)
(* dispatcher that is killed.                                              *)

NameSession ==
    /\ dpc = "running" /\ child \in {"running", "ok"} /\ ~session.named
    /\ session' = [session EXCEPT !.named = TRUE]
    /\ UNCHANGED <<filevars, run, dpc, outcome, exit, interrupt, child>>

\* A part reaches the store, among them the start and the end of a tool call.
SessionPart ==
    /\ session.live
    /\ \E tool \in BOOLEAN :
         session' = [session EXCEPT !.age = 0, !.tool = tool]
    /\ UNCHANGED <<filevars, run, dpc, outcome, exit, interrupt, child>>

\* The prompt asks the child for progress lines in the heartbeat.
ChildLine ==
    /\ session.live
    /\ Cardinality({i \in DOMAIN hb : hb[i].tag = "STEP" /\ hb[i].run = run}) < MaxSteps
    /\ WriteDispatchLine(Line("STEP", run))
    /\ UNCHANGED <<runlog, run, dpc, outcome, exit, interrupt, child, session>>

\* The process ends.  A clean end closes the last tool call.
ChildExit ==
    /\ child = "running"
    /\ \/ child' = "ok" /\ session' = [session EXCEPT !.live = FALSE, !.tool = FALSE]
       \/ child' = "failed" /\ SessionDies
    /\ UNCHANGED <<filevars, run, dpc, outcome, exit, interrupt>>

\* A session whose client is gone finishes by itself.
SessionEnds ==
    /\ session.live /\ child # "running"
    /\ session' = [session EXCEPT !.live = FALSE, !.tool = FALSE]
    /\ UNCHANGED <<filevars, run, dpc, outcome, exit, interrupt, child>>

---------------------------------------------------------------------------
(* Time and the rest of the system.                                        *)

\* Another dispatch of the same agent, over another heartbeat file, logs its
\* end.  A record that says failure or success is read like none at all.
ForeignRecord ==
    /\ "foreignRecord" \in Faults
    /\ Len(runlog) < MaxRuns
    /\ runlog' = Append(runlog, "error")
    /\ UNCHANGED <<hb, lineAge, run, dpc, outcome, exit, interrupt, child, session>>

\* One poll interval passes.  The dispatcher's own steps take less than one,
\* and unless "quietChild" a live session shows a sign within the window.
DispatcherTick ==
    /\ dpc \notin Busy
    /\ dpc = "running" => child = "running"
    /\ session.live /\ "quietChild" \notin Faults =>
         Freshest(lineAge, session.age) < Liveness
    /\ lineAge' = Aged(lineAge)
    /\ session' = [session EXCEPT !.age = Aged(@)]
    /\ UNCHANGED <<hb, runlog, run, dpc, outcome, exit, interrupt, child>>

DispatcherStep ==
    \/ \E fresh \in BOOLEAN : Preflight(fresh)
    \/ Refuse \/ Begin
    \/ \E f \in LaunchFlags : Launch(f)
    \/ TimeoutKill \/ Judge \/ Report \/ Record \/ Uncaught \/ Crash

ChildStep == SessionPart \/ ChildLine \/ ChildExit \/ SessionEnds

DispatcherNext ==
    \/ DispatcherStep \/ ChildStep \/ NameSession \/ ForeignRecord \/ DispatcherTick

\* The dispatcher is a sequential program that runs on, and its wait for the
\* child is bounded by --timeout; nothing is assumed of the child.
DispatcherFairness ==
    /\ WF_dvars(Refuse \/ Begin \/ (\E f \in LaunchFlags : Launch(f)))
    /\ WF_dvars(TimeoutKill) /\ WF_dvars(Judge)
    /\ WF_dvars(Report) /\ WF_dvars(Record)

DispatcherSpec == DispatcherInit /\ [][DispatcherNext]_dvars /\ DispatcherFairness
---------------------------------------------------------------------------
(* Properties.                                                             *)

\* AC15: a timed-out dispatch that reports its session as interrupted, or as
\* gone with its private server, has not left it generating.
InterruptHonest == interrupt \in {"not-needed", "ok"} => ~session.live

Envelope(r) == {i \in DOMAIN hb : hb[i].run = r /\ hb[i].tag \in TerminalTags}

\* A dispatch leaves at most one terminal line, after its own START and before
\* the START of the next, it says DONE of a success only, and a clean exit
\* code is only seen with it: a dispatcher that is gone without the line, by an
\* exception outside its guard say, has not passed for one that succeeded.
EnvelopeOK ==
    /\ \A r \in Runs : Cardinality(Envelope(r)) <= 1
    /\ \A r \in Runs : \A i \in Envelope(r) :
         /\ hb[i].tag = "DONE" <=> outcome[r] = "success"
         /\ \E j \in 1 .. i : hb[j].tag = "START" /\ hb[j].run = r
         /\ \A j \in 1 .. i : hb[j].run <= r
    /\ dpc \in Ended /\ exit = "clean" => \E i \in Envelope(run) : hb[i].tag = "DONE"

\* The claim of the module's own documentation: after START comes one terminal
\* line, unless the dispatcher is killed (heartbeat_begin, heartbeat_terminal).
NeverEndsSilent ==
    \A r \in Runs :
      (dpc = "begun" /\ run = r) ~>
        \/ Envelope(r) # {}
        \/ dpc = "crashed" /\ exit = "none"
=============================================================================
