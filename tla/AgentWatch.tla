----------------------------- MODULE AgentWatch -----------------------------
(***************************************************************************)
(* scripts/watch_agent.py --watch: a process that tells, again and again,  *)
(* whether a delegated child still lives, from three things it reads one   *)
(* after the other while the child goes on: the heartbeat file, the        *)
(* messages in the session store, and the status the server gives.         *)
(*                                                                         *)
(* Time is counted in intervals of --watch; a poll takes much less.        *)
(***************************************************************************)
EXTENDS Integers, FiniteSets, FiniteSetsExt

CONSTANTS StallWindow,        \* --stall-seconds
          GenerationWindow    \* --generation-seconds

ASSUME WatchAssumption ==
    /\ StallWindow \in Nat /\ GenerationWindow \in Nat
    /\ StallWindow <= GenerationWindow

VARIABLES
    worker,     \* the child: its heartbeat, its session, and whether it works
    service,    \* what the server the watcher asks says of the session
    watch       \* the watcher: where it is, what it has read, its last verdict

watchvars == <<worker, service, watch>>

\* SignAges, counted to where they make no difference any more.
Oldest == 2 * GenerationWindow + 1
NoSign  == Oldest + 1           \* no heartbeat file, no session
SignAges   == 0 .. NoSign

\* The last text of a session has a step-finish after it, or not.
Texts    == {"none", "open", "closed"}
Statuses == {"unknown", "busy", "retry", "succeeded", "idle"}
WatchVerdicts == {"OK", "STALLED", "BLOCKING", "DEAD", "UNKNOWN"}
Alarms   == {"STALLED", "DEAD"}

StoreType == [part : SignAges, open : BOOLEAN, tool : BOOLEAN, text : Texts]
NoStore   == [part |-> NoSign, open |-> FALSE, tool |-> FALSE, text |-> "none"]

WatchTypeOK ==
    /\ worker \in [state : {"alive", "hung", "ended"}, line : SignAges, store : StoreType]
    /\ service \in [up : BOOLEAN, entry : {"none", "busy", "retry"},
                    idle : {"none", "success", "other"}]
    /\ watch \in [pc : {"heartbeat", "store", "status", "judge", "sleep"}, line : SignAges,
                  store : StoreType, status : Statuses, verdict : WatchVerdicts \cup {"none"}]

WatchInit ==
    /\ worker = [state |-> "alive", line |-> NoSign, store |-> NoStore]
    /\ service \in [up : BOOLEAN, entry : {"none"}, idle : {"none"}]
    /\ watch = [pc |-> "heartbeat", line |-> NoSign, store |-> NoStore,
                status |-> "unknown", verdict |-> "none"]

---------------------------------------------------------------------------
(* The child and its server.                                               *)

Alive == worker.state = "alive"
Moves(w) == worker' = w /\ UNCHANGED <<service, watch>>

\* Its own line, or the dispatcher's START.
HeartbeatLine == Alive /\ Moves([worker EXCEPT !.line = 0])

\* A message of its session changes: a step is opened, emits text, calls a tool
\* or closes; the last one closed ends the session.
SessionMoves ==
    /\ Alive
    /\ LET s == [worker.store EXCEPT !.part = 0]
           now(t) == Moves([worker EXCEPT !.store = t])
       IN  \/ ~s.open /\ now([s EXCEPT !.open = TRUE])
           \/ s.open /\ ~s.tool /\ s.text # "open" /\ now([s EXCEPT !.text = "open"])
           \/ s.open /\ ~s.tool /\ now([s EXCEPT !.tool = TRUE])
           \/ s.tool /\ now([s EXCEPT !.tool = FALSE])
           \/ /\ s.open /\ ~s.tool
              /\ now([s EXCEPT !.open = FALSE, !.text = IF @ = "open" THEN "closed" ELSE @])

WorkerEnds ==
    /\ Alive /\ worker.store.part # NoSign /\ ~worker.store.open
    /\ worker' = [worker EXCEPT !.state = "ended"]
    /\ service' = [service EXCEPT !.entry = "none", !.idle = IF worker.store.text = "closed"
                                                              THEN "success" ELSE "other"]
    /\ UNCHANGED watch

\* The provider, the sandbox or the whole process is gone, at any point.
Hangs == Alive /\ Moves([worker EXCEPT !.state = "hung"])

\* The active map of the server; it has no entry of a session it does not own.
ServiceEntry ==
    /\ worker.state # "ended" /\ service.up
    /\ \E e \in {"none", "busy", "retry"} : service' = [service EXCEPT !.entry = e]
    /\ UNCHANGED <<worker, watch>>

---------------------------------------------------------------------------
(* The watcher.                                                            *)

Reads(w) == watch' = w /\ UNCHANGED <<worker, service>>

ReadHeartbeat ==
    /\ watch.pc = "heartbeat"
    /\ Reads([watch EXCEPT !.pc = "store", !.line = worker.line])

ReadStore ==
    /\ watch.pc = "store"
    /\ Reads([watch EXCEPT !.store = worker.store,
                !.pc = IF worker.store.part = NoSign THEN "judge" ELSE "status"])

\* session_status: the entry of the active map; else the row of the session,
\* which every server has: an outcome, or else its time of change, is taken for
\* an answer.
SessionStatus ==
    CASE ~service.up                                     -> "unknown"
      [] service.up /\ service.entry # "none"            -> service.entry
      [] service.up /\ service.entry = "none" /\ service.idle = "success" -> "succeeded"
      [] service.up /\ service.entry = "none" /\ service.idle = "other"   -> "idle"
      [] service.up /\ service.entry = "none" /\ service.idle = "none"    -> "busy"

AskStatus ==
    /\ watch.pc = "status"
    /\ Reads([watch EXCEPT !.pc = "judge", !.status = SessionStatus])

\* Mutant: text alone is taken for the result.
HasResult_AnyText(s) == s.text # "none" /\ ~s.tool

\* A step-finish after the last text, and no call in flight.
HasResult(s) == s.text = "closed" /\ ~s.tool

\* Mutant: an open step has no budget of its own.
QuietWindow_Plain(s) == StallWindow

QuietWindow(s) == IF s.open THEN GenerationWindow ELSE StallWindow

\* The fresher of the two signs.
LiveAge == Min({watch.line, watch.store.part})

\* The silence of a child counts only if the server does not answer for it and
\* it has no result; it overrides a call in flight.
SilenceVerdict ==
    CASE LiveAge > 2 * QuietWindow(watch.store)     -> "DEAD"
      [] LiveAge \in QuietWindow(watch.store) + 1 .. 2 * QuietWindow(watch.store) -> "STALLED"
      [] LiveAge <= QuietWindow(watch.store)        -> IF watch.store.tool THEN "BLOCKING" ELSE "OK"

Completed == watch.status = "succeeded" \/ HasResult(watch.store)

Verdict ==
    CASE LiveAge = NoSign                -> "UNKNOWN"
      [] LiveAge # NoSign /\ watch.status \in {"retry", "busy"} ->
           IF watch.store.tool THEN "BLOCKING"
           ELSE IF watch.status = "retry" THEN "STALLED" ELSE "OK"
      [] LiveAge # NoSign /\ watch.status \notin {"retry", "busy"} ->
           IF ~Completed THEN SilenceVerdict
           ELSE IF watch.store.tool THEN "BLOCKING" ELSE "OK"

\* What was read is kept as long as the verdict stands, as far as it explains it.
Announce ==
    /\ watch.pc = "judge"
    /\ Reads([watch EXCEPT !.pc = "sleep", !.verdict = Verdict, !.line = NoSign,
                !.store = [NoStore EXCEPT !.tool = watch.store.tool]])

\* A child that lives leaves a sign within its window: an open step within the
\* budget of a generation, else within the stall window.  A call it waits for
\* may take any time.
Due ==
    LET age  == Min({worker.line, worker.store.part})
        most == IF worker.store.open THEN GenerationWindow ELSE StallWindow
    IN  Alive /\ ~worker.store.tool /\ age >= most /\ age # NoSign

OneOlder(age) == IF age < Oldest THEN age + 1 ELSE age

Wakes ==
    /\ watch.pc = "sleep" /\ ~Due
    /\ worker' = [worker EXCEPT !.line = OneOlder(@), !.store.part = OneOlder(@)]
    /\ watch' = [watch EXCEPT !.pc = "heartbeat", !.line = NoSign, !.store = NoStore,
                   !.status = "unknown"]
    /\ UNCHANGED service

WatchStep == ReadHeartbeat \/ ReadStore \/ AskStatus \/ Announce \/ Wakes
WatchNext == WatchStep \/ HeartbeatLine \/ SessionMoves \/ WorkerEnds \/ Hangs \/ ServiceEntry

\* The watcher is a running program.
WatchFairness == WF_watchvars(WatchStep)
WatchSpec == WatchInit /\ [][WatchNext]_watchvars /\ WatchFairness
---------------------------------------------------------------------------
(* Properties.                                                             *)

\* A child that works is never called stalled or dead, although its heartbeat,
\* its store and its status are of different moments and an open step publishes
\* nothing -- but for one the server retries, and one that waits for a call.
NoFalseAlarm ==
    watch.pc = "sleep" /\ watch.verdict \in Alarms /\ Alive =>
      watch.status = "retry" \/ watch.store.tool

\* "True silence still fires": a child that hung without a result, in a step or
\* between two, before or after a first text, is reported at last, if the server
\* does not answer for it and no message that it completed holds text.
Hung == worker.state = "hung" /\ worker.store.text # "closed" /\ ~service.up
        /\ Min({worker.line, worker.store.part}) # NoSign
HangIsReported == Hung ~> watch.verdict \in Alarms
=============================================================================
