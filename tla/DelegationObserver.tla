------------------------- MODULE DelegationObserver -------------------------
(***************************************************************************)
(* plugins/delegation-observer/state.ts: what one observer process knows   *)
(* of one delegated session, its row, and which milestones it announces.   *)
(* Rows do not interact, so one is enough.  The server part and the TUI    *)
(* part run the same reducer; they differ in what they learn from lists.   *)
(*                                                                         *)
(* Time is the age of the row's activity stamp, in whole units (a window   *)
(* shorter than one is 0) and counted up to AgeCap, past which no          *)
(* comparison of the code changes its answer.  attentionWake off is        *)
(* MaxWakes = 0.  A session makes fewer than the 64 calls a row remembers. *)
(***************************************************************************)
EXTENDS Integers, FiniteSets

CONSTANTS Host,              \* the part that runs the reducer
          Requests,          \* permission requests and forms, by their detail
          Forms,             \* the forms among them
          Calls,             \* tool calls
          TargetOf,          \* what each call is made on
          StallAfter,        \* stallSeconds
          CallAfter,         \* callSeconds
          GenerationAfter,   \* generationSeconds
          StaleAfter,        \* staleGraceSeconds
          RoutineGap,        \* milestoneMinIntervalSeconds
          LoopRepeats,       \* loopRepeats
          MaxWakes,          \* maxAttentionWakes
          Rare,              \* which of the rare occasions below arise
          None               \* no row, no call, no request, no outcome

Occasions == {"archive",     \* the session is archived, and taken back
              "replay",      \* its creation is announced again
              "continue"}    \* it goes on after an end of its execution

ASSUME ReducerAssumption ==
    /\ Host \in {"server", "tui"}
    /\ Forms \subseteq Requests
    /\ {StallAfter, CallAfter, GenerationAfter, StaleAfter} \subseteq Nat
    /\ RoutineGap \in Nat \ {0} /\ LoopRepeats \in Nat \ {0}
    /\ StallAfter <= CallAfter /\ CallAfter <= GenerationAfter
    /\ StaleAfter <= GenerationAfter
    /\ MaxWakes \in Nat
    /\ Rare \subseteq Occasions
    /\ IsFiniteSet(Calls)
    /\ None \notin Requests \cup Calls

VARIABLES row,      \* the Delegate, or None
          live,     \* its entry of the active map, until an event reaches it
          said,     \* the milestones of the last step
          asked,    \* the child: its requests that are open, or were rejected
          ended,    \* the child: it was ended by an execution event
          quiet,    \* time since the last sign of life that reached the row
          alarmed   \* a stall was announced since then

reducervars == <<row, live, said, asked, ended, quiet, alarmed>>

NoneAsked == [q \in Requests |-> "no"]
Never == -1
AgeCap == 2 * GenerationAfter + 1
RowAges == 0 .. AgeCap
Older(age, cap) == IF age = Never \/ age = cap THEN age ELSE age + 1

Phases == {"starting", "active", "no events observed", "archived", "waiting",
           "denied", "resumed", "retry", "generating", "idle", "thinking",
           "step failed", "tool", "completed", "failed"}
RowOutcomes == {"completed", "failed"}
ASSUME OutcomeAssumption == None \notin RowOutcomes

WakeKinds == {"thrash", "stall", "needs-input", "denied"}
Kinds == WakeKinds \cup {"start", "first-tool", "retry", "resume", "terminal"}
Routine == {"start", "first-tool", "resume"}
Targets == {TargetOf[c] : c \in Calls}

Key(kind, about) == <<kind, about>>
Keys == {Key(kind, None) : kind \in {"start", "first-tool", "retry", "terminal"}}
        \cup {Key(kind, q) : kind \in {"needs-input", "denied"}, q \in Requests}
        \cup {Key("thrash", t) : t \in Targets}
        \cup {Key("stall", x) : x \in Phases \cup Calls}

RowType ==
    [status       : {"running", "waiting", "warning", "unknown"} \cup RowOutcomes,
     phase        : Phases,
     age          : RowAges \cup {Never},           \* lastActivityAt ?? startedAt
     provenance   : {"observed", "discovered"},
     stale        : BOOLEAN,
     archived     : BOOLEAN,
     busy         : BOOLEAN,
     openStep     : BOOLEAN,
     toolInFlight : BOOLEAN,
     tool         : Calls \cup {None},
     calls        : SUBSET Calls,                \* the calls already counted
     loop         : [key : Targets \cup {None}, count : 0 .. Cardinality(Calls)],
     needsInput   : Requests \cup {None},
     terminal     : RowOutcomes \cup {None},
     routineAge   : 0 .. RoutineGap \cup {Never}, \* of lastRoutineMilestoneAt
     wakes        : 0 .. MaxWakes,               \* attentionWakes
     emitted      : SUBSET Keys]
ASSUME RowAssumption == None \notin RowType /\ None \notin BOOLEAN

ReducerTypeOK ==
    /\ row \in RowType \cup {None}
    /\ live \in BOOLEAN \cup {None}
    /\ said \subseteq [kind : Kinds, about : Requests \cup {None}, wake : BOOLEAN]
    /\ asked \in [Requests -> {"no", "open", "rejected"}]
    /\ ended \in BOOLEAN
    /\ quiet \in RowAges
    /\ alarmed \in BOOLEAN
-----------------------------------------------------------------------------
(* Milestones                                                              *)

\* A handler of the reducer returns the row and the milestones to announce.
Quietly(r) == [row |-> r, said |-> {}]

\* Routine milestones are spaced and lost when they come too early.
TooSoon(r, kind) ==
    kind \in Routine /\ r.routineAge # Never /\ r.routineAge < RoutineGap

\* Mutant: the budget of attention wakes is not looked at.
WakeNow_Unbounded(r, kind) == kind \in WakeKinds

WakeNow(r, kind) == kind \in WakeKinds /\ r.wakes < MaxWakes

\* A resume milestone's key holds the time and is never met again.
Milestone(r, kind, about) ==
    LET key == Key(kind, about) IN
    IF key \in r.emitted THEN Quietly(r)
    ELSE LET kept == [r EXCEPT !.emitted = IF kind = "resume" THEN @ ELSE @ \cup {key}]
         IN  IF TooSoon(r, kind) THEN Quietly(kept)
             ELSE [row  |-> [kept EXCEPT
                        !.routineAge = IF kind \in Routine THEN 0 ELSE @,
                        !.wakes = IF WakeNow(r, kind) THEN @ + 1 ELSE @],
                   said |-> {[kind |-> kind,
                              about |-> IF about \in Requests THEN about ELSE None,
                              wake |-> WakeNow(r, kind)]}]

\* Mutant: a stall that was announced stays announced.
Touch_KeepsAlarm(r) ==
    [r EXCEPT !.age = 0,
              !.stale = FALSE,
              !.status = IF @ \in {"warning", "failed", "unknown"} THEN "running" ELSE @]

\* Activity: the clock restarts, a verdict of the clock is withdrawn and a
\* stall may be announced again.
Touch(r) ==
    [r EXCEPT !.age = 0,
              !.stale = FALSE,
              !.status = IF @ \in {"warning", "failed", "unknown"} THEN "running" ELSE @,
              !.emitted = {key \in @ : key[1] # "stall"}]
-----------------------------------------------------------------------------
(* Evidence that is not an event                                           *)

IsStale(r, map) ==
    \/ r.archived
    \/ r.terminal # None /\ r.provenance # "observed"
    \/ /\ r.terminal = None /\ r.provenance # "observed" /\ map # TRUE
       /\ r.age = Never \/ r.age >= StaleAfter

StoreOutcome(r, outcome) ==
    IF r.terminal # None THEN r
    ELSE [r EXCEPT !.terminal = outcome, !.status = outcome, !.phase = outcome,
                   !.needsInput = None, !.toolInFlight = FALSE, !.busy = FALSE,
                   !.emitted = @ \cup {Key("start", None), Key("terminal", None)}]

NewRow(provenance, age, archived) ==
    [status |-> "running", phase |-> "starting", age |-> age,
     provenance |-> provenance, stale |-> FALSE, archived |-> archived,
     busy |-> FALSE, openStep |-> FALSE, toolInFlight |-> FALSE, tool |-> None,
     calls |-> {}, loop |-> [key |-> None, count |-> 0], needsInput |-> None,
     terminal |-> None, routineAge |-> Never, wakes |-> 0, emitted |-> {}]

\* The row of a listed session: its outcome outranks the archive, which
\* outranks the active map.
Discovered(age, outcome, archived, map) ==
    LET r == NewRow("discovered", age, archived)
        silent == [r EXCEPT !.status = "unknown", !.emitted = {Key("start", None)}]
        d == IF outcome # None THEN StoreOutcome(r, outcome)
             ELSE IF archived THEN [silent EXCEPT !.phase = "archived"]
             ELSE IF map = TRUE THEN [r EXCEPT !.phase = "active"]
             ELSE [silent EXCEPT !.phase = "no events observed"]
    IN  [d EXCEPT !.stale = IsStale(d, map)]

\* Mutant: a snapshot can only say that a session runs.
Marked_OnlyAdds(r, next) ==
    IF next /\ r # None /\ ~r.archived /\ r.terminal = None /\ r.provenance # "observed"
    THEN [r EXCEPT !.status = "running", !.phase = "active", !.stale = FALSE]
    ELSE r

\* reconcileActive and markActive: what an answer of the host, or the lack of
\* one, does to a row that is known from the list alone.
Marked(r, next) ==
    IF r = None \/ r.archived \/ r.terminal # None \/ r.provenance = "observed" THEN r
    ELSE IF next THEN [r EXCEPT !.status = "running", !.phase = "active", !.stale = FALSE]
    ELSE IF r.status # "running" THEN r
    ELSE LET d == [r EXCEPT !.status = "unknown", !.phase = "no events observed"]
         IN  [d EXCEPT !.stale = IsStale(d, FALSE)]
-----------------------------------------------------------------------------
(* The reducer                                                             *)

\* Mutant: an ended row still listens.
Listening_Unended(r) == r # None /\ ~r.archived

Listening(r) == r # None /\ ~r.archived /\ r.terminal = None

\* Mutant: the store's own stamp is kept as the start of the silence.
Promoted_StoreClock(r) == [r EXCEPT !.provenance = "observed"]

\* The first event makes a listed row an observed one, as of now.
Promoted(r) ==
    IF r.provenance = "observed" THEN r
    ELSE Touch([r EXCEPT !.provenance = "observed"])

\* One event of a known session.  Nothing reads the map's entry of an observed
\* row, so it is not kept.  A sign of life, or the first event at all,
\* restarts the silence an alarm is measured by.
Observe(Handle(_), signOfLife) ==
    IF Listening(row)
    THEN LET o == Handle(Promoted(row))
             restart == signOfLife \/ row.provenance = "discovered"
         IN  /\ row' = o.row
             /\ said' = o.said
             /\ quiet' = IF restart THEN 0 ELSE quiet
             /\ alarmed' = (alarmed /\ ~restart)
             /\ live' = None
    ELSE said' = {} /\ UNCHANGED <<row, live, quiet, alarmed>>

\* session.created: a new row is observed; of a row the process has, it can
\* still be the first to say that it started, ended or not.
Created ==
    /\ ~ended
    /\ row = None \/ "replay" \in Rare
    /\ IF row = None
       THEN LET o == Milestone(NewRow("observed", 0, FALSE), "start", None)
            IN  row' = o.row /\ said' = o.said /\ quiet' = 0 /\ alarmed' = FALSE
                /\ UNCHANGED live
       ELSE LET fresh == Milestone(row, "start", None)
                first == row.provenance = "discovered"
            IN  IF row.archived
                THEN said' = {} /\ UNCHANGED <<row, live, quiet, alarmed>>
                ELSE /\ said' = fresh.said
                     /\ row' = IF row.terminal = None THEN Promoted(fresh.row)
                               ELSE fresh.row
                     /\ quiet' = IF first THEN 0 ELSE quiet
                     /\ alarmed' = (alarmed /\ ~first)
                     /\ live' = IF row.terminal = None THEN None ELSE live
    /\ UNCHANGED <<asked, ended>>

\* session.renamed to a delegation title: a row, and no start milestone.
Renamed ==
    /\ ~ended
    /\ IF row = None
       THEN row' = NewRow("observed", 0, FALSE) /\ said' = {} /\ quiet' = 0 /\ alarmed' = FALSE
            /\ UNCHANGED live
       ELSE Observe(Quietly, FALSE)
    /\ UNCHANGED <<asked, ended>>

\* permission.asked and form.created.  The row holds one request: a second
\* one takes the place of the first.
Asked(q) ==
    /\ asked[q] # "open" /\ ~ended
    /\ asked' = [asked EXCEPT ![q] = "open"]
    /\ Observe(LAMBDA r : Milestone([r EXCEPT !.needsInput = q, !.status = "waiting",
                                              !.phase = "waiting"], "needs-input", q),
               FALSE)
    /\ UNCHANGED <<ended>>

\* permission.replied, form.replied and form.cancelled: the answer is taken
\* for the request the row holds, whichever request it answers.
Resumed(r) ==
    IF r.needsInput = None THEN Quietly(r)
    ELSE Milestone(Touch([r EXCEPT !.needsInput = None, !.status = "running",
                                   !.phase = "resumed"]), "resume", None)
Denied(r) ==
    IF r.needsInput = None THEN Quietly(r)
    ELSE Milestone([Touch([r EXCEPT !.needsInput = None]) EXCEPT
                        !.status = "warning", !.phase = "denied"], "denied", r.needsInput)

Answered(q) ==
    /\ asked[q] = "open" /\ ~ended
    /\ asked' = [asked EXCEPT ![q] = "no"]
    /\ Observe(Resumed, row # None /\ row.needsInput # None)
    /\ UNCHANGED <<ended>>
Rejected(q) ==
    /\ q \notin Forms /\ asked[q] = "open" /\ ~ended
    /\ asked' = [asked EXCEPT ![q] = "rejected"]
    /\ Observe(Denied, row # None /\ row.needsInput # None)
    /\ UNCHANGED <<ended>>

\* session.status
BusyTurn(r) ==
    Quietly(Touch([r EXCEPT !.busy = TRUE,
        !.status = IF r.needsInput # None THEN "waiting" ELSE "running",
        !.phase = IF r.needsInput # None THEN @ ELSE "generating"]))
IdleTurn(r) ==
    Quietly([Touch([r EXCEPT !.busy = FALSE]) EXCEPT
        !.status = IF @ = "waiting" THEN @ ELSE "running", !.phase = "idle"])
RetryTurn(r) ==
    Milestone([r EXCEPT !.busy = FALSE, !.status = "warning", !.phase = "retry"],
              "retry", None)

\* session.step.started, .ended, .failed and session.usage.updated
StepStarted(r) == Quietly(Touch([r EXCEPT !.openStep = TRUE, !.phase = "generating"]))
StepEnded(r)   == Quietly(Touch([r EXCEPT !.openStep = FALSE, !.phase = "thinking"]))
StepFailed(r)  == Quietly([Touch([r EXCEPT !.openStep = FALSE]) EXCEPT
                              !.status = "warning", !.phase = "step failed"])

ChildEvent ==
    /\ ~ended
    /\ \/ Observe(BusyTurn, TRUE) \/ Observe(IdleTurn, TRUE) \/ Observe(RetryTurn, FALSE)
       \/ Observe(StepStarted, TRUE) \/ Observe(StepEnded, TRUE) \/ Observe(StepFailed, TRUE)
       \/ Observe(Quietly, FALSE)
    /\ UNCHANGED <<asked, ended>>

\* applyTool for a call that runs: each call is counted once, by its target,
\* and not before its name is known.
Counted(r, c) ==
    [r EXCEPT !.calls = @ \cup {c},
              !.loop = [key |-> TargetOf[c],
                        count |-> IF @.key = TargetOf[c] THEN @.count + 1 ELSE 1]]
ToolRuns(r, c, named) ==
    LET running == [Touch(r) EXCEPT !.phase = "tool", !.toolInFlight = TRUE, !.tool = c]
    IN  IF c \in r.calls \/ ~named THEN Quietly(running)
        ELSE LET first == Milestone(Counted(running, c), "first-tool", None)
                 thrash == Milestone(first.row, "thrash", TargetOf[c])
             IN  IF first.row.loop.count < LoopRepeats THEN first
                 ELSE [row |-> [thrash.row EXCEPT
                                  !.status = IF thrash.said # {} /\ @ = "running"
                                             THEN "warning" ELSE @],
                       said |-> first.said \cup thrash.said]
ToolEnds(r) ==
    Quietly([Touch(r) EXCEPT !.phase = "thinking", !.toolInFlight = FALSE, !.tool = None])

\* session.tool.input.ended, .called, .success, .failed and the blocks of
\* session.message.content.updated.  .called without a name of a call that was
\* counted is a repetition and is dropped.
ToolCalled(c) ==
    /\ ~ended
    /\ \/ \E named \in BOOLEAN : Observe(LAMBDA r : ToolRuns(r, c, named), TRUE)
       \/ row # None /\ c \in row.calls /\ Observe(Quietly, FALSE)
    /\ UNCHANGED <<asked, ended>>
ToolEnded == ~ended /\ Observe(ToolEnds, TRUE) /\ UNCHANGED <<asked, ended>>

\* session.execution.succeeded, .failed, .interrupted.  Nothing reads the age
\* of a row that ended, so it is not kept.
Terminated(r, outcome) ==
    Milestone([r EXCEPT !.terminal = outcome, !.status = outcome, !.phase = outcome,
                        !.needsInput = None, !.toolInFlight = FALSE, !.age = Never],
              "terminal", None)
ExecutionEnded ==
    /\ ~ended /\ row # None
    /\ ended' = TRUE /\ asked' = NoneAsked
    /\ \E outcome \in RowOutcomes : Observe(LAMBDA r : Terminated(r, outcome), TRUE)

\* session.archived and session.unarchived
Archive ==
    /\ "archive" \in Rare /\ row # None
    /\ row' = [row EXCEPT !.archived = TRUE, !.needsInput = None,
                          !.toolInFlight = FALSE, !.busy = FALSE, !.stale = TRUE]
    /\ said' = {}
    /\ UNCHANGED <<live, asked, ended, quiet, alarmed>>
Unarchive ==
    /\ row # None /\ row.archived
    /\ LET d == [row EXCEPT !.archived = FALSE]
       IN  row' = [d EXCEPT !.stale = IsStale(d, live)]
    /\ said' = {}
    /\ UNCHANGED <<live, asked, ended, quiet, alarmed>>

\* A session that was over goes on: its events come again.
GoesOn ==
    /\ "continue" \in Rare
    /\ ended /\ ended' = FALSE /\ said' = {}
    /\ UNCHANGED <<row, live, asked, quiet, alarmed>>
-----------------------------------------------------------------------------
(* The clock and the host                                                  *)

Threshold(r) ==
    IF r.openStep THEN GenerationAfter
    ELSE IF r.toolInFlight THEN CallAfter ELSE StallAfter

\* The rows the clock may judge.
Watched(r) ==
    /\ r # None
    /\ r.terminal = None /\ ~r.archived /\ r.provenance = "observed"
    /\ r.needsInput = None /\ ~r.busy

Classified(r, map) ==
    IF r = None THEN Quietly(r)
    ELSE LET d == [r EXCEPT !.stale = IsStale(r, map)]
         IN  IF Watched(d) /\ d.age > Threshold(d)
             THEN Milestone([d EXCEPT !.status = IF d.age > 2 * Threshold(d)
                                                 THEN "failed" ELSE "warning"],
                            "stall", IF d.tool # None THEN d.tool ELSE d.phase)
             ELSE IF Listening(d) /\ d.needsInput # None
             THEN Quietly([d EXCEPT !.status = "waiting"])
             ELSE Quietly(d)

\* server.ts flush, and the interval of model.ts, which reads the active map
\* first: a map that cannot be read, or has no entry, denies the session.
HostTick ==
    /\ \E next \in BOOLEAN :
         LET told == Host = "tui" /\ row # None /\ row.provenance = "discovered"
             o == IF told THEN Classified(Marked(row, next), next)
                  ELSE Classified(row, live)
         IN  /\ live' = IF told THEN next ELSE live
             /\ row' = o.row
             /\ said' = o.said
             /\ alarmed' = (alarmed \/ \E m \in o.said : m.kind = "stall")
    /\ UNCHANGED <<asked, ended, quiet>>

Time ==
    /\ row # None /\ row.terminal = None
    /\ quiet' = Older(quiet, AgeCap)
    /\ row' = [row EXCEPT !.age = Older(@, AgeCap), !.routineAge = Older(@, RoutineGap)]
    /\ said' = {}
    /\ UNCHANGED <<live, asked, ended, alarmed>>

\* The list of the store is read once, before the first event; only the TUI
\* has an active map.  The session is in the list, or yet to be created.
Bootstrapped(age, outcome, archived, map) ==
    /\ Host = "server" => map = None
    /\ live = map
    /\ row = Discovered(age, outcome, archived, map)
    /\ outcome # None => asked = NoneAsked
    /\ ended = (outcome # None)

ReducerInit ==
    /\ asked \in [Requests -> {"no", "open"}]
    /\ \/ row = None /\ live = None /\ asked = NoneAsked /\ ended = FALSE
       \/ \E age \in RowAges \cup {Never}, outcome \in RowOutcomes \cup {None},
             archived \in BOOLEAN, map \in BOOLEAN \cup {None} :
                Bootstrapped(age, outcome, archived, map)
    /\ said = {} /\ quiet = 0 /\ alarmed = FALSE

ReducerNext ==
    \/ Created \/ Renamed
    \/ \E q \in Requests : Asked(q) \/ Answered(q) \/ Rejected(q)
    \/ ChildEvent
    \/ \E c \in Calls : ToolCalled(c)
    \/ ToolEnded \/ ExecutionEnded \/ GoesOn
    \/ Archive \/ Unarchive
    \/ HostTick \/ Time

ReducerSpec == ReducerInit /\ [][ReducerNext]_reducervars
-----------------------------------------------------------------------------
(* Properties                                                              *)

\* A stall is announced only when this process itself has had no sign of life
\* for longer than the budget of what the session was last seen doing; the
\* age of a store record never counts as silence (tick, and the promotion in
\* observe).
StallIsEarned ==
    [][(\E m \in said' : m.kind = "stall") => quiet > Threshold(row)]_reducervars

\* ... and every such silence is: after a tick of the clock a watched session
\* that is silent beyond its budget has been announced since it fell silent,
\* however often it was silent and announced before (tick, touch).
EverySilenceAnnounced ==
    [][Watched(row) /\ quiet > Threshold(row) /\ HostTick => alarmed']_reducervars

\* An archived row announces nothing, and an ended one nothing but a creation
\* that is announced again, and it keeps its outcome and its status, whatever
\* else the session, the list or the active map say of it (observe,
\* applyStoreOutcome, markActive, tick).
OverIsOver ==
    [][row # None =>
          /\ row.archived => said' = {}
          /\ row.terminal # None =>
                /\ row'.terminal = row.terminal /\ row'.status = row.status
                /\ \A m \in said' : m.kind = "start"]_reducervars

\* After each tick of the host, a session known from the list alone is shown
\* as running only if the active map says so now (reconcileActive).
RunningNeedsEvidence ==
    [][Listening(row') /\ row'.provenance = "discovered" /\ row'.status = "running"
         /\ HostTick => live' = TRUE]_reducervars

\* Every wake is paid for: a step that wakes the orchestrator for attention spends as
\* much of the session's budget, and nothing gives any of it back, whatever stalls,
\* loops, requests and denials come after one another and however often the session
\* is listed again, archived or goes on (milestone, maxAttentionWakes).
WakesAreBudgeted ==
    [][LET spent == IF row = None THEN 0 ELSE row.wakes
           woken == Cardinality({m \in said' : m.wake})
       IN  IF row' = None THEN woken = 0
           ELSE row'.wakes = spent + woken /\ row'.wakes <= MaxWakes]_reducervars

\* When the owner rejects a request that was announced, its denial has been
\* announced too (observe: permission.replied).
DenialIsAnnounced ==
    [][\A q \in Requests :
          (asked[q] = "open" /\ asked'[q] = "rejected"
             /\ Listening(row) /\ Key("needs-input", q) \in row.emitted)
            => Key("denied", q) \in row'.emitted]_reducervars
=============================================================================
