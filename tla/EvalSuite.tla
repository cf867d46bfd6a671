----------------------------- MODULE EvalSuite ------------------------------
(***************************************************************************)
(* skills/authoring-skills/scripts/run_behavioral_eval.py: a suite selects *)
(* evals, gives each one its turns with an agent (retries, nudges, fresh   *)
(* sessions), records a verdict, and moves the rest of the run to a paid   *)
(* fallback lane once the deaths of the primary lane prove it degraded;    *)
(* afterwards the evals that died are attempted once more over there.      *)
(*                                                                         *)
(* A turn is one `opencode run', and what it leaves is one of Kinds: what  *)
(* the matcher and the error classifier make of its output.                *)
(***************************************************************************)
EXTENDS Quarantine

CONSTANTS Traits,         \* what the manifests say of each eval
          CommandLines,   \* the selections asked for
          MaxRetries, MaxNudges, MaxFresh,   \* budgets of one eval
          Deaths, EvalDeaths, MinAttempted, InfraShare,   \* triggers
          MaxReruns, Ceiling,   \* of the fallback lane; in turns that cost
          Settings,       \* is the fallback opted in, and has it its key
          TurnEnds,       \* bound: the kinds of turns that happen
          MaxWork         \* bound: the work of all suites, n * n for one of n evals

\* A turn that did all it was asked for; one that worked and missed something;
\* one that only talked; one that could not be launched at all; and the dead
\* ones: the model does not resolve, the provider's wrapper error, the sandbox
\* rejected, a stall after or before a first line of output.
Kinds   == {"pass", "worked", "idle", "unlaunched",
            "unresolved", "wrapper", "rejected", "stall", "silence"}
Mute    == {"stall", "silence"}                    \* timed out, no events
Dead    == {"unresolved", "wrapper", "rejected"} \cup Mute
Classed == {"unresolved", "wrapper", "stall"}      \* the provider's fault
Billed  == {"pass", "worked", "idle"}

ASSUME EvalAssumption ==
    /\ Evals \subseteq Nat /\ IsFiniteSet(Evals)
    /\ \A n \in {MaxRetries, MaxNudges, MaxFresh, MinAttempted, InfraShare,
                 MaxReruns, Ceiling, MaxWork} : n \in Nat
    /\ Deaths \in Nat \ {0} /\ EvalDeaths \in Nat \ {0}
    /\ MinAttempted # 0
    /\ Settings \subseteq [enabled : BOOLEAN, key : BOOLEAN]
    /\ TurnEnds \subseteq Kinds
    /\ \A c \in CommandLines : c.limit \in Nat

VARIABLES
    suite,   \* the process: where it is, what it selected, how it ended
    lane,    \* lane_state: is the fallback active, and the evidence for it
    turn,    \* run_eval's locals
    log,     \* the run log of this suite: verdicts, the evals with records of a retried
             \* death, those with marked deaths, the deaths still without a mark, what
             \* the switch names
    ran,     \* the work of all suites so far (bounded)
    misses, passes   \* history, see the properties

suitevars   == <<suite, lane, turn, log>>
historyvars == <<misses, passes>>
evalvars    == <<book, suitevars, ran, historyvars>>

NoCommand == [skills |-> {}, deferred |-> FALSE, ci |-> FALSE, quarantined |-> FALSE,
              mode |-> "all", limit |-> 0]
NotLooked == [enabled |-> FALSE, key |-> TRUE]
NoSuite == [pc |-> "idle", command |-> NoCommand, list |-> <<>>, pos |-> 0,
            setting |-> NotLooked, lost |-> 0, again |-> FALSE, exit |-> "none"]
NewLane == [active |-> FALSE, deaths |-> 0, degraded |-> {}, trigger |-> FALSE, spend |-> 0]
NoTurn  == [step |-> "none", last |-> "pass", passed |-> FALSE, retries |-> 0,
            nudges |-> 0, fresh |-> 0, mute |-> 0, dead |-> 0, foreign |-> FALSE, cost |-> 0]
NewLog  == [final |-> [e \in Evals |-> <<>>], notes |-> {}, marks |-> {},
            open |-> [e \in Evals |-> 0], switch |-> {}]

Verdict == [outcome : {"success", "failure", "error"}, classed : BOOLEAN,
            fallback : BOOLEAN, cost : Nat]

EvalTypeOK ==
    /\ BookTypeOK
    /\ suite \in [pc : {"idle", "loop", "eval", "judge"}, command : CommandLines \cup {NoCommand},
                  list : Seq(Evals), pos : Nat, setting : Settings \cup {NotLooked}, lost : Nat,
                  again : BOOLEAN, exit : {"none", "killed", "0", "1", "3", "4"}]
    /\ lane \in [active : BOOLEAN, deaths : Nat, degraded : SUBSET Evals,
                 trigger : BOOLEAN, spend : Nat]
    /\ turn \in [step : {"none", "retry", "nudge", "fresh"}, last : Kinds, passed : BOOLEAN,
                 retries : Nat, nudges : Nat, fresh : Nat, mute : Nat, dead : Nat,
                 foreign : BOOLEAN, cost : Nat]
    /\ log \in [final : [Evals -> Seq(Verdict)], notes : SUBSET Evals, marks : SUBSET Evals,
                open : [Evals -> Int], switch : SUBSET Evals]
    /\ ran \in Nat
    /\ misses \in [Evals -> Nat] /\ passes \in [Evals -> Nat]

EvalInit ==
    /\ BookInit
    /\ suite = NoSuite /\ lane = NewLane /\ turn = NoTurn /\ log = NewLog
    /\ ran = 0
    /\ misses = [e \in Evals |-> 0] /\ passes = [e \in Evals |-> 0]

Upto(n, cap) == IF n < cap THEN n ELSE cap

---------------------------------------------------------------------------
(* The selection.                                                          *)

InOrder(S) ==
    CHOOSE q \in [1 .. Cardinality(S) -> S] :
      \A i, j \in 1 .. Cardinality(S) : i < j => q[i] < q[j]

\* The gates of one eval: deferred, paid in CI, quarantined, other skills.
Included(c) ==
    {e \in Evals :
       /\ IF Traits[e].deferred THEN c.deferred ELSE ~(c.ci /\ Traits[e].paid)
       /\ e \in Quarantined => c.quarantined
       /\ Traits[e].skill \in c.skills}

\* Of each skill the first eval marked as its default, or else its first.
DefaultOf(S) ==
    LET Peers(e)  == {d \in S : Traits[d].skill = Traits[e].skill}
        Marked(e) == {d \in Peers(e) : Traits[d].default}
    IN  {e \in S : e = Min(IF Marked(e) = {} THEN Peers(e) ELSE Marked(e))}

\* --limit only cuts a selection that no marker made.
FilterEvals(c) ==
    LET S == Included(c)
    IN  CASE c.mode = "core"    -> InOrder({e \in S : Traits[e].core})
          [] c.mode = "default" -> InOrder(DefaultOf(S))
          [] OTHER              -> SubSeq(InOrder(S), 1, Upto(Cardinality(S), c.limit))

---------------------------------------------------------------------------
(* One eval.                                                               *)

Current == suite.list[suite.pos]

\* The window of deaths: evidence is kept of the primary lane only, and the
\* run of deaths that arms the switch is one of unresolved models.
NoteDeath(e) ==
    CASE lane.active -> lane
      [] ~lane.active /\ turn.last \notin Classed -> [lane EXCEPT !.deaths = 0]
      [] OTHER -> [lane EXCEPT !.degraded = @ \cup {e},
                               !.deaths = IF turn.last = "unresolved" THEN Upto(@ + 1, Deaths)
                                          ELSE 0]

\* Mutant: only the deaths that count for the trigger are marked.
Marked_Unresolved(e) ==
    IF ~lane.active /\ turn.last = "unresolved"
    THEN [log EXCEPT !.marks = @ \cup {e}, !.open[e] = @ - 1] ELSE log

\* The record of the death carries the evidence mark.
Marked(e) ==
    IF ~lane.active /\ turn.last \in Classed
    THEN [log EXCEPT !.marks = @ \cup {e}, !.open[e] = @ - 1] ELSE log

\* What run_eval keeps of a turn that ended as k; nobody reads what a turn of
\* the primary lane cost.
Answered(t, k) ==
    [t EXCEPT !.last = k, !.passed = @ \/ k = "pass",
              !.mute = IF k \in Mute \cup {"unlaunched"} THEN Upto(@ + 1, 2) ELSE @,
              !.dead = IF k \in Dead THEN Upto(@ + 1, EvalDeaths) ELSE @,
              !.foreign = @ \/ k \in Dead \ Classed,
              !.cost = IF k \in Billed /\ lane.active THEN @ + 1 ELSE @]

CrashVerdict == [outcome |-> "error", classed |-> FALSE, fallback |-> lane.active, cost |-> 0]

\* get_output: the turn runs on the lane that is active now, and ends by itself
\* or with its process group at the stall timeout.  An exception leaves
\* run_eval for the record of a runner crash.
Invoke(s, t, l) ==
    LET e == s.list[s.pos]
    IN  \/ \E k \in TurnEnds :
             /\ turn' = Answered(t, k)
             /\ log' = IF k \in Classed /\ ~lane.active THEN [l EXCEPT !.open[e] = @ + 1] ELSE l
             /\ suite' = s
        \/ /\ turn' = NoTurn /\ suite' = [s EXCEPT !.pc = "judge"]
           /\ log' = [l EXCEPT !.final[e] = Append(@, CrashVerdict)]

\* Another turn after a dead one, a retry or a fresh session, and a record of it.
TryAgain(t) ==
    /\ lane' = NoteDeath(Current)
    /\ Invoke(suite, t, [Marked(Current) EXCEPT !.notes = @ \cup {Current}])
    /\ UNCHANGED <<book, ran, misses, passes>>

MayRetry == ~turn.passed /\ turn.retries < MaxRetries /\ turn.last \in Mute

RetryTurn ==
    /\ turn.step = "retry" /\ MayRetry
    /\ TryAgain([turn EXCEPT !.retries = @ + 1])

\* The session that only talked is told to go on; each session has its budget.
MayNudge == ~turn.passed /\ turn.nudges < MaxNudges /\ turn.last = "idle"

Nudge ==
    /\ turn.step = "nudge" /\ MayNudge
    /\ Invoke(suite, [turn EXCEPT !.nudges = @ + 1], log)
    /\ UNCHANGED <<book, lane, ran, misses, passes>>

\* Two turns without an event end the budget of fresh sessions, but only a
\* fresh session looks.
MayRestart ==
    /\ ~turn.passed /\ turn.fresh < MaxFresh /\ turn.last \in Dead
    /\ turn.fresh > 0 => turn.mute < 2

\* Mutant: the budget is the session's, as that of the nudges is.
FreshTurn_Unbounded ==
    /\ turn.step = "fresh" /\ MayRestart
    /\ TryAgain([turn EXCEPT !.step = "nudge", !.nudges = 0])

FreshTurn ==
    /\ turn.step = "fresh" /\ MayRestart
    /\ TryAgain([turn EXCEPT !.step = "nudge", !.fresh = @ + 1, !.nudges = 0])

\* The loops follow one another.
NextLoop ==
    /\ \/ turn.step = "retry" /\ ~MayRetry /\ turn' = [turn EXCEPT !.step = "nudge"]
       \/ turn.step = "nudge" /\ ~MayNudge /\ turn' = [turn EXCEPT !.step = "fresh"]
    /\ UNCHANGED <<book, suite, lane, log, ran, historyvars>>

Outcome == CASE turn.passed        -> "success"
             [] ~turn.passed /\ turn.last \in Dead -> "error"
             [] OTHER              -> "failure"

\* Mutant: a trigger that any dead turns arm.
EvalTrigger_AnyDeath == ~lane.active /\ turn.dead >= EvalDeaths

\* The trigger of a run with a single eval: dead turns, all the provider's.
EvalTrigger == ~lane.active /\ ~turn.foreign /\ turn.dead >= EvalDeaths

\* The window as the verdict leaves it: a pass or a miss closes it.
Graded(e) ==
    LET l == IF Outcome = "error" THEN NoteDeath(e)
             ELSE IF lane.active THEN lane ELSE [lane EXCEPT !.deaths = 0]
    IN  [l EXCEPT !.trigger = EvalTrigger]

VerdictOf == [outcome |-> Outcome, classed |-> Outcome = "error" /\ turn.last \in Classed,
              fallback |-> lane.active, cost |-> turn.cost]

\* Mutant: a dead session is entered as a failure of the eval.
EnterBook_Dead(e) == IF Outcome = "success" THEN RecordSuccess(e) ELSE RecordFailure(e)

\* A dead session is not the eval's fault.
EnterBook(e) ==
    CASE Outcome = "success" -> RecordSuccess(e)
      [] Outcome = "failure" -> RecordFailure(e)
      [] OTHER               -> UNCHANGED book

\* The best turn decides, and whether the last one died.
Grade ==
    /\ turn.step = "fresh" /\ ~MayRestart
    /\ lane' = Graded(Current)
    /\ LET l == IF Outcome = "error" THEN Marked(Current) ELSE log
       IN  log' = [l EXCEPT !.final[Current] = Append(@, VerdictOf)]
    /\ EnterBook(Current)
    /\ turn' = NoTurn /\ suite' = [suite EXCEPT !.pc = "judge"]
    /\ misses' = [misses EXCEPT ![Current] =
                    CASE Outcome = "success" -> 0
                      [] Outcome = "failure" -> Upto(@ + 1, Threshold)
                      [] OTHER               -> @]
    /\ passes' = [passes EXCEPT ![Current] =
                    IF Outcome = "success" /\ Current \in Quarantined
                    THEN Upto(@ + 1, RehabRuns)
                    ELSE IF Current \notin Quarantined THEN 0 ELSE @]
    /\ UNCHANGED ran

---------------------------------------------------------------------------
(* The suite.                                                              *)

\* An empty selection is no failure.
StartSuite ==
    /\ suite.pc = "idle"
    /\ \E c \in CommandLines :
         LET list == FilterEvals(c)
         IN  /\ ran + Len(list) * Len(list) <= MaxWork
             /\ ran' = ran + Len(list) * Len(list)
             /\ suite' = [NoSuite EXCEPT
                            !.pc = IF list = <<>> THEN "idle" ELSE "loop",
                            !.command = c, !.list = list,
                            !.exit = IF list = <<>> THEN "0" ELSE "none"]
    /\ lane' = NewLane /\ log' = NewLog /\ turn' = NoTurn
    /\ UNCHANGED <<book, misses, passes>>

Latest(e) == Last(log.final[e])

\* Mutant: an eval that passed is attempted again with the others.
ToReattempt_Passed(from) ==
    {i \in from .. Len(suite.list) : MaxReruns > 0 /\ suite.list[i] \in lane.degraded}

\* Mutant: the last eval of the list is forgotten.
ToReattempt_SkipsLast(from) ==
    {i \in from .. Len(suite.list) - 1 :
       /\ MaxReruns > 0
       /\ suite.list[i] \in lane.degraded
       /\ Latest(suite.list[i]).outcome # "success"}

\* The second loop goes over the list once, so a larger MaxReruns adds nothing.
ToReattempt(from) ==
    {i \in from .. Len(suite.list) :
       /\ MaxReruns > 0
       /\ suite.list[i] \in lane.degraded
       /\ Latest(suite.list[i]).outcome # "success"}

\* The next eval of the loop that is running.
NextEval ==
    /\ suite.pc = "loop"
    /\ LET I == IF suite.again THEN ToReattempt(suite.pos + 1)
                               ELSE suite.pos + 1 .. Len(suite.list)
       IN  /\ I # {}
           /\ Invoke([suite EXCEPT !.pc = "eval", !.pos = Min(I)],
                     [NoTurn EXCEPT !.step = "retry"], log)
    /\ UNCHANGED <<book, lane, ran, misses, passes>>

Stops(code) == suite' = [suite EXCEPT !.pc = "idle", !.exit = code]
Continues   == suite' = [suite EXCEPT !.pc = "loop"]

OverCeiling == lane.spend + Latest(Current).cost > Ceiling

\* On the fallback lane the spend decides whether the suite goes on.
JudgeSpend ==
    /\ suite.pc = "judge" /\ lane.active
    /\ lane' = [lane EXCEPT !.spend = @ + Latest(Current).cost]
    /\ IF OverCeiling THEN Stops("4") ELSE Continues
    /\ UNCHANGED <<book, turn, log, ran, historyvars>>

Attempted == suite.pos
Lost      == suite.lost + (IF Latest(Current).classed THEN 1 ELSE 0)

RunOfDeaths == lane.deaths >= Deaths
ShareLost   == Attempted >= MinAttempted /\ Lost > 0 /\ Lost * 100 >= InfraShare * Attempted
Triggered   == RunOfDeaths \/ ShareLost \/ (Len(suite.list) = 1 /\ lane.trigger)

\* On the primary lane the evidence may move the suite: to the fallback if it
\* is enabled and has its key; without the key, or without the opt-in after a
\* run of deaths, the suite ends.  The environment holds the settings from the
\* start; they are chosen here, where it first matters.
JudgeLane ==
    /\ suite.pc = "judge" /\ ~lane.active
    /\ \E o \in IF Triggered /\ suite.setting = NotLooked THEN Settings ELSE {suite.setting} :
       LET s == [suite EXCEPT !.lost = Lost, !.setting = o]
       IN  \/ /\ Triggered /\ o.enabled /\ o.key
              /\ lane' = [lane EXCEPT !.active = TRUE, !.trigger = FALSE]
              /\ log' = [log EXCEPT !.switch =
                           IF lane.degraded = {} THEN {Current} ELSE lane.degraded]
              /\ suite' = [s EXCEPT !.pc = "loop"]
           \/ /\ Triggered /\ o.enabled /\ ~o.key
              /\ suite' = [s EXCEPT !.pc = "idle", !.exit = "3"]
              /\ lane' = [lane EXCEPT !.trigger = FALSE] /\ UNCHANGED log
           \/ /\ RunOfDeaths /\ ~o.enabled
              /\ suite' = [s EXCEPT !.pc = "idle", !.exit = "3"]
              /\ lane' = [lane EXCEPT !.trigger = FALSE] /\ UNCHANGED log
           \/ /\ ~Triggered \/ (~o.enabled /\ ~RunOfDeaths)
              /\ suite' = [s EXCEPT !.pc = "loop"]
              /\ lane' = [lane EXCEPT !.trigger = FALSE] /\ UNCHANGED log
    /\ UNCHANGED <<book, turn, ran, historyvars>>

\* The end of a loop: of the first one, when the lane was switched, the second
\* follows; else the suite is green if the latest verdict of each eval is a pass.
EndLoop ==
    /\ suite.pc = "loop"
    /\ IF suite.again THEN ToReattempt(suite.pos + 1) = {} ELSE suite.pos = Len(suite.list)
    /\ IF lane.active /\ ~suite.again
       THEN suite' = [suite EXCEPT !.again = TRUE, !.pos = 0]
       ELSE Stops(IF \A i \in DOMAIN suite.list : Latest(suite.list[i]).outcome = "success"
                  THEN "0" ELSE "1")
    /\ UNCHANGED <<book, lane, turn, log, ran, historyvars>>

\* The job's own time limit; in the middle of a save it takes the book along.
\* Nothing reads what the suite had logged.
Killed ==
    /\ suite.pc # "idle"
    /\ suite' = [suite EXCEPT !.pc = "idle", !.exit = "killed"]
    /\ lane' = NewLane /\ log' = NewLog /\ turn' = NoTurn
    /\ \/ UNCHANGED book
       \/ turn.step = "fresh" /\ ~MayRestart /\ Outcome # "error" /\ LoseBook
    /\ UNCHANGED <<ran, misses, passes>>

EvalStep == RetryTurn \/ Nudge \/ FreshTurn \/ NextLoop \/ Grade \/ NextEval
            \/ JudgeSpend \/ JudgeLane \/ EndLoop
EvalNext == StartSuite \/ EvalStep \/ Killed

\* The runner is a running program, and a turn is cut off at its timeout.
EvalFairness == WF_evalvars(EvalStep)
EvalSpec == EvalInit /\ [][EvalNext]_evalvars /\ EvalFairness
---------------------------------------------------------------------------
(* Properties.                                                             *)

UnderWay(e) == turn.step # "none" /\ e = Current

\* The fallback is proven from the log of the run itself.  Each death that is the
\* provider's fault leaves its own record with the evidence mark, whether a retry,
\* a nudge or a fresh session follows or none: but for the turn that has just
\* ended, none is without its mark, or has two.  A suite that switched, or ended
\* for want of a fallback, left marked deaths, and the switch names exactly the
\* evals that have them.
SwitchIsProven ==
    /\ \A e \in Evals :
         log.open[e] = IF UnderWay(e) /\ turn.last \in Classed /\ ~lane.active THEN 1 ELSE 0
    /\ lane.active \/ suite.exit = "3" => log.marks # {}
    /\ lane.active => log.switch = log.marks

\* No verdict is replaced but that of an eval that died on the primary lane
\* without passing, once, by one of the fallback lane.
ReattemptsEarned ==
    \A e \in Evals :
      /\ Len(log.final[e]) <= 2
      /\ Len(log.final[e]) = 2 =>
           /\ log.final[e][1].outcome # "success" /\ ~log.final[e][1].fallback
           /\ log.final[e][2].fallback /\ e \in log.switch

\* A green suite has a pass of every selected eval, a red one a verdict of each
\* and a failure; and one that died on the primary lane was given its second
\* attempt before the suite was called red.
VerdictIsComplete ==
    suite.exit \in {"0", "1"} =>
      LET Missed == {i \in DOMAIN suite.list :
                       log.final[suite.list[i]] = <<>> \/ Latest(suite.list[i]).outcome # "success"}
      IN  /\ suite.exit = "0" <=> Missed = {}
          /\ \A i \in Missed :
               /\ log.final[suite.list[i]] # <<>>
               /\ suite.list[i] \in log.switch /\ MaxReruns > 0 => Len(log.final[suite.list[i]]) = 2

\* An eval enters quarantine only by failures of its own, Threshold in a row
\* with no pass between them; deaths of the lane neither count nor interrupt.  It
\* leaves only after RehabRuns passes since it entered, unless the book was lost with
\* a kill.  That these passes be consecutive, as quarantine.py has it, is more than
\* the code does: RehabIsConsecutive in MCEvals is violated.
QuarantineIsEarned ==
    [][\A e \in Evals :
         /\ book[e].status # "quarantined" /\ book'[e].status = "quarantined"
              => misses'[e] >= Threshold
         /\ book[e].status = "quarantined" /\ book'[e].status # "quarantined"
              => suite'.exit = "killed" \/ passes'[e] >= RehabRuns]_evalvars

\* Every suite comes to its exit: no retry, nudge, fresh session or re-attempt
\* goes round for ever.
SuiteEnds == []<>(suite.pc = "idle")
=============================================================================
