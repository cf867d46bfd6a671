# TLA+ models of the agent framework

This directory is the formal side of the repository: TLA+ modules for the parts
of it that keep state across processes, callbacks and failures, the TLC
configurations that check them on small instances, and theorems about them that
TLAPS has proved for every value of the constants. `PROJECT.json` is the index:
which definition models which lines, which run checks which property, which
mutation of a definition breaks which property, and which hazards of the code
are covered by what.

## 1. The system

The repository is a framework for agents that run under OpenCode. An
*orchestrator* agent, which lives in an OpenCode session, hands work to child
agents by starting `scripts/dispatch_agent.py`. Most of the repository is text
(skills, agent profiles, plans), one-shot checkers and API adapters. Its core
logic is *supervision*: starting a child, knowing what became of it, and telling
the orchestrator once, whatever fails in between.

    orchestrator ──starts──> dispatch_agent ──launches──> opencode run (child)
         ^                      │   │ spawns                   │ STEP lines
         │ wake prompt          │   v                          v
         └────────────── observe_completion <──reads── heartbeat file, run log,
                                                       session store
    opencode server / TUI ──events──> delegation-observer ──milestones──> parent
    session store ──> session_guard ──kills──> orchestrator's process group
    heartbeat, store, server ──> watch_agent ──verdicts──> whoever watches

Around it are the tools with which the framework keeps itself: the upgrade of
OpenCode with its canary and the checks before a merge, the behavioural suite that
evaluates the skills, the sync of the roadmap with GitHub's issues. They are
commands that are run again and again, leave files for the next one to go by, and
are killed at any point.

### Inventory

| component | state it keeps | operations | what is hard in it | what makes it correct |
|---|---|---|---|---|
| `scripts/heartbeat_io.py` | one append-only file | truncate, append | several writers, one `O_APPEND` write each | every writer leaves exactly its own lines |
| `scripts/dispatch_agent.py` | process state, heartbeat, run log | preflight, begin, launch, wait, kill, interrupt, judge, report, record | killed at any point; an exception outside the guarded judgement; a timeout that races with the session; server flags that decide twice | one terminal line per dispatch; a timeout leaves nothing generating; never silent |
| `scripts/observe_completion.py` | one process per dispatch with local variables | poll, classify, gate, deliver, verdict | reads several files at different moments; retries; lost replies; liveness by ages | one verdict; the wake is true; nobody waits for ever |
| `plugins/delegation-observer/state.ts` | one row per delegated session, the active map | `observe`, `tick`, `associateSessionInfo`, `reconcileActive` | events, lists, map snapshots and the clock in any order | stall alarms are earned and never missed; what is over is over |
| `plugins/delegation-observer/server.ts` | per location: rows, milestones under way, a cache of roots, the health record | bootstrap, loop, flush, emit, stop | two emitters that both await; every location hears of everything; a milestone recorded and then dropped | one root is told, once, in order; what is lost shows |
| `plugins/delegation-observer/model.ts`, `tui.tsx` | the reducer again, active map | refresh, interval, rendering | the host's map may be unreadable | a row shows `running` only on evidence |
| `scripts/watch_agent.py` | none (reader) | a poll: heartbeat, store, status, verdict | three reads of different moments; a step that is silent by nature | no false alarm; a hang is reported |
| `scripts/session_guard.py` | a pass over the session store | enumerate, classify, decide, abort | the children move while they are read; the abort kills | the finished are spared, the budget ends the command |
| `scripts/scratch_cleanup.py` | configuration roots and their marks | prune, make, claim, end | concurrent dispatches prune each other's roots | a running dispatch keeps its root |
| `skills/authoring-skills/scripts/run_behavioral_eval.py` | lane, evidence log, verdicts | select, turn, retry, nudge, fresh session, grade, switch, re-attempt | nested budgets; deaths that prove the lane degraded against failures of the eval | the switch is proven, the verdict true, the suite ends |
| `scripts/quarantine.py` | one JSON file | record failure and success | read, changed and written whole; two counters | entered and left by the eval's own doing |
| `scripts/eval-report.py` | none (reader of the log) | classify, cover, review | reads the log a suite left | agrees with the suite's exit |
| `scripts/opencode_upgrade.py` | version seams, canary evidence, stage file, installation, backups | upgrade, canary, prepare, apply, prune | killed between any two writes; a later command goes by what earlier ones recorded, perhaps for another version | nothing untested is pinned or installed; recorded stages are earned; the database can be restored |
| `scripts/opencode_v2_canary.py` | scratch root, backup, services | nine gates, one by one or all | the database in use is written while it is copied, hashed and listed; evidence of earlier commands | the backup is rehearsed, the residual complete |
| `scripts/opencode_v2_consumer.py`, `opencode_v2_post_smoke.py` | two artifacts | ready, smoke | checks of minutes over working trees that move | the commits merged are the commits checked |
| `skills/managing-github-issues/scripts/sync-issues.mjs` | `ROADMAP.md`, GitHub's issues | list, label, create, write back, clean up | killed between two calls; lost answers | a row has one issue |
| everything else | none across steps, or see section 8 | checkers, linters, API clients, browser tools | pure I/O | not modelled, see section 8 |

## 2. Modules

    HeartbeatFile          the durable surface: lines, readers, the classifier
      └─ Dispatcher        dispatch_agent.py, its child and its session
           ├─ MCDispatcher            runs both_server_flags, ends_silent
           ├─ Dispatcher_proofs       types, the interrupt, the envelope
           └─ CompletionObserver      observe_completion.py, the orchestrator
                ├─ WakeRefinement     implements SupervisedDispatch (abstract)
                │    └─ MCObserver    runs resumed_too_early, stuck_tool
                │         ├─ MCWake          run wake, with DelegationObserver
                │         └─ MCSupervision   run wake_retry, with AgentWatch, DelegationServer
                └─ CompletionObserver_proofs   types, gate deferrals, lines, retries
                     ├─ WakeTruth_proofs       what a wake says, aborts, errors
                     └─ WakeRefinement_proofs  told once; the refinement
    AgentWatch             watch_agent.py
      └─ AgentWatch_proofs            no false alarm
    DelegationObserver     state.ts, with its hosts as callers
      ├─ MCDelegation                 run denial_unheard, part of MCWake
      └─ Delegation_proofs            types, alarms, outcomes, wakes; with
    DelegationServer       server.ts at several locations: who is told, and when
    Quarantine             quarantine.py
      └─ EvalSuite         run_behavioral_eval.py
           ├─ MCEvals                 run rehab
           └─ EvalReport   eval-report.py over the log of a suite
    SessionGuard           session_guard.py
      └─ MCGuard                      run between_steps
    RunConfigs             scratch_cleanup.py and its callers
    IssueSync              sync-issues.mjs
    Canary                 opencode_v2_canary.py
    Cutover                opencode_v2_consumer.py, opencode_v2_post_smoke.py
    Upgrade                the commands that move the pinned and installed version
      ├─ MCUpgrade                    runs half_prepared, bare_upgrade
      │    └─ MCTools                 run upgrade_commands, with Dispatcher and all the tools above
      └─ Upgrade_proofs               the safety properties of Upgrade, Canary, Cutover
           └─ Tools_proofs            those of the other tools, and the types of all

Three MC modules hold several components that share no state (`MCWake`,
`MCSupervision`, `MCTools`): a variable `part` says which one moves, so every
behaviour is one of one component, and the search is the sum of theirs, not the
product.

`CompletionObserver` extends `Dispatcher` and is the composition: its `Next` has
every step of the dispatcher, the child and the environment beside the steps of
the observers and the orchestrator.

### HeartbeatFile

A heartbeat is a sequence of lines. A line keeps its tag, the number of the
dispatch it belongs to and, for the observer's verdicts, outcome and reason. The
number is a history variable: **no operator that models a reader looks at it**,
because the code has nothing of the kind; it exists so that properties can say
whose line is whose. Timestamps are kept as what they are used for:

* *Is this run-log record newer than START?* The START line holds the number of
  records that existed when it was written.
* *How long has nothing moved?* An age in poll intervals that saturates one above
  the liveness window, past which no comparison changes its answer.

`TerminalLine`, `StartEpoch`, `ChildEvidence`, `LatestRecord` and `Classify` are
the code's pure readers: the *first* terminal line and the *first* START count,
as in the code.

### Dispatcher

One dispatcher process at a time over one heartbeat file, and one after the
other; the variable `dpc` is where it is.

| action | code | remarks |
|---|---|---|
| `Preflight(fresh)` | artifact preflight and resume checks | `check_writable` truncates the heartbeat of a fresh dispatch, before anything else; `--session` resumes and leaves it |
| `Refuse` | later preflight failures | exit code 2, no line |
| `Begin` | `heartbeat_begin` | a fresh dispatch truncates a second time and writes START; a resumed one appends |
| `Launch(f)` | argv and `Popen` | the flags decide which server runs the session (`GivenServer`) and, separately, whether it is *taken for* private (`PrivateServer`) |
| `TimeoutKill` | `communicate(timeout)`, `killpg` | kills a server in the process group too |
| `Judge` | the guarded block (900-969) | contains the whole timeout branch: interrupt, verify, and the `except` by which any exception in it is an `error` |
| `Report` | `heartbeat_terminal` in `finally` | |
| `Uncaught` | every other statement after START | the look for the service, the prints, the readers, the close of the tees, the parse of the stream, and the append of the terminal line itself can raise: the dispatcher ends with an exit code, and without a line or a record; with the fault `exception` |
| `Record` | the run-log record, exit code | a separate step: another process can read between `Report` and `Record` |
| `Crash` | external | a kill at any point |

The child and its session are external and as free as the properties allow: a
session writes parts, starts and ends tool calls, appends lines, ends, dies with
a tool call still recorded as running, or outlives its client. `Faults` is a
constant: a set of the things the environment may do, so that a run states
exactly what it assumes away.

### CompletionObserver

`obs[r]` is the observer process of dispatch `r`, with the local variables of
`run` as a record and a step for each point at which another process can move:
`Poll` (heartbeat and child state read, SURVEY), `Conclude` (run log and newest
part read, classification, the deadline started, deferral without a target),
`Gate` (two-poll quiescence), `Deliver` (the three calls to the orchestrator's
server), `Acknowledge`, `GiveUp`, `Retry`. `prompts` is a history of the prompts
the orchestrator's server accepted. A poll interval passes (`Tick`) only when no
observer is in the middle of an iteration; an observer that waits for the server
in `Deliver` lets time pass.

### DelegationObserver

One row of the reducer, because rows do not interact. A handler of the reducer is
an operator from a row to a row and the milestones it announces; `Observe` is the
preamble every event of a known session goes through (archived and ended rows are
ignored, the first event of a listed row promotes it). `live` is the entry of the
active map of a row that is known from the list alone, `None` if it has none;
nothing reads the entry of an observed row, so it is not kept. `asked` and `ended` are the child's side,
`quiet` and `alarmed` are histories that only the properties read.

What is abstracted: texts, titles, token and cost totals; a request, a call and a
target are model values; retries with different attempt numbers are alike; a
session makes fewer than the 64 calls a row remembers; ages are counted in whole
units from the activity stamp up to `AgeCap`, twice the longest budget plus one,
past which no comparison changes; the age of a row that ended is not kept, because
nothing reads it. `Host = "tui"` has every step that `"server"` has, with an
active map on top.

### Upgrade

The commands of `opencode_upgrade.py`, each a process of its own, one at a time;
`proc` is the running command with the version it settled on and the place it is
at. Versions are numbers, the version pinned at first is 0.

| variable | code |
|---|---|
| `seams` | the files of `SEAMS` and `PLUGIN_JSONS` and the lockfiles, in the four groups in which `prepare` writes them: the adapter with `VERSION_PIN`, the documents, the packages, the lockfiles |
| `amended` | the amendments of the ADR, in file order |
| `evidence` | the candidate's prefix and `.scratch/v2-canary-<version>` with each gate's verdict and the migration's residual |
| `progress` | `upgrade-state.json`: target, stage, stages |
| `artifact` | `upgrade-<version>-verify.json` |
| `install`, `backups` | the installed version and the schema its database was migrated to; the databases under `pre-upgrade-*` |

`BeginCommand` is the start of a command, with every decision `upgrade` makes before its
first write; after it there is one action per write another command can find:
`Pinned`, `Plan`, `Install`, `Gate` (one for each C gate), `Migration`, `Plugins`,
`PinAdapter` to `LockPackages`, `LockFails`, `Amend`, `Prepared`, `Apply` (the
backup), `Switch` (the official command, which may fail before or after it
replaced the binary), `Smoke`, `Passed`, `Failed`, `RolledBack`. `CrashCommand` kills the
command before any of them; if it was about to write the stage file the file may
be left torn, which `read_state` takes for an empty one. A command that returns
because a registry, npm or a running process stands in its way leaves what a
killed one leaves, and is the same step. `VERSION_PIN` is imported when a process
starts, so `Inner` reads it once. The verdicts of gates, plugin checks and smokes
are choices, except that C1 compares the installed version with the pin and a
smoke passes only on its target. `Opens` and `RestorePrevious` are external:
somebody starts OpenCode, which migrates the database, and the owner rolls back as
the documentation says. `clean`, `verified`, `byHand` and `served` are histories
that only properties read.

Left out: `--dry-run`, `--open-pr`, the OpenTUI version, which follows the target,
`plan`'s matrix, and the readers `status`, `doctor`, `check`. A seam file that is
torn in the middle of its own write is left out, too.

### SupervisedDispatch and WakeRefinement

The promise of supervision without files, windows, retries or deadlines: a dispatch
is judged once; its orchestrator is told at most once, what it is told does not
contradict the judgement, and after the verdict line nothing more.
`WakeRefinement` maps the dispatcher's outcome, the accepted prompts and the
observers that have exited to it.

### AgentWatch

A poll is three steps (`ReadHeartbeat`, `ReadStore`, `AskStatus`) and the verdict
(`Announce`); between any two of them the child may write its heartbeat, move its session, end
or hang. An age counts intervals of `--watch`. `Verdict` has the lanes of `verdict`
in their order, `SilenceVerdict` the windows, of which an open step has its own.

### DelegationServer

One instance per location. `tree` holds the true parents, titles and locations and
the faults of each location's host; `inst[i]` an instance's boot state, inbox, row,
cache, health and the two deliveries that can be under way, the loop's and the
timer's, each of which is a job that takes a step per host call (`Resolve`, `Walk`, `Send`).
The reducer is cut down to one delegate with three milestones.

### EvalSuite, Quarantine, EvalReport

`EvalSuite` has one action for each place where `run_eval` or `main` may be killed:
`RetryTurn`, `Nudge`, `FreshTurn` (the nested budgets), `Grade` (verdict, evidence and book
together), `JudgeSpend` and `JudgeLane` (is the lane degraded, may the suite go on),
`NextEval`, `EndLoop`. A turn is one of `Kinds`, what the matcher and the error classifier
make of its output. `misses` and `passes` are histories. `EvalReport` reads the
log.

### SessionGuard

The orchestrator dispatches children, whose sessions move freely; a pass enumerates
them, reads them one by one (`ReadKid`) and decides on what it read, which is of different
moments. The abort is three steps (`Sentinel`, `RecordAbort`, `Kill`) and the grace.
`guard.spared` is a history: who had its final result when the pass began.

### RunConfigs, IssueSync, Canary, Cutover

`RunConfigs` separates a prune's look at the clock, its listing and each removal, beside
dispatches that make, claim and leave their roots; a marker may fail to be written, which
`mark_run_active` passes over. `crowded` and `unmarked` are histories: that a listing met
more than `Keep` roots younger than the look at the clock before it, and whose marker failed. `IssueSync` separates the calls of a run to
GitHub; an answer may be lost with and without its effect, and issues are closed
and filed by others. `Canary` separates the copy, the hash and the listing of the database
in use, which keeps a log that is part of every read but not of the file. `Cutover` has
two working trees that are edited and committed at any moment; `vouched` is a history
of the pairs of contents that a check has found good.

## 3. Runs

All passing runs search their whole state space.

| run | question | bounds | result |
|---|---|---|---|
| `wake` | what wakes an orchestrator: what does the observer write and tell, and how often? does it implement `SupervisedDispatch`? what does the reducer announce and show? | observer: 1 dispatch, window 1, deadline 1; faults: timeout, crash, exception, foreign record, no target, no store, refusal. Reducer: one session, one request, one call, windows 0 and 1, one wake, all rare occasions | holds |
| `wake_retry` | how does the word get through: what do retried deliveries do, and does the observer always end? what does the watcher report? who is told by the plugin? | observer: 1 dispatch, deadline 2, two turns of the orchestrator's own; faults: timeout, crash, no target, refusal, lost reply. Watcher: windows 0 and 1. Plugin: 2 locations, 3 sessions, 4 trees with different faults | holds |
| `upgrade_commands` | what do the tools do that fail and are started again? | dispatcher: 2 dispatches, window 1, no child line, every combination of server flags but `--standalone` with `--server`; faults: environment, timeout, crash, exception. Upgrade: 3 versions, 2 commands of every kind and flag, 2 gates. Suite: 3 evals of 2 skills, one retry, nudge and fresh session, quarantine at 2, re-attempts. Guard: 2 children, 3 launches. Sync: 2 rows, 3 issues, 3 runs. Roots: 3 dispatches, 1 kept. Canary: 2 sessions, 2 commands. Cutover: 2 contents, 2 commands | holds |
| `ends_silent` | does a dispatch that was started always say how it ended? | 1 dispatch; faults: timeout, exception | violated |
| `resumed_too_early` | is the wake of a resumed dispatch true? | 2 dispatches, no faults | violated |
| `stuck_tool` | does an observer end when the dispatcher and child die in a tool call? | 1 dispatch | violated |
| `both_server_flags` | is a timeout honest when both server flags are given? | 1 dispatch | violated |
| `denial_unheard` | is every denial announced? | 2 requests | violated |
| `half_prepared` | are a version's seams written when it is recorded as prepared? | 2 versions, 2 `upgrade --to` | violated |
| `bare_upgrade` | is the repository pinned to the version announced as ready? | 2 versions, 1 `upgrade` without --to | violated |
| `rehab` | is a rehabilitation one by passes in a row? | 1 eval, 2 passes, 5 suites | violated |
| `between_steps` | is an unfinished turn ever an empty result? | 2 children, `--contract` | violated |

**Why the bounds are enough.** The properties compare at most two dispatches over
one file (an earlier one and its successor); a third adds no new relation because
every reader looks at the first line of a kind. With one interval of liveness the
window has an inside, an edge and an outside; with a deadline of two there is a
first attempt, a retry and a late one. The reducer's thresholds are compared with
one age and with twice a budget, so budgets 0 and 1 give both sides of each
comparison with distinct budgets for a silent session and a silent call; one
attention wake gives a budget that is met and exhausted. For the upgrade three
versions give an older, a current and a newer one, and two commands an earlier
one, whole or cut off, and one that goes by its traces. Two gates stand for the
eight: the code treats all alike but C1. What is true of three commands or four
versions is covered by the theorems. Two evals of one skill and one of another give
a suite with a shared and a separate quarantine key, a list of one, two and three and
every trigger (a run of deaths, a share, a single eval). Two children are the least
for a failed wave and for a pass that is torn between two reads; two rows and a page
of two the least for a listing without room, and three runs the least for one that is cut
off, one that does not see what it left, and one that does. Of three dispatches one prunes
and two have roots, of which one is kept: the count, the age and both together take the
root of a dispatch that is dead, and would take that of one that lives. The dispatcher
leaves the same lines whether its child writes any or none, so its two dispatches
are checked without; a child that writes is in `wake`. That run's fault `exception` is not in
`wake_retry`: to an observer, which reads no exit code, an exception is a kill. Three sessions
in a row are a delegate, a worker and a root, the least for a title that lies about either.

**Deadlock** is not checked where the program ends: dispatchers and observers exit,
and the numbers of dispatches and of upgrade commands are bounded.

**Fairness.** `DispatcherFairness` and `Fairness` state that the dispatcher and
the observer are running programs (weak fairness of each of their steps), that
their wait for the child is bounded by `--timeout` (weak fairness of
`TimeoutKill`, where that fault is allowed) and that time passes. Nothing is
assumed of the child, the orchestrator or its server, and nothing of `Crash` and
`Uncaught`: a process is not obliged to be killed or to fail. The watcher's, the suite's, the
guard's and the plugin instances' own steps are weakly fair, for they are running
programs whose calls return (a turn is cut off at its timeout); the guard's listing of the tree
is strongly fair, for a store that is unreadable now and then is not unreadable for
ever. The timer of the plugin, the delegate, kills and developers are not
obliged to anything. In the composed modules the fairness is that of the part that
moves. `DelegationObserver` has no liveness property and no fairness; `EverySilenceAnnounced` says of each tick of
the clock what it must have announced.

**Properties.**

* `InterruptHonest` (AC15 of the dispatcher): a timed-out dispatch that reports
  `not-needed` or `ok` has not left its session generating.
* `EnvelopeOK`: at most one terminal line per dispatch, after its own START and
  before the next, DONE for a success only; and a dispatcher that exits cleanly, by
  whatever way, has left it. That every one leaves a line unless it was killed
  (`NeverEndsSilent`, liveness) is false: run `ends_silent`.
* `LineOwnership`: at most one SURVEY and one verdict per observer, in that order,
  the verdict only at its end.
* `WakeIsTrue`: success is announced of successes only, failure and error only of
  what was judged one.
* `AbortMeansDispatcherDied`: the liveness window never names an abort of a
  dispatch whose dispatcher lives.
* `WakeAtMostOnce`, and with lost replies `RetriesAreSpaced`: repeated prompts are
  separated by a finished turn.
* `GateDeferralMeansSilence`: a deferral that blames the gate was preceded by no
  accepted prompt.
* `ErrorIsNamed`: although BLOCKED can be read before the record that tells an
  error from a failed contract, the wake names the right one. It holds because the
  first quiescence poll never delivers and the classification is repeated.
* `EveryDispatchAnswered` (liveness): once the child has stopped, its observer
  comes to a verdict and exits.
* `StallIsEarned`, `EverySilenceAnnounced`: a stall means that long a silence as
  seen by this process, and every such silence is announced, again after each
  sign of life.
* `OverIsOver`: nothing is announced of an archived row, nothing but a repeated
  creation of an ended one, and its outcome stands.
* `RunningNeedsEvidence`: after each tick a listed row shows `running` only if the
  active map says so now.
* `WakesAreBudgeted`: a step that wakes for attention spends as much of the
  session's budget, no step gives any back, and it is never overdrawn.

* `StagesAreEarned`, `NothingUntested`: the stage file says of a version only what
  it went through, and only a version that passed a whole canary is pinned or
  installed, unless the owner used `prepare` or an `upgrade` without --to.
* `NeverWithoutWayBack`: a schema on which a smoke has passed is in place or in a
  backup, although upgrades die between the backup, the switch and the smoke.
* `StageNeverRegresses`: what the comment in `write_state` promises.

* `ImplementsSupervision`: dispatcher and observer implement `SupervisedDispatch`.
* `NoFalseAlarm`, `HangIsReported` (liveness): the watcher calls no working child
  stalled or dead, and in the end reports every hang that nothing hides.
* `OneRootIsTold`: of the instances that all announce a milestone one delivers it,
  once, to a session at the end of the chain, never to a worker.
* `StartThenEnd`: an orchestrator that hears of the end has heard of the start.
* `DropIsVisible`: an instance that lost a milestone is degraded, and says so in the
  record the TUI reads.
* `AnnouncementsSettle` (liveness): deliveries end, however titles refer to each other.
* `SwitchIsProven`: each provider's death of a turn has exactly one evidence record;
  the switch to the paid lane names exactly the evals that have one, and none happens without.
* `VerdictIsTrue`: the exit code says what the latest verdicts say, a verdict is
  replaced only where the lane died, and the report counts what the suite did.
* `QuarantineIsEarned`: in by failures of the eval's own in a row, out by as many passes as
  are asked for. That these are in a row, as the code's comments and `eval-harness.md` say,
  is false: run `rehab` checks `RehabIsConsecutive` and finds a fail between two passes.
* `SuiteEnds` (liveness): no budget is renewed for ever.
* `CompletedIsSpared`: no abort is blamed on a child that had finished when the pass
  began. `OverBudgetEnds` (liveness): a command over its budget ends.
* `NoSecondIssue`: a row is filed once, as long as every listing came and had room.
* `LiveConfigSurvives`: no prune takes the root of a dispatch that runs and wrote its marker,
  by count, by age or by both, however many newer roots there are; nor of one that has made
  its root and not claimed it, unless more than `Keep` roots were made between that prune's
  look at the clock and its listing, for then the count takes a root that is younger than the
  look, which is not in its grace (`age` is negative).
* `BackupIsRehearsed`, `ResidualIsComplete`: after a whole canary, the backup that
  is there is the one the rollback was tried on; no session of the database in use is
  silently left out of the migration's residual.
* `MergeIsEarned`: the commits a passed smoke names were checked together.

Every property of a passing run has a mutant in the modules (operators named
`X_Something` before `X`): a plausible bug in the code under which TLC finds the
property violated.

## 4. Findings

1. **A resumed dispatch is announced at once** (`resumed_too_early`). `--session`
   appends to the heartbeat of the dispatch before it; `terminal_line` takes the
   first DONE or BLOCKED of the file; the new observer wakes the orchestrator with
   the old outcome while the resumed child still works.
2. **An observer that never ends** (`stuck_tool`). The abort branch of `classify`
   asks that no tool be running, and that is read from the last recorded part. A
   dispatcher and child killed inside a tool call leave that part as it is.
3. **A session taken for private that is not** (`both_server_flags`). `argparse`
   accepts `--standalone` with `--server`; the session runs on the given server,
   and a timeout reports `not-needed` while it generates.
4. **A denial announced for the wrong request, and one not at all**
   (`denial_unheard`). A row has one slot for a request, replies are matched
   without their id.
5. **Prepared on the word of the pin** (`half_prepared`). `prepare` writes the pin
   first; when it dies after that, `upgrade --to` the same version finds its target
   pinned and records it as prepared, with the other seams still naming the old one.
6. **An upgrade of two versions** (`bare_upgrade`). Without `--to` the command plans
   the newest version, while canary and prepare, from the same arguments, work on
   the pinned one; the newest is then announced as ready, or applied. `status`
   offers exactly such a command, `upgrade --resume`.
7. **A start without an end** (`ends_silent`). Between START and the guarded judgement, and in
   the append of the terminal line, an exception ends the dispatcher with neither line nor
   record, perhaps after the child has finished; only the judgement itself is guarded, although
   the comment that introduces the guard says that no exception ends silent. An observer
   that was spawned sees an abort once the window is over.
8. **Rehabilitated by passes that are not in a row** (`rehab`). `record_failure` keeps
   `pass_streak`: pass, fail, pass, pass reinstates a quarantined eval.
9. **A healthy child with an empty result** (`between_steps`). `load_parts` gives
   every message but the last a step-finish, `has_terminal_result` takes any
   step-finish after the last text for the end of the turn, and with `--contract` the guard
   holds that interim text against the contract. A child in its second step is an
   empty result; two are a failed wave, for which the orchestrator is killed.

Disagreements between code and text that no run states, because a single step shows
them or because they are a matter of wording:

* `watch_agent.session_status` (183-187) reads a row without an outcome as busy, so a
  hung child the server has a row of is never stalled;
  `reference/subagent-supervision.md:161-162` says otherwise. STALLED and DEAD
  override BLOCKING, and a hung child with an earlier finished text reads as done.
* `sync-issues.mjs`: stderr is not kept, so the retry of `runGh` (187-206) does not see what
  it looks for: its pattern is matched against `e.message`, which is the command line. A rate
  limit is therefore not retried; but where the command line itself matches, as with an
  `issue create` whose `--title` contains "rate limit", any failure is, a lost answer
  included, and the row is filed up to four times. The retry is not modelled, and
  `NoSecondIssue` is of rows whose titles do not match. A listing
  that failed, or `--apply --offline`, files rows again; so does an issue beyond the
  page of 1000 whose number was lost, which the comment on the page excludes.
* `quarantine`: the save is not atomic.
* `scratch_cleanup`: a marker that cannot be written (64-68) is passed over in silence, and
  leaves a running dispatch without protection after its grace.
* `opencode_v2_post_smoke`: `--skip-live` skips the drills the docstring
  demands, `post_merge` passes when both commits are unknown, and the manifest's `readiness` is written by
  nobody. `ready` asks only the consumer's tree to be clean.
* `opencode_upgrade`: after a failed smoke the docstring (20-21) promises a rollback
  that ADR-0017 leaves to the owner; on a retry after a failed switch the printed
  rollback names the version that failed; an amendment that is not the last one can
  never be prepared again; C1 fails between a prepare and its switch. Evidence of an
  earlier canary stays PASS although the backup is new or torn.
* Events of an archived session leave no touch, so the first tick after an unarchive
  measures the archived time as silence. What happens between the plugin's listing
  and its subscription is seen by nobody. Its timer goes on when the stream has ended.
* The guard's `--cwd --wrap` looks for the root before the command has
  started; a retry loop outside its window hides relaunches.

## 5. What is proved

Every invariant, every action property and the refinement that a passing run checks are
theorems; the liveness properties are not (section 6). The proofs hold for every window,
deadline, number of dispatches, set of faults, versions, gates, evals, budgets, sessions,
locations and number of commands, under the named assumptions of the modules. Those say of the constants what their kind is and little more. The ones worth a word:

* `TreesAssumption`: the delegate of every tree has a parent or a title, for the
  plugin has no row of another session; `RowAssumption` and `OutcomeAssumption`: the
  value that stands for nothing is no row and no outcome.
* `IsFiniteSet` of the calls of a session, the evals, the dispatches and the canary's
  sessions, where the code counts them.
* `GuardAssumption`: some titles exist, so a child has one. `EvalAssumption`: `--limit` is
  not negative (a negative one, which `argparse` lets through and the slice counts from the
  end, is not modelled). `ReviewAssumption`: the
  share of evals below which a report is to be reviewed is not zero.

| theorem | further assumption | invariant |
|---|---|---|
| `DispatcherTypeCorrect` | none | `DispatcherTyped` = types and `JudgedFirst` |
| `InterruptIsHonest` | `FlagsExclude`: never both server flags | `InterruptInv` |
| `EnvelopeIsWhole` | none | `EnvelopeInv` |
| `TypeCorrect` | none | `ObserverTyped` |
| `GateDeferralIsSilence` | none | `GateInv` |
| `LinesAreOwned` | none | `OwnershipInv`, beside `GateInv` |
| `RetriesKeepTheirDistance` | `StoreIsRead` | `SpacedInv` |
| `WakeTellsTheTruth` | `OneDispatch`: `Redispatch = {}` | `TruthInv` |
| `AbortIsDeserved` | `ChildSpeaks` | `AbortInv`, beside `GateInv` |
| `ErrorsAreNamed` | `OneDispatch`, `ChildSpeaks`, `StoreIsRead`, `RecordsAreKept` | `NamedInv`, beside `TruthInv` and `AbortInv` |
| `WakeOnce` | `NoReplyLost` | `OnceInv` |
| `SupervisionIsImplemented` | `OneDispatch`, `NoReplyLost` | `RefInv` = types, `TruthInv`, `OnceInv` |
| `AlarmsAreTrue` | none | `WatchInv` |
| `StallsAreEarned`, `NoSilencePassedOver`, `OutcomesAreFinal`, `RunningIsEvident` | none | `ReducerInv` |
| `DropsAreVisible` | none | `HealthIsKept` |
| `OneRootTold` | none | `ChainIsFollowed`, `KeysAreKept`, `ToldOnce` |
| `StartsThenEnds` | none | the same and `StartIsTold` |
| `WakesBudgeted` | none | `ReducerInv`, and `StepPays` of each step |
| `ReducerIsTyped`, `ServerIsTyped` | none | `ReducerInv`; `ServerTyped` |
| `UpgradeTypeCorrect`, `StageFileIsEarned`, `NothingUntestedIsUsed` | none | `EarnedInv` |
| `WayBackIsKept` | none | `BackupInv`, beside `EarnedInv` |
| `StagesOnlyAdvance` | none | `EarnedInv`, for the types |
| `RollbackIsRehearsed`, `NothingIsLostSilently` | none | `CanaryInv` |
| `MergesAreEarned` | none | `CutoverInv` |
| `OneIssuePerRow` | none | `SyncInv` |
| `LiveConfigsSurvive` | none | `ConfigInv` |
| `FinishedIsNotBlamed` | none | `GuardInv` |
| `EvalInvariant`, `FallbackIsProven`, `ReportsAreTrue`, `BookIsEarned` | none | `EvalInv` |
| `ToolsAreTyped` | none | `ToolsInv` |

The further assumptions are the complement of the findings or of a fault a property is not
about: `FlagsExclude` is what run `both_server_flags` drops, `OneDispatch` what
`resumed_too_early` drops. The others name a fault that the run of the property does not
allow either, because the code has no answer to it: a store that cannot be read lets the
gate pass (`StoreIsRead`); a child that is silent beyond the window reads as aborted
(`ChildSpeaks`); a record that is not written, or written by somebody else, leaves BLOCKED
as the only word there is (`RecordsAreKept`).

### Supervision

* `DispatcherTypeOK` is not inductive: `Record` appends `outcome[run]` to the run
  log, which is well typed only because a reported dispatch has been judged and
  there is one (`JudgedFirst`).
* `InterruptHonest` needs `PrivateDies`: until the dispatcher judges, it claims
  nothing; a session it takes for private while it waits runs on a server in the
  process group; when that group is killed the session is dead. Only `Launch` uses
  `FlagsExclude`.
* `EnvelopeOK` needs to know where in the file the lines of the dispatch at hand are:
  the lines of the dispatches follow one another (`LinesOrdered`), and what the
  dispatcher has done so far is what stands after its START (`OwnLines`). An exit code is
  clean only behind a terminal line, whichever way the dispatcher ended.
* `GateDeferralMeansSilence` needs three facts: one observer is ever spawned per
  dispatch and it is off until the session is named (`SpawnedOnce`); an observer
  without a recorded refusal has got nothing through, unless it is about to
  acknowledge it (`NothingThrough`); an observer whose line blames the gate has
  ended without a prompt (`GateLineIsLast`). That a lost reply leaves
  `call-failed` as the reason is what carries the second.
* `LineOwnership` counts the lines of each observer against the place it is at:
  what it wrote backs what it did (`LinesAreBacked`) and is written once
  (`LinesAreSingle`), while everybody else appends to the same file.
* `RetriesAreSpaced`: a prompt is of a turn that has ended or of the one that is running
  (`PromptsOfTurns`), and an observer the gate let through finds the turns of its earlier
  prompts finished (`PassedInQuiet`) -- still so when its call arrives.
* `WakeIsTrue` needs truth to be carried along every copy: each terminal line, what
  an observer read of it, the outcome it concluded, and each prompt are true of the
  dispatch (`TruthInv`); and what is over stays over (`Settled`). Because lines of
  the file are not matched to dispatches by any reader, the invariant needs that
  there is one dispatch, `run <= 1`.
* `AbortMeansDispatcherDied`: while a dispatcher lives its child's newest sign is within
  the window (`SignsInTime`), and one that ended left a line or died
  (`AnsweredWhenOver`); what an observer concluded from a sign it read earlier still holds,
  because no time passes in the middle of an iteration (`ConcludesInTime`).
* `ErrorIsNamed`: an observer can read BLOCKED before the record. `PassedTwice` says that
  one which the gate lets through has looked before and concluded again since, and
  `LookedWhenOver` that the first look was at a dispatch that was over, and that by the
  time the observer woke from its sleep the record was written.
* `WakeAtMostOnce` needs, of each observer, that while it has not acknowledged a delivery nothing
  was accepted from it, and that a dispatch has one observer (`OnceInv`); a lost reply
  is what breaks it. With `TruthInv` it makes every step of the two processes a step of
  `SupervisedDispatch` or a stutter: `Judge` and the recovery of an exception judge,
  `Deliver` tells, the steps that end an observer settle.
* `NoFalseAlarm`: a child that works gives a sign before its window is over
  (`WorkerIsFresh`). Between the look at the heartbeat and the look at the store the watcher
  holds an old line, but what the child has done since shows in the store it is about to
  read (`LineIsFresh`); what it has read then is of one working child (`ReadIsFresh`).

### The delegation observer

* `ReducerInv`: the clock of an observed row is the silence of its session as this process
  saw it, although ages come from lists and maps too, and while no stall was announced none
  of the row's keys is one (`ClockIsSilence`); the server part never shows as running what
  it knows from the list alone (`ListedIsNoEvidence`). The first four action properties follow
  step by step; each event's handler has a lemma of what it returns.
* `WakesAreBudgeted`: every handler pays for what it wakes (`Pays`): of the milestones it
  returns none wakes and the count is as it was, or one does and the count is one higher. A
  call that is at once the first and one too many returns two milestones, of which only
  the second can wake.
* `OneRootIsTold`: the walks of all instances are one walk. A look-up is *reached* if
  every set that is closed under the chain has it, and a chain has one end
  (`OneOutcome`); `ChainIsFollowed` says of every job, cache and announcement that it is
  where this chain is. Without recursion, reachability is the second-order definition.
* A milestone is keyed before it is announced (`KeysAreKept`) and told once (`ToldOnce`);
  for `StartThenEnd`, the start that was announced has been told, is under way in the loop,
  was lost, or is another instance's to tell (`StartIsTold`).
* `DropIsVisible`: health only gets worse, and every step publishes it last
  (`HealthIsKept`).

### The tools

* `StagesAreEarned` and `NothingUntested` need each other and more: a command that
  resumes skips gates on the word of the stage file, and the file is written by a
  command on the word of what it skipped. `EarnedInv` says that a recorded stage
  past the canary, a running command past the canary, the pin, the installed
  version and every verified one are all vetted (`ProgressEarned`, `ProcEarned`),
  and that a command takes only steps of its kind (`CommandOK`).
* `NeverWithoutWayBack` needs `BackupInv`: no smoke has passed on a schema above
  the database's, and whenever the installed version is about to migrate the
  database, or to be replaced, the present schema is in a backup or was never
  found good.
* `BackupIsRehearsed` and `ResidualIsComplete`: a whole canary takes the gates in order and
  has the evidence of those behind it (`GateIsNext`, `OrderIsKept`), so the backup V1 read is
  the one the command made; what the file held when it was hashed is among the sessions
  that are listed after it (`HashIsListed`).
* `MergeIsEarned`: the artifact names a pair that was checked as it stands
  (`ReadinessIsEarned`), and if nobody moved while `ready` or `smoke` ran, what they looked
  at is what they write down (`ReadyIsSteady`, `SmokeIsSteady`).
* `NoSecondIssue` needs to know what a running command has still to do: a command
  that saw every issue there was holds only rows without one, but for the row whose
  number it is about to write (`StillUnfiled`), and the number it holds is of that
  row (`AtARow`). A listing that had room shows each issue of a row without a number,
  and after it only the command itself files one.
* `LiveConfigSurvives`: a prune's list is out of date while it is worked off. Each entry is of
  a dispatch that had made its root by then, and, if no listing met a crowd, dated no later
  than the look at the clock (`OnlyOldIsStale`): what the age put there by definition, and
  what the count put there because the `Keep` roots it ranks behind would otherwise all be
  younger than the look, and with it make more than `Keep` (`UncountedIsOld`). A root that is
  not claimed yet is young (`RootsAreKept`) and its entry has its date, so the grace holds; a
  running dispatch has its mark, and no date or rank matters.
* `CompletedIsSpared`: what had finished stays finished, so a child that is read late in the
  pass reads as it was when the pass began (`FinishedIsWhole`, `SparedIsDone`).
* `EvalInv` is the invariant of the suite, `SuiteInv`, with the book and the two history
  counts beside it. `SuiteInv` says where the runner is in its list and what is still ahead
  (`PlaceOK`), that a turn stays within its budgets (`TurnOK`), that no death of an eval
  is without its evidence record but that of the turn that has just ended (`OpenOK`), what
  the records prove of the lane (`EvidenceOK`, `MarksOK`), and that the tallies the switch
  goes by count exactly the verdicts in the log (`TalliesOK`). From it follow
  `SwitchIsProven` and `VerdictIsTrue` as invariants, and `QuarantineIsEarned` step by step.
* `ToolsInv` puts the invariants of the eight tools side by side: a step of one leaves the
  others' variables alone.

The lemmas that needed the most are about counting: the size of a set that gains or loses
an element, that a finite set of numbers can be put in order (`OrderExists`), and least
elements (`LeastIsMember`); they go by well-founded induction of the library in the
instance it needs, as no induction theorem with an operator for a parameter can be used.

## 6. What is only model-checked

* The liveness properties: `EveryDispatchAnswered`, `HangIsReported`, `AnnouncementsSettle`,
  `SuiteEnds` and `OverBudgetEnds`. Liveness under fairness and
  `ENABLED` are outside TLAPS as used here.
* The nine properties of the runs that expect a violation, which are false of the code.

No module uses recursion, so none is barred from proofs.

## 7. Plan

1. The proofs of the composed tools as refinements: a specification of the suite as a
   judge whose verdicts are final, and of a pipeline whose pins are vetted, implemented by
   `EvalSuite` and `Upgrade`.
2. The safety halves of the liveness properties as theorems: a measure of what a turn, a walk
   or an upgrade has left, which no step raises.

## 8. Not modelled, and why

* The parts of `dispatch_agent.py` before and around the life cycle: resolution of
  profiles, models and flags, the stream tees, the `--detach` re-exec. They are
  computed from the arguments and keep nothing.
* The status file of `observe_completion.py`: the loop never reads it back. Of its calls
  to the server only failures of the connection (`OSError`) are modelled; an answer that raises
  anything else in `opencode_v2._http` (189-202), a torn HTTP reply for instance, ends
  the observer without a verdict, for nothing in `run` catches it.
* Eviction from the 64 remembered calls of a row, token and cost totals, wording of
  health records: no milestone depends on them.
* Rendering, toasts and owner actions of the TUI; the sentinel plugin, a reader of one file.
* The auto-compact plugin: one handler and one set; two compactions of a session can
  run beside each other, which the code neither forbids nor promises to avoid.
* Of the suite: how an answer is compared with what an eval expects (a choice of the
  verdict), the sandbox, the manifest linter, the merge of logs of several suites;
  `BEVAL_FALLBACK_DEATHS=0`, which turns a trigger of the switch off, and the completeness check
  at the end (1675-1710, 2179), which fails a suite whose log lacks a verdict; an `OSError` of
  the save of the book (898-906), which `main` (2077) records as an infra error of an eval
  whose verdict is in the log already, a second record for the same turn.
* Of the report: the review that is due after two days with a switch of the lane (492), because
  one suite writes one log.
* Of the sync: the retry of `runGh`, see section 4.
* Of the upgrade: `status`, `doctor`, `check`, `--dry-run`, `--open-pr`, the OpenTUI
  version; of the smoke: `post_merge` and `rollback_check`, which only read.
* API adapters but for what the guard and the watcher make of their answers, run-log
  queries, linters, staging and browser tools: one-shot programs without state across
  steps, whose behaviour is that of the service they call.
