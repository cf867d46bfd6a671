------------------------- MODULE CompletionObserver -------------------------
(***************************************************************************)
(* scripts/observe_completion.py: the detached process a dispatch with     *)
(* --wake-to spawns when its child's session is named.  It polls the       *)
(* heartbeat, the run log and the session store until the dispatch looks   *)
(* terminal, waits for the orchestrator to be quiescent, and delivers one  *)
(* wake prompt into the orchestrator's session, or gives up at a deadline; *)
(* either way it leaves one verdict line in the heartbeat and exits.       *)
(*                                                                         *)
(* One iteration of its loop is the steps Poll (read the heartbeat),       *)
(* Conclude (read the run log and the store, classify), Gate (look at the  *)
(* orchestrator), Deliver, and Acknowledge or GiveUp; dispatcher, child,   *)
(* orchestrator and the observers of other dispatches move in between.     *)
(***************************************************************************)
EXTENDS Dispatcher

CONSTANTS Deadline,    \* delivery retry budget, in poll intervals
          MaxTurns     \* bound: model turns of the orchestrator

ASSUME ObserverAssumption == Deadline \in Nat /\ MaxTurns \in Nat

VARIABLES
    obs,      \* the observer process of each dispatch
    orch,     \* the orchestrator's session
    prompts   \* the wake prompts that session accepted, a history

ovars == <<obs, orch, prompts>>
vars  == <<dvars, ovars>>

Steps == {"off", "poll", "conclude", "gate", "deliver", "acknowledge", "late",
          "sleep", "done"}
Finished == {"off", "done"}

\* Waits are counted up to one above the deadline; NoWait is terminal_at = None.
NoWait == -1
NoUpdate == -1

ObserverType ==
    [pc : Steps, survey : BOOLEAN, url : BOOLEAN,
     term : LineType \cup {NoLine}, since : Nat, lineAge : Ages, tool : BOOLEAN,
     outcome : Outcomes \cup {"none"}, waited : NoWait .. (Deadline + 1),
     seen : Nat \cup {NoUpdate}, failure : Reasons \cup {"none"}]

NoObserver ==
    [pc |-> "off", survey |-> FALSE, url |-> FALSE,
     term |-> NoLine, since |-> 0, lineAge |-> NoAge, tool |-> FALSE,
     outcome |-> "none", waited |-> NoWait, seen |-> NoUpdate, failure |-> "none"]

\* Busy is a tool in flight or a step not closed; `updated' is time_updated,
\* counted in finished model turns, `turns' those the session began by itself.
OrchestratorType == [known : BOOLEAN, busy : BOOLEAN,
                     turns : 0 .. MaxTurns, updated : Nat]

PromptType == [run : Runs, outcome : Outcomes, turn : Nat]

ObserverTypeOK ==
    /\ obs \in [Runs -> ObserverType]
    /\ orch \in OrchestratorType
    /\ prompts \in Seq(PromptType)

TypeOK == DispatcherTypeOK /\ ObserverTypeOK

Init ==
    /\ DispatcherInit
    /\ obs = [r \in Runs |-> NoObserver]
    /\ \E known, busy \in BOOLEAN :
         /\ known \/ "noTarget" \in Faults
         /\ orch = [known |-> known, busy |-> busy, turns |-> 0, updated |-> 0]
    /\ prompts = <<>>

---------------------------------------------------------------------------
(* The observer of dispatch r.                                             *)

At(r, step) == obs[r].pc = step
Becomes(r, o) == obs' = [obs EXCEPT ![r] = o]

Exits(r, o) == Becomes(r, [NoObserver EXCEPT !.pc = "done", !.outcome = o])

\* What one poll read is not used by the next.
Forgotten(o) == [o EXCEPT !.term = NoLine, !.since = 0, !.lineAge = NoAge,
                          !.tool = FALSE]

\* on_session: the dispatcher spawns the observer from the line that names the
\* session, with the attach target it resolved, if any.
SpawnObserver(r) ==
    \E spawned, url \in BOOLEAN :
      /\ spawned \/ "environment" \in Faults
      /\ url \/ "noTarget" \in Faults
      /\ IF spawned THEN Becomes(r, [obs[r] EXCEPT !.pc = "poll", !.url = url])
                    ELSE UNCHANGED obs

\* Mutant: every poll that finds the child running leaves a SURVEY line.
Surveys_Repeated(r) == ChildEvidence(hb, session.age # NoAge)

Surveys(r) == ~obs[r].survey /\ ChildEvidence(hb, session.age # NoAge)

\* Read the heartbeat and whether the child has a tool call in flight; the
\* first poll that finds the child running leaves the SURVEY line.
Poll(r) ==
    /\ At(r, "poll")
    /\ Becomes(r, [obs[r] EXCEPT
         !.pc = "conclude", !.survey = @ \/ Surveys(r),
         !.term = TerminalLine(hb), !.since = StartEpoch(hb),
         !.lineAge = lineAge, !.tool = session.tool])
    /\ IF Surveys(r) THEN WriteLine(Line("SURVEY", r)) ELSE UNCHANGED hb
    /\ UNCHANGED <<lineAge, runlog, run, dpc, outcome, exit, interrupt, child,
                   session, orch, prompts>>

Classification(r) ==
    Classify(obs[r].term, LatestRecord(runlog, obs[r].since),
             Freshest(obs[r].lineAge, session.age), obs[r].tool)

\* Mutant: the deadline starts again with every terminal poll.
DeadlineClock_Restarted(waited) == 0

DeadlineClock(waited) == IF waited = NoWait THEN 0 ELSE waited

\* Mutant: a dispatch still under way is announced like a terminal one.
Conclude_Always(r) ==
    /\ At(r, "conclude")
    /\ Becomes(r, [Forgotten(obs[r]) EXCEPT
         !.pc = "gate", !.outcome = Classification(r), !.waited = DeadlineClock(@)])
    /\ UNCHANGED <<dvars, orch, prompts>>

\* Classify what was read against the run log and the newest part in the
\* store.  Nothing terminal means another poll; a terminal dispatch starts the
\* deadline once, and without an attach target it is deferred at once.
Conclude(r) ==
    /\ At(r, "conclude")
    /\ LET o == Classification(r)
       IN  CASE o = "AWAITING" ->
                  Becomes(r, [Forgotten(obs[r]) EXCEPT !.pc = "sleep"]) /\ UNCHANGED hb
             [] o # "AWAITING" /\ ~obs[r].url ->
                  /\ Exits(r, o)
                  /\ WriteLine(VerdictLine("WAKE_DEFERRED", r, o, "no-attach-target"))
             [] OTHER ->
                  /\ Becomes(r, [Forgotten(obs[r]) EXCEPT
                       !.pc = "gate", !.outcome = o, !.waited = DeadlineClock(@)])
                  /\ UNCHANGED hb
    /\ UNCHANGED <<lineAge, runlog, run, dpc, outcome, exit, interrupt, child,
                   session, orch, prompts>>

\* Mutant: only the update stamp is compared, so a turn that is being generated
\* reads as quiet.
Quiescent_StampOnly(r) == obs[r].seen = orch.updated

\* Mutant: the first poll has nothing to compare with and counts as stable.
Quiescent_FirstPoll(r) == ~orch.busy /\ obs[r].seen \in {NoUpdate, orch.updated}

\* No tool in flight, the newest step closed, and nothing updated since the
\* poll before.
Quiescent(r) == ~orch.busy /\ obs[r].seen = orch.updated

\* A store that cannot be read does not hold a wake back.
Gate(r) ==
    /\ At(r, "gate")
    /\ \/ Becomes(r, [obs[r] EXCEPT !.seen = orch.updated,
                        !.pc = IF Quiescent(r) THEN "deliver" ELSE "late"])
       \/ /\ "noStore" \in Faults
          /\ Becomes(r, [obs[r] EXCEPT !.pc = "deliver"])
    /\ UNCHANGED <<dvars, orch, prompts>>

Refused(r, why) ==
    Becomes(r, [obs[r] EXCEPT !.pc = "late", !.failure = why])

\* session.get, session.agent, session.prompt.  The prompt is queued behind
\* the turn that is running and starts one when none is.
AcceptPrompt(r) ==
    /\ prompts' = Append(prompts, [run |-> r, outcome |-> obs[r].outcome,
                                   turn |-> orch.updated])
    /\ orch' = [orch EXCEPT !.busy = TRUE]

\* Mutant: an accepted prompt answers with a status that is not expected.
Deliver_Unrecognised(r) ==
    /\ At(r, "deliver")
    /\ orch.known
    /\ AcceptPrompt(r) /\ Refused(r, "call-failed")
    /\ UNCHANGED dvars

Deliver(r) ==
    /\ At(r, "deliver")
    /\ \/ /\ ~orch.known
          /\ Refused(r, "unknown-session") /\ UNCHANGED <<orch, prompts>>
       \/ /\ "refusal" \in Faults
          /\ Refused(r, "call-failed") /\ UNCHANGED <<orch, prompts>>
       \/ /\ orch.known
          /\ AcceptPrompt(r)
          /\ \/ Becomes(r, [obs[r] EXCEPT !.pc = "acknowledge"])
             \/ "lostReply" \in Faults /\ Refused(r, "call-failed")
    /\ UNCHANGED dvars

Acknowledge(r) ==
    /\ At(r, "acknowledge")
    /\ Exits(r, obs[r].outcome)
    /\ WriteLine(VerdictLine("WAKE", r, obs[r].outcome, "none"))
    /\ UNCHANGED <<lineAge, runlog, run, dpc, outcome, exit, interrupt, child,
                   session, orch, prompts>>

\* Mutant: the reason is what held back the last attempt only.
DeferralReason_Last(r) ==
    IF obs[r].failure = "none" \/ ~Quiescent(r) THEN "quiescence-gate"
                                                ELSE obs[r].failure

\* The last refusal, or else the gate.
DeferralReason(r) ==
    IF obs[r].failure = "none" THEN "quiescence-gate" ELSE obs[r].failure

GiveUp(r) ==
    /\ At(r, "late") /\ obs[r].waited > Deadline
    /\ Exits(r, obs[r].outcome)
    /\ WriteLine(VerdictLine("WAKE_DEFERRED", r, obs[r].outcome, DeferralReason(r)))
    /\ UNCHANGED <<lineAge, runlog, run, dpc, outcome, exit, interrupt, child,
                   session, orch, prompts>>

Retry(r) ==
    /\ At(r, "late") /\ obs[r].waited <= Deadline
    /\ Becomes(r, [obs[r] EXCEPT !.pc = "sleep"])
    /\ UNCHANGED <<dvars, orch, prompts>>

ObserverStep(r) ==
    Poll(r) \/ Conclude(r) \/ Gate(r) \/ Deliver(r) \/ Acknowledge(r)
    \/ GiveUp(r) \/ Retry(r)

---------------------------------------------------------------------------
(* The orchestrator's session takes turns of its own.                      *)

OrchestratorStep ==
    /\ \/ /\ ~orch.busy /\ orch.turns < MaxTurns
          /\ orch' = [orch EXCEPT !.busy = TRUE, !.turns = @ + 1]
       \/ /\ orch.busy
          /\ orch' = [orch EXCEPT !.busy = FALSE, !.updated = @ + 1]
    /\ UNCHANGED <<dvars, obs, prompts>>

---------------------------------------------------------------------------
(* The composition.  A poll interval passes when every observer sleeps, has *)
(* ended, or waits for the orchestrator's server, and wakes the sleepers.   *)

Slept(o) == [o EXCEPT
    !.pc = IF @ = "sleep" THEN "poll" ELSE @,
    !.lineAge = Aged(@),
    !.waited = IF @ = NoWait \/ @ > Deadline THEN @ ELSE @ + 1]

Tick ==
    /\ \A r \in Runs : obs[r].pc \in Finished \cup {"sleep", "deliver"}
    /\ DispatcherTick
    /\ obs' = [r \in Runs |-> IF obs[r].pc \in Finished THEN obs[r] ELSE Slept(obs[r])]
    /\ UNCHANGED <<orch, prompts>>

Next ==
    \/ (DispatcherStep \/ ChildStep \/ ForeignRecord) /\ UNCHANGED ovars
    \/ NameSession /\ SpawnObserver(run) /\ UNCHANGED <<orch, prompts>>
    \/ \E r \in Runs : ObserverStep(r)
    \/ OrchestratorStep
    \/ Tick

\* The observer and the dispatcher are running programs and time passes; the
\* child, the orchestrator and its server owe nothing.
Fairness ==
    /\ \A r \in Runs : WF_vars(ObserverStep(r))
    /\ WF_vars(Tick)
    /\ WF_vars((Refuse \/ Begin \/ (\E f \in LaunchFlags : Launch(f))) /\ UNCHANGED ovars)
    /\ WF_vars(TimeoutKill /\ UNCHANGED ovars) /\ WF_vars(Judge /\ UNCHANGED ovars)
    /\ WF_vars(Report /\ UNCHANGED ovars) /\ WF_vars(Record /\ UNCHANGED ovars)

Spec == Init /\ [][Next]_vars /\ Fairness
---------------------------------------------------------------------------
(* Properties.                                                             *)

Lines(r, tags) == {i \in DOMAIN hb : hb[i].run = r /\ hb[i].tag \in tags}

\* Line ownership: an observer leaves at most one SURVEY and, only when it
\* exits, one verdict line, whatever is retried and whoever appends between.
LineOwnership ==
    \A r \in Runs :
      /\ Cardinality(Lines(r, {"SURVEY"})) <= 1
      /\ Cardinality(Lines(r, VerdictTags)) <= (IF At(r, "done") THEN 1 ELSE 0)
      /\ \A i \in Lines(r, {"SURVEY"}), j \in Lines(r, VerdictTags) : i < j

\* A wake tells what the dispatch it is about was judged to be: success only
\* for a success, failure or error only for one that was judged and did not
\* succeed.
WakeIsTrue ==
    \A i \in DOMAIN prompts :
      LET judged == outcome[prompts[i].run]
      IN  /\ prompts[i].outcome = "success" => judged = "success"
          /\ prompts[i].outcome \in {"failure", "error"} =>
               judged \in {"failure", "error"}

\* The liveness window names an abort only of a dispatch whose dispatcher died
\* before it wrote a terminal line.
AbortMeansDispatcherDied ==
    \A r \in Runs : obs[r].outcome = "aborted" => run > r \/ dpc = "crashed"

\* A wake tells a failed contract from an error of the dispatch itself, although
\* the terminal line can be read before the record that tells them apart.  (A
\* dispatcher killed between the two leaves no record.)
ErrorIsNamed ==
    \A i \in DOMAIN prompts :
      prompts[i].outcome \in {"failure", "error"} /\ dpc # "crashed" =>
        prompts[i].outcome = outcome[prompts[i].run]

PromptsOf(r) == {i \in DOMAIN prompts : prompts[i].run = r}

\* The terminal wake of a dispatch arrives at most once.
WakeAtMostOnce == \A r \in Runs : Cardinality(PromptsOf(r)) <= 1

\* A WAKE_DEFERRED that blames the quiescence gate means that the orchestrator
\* was told nothing: no earlier attempt got through.
GateDeferralMeansSilence ==
    \A i \in DOMAIN hb : hb[i].reason = "quiescence-gate" => PromptsOf(hb[i].run) = {}

\* A wake that is repeated because its reply was lost does not pile up on the
\* turn the first one started: that turn has finished.
RetriesAreSpaced ==
    \A i, j \in DOMAIN prompts :
      i < j /\ prompts[i].run = prompts[j].run => prompts[i].turn < prompts[j].turn

\* Once the child has stopped, its observer comes to a verdict and exits,
\* whatever became of the dispatcher, the orchestrator and its server.
EveryDispatchAnswered ==
    \A r \in Runs :
      (~At(r, "off") /\ ~session.live) ~> At(r, "done")
=============================================================================
