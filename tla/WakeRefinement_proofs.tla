----------------------- MODULE WakeRefinement_proofs -----------------------
(***************************************************************************)
(* The orchestrator is told at most once of a dispatch as long as no reply *)
(* is lost, and with one dispatch per heartbeat file the dispatcher and    *)
(* the completion observer together implement SupervisedDispatch.          *)
(***************************************************************************)
EXTENDS WakeTruth_proofs, WakeRefinement, FiniteSetTheorems

\* The reply to an accepted prompt always arrives.
NoReplyLost == "lostReply" \notin Faults

Through == {"acknowledge", "done"}

\* An observer whose prompt was accepted is on its way out, and had one prompt.
ToldIsOver == \A r \in Runs : obs[r].pc \notin Through => PromptsOf(r) = {}
ToldOnce   == \A i, j \in DOMAIN prompts : prompts[i].run = prompts[j].run => i = j

OnceInv == GateInv /\ ToldIsOver /\ ToldOnce

\* A step without a prompt that takes no observer back from its way out.
LEMMA ToldKept ==
    ASSUME ToldIsOver, ToldOnce, UNCHANGED prompts,
           \A r \in Runs : obs[r].pc \in Through => obs'[r].pc \in Through
    PROVE  ToldIsOver' /\ ToldOnce'
  BY DEF ToldIsOver, ToldOnce, PromptsOf

\* The observer's step: only an accepted prompt adds to what was told, and it
\* leads to the acknowledgement.
LEMMA OnceObserverStep ==
    ASSUME OnceInv, NoReplyLost, NEW r \in Runs, ObserverStep(r)
    PROVE  ToldIsOver' /\ ToldOnce'
<1>a. /\ obs \in [Runs -> ObserverType] /\ prompts \in Seq(PromptType)
      /\ ToldIsOver /\ ToldOnce
  BY DEF OnceInv, GateInv, ObserverTyped, ObserverTypeOK
<1>b. obs[r] \in ObserverType
  BY <1>a
\* The observer becomes o, the others stay.
<1>c. ASSUME NEW o, Becomes(r, o), UNCHANGED prompts,
             obs[r].pc \in Through => o.pc \in Through
      PROVE  ToldIsOver' /\ ToldOnce'
  <2>1. \A q \in Runs : obs[q].pc \in Through => obs'[q].pc \in Through
    BY <1>a, <1>c DEF Becomes
  <2> QED
    BY <1>a, <1>c, <2>1, ToldKept
<1>1. CASE Poll(r) \/ Conclude(r) \/ Gate(r) \/ Retry(r)
  <2>1. obs[r].pc \notin Through /\ UNCHANGED prompts /\ \E o : Becomes(r, o)
    BY <1>1 DEF Poll, Conclude, Gate, Retry, At, Exits, Through
  <2> QED
    BY <1>c, <2>1
<1>2. CASE Acknowledge(r) \/ GiveUp(r)
  <2> DEFINE o == [NoObserver EXCEPT !.pc = "done", !.outcome = obs[r].outcome]
  <2>1. Becomes(r, o) /\ UNCHANGED prompts
    BY <1>2 DEF Acknowledge, GiveUp, Exits
  <2>2. o.pc \in Through
    BY DEF NoObserver, Through
  <2> HIDE DEF o
  <2> QED
    BY <1>c, <2>1, <2>2
<1>3. CASE Deliver(r)
  <2>1. obs[r].pc \notin Through
    BY <1>3 DEF Deliver, At, Through
  <2>2. CASE UNCHANGED prompts
    <3>1. \E o : Becomes(r, o)
      BY <1>3 DEF Deliver, Refused
    <3> QED
      BY <1>c, <2>1, <2>2, <3>1
  <2>3. CASE AcceptPrompt(r) /\ Becomes(r, [obs[r] EXCEPT !.pc = "acknowledge"])
    <3> DEFINE p == [run |-> r, outcome |-> obs[r].outcome, turn |-> orch.updated]
    <3>1. prompts' = Append(prompts, p) /\ p.run = r
      BY <2>3 DEF AcceptPrompt
    <3> HIDE DEF p
    <3>2. \A i \in DOMAIN prompts' :
            \/ i \in DOMAIN prompts /\ prompts'[i] = prompts[i]
            \/ i = Len(prompts) + 1 /\ prompts'[i] = p
      BY <1>a, <3>1
    <3>3. obs'[r].pc = "acknowledge" /\ \A q \in Runs \ {r} : obs'[q] = obs[q]
      BY <1>a, <1>b, <2>3 DEF Becomes, ObserverType
    <3>4. \A i \in DOMAIN prompts : prompts[i].run # r
      BY <1>a, <2>1 DEF ToldIsOver, PromptsOf
    <3>5. ToldOnce'
      BY <1>a, <3>1, <3>2, <3>4 DEF ToldOnce
    <3>6. ToldIsOver'
      BY <1>a, <3>1, <3>2, <3>3 DEF ToldIsOver, PromptsOf, Through
    <3> QED
      BY <3>5, <3>6
  <2> QED
    BY <1>3, <2>2, <2>3 DEF Deliver, NoReplyLost
<1> QED
  BY <1>1, <1>2, <1>3 DEF ObserverStep

\* Every step of the composition keeps it.
LEMMA OnceStep ==
    ASSUME OnceInv, NoReplyLost, [Next]_vars,
           LivenessAssumption, DispatcherAssumption, ObserverAssumption
    PROVE  OnceInv'
<1>a. /\ GateInv /\ ToldIsOver /\ ToldOnce /\ obs \in [Runs -> ObserverType]
      /\ SpawnedOnce
  BY DEF OnceInv, GateInv, ObserverTyped, ObserverTypeOK
<1>b. GateInv'
  BY <1>a, GateStep
<1>1. CASE \E r \in Runs : ObserverStep(r)
  BY <1>1, <1>b, OnceObserverStep DEF OnceInv
<1>2. CASE NameSession /\ SpawnObserver(run) /\ UNCHANGED <<orch, prompts>>
  <2>1. run \in Runs /\ obs[run].pc = "off"
    BY <1>2, <1>a DEF NameSession, GateInv, ObserverTyped, DispatcherTyped, JudgedFirst,
                      SpawnedOnce
  <2>2. \A q \in Runs \ {run} : obs'[q] = obs[q]
    BY <1>2, <1>a, <2>1 DEF SpawnObserver, Becomes
  <2>3. \A q \in Runs : obs[q].pc \in Through => obs'[q].pc \in Through
    BY <2>1, <2>2 DEF Through
  <2> QED
    BY <1>2, <1>a, <1>b, <2>3, ToldKept DEF OnceInv
<1>3. CASE Tick
  <2>1. \A o \in ObserverType : o.pc \in Through => Slept(o).pc \in Through
    BY DEF Slept, ObserverType, Through
  <2>2. \A q \in Runs : obs[q].pc \in Through => obs'[q].pc \in Through
    BY <1>3, <1>a, <2>1 DEF Tick
  <2> QED
    BY <1>3, <1>a, <1>b, <2>2, ToldKept DEF OnceInv, Tick
<1>4. CASE \/ (DispatcherStep \/ ChildStep \/ ForeignRecord) /\ UNCHANGED ovars
           \/ OrchestratorStep \/ UNCHANGED vars
  <2>1. UNCHANGED <<obs, prompts>>
    BY <1>4 DEF OrchestratorStep, ovars, vars
  <2> QED
    BY <1>a, <1>b, <2>1, ToldKept DEF OnceInv
<1> QED
  BY <1>1, <1>2, <1>3, <1>4 DEF Next

\* No observer has begun, and nothing has been told.
LEMMA OnceInit ==
    ASSUME Init, LivenessAssumption, DispatcherAssumption, ObserverAssumption
    PROVE  OnceInv
<1>1. ObserverTyped
  BY ObserverTypeInit
<1>2. SpawnedOnce /\ NothingThrough /\ GateLineIsLast /\ ToldIsOver /\ ToldOnce
  BY DEF Init, DispatcherInit, NoObserver, SpawnedOnce, NothingThrough, GateLineIsLast,
         PromptsOf, ToldIsOver, ToldOnce
<1> QED
  BY <1>1, <1>2 DEF OnceInv, GateInv

\* As long as the reply to an accepted prompt is not lost, the orchestrator is
\* told of each dispatch at most once, for any number of dispatches, fresh or
\* resumed, and whatever is refused, killed or timed out.
THEOREM WakeOnce ==
    ASSUME NoReplyLost
    PROVE  Spec => []WakeAtMostOnce
<1>1. Init => OnceInv
  BY OnceInit, LivenessAssumption, DispatcherAssumption, ObserverAssumption
<1>2. OnceInv /\ [Next]_vars => OnceInv'
  BY OnceStep, NoReplyLost, LivenessAssumption, DispatcherAssumption, ObserverAssumption
<1>3. OnceInv => WakeAtMostOnce
  <2> SUFFICES ASSUME OnceInv, NEW r \in Runs
               PROVE  Cardinality(PromptsOf(r)) <= 1
    BY DEF WakeAtMostOnce
  <2>1. \A i, j \in PromptsOf(r) : i = j
    BY DEF OnceInv, ToldOnce, PromptsOf
  <2>2. CASE PromptsOf(r) = {}
    BY <2>2, FS_EmptySet
  <2>3. CASE \E i : i \in PromptsOf(r)
    <3>1. PICK i : PromptsOf(r) = {i}
      BY <2>1, <2>3
    <3> QED
      BY <3>1, FS_Singleton
  <2> QED
    BY <2>2, <2>3
<1> QED
  BY <1>1, <1>2, <1>3, PTL DEF Spec
---------------------------------------------------------------------------
(* The refinement.                                                         *)

\* A dispatch that has not come to its judgement has none.
JudgedLater ==
    \A r \in Runs :
      r > run \/ (r = run /\ dpc \in {"preflight", "resuming", "begun", "running"})
        => outcome[r] = "none"

RefInv == TruthInv /\ OnceInv /\ JudgedLater

\* Only Judge judges, and it does so once.
LEMMA JudgedLaterStep ==
    ASSUME GateInv, JudgedLater, [Next]_vars
    PROVE  JudgedLater'
<1>a. /\ run \in Nat /\ run' \in Nat /\ outcome \in [Runs -> Judged \cup {"none"}]
      /\ \A r \in Runs : r \in Nat /\ r # 0
  BY DispatcherAssumption, GateStep, LivenessAssumption, ObserverAssumption
  DEF GateInv, ObserverTyped, DispatcherTyped, DispatcherTypeOK, DispatcherAssumption, Runs
<1>b. dpc # "idle" => run \in Runs
  BY DEF GateInv, ObserverTyped, DispatcherTyped, JudgedFirst
<1> USE DEF JudgedLater
<1>1. CASE \E fresh \in BOOLEAN : Preflight(fresh)
  BY <1>1, <1>a DEF Preflight
<1>2. CASE Judge
  BY <1>2, <1>a, <1>b DEF Judge
<1>3. CASE Refuse \/ Begin \/ TimeoutKill \/ Report \/ Record \/ Uncaught \/ Crash
           \/ \E f \in LaunchFlags : Launch(f)
  BY <1>3, <1>a DEF Refuse, Begin, TimeoutKill, Report, Record, Uncaught, Crash, Launch, Ended
<1>4. CASE ChildStep \/ NameSession \/ ForeignRecord \/ DispatcherTick
  BY <1>4 DEF ChildStep, SessionPart, ChildLine, ChildExit, SessionEnds, NameSession,
              ForeignRecord, DispatcherTick
<1>5. CASE \E r \in Runs : ObserverStep(r)
  BY <1>5 DEF ObserverStep, Poll, Conclude, Gate, Deliver, Acknowledge, GiveUp, Retry,
              dvars, filevars
<1>6. CASE OrchestratorStep \/ UNCHANGED vars
  BY <1>6 DEF OrchestratorStep, vars, dvars
<1> QED
  BY <1>1, <1>2, <1>3, <1>4, <1>5, <1>6 DEF Next, DispatcherStep, Tick

\* A step that leaves judgement and prompts alone and ends no observer is
\* invisible to the promise.
LEMMA Invisible ==
    ASSUME UNCHANGED <<outcome, prompts>>,
           \A r \in Runs : obs'[r].pc = "done" <=> obs[r].pc = "done"
    PROVE  UNCHANGED Supervised!svars
  BY DEF Supervised!svars, ToldPrompts, SettledRuns, At

\* An observer that exits settles its dispatch.
LEMMA ExitSettles ==
    ASSUME obs \in [Runs -> ObserverType], NEW r \in Runs, NEW o, Exits(r, o),
           obs[r].pc # "done", UNCHANGED <<outcome, prompts>>
    PROVE  Supervised!Settle(r)
<1>1. obs'[r].pc = "done" /\ \A q \in Runs \ {r} : obs'[q] = obs[q]
  BY DEF Exits, Becomes, NoObserver
<1>2. SettledRuns' = SettledRuns \cup {r} /\ r \notin SettledRuns
  BY <1>1 DEF SettledRuns, At
<1>3. UNCHANGED ToldPrompts
  BY DEF ToldPrompts
<1> QED
  BY <1>2, <1>3 DEF Supervised!Settle

\* An accepted prompt tells of the dispatch what it may be told.
LEMMA PromptTells ==
    ASSUME RefInv, NEW r \in Runs, obs[r].pc = "deliver", AcceptPrompt(r),
           Becomes(r, [obs[r] EXCEPT !.pc = "acknowledge"]), UNCHANGED outcome
    PROVE  Supervised!Tell(r)
<1>a. /\ obs \in [Runs -> ObserverType] /\ prompts \in Seq(PromptType)
      /\ obs[r].outcome \in Outcomes /\ Truly(obs[r].outcome, r)
      /\ PromptsOf(r) = {}
  BY DEF RefInv, TruthInv, OnceInv, ToldIsOver, Through, GateInv, ObserverTyped,
         ObserverTypeOK, ConcludedFirst, Announcing
<1> DEFINE p == [run |-> r, outcome |-> obs[r].outcome, turn |-> orch.updated]
           t == [run |-> r, outcome |-> obs[r].outcome]
<1>1. prompts' = Append(prompts, p) /\ p.run = r /\ p.outcome = obs[r].outcome
  BY DEF AcceptPrompt
<1> HIDE DEF p
<1>2. ToldPrompts' = Append(ToldPrompts, t)
  <2> DEFINE S == [run : Runs, outcome : Outcomes]
             n == Len(prompts)
  <2>0. n \in Nat /\ DOMAIN prompts = 1 .. n /\ \A i \in 1 .. n : prompts[i] \in PromptType
    BY <1>a
  <2>1. ToldPrompts \in Seq(S) /\ Len(ToldPrompts) = n
    <3>1. \A i \in 1 .. n : [run |-> prompts[i].run, outcome |-> prompts[i].outcome] \in S
      BY <2>0 DEF PromptType
    <3> HIDE DEF S, n
    <3>2. ToldPrompts \in [1 .. n -> S]
      BY <2>0, <3>1 DEF ToldPrompts
    <3> QED
      BY <2>0, <3>2
  <2>2. DOMAIN prompts' = 1 .. (Len(prompts) + 1)
    BY <1>a, <1>1
  <2>3. /\ \A i \in 1 .. Len(prompts) : prompts'[i] = prompts[i]
        /\ prompts'[Len(prompts) + 1] = p
    BY <1>a, <1>1
  <2>4. \A i \in 1 .. (Len(prompts) + 1) :
          ToldPrompts'[i] = IF i = Len(prompts) + 1 THEN t ELSE ToldPrompts[i]
    BY <1>a, <1>1, <2>2, <2>3 DEF ToldPrompts
  <2>5. ToldPrompts' = [i \in 1 .. (Len(prompts) + 1) |-> ToldPrompts'[i]]
    BY <2>2 DEF ToldPrompts
  <2>6. Append(ToldPrompts, t) =
          [i \in 1 .. (Len(prompts) + 1) |->
             IF i = Len(prompts) + 1 THEN t ELSE ToldPrompts[i]]
    BY <2>1
  <2> QED
    BY <2>4, <2>5, <2>6
<1>3. Supervised!ToldOf(r) = {}
  BY <1>a DEF Supervised!ToldOf, ToldPrompts, PromptsOf
<1>4. UNCHANGED SettledRuns /\ r \notin SettledRuns
  <2>1. obs'[r].pc = "acknowledge" /\ \A q \in Runs \ {r} : obs'[q] = obs[q]
    BY <1>a DEF Becomes, ObserverType
  <2> QED
    BY <2>1 DEF SettledRuns, At
<1>5. Supervised!Warranted(r, obs[r].outcome)
  BY <1>a DEF Supervised!Warranted, Truly
<1> QED
  BY <1>a, <1>2, <1>3, <1>4, <1>5 DEF Supervised!Tell
\* A step of an observer.
LEMMA ObserverStepRefines ==
    ASSUME RefInv, NoReplyLost, NEW r \in Runs, ObserverStep(r)
    PROVE  (\E q \in Runs : Supervised!Tell(q) \/ Supervised!Settle(q))
           \/ UNCHANGED Supervised!svars
<1>a. obs \in [Runs -> ObserverType] /\ obs[r] \in ObserverType
  BY DEF RefInv, TruthInv, GateInv, ObserverTyped, ObserverTypeOK
<1>b. UNCHANGED outcome /\ obs[r].pc # "done"
  BY DEF ObserverStep, Poll, Conclude, Gate, Deliver, Acknowledge, GiveUp, Retry, At,
         dvars, filevars
\* The observer goes on to another step.
<1>c. ASSUME NEW o \in ObserverType, NEW pc \in Steps \ {"done"},
             Becomes(r, [o EXCEPT !.pc = pc]), UNCHANGED prompts
      PROVE  UNCHANGED Supervised!svars
  <2>1. [o EXCEPT !.pc = pc].pc = pc
    BY <1>c DEF ObserverType
  <2>2. \A q \in Runs : obs'[q].pc = "done" <=> obs[q].pc = "done"
    BY <1>a, <1>b, <1>c, <2>1 DEF Becomes
  <2> QED
    BY <1>b, <1>c, <2>2, Invisible
<1>1. CASE Poll(r) \/ Gate(r) \/ Retry(r)
  <2>1. UNCHANGED prompts /\ \E o : Becomes(r, o) /\ o.pc # "done"
    <3>1. CASE Poll(r)
      <4> DEFINE o == [obs[r] EXCEPT
                         !.pc = "conclude", !.survey = obs[r].survey \/ Surveys(r),
                         !.term = TerminalLine(hb), !.since = StartEpoch(hb),
                         !.lineAge = lineAge, !.tool = session.tool]
      <4>1. Becomes(r, o) /\ UNCHANGED prompts
        BY <3>1 DEF Poll
      <4>2. o.pc = "conclude"
        BY <1>a DEF ObserverType
      <4> HIDE DEF o
      <4> QED
        BY <4>1, <4>2
    <3>2. CASE Gate(r)
      <4> DEFINE o(pc) == [obs[r] EXCEPT !.seen = orch.updated, !.pc = pc]
                 u == [obs[r] EXCEPT !.pc = "deliver"]
      <4>1. /\ UNCHANGED prompts
            /\ Becomes(r, o("deliver")) \/ Becomes(r, o("late")) \/ Becomes(r, u)
        BY <3>2 DEF Gate
      <4>2. o("deliver").pc = "deliver" /\ o("late").pc = "late" /\ u.pc = "deliver"
        BY <1>a DEF ObserverType
      <4> HIDE DEF o, u
      <4> QED
        BY <4>1, <4>2
    <3>3. CASE Retry(r)
      BY <3>3, <1>a DEF Retry, ObserverType
    <3> QED
      BY <1>1, <3>1, <3>2, <3>3
  <2>2. \A q \in Runs : obs'[q].pc = "done" <=> obs[q].pc = "done"
    BY <1>a, <1>b, <2>1 DEF Becomes
  <2> QED
    BY <1>b, <2>1, <2>2, Invisible
<1>2. CASE Conclude(r)
  <2> DEFINE c == Classification(r)
             f == Forgotten(obs[r])
             d == DeadlineClock(f.waited)
  <2>1. DOMAIN f = DOMAIN obs[r]
    BY <1>a DEF Forgotten, ObserverType
  <2>2. UNCHANGED prompts
    BY <1>2 DEF Conclude
  <2> HIDE DEF c, f, d
  <2>3. \/ Becomes(r, [f EXCEPT !.pc = "sleep"])
        \/ Exits(r, c)
        \/ Becomes(r, [f EXCEPT !.pc = "gate", !.outcome = c, !.waited = d])
    BY <1>2 DEF Conclude, c, f, d
  <2>4. CASE Exits(r, c)
    BY <1>a, <1>b, <2>2, <2>4, ExitSettles
  <2>5. CASE ~Exits(r, c)
    <3>1. /\ [f EXCEPT !.pc = "sleep"].pc = "sleep"
          /\ [f EXCEPT !.pc = "gate", !.outcome = c, !.waited = d].pc = "gate"
      BY <1>a, <2>1 DEF ObserverType
    <3>2. \A q \in Runs : obs'[q].pc = "done" <=> obs[q].pc = "done"
      BY <1>a, <1>b, <2>3, <2>5, <3>1 DEF Becomes
    <3> QED
      BY <1>b, <2>2, <3>2, Invisible
  <2> QED
    BY <2>4, <2>5
<1>3. CASE Deliver(r)
  <2>1. CASE UNCHANGED prompts /\ \E why : Refused(r, why)
    <3>1. \A why : [obs[r] EXCEPT !.pc = "late", !.failure = why].pc = "late"
      BY <1>a DEF ObserverType
    <3>2. \A q \in Runs : obs'[q].pc = "done" <=> obs[q].pc = "done"
      BY <1>a, <1>b, <2>1, <3>1 DEF Becomes, Refused
    <3> QED
      BY <1>b, <2>1, <3>2, Invisible
  <2>2. CASE AcceptPrompt(r) /\ Becomes(r, [obs[r] EXCEPT !.pc = "acknowledge"])
    BY <1>3, <1>b, <2>2, PromptTells DEF Deliver, At
  <2> QED
    BY <1>3, <2>1, <2>2 DEF Deliver, NoReplyLost
<1>4. CASE Acknowledge(r) \/ GiveUp(r)
  <2>1. Exits(r, obs[r].outcome) /\ UNCHANGED prompts
    BY <1>4 DEF Acknowledge, GiveUp
  <2> QED
    BY <1>a, <1>b, <2>1, ExitSettles
<1> QED
  BY <1>1, <1>2, <1>3, <1>4 DEF ObserverStep

\* Every step is one of the promise or invisible to it.
LEMMA StepRefines ==
    ASSUME RefInv, NoReplyLost, [Next]_vars
    PROVE  [Supervised!Next]_(Supervised!svars)
<1>a. /\ obs \in [Runs -> ObserverType] /\ SpawnedOnce /\ JudgedLater
      /\ outcome \in [Runs -> Judged \cup {"none"}]
      /\ dpc # "idle" => run \in Runs
  BY DEF RefInv, TruthInv, GateInv, ObserverTyped, ObserverTypeOK, DispatcherTyped,
         DispatcherTypeOK, JudgedFirst
<1>1. CASE \E r \in Runs : ObserverStep(r)
  BY <1>1, ObserverStepRefines DEF Supervised!Next
<1>2. CASE Judge /\ UNCHANGED ovars
  <2>1. PICK v \in Judged : outcome' = [outcome EXCEPT ![run] = v]
    BY <1>2 DEF Judge, Verdicts, Judged
  <2>2. run \in Runs /\ outcome[run] = "none"
    BY <1>2, <1>a DEF Judge, JudgedLater
  <2>3. UNCHANGED <<ToldPrompts, SettledRuns>>
    BY <1>2 DEF ovars, ToldPrompts, SettledRuns, At
  <2>4. Supervised!Judge(run)
    BY <2>1, <2>2, <2>3 DEF Supervised!Judge, Supervised!Unjudged, Judged, Outcomes
  <2> QED
    BY <2>2, <2>4 DEF Supervised!Next
<1>3. CASE (ChildStep \/ ForeignRecord \/ DispatcherStep) /\ ~Judge /\ UNCHANGED ovars
  <2>1. UNCHANGED outcome
    BY <1>3 DEF DispatcherStep, Preflight, Refuse, Begin, TimeoutKill, Report, Record,
                Uncaught, Crash, Launch, ChildStep, SessionPart, ChildLine, ChildExit, SessionEnds,
                ForeignRecord
  <2> QED
    BY <1>3, <2>1, Invisible DEF ovars
<1>4. CASE NameSession /\ SpawnObserver(run) /\ UNCHANGED <<orch, prompts>>
  <2>1. run \in Runs /\ obs[run].pc = "off" /\ UNCHANGED outcome
    BY <1>4, <1>a DEF NameSession, SpawnedOnce
  <2>2. PICK url \in BOOLEAN :
          \/ Becomes(run, [obs[run] EXCEPT !.pc = "poll", !.url = url])
          \/ UNCHANGED obs
    BY <1>4 DEF SpawnObserver
  <2>3. [obs[run] EXCEPT !.pc = "poll", !.url = url].pc = "poll"
    BY <1>a, <2>1 DEF ObserverType
  <2>4. \A q \in Runs : obs'[q].pc = "done" <=> obs[q].pc = "done"
    BY <1>a, <2>1, <2>2, <2>3 DEF Becomes
  <2> QED
    BY <1>4, <2>1, <2>4, Invisible
<1>5. CASE Tick
  <2>1. \A o \in ObserverType : Slept(o).pc = "done" <=> o.pc = "done"
    BY DEF Slept, ObserverType
  <2>2. \A q \in Runs : obs'[q].pc = "done" <=> obs[q].pc = "done"
    BY <1>5, <1>a, <2>1 DEF Tick
  <2> QED
    BY <1>5, <2>2, Invisible DEF Tick, DispatcherTick
<1>6. CASE OrchestratorStep \/ UNCHANGED vars
  BY <1>6, Invisible DEF OrchestratorStep, vars, dvars, ovars
<1> QED
  BY <1>1, <1>2, <1>3, <1>4, <1>5, <1>6 DEF Next, DispatcherStep

\* The dispatcher and its observer keep the promise of SupervisedDispatch: of a
\* dispatch the orchestrator is told at most once, nothing after the verdict
\* line, and nothing that contradicts the judgement, provided that no reply to
\* an accepted prompt is lost and that a heartbeat file serves one dispatch.
THEOREM SupervisionIsImplemented ==
    ASSUME OneDispatch, NoReplyLost
    PROVE  Spec => ImplementsSupervision
<1>1. Init => RefInv /\ Supervised!Init
  <2> SUFFICES ASSUME Init
               PROVE  RefInv /\ Supervised!Init
    OBVIOUS
  <2>1. OnceInv
    BY OnceInit, LivenessAssumption, DispatcherAssumption, ObserverAssumption
  <2>2. TruthInv
    <3>1. \A r \in Runs : obs[r].term = NoLine /\ obs[r].outcome = "none"
      BY DEF Init, NoObserver
    <3>2. \A r \in Runs : TrulyTagged(obs[r].term.tag, r) /\ Truly(obs[r].outcome, r)
      BY <3>1 DEF NoLine, Line, Truly, TrulyTagged
    <3> QED
      BY <2>1, <3>2 DEF TruthInv, OnceInv, Init, DispatcherInit
  <2>3. JudgedLater /\ Supervised!Init
    <3>1. ToldPrompts = <<>> /\ SettledRuns = {}
      BY DEF Init, ToldPrompts, SettledRuns, At, NoObserver
    <3> QED
      BY <3>1 DEF Init, DispatcherInit, JudgedLater, Supervised!Init, Supervised!Unjudged
  <2> QED
    BY <2>1, <2>2, <2>3 DEF RefInv
<1>2. RefInv /\ [Next]_vars => RefInv' /\ [Supervised!Next]_(Supervised!svars)
  BY TruthStep, OnceStep, JudgedLaterStep, StepRefines, OneDispatch, NoReplyLost,
     LivenessAssumption, DispatcherAssumption, ObserverAssumption
  DEF RefInv, TruthInv
<1> QED
  BY <1>1, <1>2, PTL DEF Spec, ImplementsSupervision, Supervised!Spec
=============================================================================
