--------------------- MODULE CompletionObserver_proofs ---------------------
(***************************************************************************)
(* Theorems about CompletionObserver, for any number of dispatches, any    *)
(* window and deadline and any set of faults.                              *)
(***************************************************************************)
EXTENDS CompletionObserver, Dispatcher_proofs, WellFoundedInduction

\* A nonempty set of naturals has a smallest element, the one Min chooses.
LEMMA MinOfNaturals ==
    ASSUME NEW S, S \subseteq Nat, S # {}
    PROVE  Min(S) \in S
<1> DEFINE R == OpToRel(<, Nat)
<1>1. IsWellFoundedOn(R, Nat)
  BY NatLessThanWellFounded
<1>2. \A x, y \in Nat : x < y => <<x, y>> \in R
  BY DEF OpToRel
<1> HIDE DEF R
<1>3. PICK x \in S : \A y \in S : ~ (<<y, x>> \in R)
  BY <1>1, WFMin, Zenon
<1>4. \A y \in S : ~ (y < x)
  BY <1>2, <1>3
<1>5. \A y \in S : x <= y
  BY <1>4
<1> QED
  BY <1>5, Zenon DEF Min

\* FirstLine returns a line of the heartbeat with one of the tags, or NoLine.
LEMMA FirstLineFound ==
    ASSUME NEW h \in Seq(LineType), NEW tags
    PROVE  \/ FirstLine(h, tags) = NoLine
           \/ \E i \in DOMAIN h : h[i].tag \in tags /\ FirstLine(h, tags) = h[i]
<1> DEFINE I == {i \in DOMAIN h : h[i].tag \in tags}
<1>1. CASE I = {}
  BY <1>1 DEF FirstLine
<1>2. CASE I # {}
  <2>1. I \subseteq Nat
    OBVIOUS
  <2>2. Min(I) \in I
    BY <1>2, <2>1, MinOfNaturals
  <2> QED
    BY <1>2, <2>2, Zenon DEF FirstLine
<1> QED
  BY <1>1, <1>2

\* What the observer reads from a typed heartbeat is typed.
LEMMA ReadTyped ==
    ASSUME hb \in Seq(LineType)
    PROVE  /\ TerminalLine(hb) \in LineType \cup {NoLine}
           /\ StartEpoch(hb) \in Nat
<1>1. \A i \in DOMAIN hb : hb[i] \in LineType
  OBVIOUS
<1>2. \A tags : FirstLine(hb, tags) \in LineType \cup {NoLine}
  <2> TAKE tags
  <2> QED
    BY <1>1, FirstLineFound
<1>3. \A l \in LineType \cup {NoLine} : l.at \in Nat
  <2>1. NoLine.at = 0
    BY DEF NoLine, Line
  <2> QED
    BY <2>1 DEF LineType
<1> QED
  BY <1>2, <1>3, Zenon DEF TerminalLine, StartEpoch

\* Whatever was read, the classification is an outcome or AWAITING.
LEMMA ClassificationTyped ==
    ASSUME NEW r
    PROVE  Classification(r) \in Outcomes \cup {"AWAITING"}
  BY DEF Classification, Classify, BlockedOutcome, Outcomes

---------------------------------------------------------------------------
(* Type correctness.                                                       *)

\* An observer that is past its conclusion has one to tell of, and none runs
\* for a dispatch that has not begun.
Announcing == {"gate", "deliver", "acknowledge", "late"}

ConcludedFirst ==
    \A r \in Runs : obs[r].pc \in Announcing => obs[r].outcome \in Outcomes

ObserverTyped == DispatcherTyped /\ ObserverTypeOK /\ ConcludedFirst

\* A line of the observer keeps the heartbeat typed and is not a sign of life.
LEMMA ObserverLineTyped ==
    ASSUME hb \in Seq(LineType), NEW r \in Runs,
           NEW o \in Outcomes, NEW why \in Reasons \cup {"none"},
           NEW tag \in VerdictTags
    PROVE  /\ Line("SURVEY", r) \in LineType
           /\ VerdictLine(tag, r, o, why) \in LineType
           /\ \A l \in LineType : WriteLine(l) => hb' \in Seq(LineType)
<1>1. r \in Nat
  BY DispatcherAssumption DEF Runs, DispatcherAssumption
<1>2. Line("SURVEY", r) \in LineType /\ VerdictLine(tag, r, o, why) \in LineType
  BY <1>1 DEF Line, VerdictLine, LineType, LineTags, OwnerTags, VerdictTags
<1>3. \A l \in LineType : WriteLine(l) => hb' \in Seq(LineType)
  BY DEF WriteLine
<1> QED
  BY <1>2, <1>3

\* The dispatcher's invariant only speaks of its own variables, and a step of
\* the observer changes the heartbeat at most.
LEMMA DispatcherTypedKept ==
    ASSUME DispatcherTyped, hb' \in Seq(LineType),
           UNCHANGED <<lineAge, runlog, run, dpc, outcome, exit, interrupt, child,
                       session>>
    PROVE  DispatcherTyped'
  BY DEF DispatcherTyped, DispatcherTypeOK, JudgedFirst

\* One observer changes and the others do not.
LEMMA BecomesOne ==
    ASSUME obs \in [Runs -> ObserverType], NEW r \in Runs, NEW o \in ObserverType,
           Becomes(r, o)
    PROVE  /\ obs' \in [Runs -> ObserverType]
           /\ obs'[r] = o
           /\ \A q \in Runs \ {r} : obs'[q] = obs[q]
  BY DEF Becomes

\* The new values the steps give to an observer are typed.
LEMMA ObserverValues ==
    ASSUME NEW o \in ObserverType, NEW pc \in Steps, NEW x \in Outcomes \cup {"none"},
           NEW b \in BOOLEAN, NEW n \in Nat, NEW why \in Reasons,
           LivenessAssumption, ObserverAssumption
    PROVE  /\ Forgotten(o) \in ObserverType
           /\ [o EXCEPT !.pc = pc] \in ObserverType
           /\ [o EXCEPT !.pc = pc, !.url = b] \in ObserverType
           /\ [o EXCEPT !.pc = pc, !.failure = why] \in ObserverType
           /\ [o EXCEPT !.seen = n, !.pc = pc] \in ObserverType
           /\ [NoObserver EXCEPT !.pc = pc, !.outcome = x] \in ObserverType
           /\ DeadlineClock(o.waited) \in NoWait .. (Deadline + 1)
           /\ Slept(o) \in ObserverType
<1> USE DEF ObserverType
<1>1. NoAge \in Ages /\ 0 \in NoWait .. (Deadline + 1) /\ NoWait \in NoWait .. (Deadline + 1)
  BY DEF Ages, NoAge, NoWait, LivenessAssumption, ObserverAssumption
<1>2. Forgotten(o) \in ObserverType
  BY <1>1 DEF Forgotten
<1>3. /\ [o EXCEPT !.pc = pc] \in ObserverType
      /\ [o EXCEPT !.pc = pc, !.url = b] \in ObserverType
      /\ [o EXCEPT !.pc = pc, !.failure = why] \in ObserverType
      /\ [o EXCEPT !.seen = n, !.pc = pc] \in ObserverType
  OBVIOUS
<1>4. [NoObserver EXCEPT !.pc = pc, !.outcome = x] \in ObserverType
  BY <1>1 DEF NoObserver
<1>5. DeadlineClock(o.waited) \in NoWait .. (Deadline + 1)
  BY <1>1 DEF DeadlineClock
<1>6. Slept(o) \in ObserverType
  <2>1. Aged(o.lineAge) \in Ages
    BY AgedTyped
  <2> DEFINE w == IF o.waited = NoWait \/ o.waited > Deadline THEN o.waited ELSE o.waited + 1
             p == IF o.pc = "sleep" THEN "poll" ELSE o.pc
  <2>2. w \in NoWait .. (Deadline + 1)
    BY DEF NoWait, ObserverAssumption
  <2>3. p \in Steps
    BY DEF Steps
  <2>4. Slept(o) = [o EXCEPT !.pc = p, !.lineAge = Aged(o.lineAge), !.waited = w]
    BY DEF Slept
  <2> HIDE DEF w, p
  <2> QED
    BY <2>1, <2>2, <2>3, <2>4
<1> QED
  BY <1>2, <1>3, <1>4, <1>5, <1>6

\* The observer's own steps keep the types.
LEMMA ObserverStepTyped ==
    ASSUME ObserverTyped, NEW r \in Runs, ObserverStep(r),
           LivenessAssumption, DispatcherAssumption, ObserverAssumption
    PROVE  ObserverTyped'
<1> DEFINE Rest == UNCHANGED <<lineAge, runlog, run, dpc, outcome, exit, interrupt,
                              child, session>>
<1>a. /\ obs \in [Runs -> ObserverType] /\ orch \in OrchestratorType
      /\ prompts \in Seq(PromptType) /\ hb \in Seq(LineType)
      /\ session \in SessionType /\ lineAge \in Ages
  BY DEF ObserverTyped, ObserverTypeOK, DispatcherTyped, DispatcherTypeOK
<1>b. obs[r] \in ObserverType
  BY <1>a
<1>c. ASSUME NEW o \in ObserverType, Becomes(r, o),
             o.pc \in Announcing => o.outcome \in Outcomes,
             hb' \in Seq(LineType), Rest,
             orch' \in OrchestratorType, prompts' \in Seq(PromptType)
      PROVE  ObserverTyped'
  <2>1. DispatcherTyped'
    BY <1>c, DispatcherTypedKept DEF ObserverTyped
  <2>2. ObserverTypeOK'
    BY <1>a, <1>c, BecomesOne DEF ObserverTypeOK
  <2>3. ConcludedFirst'
    BY <1>a, <1>c, BecomesOne DEF ConcludedFirst, ObserverTyped
  <2> QED
    BY <2>1, <2>2, <2>3 DEF ObserverTyped
<1>1. CASE Poll(r)
  <2> DEFINE o == [obs[r] EXCEPT
                     !.pc = "conclude", !.survey = obs[r].survey \/ Surveys(r),
                     !.term = TerminalLine(hb), !.since = StartEpoch(hb),
                     !.lineAge = lineAge, !.tool = session.tool]
             sv == obs[r].survey \/ Surveys(r)
  <2>1. sv \in BOOLEAN
    BY Zenon
  <2>2. o = [obs[r] EXCEPT !.pc = "conclude", !.survey = sv,
               !.term = TerminalLine(hb), !.since = StartEpoch(hb),
               !.lineAge = lineAge, !.tool = session.tool]
    OBVIOUS
  <2> HIDE DEF sv
  <2>3. session.tool \in BOOLEAN
    BY <1>a DEF SessionType
  <2>4. o \in ObserverType /\ o.pc = "conclude"
    BY <1>a, <1>b, <2>1, <2>2, <2>3, ReadTyped DEF ObserverType, Steps
  <2>5. hb' \in Seq(LineType)
    BY <1>1, <1>a, ObserverLineTyped DEF Poll, Outcomes, VerdictTags
  <2> HIDE DEF o
  <2> QED
    BY <1>1, <1>a, <1>c, <2>4, <2>5 DEF Poll, Announcing, o
<1>2. CASE Conclude(r)
  <2> DEFINE c == Classification(r)
             f == Forgotten(obs[r])
  <2>1. c \in Outcomes \cup {"AWAITING"} /\ f \in ObserverType
        /\ DeadlineClock(f.waited) \in NoWait .. (Deadline + 1)
    BY <1>b, ClassificationTyped, ObserverValues DEF Outcomes, Steps, Reasons
  <2>2. CASE c = "AWAITING"
    <3>1. [f EXCEPT !.pc = "sleep"] \in ObserverType
      BY <2>1, ObserverValues DEF Outcomes, Steps, Reasons
    <3> QED
      BY <1>2, <1>a, <1>c, <2>2, <3>1 DEF Conclude, Announcing, ObserverType
  <2>3. CASE c # "AWAITING" /\ ~obs[r].url
    <3>1. [NoObserver EXCEPT !.pc = "done", !.outcome = c] \in ObserverType
      BY <1>b, <2>1, <2>3, ObserverValues DEF Steps, Reasons
    <3>2. hb' \in Seq(LineType)
      BY <1>2, <1>a, <2>1, <2>3, ObserverLineTyped DEF Conclude, VerdictTags, Reasons
    <3> QED
      BY <1>2, <1>a, <1>c, <2>3, <3>1, <3>2
      DEF Conclude, Exits, Announcing, NoObserver
  <2>4. CASE c # "AWAITING" /\ obs[r].url
    <3> DEFINE d == DeadlineClock(f.waited)
    <3> HIDE DEF d, f, c
    <3>1. [f EXCEPT !.pc = "gate", !.outcome = c, !.waited = d] \in ObserverType
      BY <2>1, <2>4 DEF ObserverType, Steps, d
    <3>2. Becomes(r, [f EXCEPT !.pc = "gate", !.outcome = c, !.waited = d])
          /\ UNCHANGED <<hb, orch, prompts>> /\ Rest
      BY <1>2, <2>4 DEF Conclude, c, f, d
    <3>3. [f EXCEPT !.pc = "gate", !.outcome = c, !.waited = d].outcome \in Outcomes
      BY <2>1, <2>4 DEF ObserverType
    <3> QED
      BY <1>a, <1>c, <3>1, <3>2, <3>3
  <2> QED
    BY <2>2, <2>3, <2>4
<1>3. CASE Gate(r)
  <2>1. orch.updated \in Nat
    BY <1>a DEF OrchestratorType
  <2>2. obs[r].outcome \in Outcomes
    BY <1>3 DEF Gate, At, Announcing, ObserverTyped, ConcludedFirst
  <2>3. PICK pc \in {"deliver", "late"} :
          \/ Becomes(r, [obs[r] EXCEPT !.seen = orch.updated, !.pc = pc])
          \/ Becomes(r, [obs[r] EXCEPT !.pc = pc])
    BY <1>3 DEF Gate
  <2>4. /\ [obs[r] EXCEPT !.seen = orch.updated, !.pc = pc] \in ObserverType
        /\ [obs[r] EXCEPT !.pc = pc] \in ObserverType
    BY <1>b, <2>1 DEF ObserverType, Steps
  <2>5. UNCHANGED <<hb, orch, prompts>> /\ Rest
    BY <1>3 DEF Gate, dvars, filevars
  <2> QED
    BY <1>a, <1>b, <1>c, <2>2, <2>3, <2>4, <2>5 DEF ObserverType
<1>4. CASE Deliver(r)
  <2>1. obs[r].outcome \in Outcomes
    BY <1>4 DEF Deliver, At, Announcing, ObserverTyped, ConcludedFirst
  <2>2. \A o \in ObserverType : Becomes(r, o) /\ o.outcome = obs[r].outcome
          => (orch' \in OrchestratorType /\ prompts' \in Seq(PromptType) => ObserverTyped')
    BY <1>4, <1>a, <1>c, <2>1 DEF Deliver, dvars, filevars
  <2>3. orch' \in OrchestratorType /\ prompts' \in Seq(PromptType)
    <3>1. CASE AcceptPrompt(r)
      <4>1. [run |-> r, outcome |-> obs[r].outcome, turn |-> orch.updated] \in PromptType
        BY <1>a, <2>1 DEF PromptType, OrchestratorType
      <4>2. [orch EXCEPT !.busy = TRUE] \in OrchestratorType
        BY <1>a DEF OrchestratorType
      <4> QED
        BY <1>a, <3>1, <4>1, <4>2 DEF AcceptPrompt
    <3>2. CASE UNCHANGED <<orch, prompts>>
      BY <1>a, <3>2
    <3> QED
      BY <1>4, <3>1, <3>2 DEF Deliver
  <2>4. \/ \E why \in Reasons : Becomes(r, [obs[r] EXCEPT !.pc = "late", !.failure = why])
        \/ Becomes(r, [obs[r] EXCEPT !.pc = "acknowledge"])
    BY <1>4 DEF Deliver, Refused, Reasons
  <2>5. /\ \A why \in Reasons : [obs[r] EXCEPT !.pc = "late", !.failure = why] \in ObserverType
        /\ [obs[r] EXCEPT !.pc = "acknowledge"] \in ObserverType
    BY <1>b DEF ObserverType, Steps
  <2>6. /\ \A why \in Reasons :
             [obs[r] EXCEPT !.pc = "late", !.failure = why].outcome = obs[r].outcome
        /\ [obs[r] EXCEPT !.pc = "acknowledge"].outcome = obs[r].outcome
    BY <1>b DEF ObserverType
  <2>7. CASE \E why \in Reasons : Becomes(r, [obs[r] EXCEPT !.pc = "late", !.failure = why])
    <3>1. PICK why \in Reasons : Becomes(r, [obs[r] EXCEPT !.pc = "late", !.failure = why])
      BY <2>7
    <3> QED
      BY <2>2, <2>3, <2>5, <2>6, <3>1
  <2>8. CASE Becomes(r, [obs[r] EXCEPT !.pc = "acknowledge"])
    BY <2>2, <2>3, <2>5, <2>6, <2>8
  <2> QED
    BY <2>4, <2>7, <2>8
<1>5. CASE Acknowledge(r) \/ GiveUp(r)
  <2>1. obs[r].outcome \in Outcomes
    BY <1>5 DEF Acknowledge, GiveUp, At, Announcing, ObserverTyped, ConcludedFirst
  <2>2. DeferralReason(r) \in Reasons
    BY <1>b DEF DeferralReason, ObserverType, Reasons
  <2>3. /\ VerdictLine("WAKE", r, obs[r].outcome, "none") \in LineType
        /\ VerdictLine("WAKE_DEFERRED", r, obs[r].outcome, DeferralReason(r)) \in LineType
    <3>1. \A tag \in VerdictTags, why \in Reasons \cup {"none"} :
            VerdictLine(tag, r, obs[r].outcome, why) \in LineType
      BY <1>a, <2>1, ObserverLineTyped
    <3> QED
      BY <2>2, <3>1 DEF VerdictTags
  <2>5. hb' \in Seq(LineType)
    <3>1. PICK l \in LineType : WriteLine(l)
      BY <1>5, <2>3 DEF Acknowledge, GiveUp
    <3> QED
      BY <1>a, <3>1 DEF WriteLine
  <2>4. [NoObserver EXCEPT !.pc = "done", !.outcome = obs[r].outcome] \in ObserverType
    BY <1>b, <2>1, ObserverValues DEF Steps, Reasons
  <2> QED
    BY <1>5, <1>a, <1>c, <2>4, <2>5
    DEF Acknowledge, GiveUp, Exits, Announcing, NoObserver
<1>6. CASE Retry(r)
  <2>1. [obs[r] EXCEPT !.pc = "sleep"] \in ObserverType
    BY <1>b DEF ObserverType, Steps
  <2> QED
    BY <1>6, <1>a, <1>b, <1>c, <2>1 DEF Retry, dvars, filevars, Announcing, ObserverType
<1> QED
  BY <1>1, <1>2, <1>3, <1>4, <1>5, <1>6 DEF ObserverStep

\* Every step of the composition keeps the types.
LEMMA ObserverTypeStep ==
    ASSUME ObserverTyped, [Next]_vars,
           LivenessAssumption, DispatcherAssumption, ObserverAssumption
    PROVE  ObserverTyped'
<1>a. DispatcherTyped /\ ObserverTypeOK /\ ConcludedFirst
  BY DEF ObserverTyped
<1>b. [DispatcherNext]_dvars => DispatcherTyped'
  BY <1>a, DispatcherTypeStep
<1>1. CASE (DispatcherStep \/ ChildStep \/ ForeignRecord) /\ UNCHANGED ovars
  <2>1. DispatcherTyped'
    BY <1>1, <1>b DEF DispatcherNext
  <2> QED
    BY <1>1, <1>a, <2>1 DEF ovars, ObserverTyped, ObserverTypeOK, ConcludedFirst
<1>2. CASE NameSession /\ SpawnObserver(run) /\ UNCHANGED <<orch, prompts>>
  <2>1. DispatcherTyped'
    BY <1>2, <1>b DEF DispatcherNext
  <2>2. run \in Runs /\ obs \in [Runs -> ObserverType]
    BY <1>2, <1>a DEF NameSession, DispatcherTyped, JudgedFirst, ObserverTypeOK
  <2>3. PICK url \in BOOLEAN :
          \/ Becomes(run, [obs[run] EXCEPT !.pc = "poll", !.url = url])
          \/ UNCHANGED obs
    BY <1>2 DEF SpawnObserver
  <2>4. [obs[run] EXCEPT !.pc = "poll", !.url = url] \in ObserverType
        /\ [obs[run] EXCEPT !.pc = "poll", !.url = url].pc = "poll"
    BY <2>2 DEF ObserverType, Steps
  <2>5. ObserverTypeOK' /\ ConcludedFirst'
    <3>1. CASE UNCHANGED obs
      BY <1>2, <1>a, <3>1 DEF ObserverTypeOK, ConcludedFirst
    <3>2. CASE Becomes(run, [obs[run] EXCEPT !.pc = "poll", !.url = url])
      <4>1. /\ obs' \in [Runs -> ObserverType] /\ obs'[run].pc = "poll"
            /\ \A q \in Runs \ {run} : obs'[q] = obs[q]
        BY <2>2, <2>4, <3>2, BecomesOne
      <4> QED
        BY <1>2, <1>a, <4>1 DEF ObserverTypeOK, ConcludedFirst, Announcing
    <3> QED
      BY <2>3, <3>1, <3>2
  <2> QED
    BY <2>1, <2>5 DEF ObserverTyped
<1>3. CASE \E r \in Runs : ObserverStep(r)
  BY <1>3, ObserverStepTyped
<1>4. CASE OrchestratorStep
  <2>1. orch' \in OrchestratorType
    <3>1. orch \in OrchestratorType /\ MaxTurns \in Nat
      BY <1>a, ObserverAssumption DEF ObserverTypeOK, ObserverAssumption
    <3>2. CASE orch.turns < MaxTurns /\ orch' = [orch EXCEPT !.busy = TRUE, !.turns = @ + 1]
      <4>1. orch.turns + 1 \in 0 .. MaxTurns
        BY <3>1, <3>2 DEF OrchestratorType
      <4> QED
        BY <3>1, <3>2, <4>1 DEF OrchestratorType
    <3>3. CASE orch' = [orch EXCEPT !.busy = FALSE, !.updated = @ + 1]
      <4>1. orch.updated + 1 \in Nat
        BY <3>1 DEF OrchestratorType
      <4> QED
        BY <3>1, <3>3, <4>1 DEF OrchestratorType
    <3> QED
      BY <1>4, <3>2, <3>3 DEF OrchestratorStep
  <2>2. DispatcherTyped'
    BY <1>4, <1>b DEF OrchestratorStep
  <2> QED
    BY <1>4, <1>a, <2>1, <2>2
    DEF OrchestratorStep, ObserverTyped, ObserverTypeOK, ConcludedFirst
<1>5. CASE Tick
  <2>1. DispatcherTyped'
    BY <1>5, <1>b DEF Tick, DispatcherNext
  <2>2. obs \in [Runs -> ObserverType]
    BY <1>a DEF ObserverTypeOK
  <2>3. \A o \in ObserverType :
          /\ Slept(o) \in ObserverType
          /\ Slept(o).outcome = o.outcome
          /\ Slept(o).pc \in Announcing => o.pc \in Announcing
    <3> TAKE o \in ObserverType
    <3>1. Slept(o) \in ObserverType
      BY ObserverValues DEF Outcomes, Steps, Reasons
    <3> QED
      BY <3>1 DEF Slept, Announcing, ObserverType
  <2>4. obs' = [r \in Runs |-> IF obs[r].pc \in Finished THEN obs[r] ELSE Slept(obs[r])]
        /\ UNCHANGED <<orch, prompts>>
    BY <1>5 DEF Tick
  <2>5. obs' \in [Runs -> ObserverType]
    BY <2>2, <2>3, <2>4
  <2>6. ConcludedFirst'
    <3>1. \A r \in Runs : /\ obs'[r].outcome = obs[r].outcome
                          /\ obs'[r].pc \in Announcing => obs[r].pc \in Announcing
      BY <2>2, <2>3, <2>4
    <3> QED
      BY <1>a, <3>1 DEF ConcludedFirst
  <2> QED
    BY <1>a, <2>1, <2>4, <2>5, <2>6 DEF ObserverTyped, ObserverTypeOK
<1>6. CASE UNCHANGED vars
  <2>1. DispatcherTyped'
    BY <1>6, <1>b DEF vars
  <2> QED
    BY <1>6, <1>a, <2>1 DEF vars, ovars, ObserverTyped, ObserverTypeOK, ConcludedFirst
<1> QED
  BY <1>1, <1>2, <1>3, <1>4, <1>5, <1>6 DEF Next

\* The initial states are typed.
LEMMA ObserverTypeInit ==
    ASSUME Init, LivenessAssumption, DispatcherAssumption, ObserverAssumption
    PROVE  ObserverTyped
<1>1. DispatcherTyped
  BY DispatcherTypeInit DEF Init
<1>2. NoObserver \in ObserverType
  BY LivenessAssumption, ObserverAssumption
  DEF NoObserver, ObserverType, Steps, Ages, NoAge, NoWait, ObserverAssumption,
      LivenessAssumption
<1>3. ObserverTypeOK
  BY <1>2, ObserverAssumption
  DEF Init, ObserverTypeOK, OrchestratorType, ObserverAssumption
<1> QED
  BY <1>1, <1>3 DEF Init, ObserverTyped, ConcludedFirst, NoObserver, Announcing

\* Type correctness of the whole composition: among the types is that every
\* prompt and every verdict line carries one of the four outcomes.
THEOREM TypeCorrect == Spec => []TypeOK
<1>1. Init => ObserverTyped
  BY ObserverTypeInit, LivenessAssumption, DispatcherAssumption, ObserverAssumption
<1>2. ObserverTyped /\ [Next]_vars => ObserverTyped'
  BY ObserverTypeStep, LivenessAssumption, DispatcherAssumption, ObserverAssumption
<1>3. ObserverTyped => TypeOK
  BY DEF ObserverTyped, TypeOK, DispatcherTyped
<1> QED
  BY <1>1, <1>2, <1>3, PTL DEF Spec
---------------------------------------------------------------------------
(* What each step makes of its observer, field by field.                   *)

\* The fields the steps after a conclusion leave alone.
Carried(o, old) ==
    /\ o.survey = old.survey /\ o.outcome = old.outcome /\ o.waited = old.waited
    /\ o.term = old.term /\ o.lineAge = old.lineAge /\ o.since = old.since
    /\ o.tool = old.tool /\ o.url = old.url

Others(r) == \A q \in Runs \ {r} : obs'[q] = obs[q]

\* A poll reads the file and the store and keeps what earlier polls decided.
LEMMA PollFields ==
    ASSUME obs \in [Runs -> ObserverType], NEW r \in Runs, Poll(r)
    PROVE  /\ obs[r].pc = "poll" /\ obs'[r].pc = "conclude" /\ Others(r)
           /\ obs'[r].survey <=> obs[r].survey \/ Surveys(r)
           /\ obs'[r].term = TerminalLine(hb) /\ obs'[r].since = StartEpoch(hb)
           /\ obs'[r].lineAge = lineAge /\ obs'[r].tool = session.tool
           /\ obs'[r].outcome = obs[r].outcome /\ obs'[r].seen = obs[r].seen
           /\ obs'[r].failure = obs[r].failure /\ obs'[r].waited = obs[r].waited
<1> DEFINE sv == obs[r].survey \/ Surveys(r)
           o == [obs[r] EXCEPT !.pc = "conclude", !.survey = sv,
                   !.term = TerminalLine(hb), !.since = StartEpoch(hb),
                   !.lineAge = lineAge, !.tool = session.tool]
<1>1. obs[r].pc = "poll" /\ Becomes(r, o)
  BY DEF Poll, At
<1> HIDE DEF sv
<1>2. /\ o.pc = "conclude" /\ o.survey = sv
      /\ o.term = TerminalLine(hb) /\ o.since = StartEpoch(hb)
      /\ o.lineAge = lineAge /\ o.tool = session.tool
      /\ o.outcome = obs[r].outcome /\ o.seen = obs[r].seen
      /\ o.failure = obs[r].failure /\ o.waited = obs[r].waited
  BY DEF ObserverType
<1> HIDE DEF o
<1>3. obs'[r] = o /\ Others(r)
  BY <1>1 DEF Becomes, Others
<1>4. obs'[r].survey <=> obs[r].survey \/ Surveys(r)
  <2>1. obs'[r].survey = sv
    BY <1>2, <1>3
  <2> QED
    BY <2>1, Zenon DEF sv
<1> QED
  BY <1>1, <1>2, <1>3, <1>4

\* A conclusion is one of three: another poll, an end without a target, or the
\* announcement of what was concluded.
LEMMA ConcludeFields ==
    ASSUME obs \in [Runs -> ObserverType], NEW r \in Runs, Conclude(r)
    PROVE  /\ obs[r].pc = "conclude" /\ Others(r)
           /\ \/ /\ obs'[r].pc = "sleep" /\ UNCHANGED hb
                 /\ Classification(r) = "AWAITING"
                 /\ obs'[r].outcome = obs[r].outcome /\ obs'[r].waited = obs[r].waited
              \/ /\ obs'[r].pc = "done" /\ obs'[r].outcome = Classification(r)
                 /\ Classification(r) \in Outcomes /\ obs'[r].seen = NoUpdate
                 /\ WriteLine(VerdictLine("WAKE_DEFERRED", r, Classification(r),
                                          "no-attach-target"))
              \/ /\ obs'[r].pc = "gate" /\ obs'[r].outcome = Classification(r)
                 /\ Classification(r) \in Outcomes /\ UNCHANGED hb
                 /\ obs'[r].waited = DeadlineClock(obs[r].waited)
           /\ obs'[r].pc # "done" =>
                /\ obs'[r].survey = obs[r].survey /\ obs'[r].seen = obs[r].seen
                /\ obs'[r].failure = obs[r].failure
           /\ obs'[r].term = NoLine /\ obs'[r].since = 0
<1> DEFINE c == Classification(r)
           f == Forgotten(obs[r])
           d == DeadlineClock(f.waited)
<1>1. /\ f.term = NoLine /\ f.outcome = obs[r].outcome /\ f.waited = obs[r].waited
      /\ f.since = 0
      /\ f.survey = obs[r].survey /\ f.seen = obs[r].seen /\ f.failure = obs[r].failure
      /\ DOMAIN f = DOMAIN obs[r]
  BY DEF Forgotten, ObserverType
<1>2. c \in Outcomes \cup {"AWAITING"} /\ "AWAITING" \notin Outcomes
  BY ClassificationTyped DEF Outcomes
<1>3. obs[r].pc = "conclude"
  BY DEF Conclude, At
<1>4. ASSUME NEW o, Becomes(r, o)
      PROVE  obs'[r] = o /\ Others(r)
  BY <1>4 DEF Becomes, Others
<1>5. d = DeadlineClock(obs[r].waited)
  BY <1>1
<1> HIDE DEF c, f, d
<1>6. CASE c = "AWAITING"
  <2> DEFINE o == [f EXCEPT !.pc = "sleep"]
  <2>1. Becomes(r, o) /\ UNCHANGED hb
    BY <1>6 DEF Conclude, c, f
  <2>2. /\ o.pc = "sleep" /\ o.term = NoLine /\ o.since = 0 /\ o.outcome = obs[r].outcome
        /\ o.survey = obs[r].survey /\ o.seen = obs[r].seen /\ o.failure = obs[r].failure
        /\ o.waited = obs[r].waited
    BY <1>1 DEF ObserverType
  <2> HIDE DEF o
  <2> QED
    BY <1>3, <1>4, <1>6, <2>1, <2>2 DEF c
<1>7. CASE c # "AWAITING" /\ ~obs[r].url
  <2> DEFINE o == [NoObserver EXCEPT !.pc = "done", !.outcome = c]
  <2>1. Becomes(r, o) /\ WriteLine(VerdictLine("WAKE_DEFERRED", r, c, "no-attach-target"))
    BY <1>7 DEF Conclude, Exits, c
  <2>2. o.pc = "done" /\ o.term = NoLine /\ o.since = 0 /\ o.seen = NoUpdate /\ o.outcome = c
    BY DEF NoObserver
  <2> HIDE DEF o
  <2> QED
    BY <1>2, <1>3, <1>4, <1>7, <2>1, <2>2 DEF c
<1>8. CASE c # "AWAITING" /\ obs[r].url
  <2> DEFINE o == [f EXCEPT !.pc = "gate", !.outcome = c, !.waited = d]
  <2>1. Becomes(r, o) /\ UNCHANGED hb
    BY <1>8 DEF Conclude, c, f, d
  <2>2. /\ o.pc = "gate" /\ o.term = NoLine /\ o.since = 0 /\ o.outcome = c
        /\ o.survey = obs[r].survey /\ o.seen = obs[r].seen /\ o.failure = obs[r].failure
        /\ o.waited = d
    BY <1>1 DEF ObserverType
  <2> HIDE DEF o
  <2> QED
    BY <1>2, <1>3, <1>4, <1>5, <1>8, <2>1, <2>2 DEF c
<1> QED
  BY <1>6, <1>7, <1>8

\* The gate remembers the stamp it saw and lets the delivery through or not.
LEMMA GateFields ==
    ASSUME obs \in [Runs -> ObserverType], NEW r \in Runs, Gate(r)
    PROVE  /\ obs[r].pc = "gate" /\ Others(r) /\ Carried(obs'[r], obs[r])
           /\ obs'[r].failure = obs[r].failure
           /\ \/ /\ obs'[r].seen = orch.updated
                 /\ obs'[r].pc = IF Quiescent(r) THEN "deliver" ELSE "late"
              \/ /\ "noStore" \in Faults
                 /\ obs'[r].seen = obs[r].seen /\ obs'[r].pc = "deliver"
           /\ UNCHANGED <<hb, orch, prompts>>
<1>1. obs[r].pc = "gate" /\ UNCHANGED <<hb, orch, prompts>>
  BY DEF Gate, At, dvars, filevars
<1>2. ASSUME NEW o, Becomes(r, o)
      PROVE  obs'[r] = o /\ Others(r)
  BY <1>2 DEF Becomes, Others
<1>3. CASE Becomes(r, [obs[r] EXCEPT !.seen = orch.updated,
                         !.pc = IF Quiescent(r) THEN "deliver" ELSE "late"])
  <2> DEFINE pc == IF Quiescent(r) THEN "deliver" ELSE "late"
             o == [obs[r] EXCEPT !.seen = orch.updated, !.pc = pc]
  <2>1. Becomes(r, o)
    BY <1>3
  <2> HIDE DEF pc
  <2>2. o.seen = orch.updated /\ o.pc = pc /\ Carried(o, obs[r]) /\ o.failure = obs[r].failure
    BY DEF ObserverType, Carried
  <2> HIDE DEF o
  <2> QED
    BY <1>1, <1>2, <2>1, <2>2 DEF pc
<1>4. CASE "noStore" \in Faults /\ Becomes(r, [obs[r] EXCEPT !.pc = "deliver"])
  <2> DEFINE o == [obs[r] EXCEPT !.pc = "deliver"]
  <2>1. o.seen = obs[r].seen /\ o.pc = "deliver" /\ Carried(o, obs[r])
        /\ o.failure = obs[r].failure
    BY DEF ObserverType, Carried
  <2> HIDE DEF o
  <2> QED
    BY <1>1, <1>2, <1>4, <2>1 DEF o
<1> QED
  BY <1>3, <1>4 DEF Gate

\* A delivery is refused, or accepted with or without its reply.
LEMMA DeliverFields ==
    ASSUME obs \in [Runs -> ObserverType], NEW r \in Runs, Deliver(r)
    PROVE  /\ obs[r].pc = "deliver" /\ Others(r) /\ Carried(obs'[r], obs[r])
           /\ obs'[r].seen = obs[r].seen /\ UNCHANGED hb
           /\ AcceptPrompt(r) \/ UNCHANGED <<orch, prompts>>
           /\ \/ /\ obs'[r].pc = "late"
                 /\ obs'[r].failure \in {"unknown-session", "call-failed"}
              \/ /\ obs'[r].pc = "acknowledge" /\ obs'[r].failure = obs[r].failure
                 /\ AcceptPrompt(r)
<1>1. obs[r].pc = "deliver" /\ UNCHANGED hb /\ (AcceptPrompt(r) \/ UNCHANGED <<orch, prompts>>)
  BY DEF Deliver, At, dvars, filevars
<1>2. ASSUME NEW o, Becomes(r, o)
      PROVE  obs'[r] = o /\ Others(r)
  BY <1>2 DEF Becomes, Others
<1>3. ASSUME NEW why \in {"unknown-session", "call-failed"}, Refused(r, why)
      PROVE  /\ Others(r) /\ Carried(obs'[r], obs[r]) /\ obs'[r].seen = obs[r].seen
             /\ obs'[r].pc = "late" /\ obs'[r].failure = why
  <2> DEFINE o == [obs[r] EXCEPT !.pc = "late", !.failure = why]
  <2>1. /\ o.pc = "late" /\ o.failure = why /\ o.seen = obs[r].seen /\ Carried(o, obs[r])
    BY DEF ObserverType, Carried
  <2>2. Becomes(r, o)
    BY <1>3 DEF Refused
  <2> HIDE DEF o
  <2> QED
    BY <1>2, <2>1, <2>2
<1>4. CASE Becomes(r, [obs[r] EXCEPT !.pc = "acknowledge"]) /\ AcceptPrompt(r)
  <2> DEFINE o == [obs[r] EXCEPT !.pc = "acknowledge"]
  <2>1. /\ o.pc = "acknowledge" /\ o.failure = obs[r].failure /\ o.seen = obs[r].seen
        /\ Carried(o, obs[r])
    BY DEF ObserverType, Carried
  <2>2. Becomes(r, o)
    BY <1>4
  <2> HIDE DEF o
  <2> QED
    BY <1>1, <1>2, <1>4, <2>1, <2>2
<1>5. CASE \E why \in {"unknown-session", "call-failed"} : Refused(r, why)
  BY <1>1, <1>3, <1>5
<1> QED
  BY <1>4, <1>5 DEF Deliver

\* An exit forgets everything but the outcome, after one verdict line.
LEMMA ExitFields ==
    ASSUME obs \in [Runs -> ObserverType], NEW r \in Runs, Acknowledge(r) \/ GiveUp(r)
    PROVE  /\ obs[r].pc \in {"acknowledge", "late"} /\ Others(r)
           /\ obs'[r].pc = "done" /\ obs'[r].outcome = obs[r].outcome
           /\ obs'[r].term = NoLine /\ obs'[r].since = 0 /\ obs'[r].seen = NoUpdate
           /\ \E tag \in VerdictTags : \E why :
                WriteLine(VerdictLine(tag, r, obs[r].outcome, why))
           /\ UNCHANGED <<orch, prompts>>
<1> DEFINE o == [NoObserver EXCEPT !.pc = "done", !.outcome = obs[r].outcome]
<1>1. Becomes(r, o)
  BY DEF Acknowledge, GiveUp, Exits
<1>2. /\ o.pc = "done" /\ o.outcome = obs[r].outcome /\ o.term = NoLine
      /\ o.since = 0 /\ o.seen = NoUpdate
  BY DEF NoObserver
<1> HIDE DEF o
<1>3. obs'[r] = o /\ Others(r)
  BY <1>1 DEF Becomes, Others
<1>4. /\ obs[r].pc \in {"acknowledge", "late"} /\ UNCHANGED <<orch, prompts>>
      /\ \E tag \in VerdictTags : \E why :
           WriteLine(VerdictLine(tag, r, obs[r].outcome, why))
  BY DEF Acknowledge, GiveUp, At, VerdictTags
<1> QED
  BY <1>2, <1>3, <1>4

\* A retry only sleeps.
LEMMA RetryFields ==
    ASSUME obs \in [Runs -> ObserverType], NEW r \in Runs, Retry(r)
    PROVE  /\ obs[r].pc = "late" /\ Others(r) /\ Carried(obs'[r], obs[r])
           /\ obs'[r].pc = "sleep" /\ obs'[r].failure = obs[r].failure
           /\ obs'[r].seen = obs[r].seen /\ UNCHANGED <<hb, orch, prompts>>
<1> DEFINE o == [obs[r] EXCEPT !.pc = "sleep"]
<1>1. obs[r].pc = "late" /\ Becomes(r, o) /\ UNCHANGED <<hb, orch, prompts>>
  BY DEF Retry, At, dvars, filevars
<1>2. o.pc = "sleep" /\ o.failure = obs[r].failure /\ o.seen = obs[r].seen /\ Carried(o, obs[r])
  BY DEF ObserverType, Carried
<1> HIDE DEF o
<1>3. obs'[r] = o /\ Others(r)
  BY <1>1 DEF Becomes, Others
<1> QED
  BY <1>1, <1>2, <1>3

\* The dispatch that names its session gets an observer that polls, or none.
LEMMA SpawnFields ==
    ASSUME obs \in [Runs -> ObserverType], run \in Runs, SpawnObserver(run)
    PROVE  /\ Others(run)
           /\ \/ obs'[run] = obs[run]
              \/ obs'[run].pc = "poll"
           /\ obs'[run].survey = obs[run].survey /\ obs'[run].outcome = obs[run].outcome
           /\ obs'[run].term = obs[run].term /\ obs'[run].seen = obs[run].seen
           /\ obs'[run].failure = obs[run].failure /\ obs'[run].since = obs[run].since
<1>1. PICK url \in BOOLEAN : \/ Becomes(run, [obs[run] EXCEPT !.pc = "poll", !.url = url])
                             \/ UNCHANGED obs
  BY DEF SpawnObserver
<1>2. CASE UNCHANGED obs
  BY <1>2 DEF Others
<1>3. CASE Becomes(run, [obs[run] EXCEPT !.pc = "poll", !.url = url])
  <2> DEFINE o == [obs[run] EXCEPT !.pc = "poll", !.url = url]
  <2>1. /\ o.pc = "poll" /\ o.survey = obs[run].survey /\ o.outcome = obs[run].outcome
        /\ o.term = obs[run].term /\ o.seen = obs[run].seen
        /\ o.failure = obs[run].failure /\ o.since = obs[run].since
    BY DEF ObserverType
  <2>2. Becomes(run, o)
    BY <1>3
  <2> HIDE DEF o
  <2>3. obs'[run] = o /\ Others(run)
    BY <2>2 DEF Becomes, Others
  <2> QED
    BY <2>1, <2>3
<1> QED
  BY <1>1, <1>2, <1>3

\* A poll interval wakes the sleepers and ages what was read.
LEMMA TickFields ==
    ASSUME obs \in [Runs -> ObserverType], Tick
    PROVE  /\ UNCHANGED <<orch, prompts>> /\ DispatcherTick
           /\ \A r \in Runs :
                /\ obs[r].pc \in Finished \cup {"sleep", "deliver"}
                /\ obs'[r].pc = IF obs[r].pc = "sleep" THEN "poll" ELSE obs[r].pc
                /\ obs'[r].survey = obs[r].survey /\ obs'[r].outcome = obs[r].outcome
                /\ obs'[r].term = obs[r].term /\ obs'[r].seen = obs[r].seen
                /\ obs'[r].failure = obs[r].failure /\ obs'[r].since = obs[r].since
<1>1. \A o \in ObserverType :
        /\ Slept(o).pc = IF o.pc = "sleep" THEN "poll" ELSE o.pc
        /\ Slept(o).survey = o.survey /\ Slept(o).outcome = o.outcome
        /\ Slept(o).term = o.term /\ Slept(o).seen = o.seen
        /\ Slept(o).failure = o.failure /\ Slept(o).since = o.since
  BY DEF Slept, ObserverType
<1>2. /\ UNCHANGED <<orch, prompts>> /\ DispatcherTick
      /\ \A r \in Runs :
           /\ obs[r].pc \in Finished \cup {"sleep", "deliver"}
           /\ obs'[r] = IF obs[r].pc \in Finished THEN obs[r] ELSE Slept(obs[r])
  BY DEF Tick
<1> QED
  BY <1>1, <1>2 DEF Finished

---------------------------------------------------------------------------
(* A deferral that blames the quiescence gate means silence.               *)

\* One observer is spawned per dispatch: when the dispatch names its session,
\* and none exists for it before that.
SpawnedOnce ==
    \A r \in Runs :
      r > run \/ (r = run /\ ~session.named
                   /\ dpc \in {"preflight", "resuming", "begun", "running"})
        => obs[r].pc = "off"

\* As long as an observer has met no refusal, it has got nothing through except
\* a prompt it is about to acknowledge.
NothingThrough ==
    \A r \in Runs :
      /\ obs[r].failure # "quiescence-gate"
      /\ obs[r].failure = "none" /\ obs[r].pc \notin {"acknowledge", "done"}
           => PromptsOf(r) = {}

\* A line that blames the gate was the last act of an observer that told nothing.
GateLineIsLast ==
    \A i \in DOMAIN hb :
      hb[i].reason = "quiescence-gate" =>
        /\ hb[i].run \in Runs
        /\ obs[hb[i].run].pc = "done"
        /\ PromptsOf(hb[i].run) = {}

GateInv == ObserverTyped /\ SpawnedOnce /\ NothingThrough /\ GateLineIsLast

\* A step that leaves the prompts alone, takes no observer back from its end and
\* appends no line that blames the gate keeps the lines true.
LEMMA GateLinesKept ==
    ASSUME hb \in Seq(LineType), GateLineIsLast, UNCHANGED prompts,
           \A r \in Runs : obs[r].pc = "done" => obs'[r].pc = "done",
           \/ UNCHANGED hb
           \/ hb' = <<>>
           \/ \E l \in LineType : /\ WriteLine(l) \/ hb' = Append(<<>>, l)
                                 /\ l.reason # "quiescence-gate"
    PROVE  GateLineIsLast'
<1> USE DEF GateLineIsLast, PromptsOf
<1>1. CASE UNCHANGED hb
  BY <1>1
<1>2. CASE hb' = <<>>
  BY <1>2
<1>3. CASE \E l \in LineType : WriteLine(l) /\ l.reason # "quiescence-gate"
  <2>1. PICK l \in LineType : hb' = Append(hb, l) /\ l.reason # "quiescence-gate"
    BY <1>3 DEF WriteLine
  <2>2. \A i \in DOMAIN hb' : hb'[i].reason = "quiescence-gate" =>
          i \in DOMAIN hb /\ hb'[i] = hb[i]
    BY <2>1
  <2> QED
    BY <2>2
<1>4. CASE \E l \in LineType : hb' = Append(<<>>, l) /\ l.reason # "quiescence-gate"
  <2>1. PICK l \in LineType : hb' = Append(<<>>, l) /\ l.reason # "quiescence-gate"
    BY <1>4
  <2>2. \A i \in DOMAIN hb' : hb'[i].reason # "quiescence-gate"
    BY <2>1
  <2> QED
    BY <2>2
<1> QED
  BY <1>1, <1>2, <1>3, <1>4

\* A step of the dispatcher, the child or the environment other than the naming
\* of a session.
LEMMA GateDispatcherStep ==
    ASSUME GateInv, DispatcherStep \/ ChildStep \/ ForeignRecord \/ DispatcherTick,
           UNCHANGED prompts,
           \A r \in Runs : /\ obs'[r].failure = obs[r].failure
                           /\ obs[r].pc = "off" => obs'[r].pc = "off"
                           /\ (obs[r].pc \in {"acknowledge", "done"})
                                <=> (obs'[r].pc \in {"acknowledge", "done"})
                           /\ obs[r].pc = "done" => obs'[r].pc = "done",
           LivenessAssumption, DispatcherAssumption
    PROVE  SpawnedOnce' /\ NothingThrough' /\ GateLineIsLast'
<1>a. /\ hb \in Seq(LineType) /\ run \in 0 .. MaxRuns /\ session \in SessionType
      /\ SpawnedOnce /\ NothingThrough /\ GateLineIsLast
  BY DEF GateInv, ObserverTyped, DispatcherTyped, DispatcherTypeOK
<1>b. Runs \subseteq Nat /\ run \in Nat
  BY <1>a, DispatcherAssumption DEF Runs, DispatcherAssumption
<1>1. NothingThrough'
  BY <1>a DEF NothingThrough, PromptsOf
<1>2. SpawnedOnce'
  <2>1. \A r \in Runs :
          r > run' \/ (r = run' /\ ~session'.named
                        /\ dpc' \in {"preflight", "resuming", "begun", "running"})
          => r > run \/ (r = run /\ ~session.named
                          /\ dpc \in {"preflight", "resuming", "begun", "running"})
    <3>1. CASE \E fresh \in BOOLEAN : Preflight(fresh)
      <4>1. run' = run + 1
        BY <3>1 DEF Preflight
      <4> QED
        BY <1>b, <4>1
    <3>2. CASE Refuse \/ Begin \/ Report \/ Record \/ Uncaught \/ Crash \/ Judge
      BY <3>2 DEF Refuse, Begin, Report, Record, Uncaught, Crash, Judge
    <3>3. CASE TimeoutKill
      BY <1>a, <3>3 DEF TimeoutKill, SessionDies, SessionType
    <3>4. CASE \E f \in LaunchFlags : Launch(f)
      BY <1>a, <3>4 DEF Launch, SessionType
    <3>5. CASE SessionPart \/ ChildLine \/ SessionEnds \/ ForeignRecord \/ DispatcherTick
      BY <1>a, <3>5 DEF SessionPart, ChildLine, SessionEnds, ForeignRecord,
                        DispatcherTick, SessionType
    <3>6. CASE ChildExit
      BY <1>a, <3>6 DEF ChildExit, SessionDies, SessionType
    <3> QED
      BY <3>1, <3>2, <3>3, <3>4, <3>5, <3>6 DEF DispatcherStep, ChildStep
  <2> QED
    BY <1>a, <2>1 DEF SpawnedOnce
<1>3. GateLineIsLast'
  <2>1. DispatcherTyped /\ DispatcherNext
    BY DEF GateInv, ObserverTyped, DispatcherNext
  <2>2. \/ UNCHANGED hb
        \/ hb' = <<>>
        \/ \E l \in LineType : /\ WriteLine(l) \/ hb' = Append(<<>>, l)
                               /\ l.reason # "quiescence-gate"
    BY <2>1, DispatchLines
  <2> QED
    BY <1>a, <2>2, GateLinesKept
<1> QED
  BY <1>1, <1>2, <1>3

\* A step of one observer.
LEMMA GateObserverStep ==
    ASSUME GateInv, NEW r \in Runs, ObserverStep(r), DispatcherAssumption
    PROVE  SpawnedOnce' /\ NothingThrough' /\ GateLineIsLast'
<1>a. /\ hb \in Seq(LineType) /\ obs \in [Runs -> ObserverType]
      /\ prompts \in Seq(PromptType) /\ obs[r] \in ObserverType
      /\ SpawnedOnce /\ NothingThrough /\ GateLineIsLast /\ ConcludedFirst
      /\ r \in Nat
  BY DispatcherAssumption
  DEF GateInv, ObserverTyped, DispatcherTyped, DispatcherTypeOK, ObserverTypeOK,
      Runs, DispatcherAssumption
<1>b. UNCHANGED <<run, dpc, session>> /\ obs[r].pc \notin {"off", "done"}
  BY DEF ObserverStep, Poll, Conclude, Gate, Deliver, Acknowledge, GiveUp, Retry, At,
         dvars, filevars
\* What the observer becomes decides everything else.
<1>c. ASSUME NEW o, o.pc \in Steps \ {"off"}, Becomes(r, o)
      PROVE  /\ SpawnedOnce'
             /\ obs'[r] = o
             /\ \A q \in Runs \ {r} : obs'[q] = obs[q]
             /\ \A q \in Runs : obs[q].pc = "done" => obs'[q].pc = "done"
  BY <1>a, <1>b, <1>c DEF Becomes, SpawnedOnce
<1>d. ASSUME NEW o, o.pc \in Steps \ {"off"}, Becomes(r, o), UNCHANGED prompts,
             o.failure # "quiescence-gate",
             o.failure = "none" /\ o.pc \notin {"acknowledge", "done"}
               => obs[r].failure = "none" /\ obs[r].pc \notin {"acknowledge", "done"}
      PROVE  NothingThrough'
  BY <1>a, <1>c, <1>d DEF NothingThrough, PromptsOf
<1>1. CASE Poll(r)
  <2>1. PICK o : /\ Becomes(r, o) /\ o.pc = "conclude" /\ o.failure = obs[r].failure
                 /\ UNCHANGED prompts /\ obs[r].pc = "poll"
    BY <1>1, <1>a DEF Poll, At, ObserverType
  <2>2. Line("SURVEY", r) \in LineType /\ Line("SURVEY", r).reason # "quiescence-gate"
    BY <1>a, LineTyped DEF LineTags, OwnerTags, Line
  <2>3. UNCHANGED hb \/ WriteLine(Line("SURVEY", r))
    BY <1>1 DEF Poll
  <2> QED
    BY <1>a, <1>c, <1>d, <2>1, <2>2, <2>3, GateLinesKept DEF NothingThrough, Steps
<1>2. CASE Conclude(r)
  <2>0. /\ obs[r].pc = "conclude" /\ UNCHANGED prompts
        /\ Forgotten(obs[r]).failure = obs[r].failure
    BY <1>2, <1>a DEF Conclude, At, Forgotten, ObserverType
  <2>1. PICK o : /\ Becomes(r, o) /\ o.pc \in {"sleep", "gate", "done"}
                 /\ o.pc # "done" => o.failure = obs[r].failure /\ UNCHANGED hb
                 /\ o.pc = "done" =>
                      /\ o.failure = "none"
                      /\ WriteLine(VerdictLine("WAKE_DEFERRED", r, Classification(r),
                                               "no-attach-target"))
                      /\ Classification(r) \in Outcomes
    <3> DEFINE c == Classification(r)
               f == Forgotten(obs[r])
    <3>0. NoAge \in Ages
      BY LivenessAssumption DEF Ages, NoAge, LivenessAssumption
    <3>1. f \in ObserverType /\ c \in Outcomes \cup {"AWAITING"}
      BY <1>a, <3>0, ClassificationTyped DEF Forgotten, ObserverType
    <3> HIDE DEF c, f
    <3>2. CASE c = "AWAITING"
      <4>1. [f EXCEPT !.pc = "sleep"].pc = "sleep"
            /\ [f EXCEPT !.pc = "sleep"].failure = f.failure
        BY <3>1 DEF ObserverType
      <4>2. Becomes(r, [f EXCEPT !.pc = "sleep"]) /\ UNCHANGED hb
        BY <1>2, <3>2 DEF Conclude, c, f
      <4> QED
        BY <2>0, <4>1, <4>2 DEF f
    <3>3. CASE c # "AWAITING" /\ ~obs[r].url
      <4> DEFINE o == [NoObserver EXCEPT !.pc = "done", !.outcome = c]
      <4>1. o.pc = "done" /\ o.failure = "none"
        BY DEF NoObserver
      <4>2. Becomes(r, o) /\ WriteLine(VerdictLine("WAKE_DEFERRED", r, c, "no-attach-target"))
        BY <1>2, <3>3 DEF Conclude, Exits, c
      <4> HIDE DEF o
      <4> QED
        BY <3>1, <3>3, <4>1, <4>2 DEF c
    <3>4. CASE c # "AWAITING" /\ obs[r].url
      <4> DEFINE d == DeadlineClock(f.waited)
                 o == [f EXCEPT !.pc = "gate", !.outcome = c, !.waited = d]
      <4> HIDE DEF d
      <4>1. o.pc = "gate" /\ o.failure = f.failure
        BY <3>1 DEF ObserverType
      <4>2. Becomes(r, o) /\ UNCHANGED hb
        BY <1>2, <3>4 DEF Conclude, c, f, d
      <4> HIDE DEF o
      <4> QED
        BY <2>0, <4>1, <4>2 DEF f
    <3> QED
      BY <3>2, <3>3, <3>4
  <2>2. ASSUME Classification(r) \in Outcomes
        PROVE  VerdictLine("WAKE_DEFERRED", r, Classification(r), "no-attach-target")
                 \in {l \in LineType : l.reason # "quiescence-gate"}
    <3>1. VerdictLine("WAKE_DEFERRED", r, Classification(r), "no-attach-target") \in LineType
      BY <1>a, <2>2, ObserverLineTyped DEF VerdictTags, Reasons
    <3> QED
      BY <3>1 DEF VerdictLine, Line
  <2> QED
    BY <1>a, <1>c, <1>d, <2>0, <2>1, <2>2, GateLinesKept DEF NothingThrough, Steps
<1>3. CASE Gate(r) \/ Retry(r)
  <2>1. PICK o : /\ Becomes(r, o) /\ o.pc \in {"deliver", "late", "sleep"}
                 /\ o.failure = obs[r].failure
                 /\ UNCHANGED <<hb, prompts>> /\ obs[r].pc \in {"gate", "late"}
    BY <1>3, <1>a DEF Gate, Retry, At, ObserverType, dvars, filevars
  <2> QED
    BY <1>a, <1>c, <1>d, <2>1, GateLinesKept DEF NothingThrough, Steps
<1>4. CASE Deliver(r)
  <2>1. PICK o : /\ Becomes(r, o) /\ UNCHANGED hb
                 /\ o.pc \in {"late", "acknowledge"}
                 /\ o.pc = "late" => o.failure \in {"unknown-session", "call-failed"}
                 /\ o.pc = "acknowledge" => o.failure = obs[r].failure
    <3>1. ASSUME NEW why \in {"unknown-session", "call-failed"}, Refused(r, why)
          PROVE  \E o : /\ Becomes(r, o) /\ o.pc = "late" /\ o.failure = why
      <4>1. [obs[r] EXCEPT !.pc = "late", !.failure = why].pc = "late"
            /\ [obs[r] EXCEPT !.pc = "late", !.failure = why].failure = why
        BY <1>a DEF ObserverType
      <4> QED
        BY <3>1, <4>1 DEF Refused
    <3>2. /\ [obs[r] EXCEPT !.pc = "acknowledge"].pc = "acknowledge"
          /\ [obs[r] EXCEPT !.pc = "acknowledge"].failure = obs[r].failure
      BY <1>a DEF ObserverType
    <3>3. /\ UNCHANGED hb
          /\ \/ \E why \in {"unknown-session", "call-failed"} : Refused(r, why)
             \/ Becomes(r, [obs[r] EXCEPT !.pc = "acknowledge"])
      BY <1>4 DEF Deliver, dvars, filevars
    <3> QED
      BY <3>1, <3>2, <3>3
  <2>2. \A q \in Runs \ {r} : PromptsOf(q)' = PromptsOf(q)
    <3>1. CASE UNCHANGED prompts
      BY <3>1 DEF PromptsOf
    <3>2. CASE AcceptPrompt(r)
      BY <1>a, <3>2 DEF AcceptPrompt, PromptsOf
    <3> QED
      BY <1>4, <3>1, <3>2 DEF Deliver
  <2>3. NothingThrough'
    BY <1>a, <1>c, <2>1, <2>2 DEF NothingThrough, Steps
  <2>4. GateLineIsLast'
    BY <1>a, <1>b, <1>c, <2>1, <2>2 DEF GateLineIsLast, Steps
  <2> QED
    BY <1>c, <2>1, <2>3, <2>4 DEF Steps
<1>5. CASE Acknowledge(r) \/ GiveUp(r)
  <2> DEFINE o == [NoObserver EXCEPT !.pc = "done", !.outcome = obs[r].outcome]
  <2>1. /\ Becomes(r, o) /\ o.pc = "done" /\ o.failure = "none"
        /\ UNCHANGED prompts /\ obs[r].outcome \in Outcomes
    BY <1>5, <1>a DEF Acknowledge, GiveUp, Exits, NoObserver, At, ConcludedFirst, Announcing
  <2> HIDE DEF o
  <2>2. NothingThrough'
    BY <1>a, <1>c, <2>1 DEF NothingThrough, PromptsOf, Steps
  <2>3. CASE Acknowledge(r) \/ obs[r].failure # "none"
    <3>1. \E l \in LineType : WriteLine(l) /\ l.reason # "quiescence-gate"
      <4>1. \A tag \in VerdictTags, why \in Reasons \cup {"none"} :
              /\ VerdictLine(tag, r, obs[r].outcome, why) \in LineType
              /\ VerdictLine(tag, r, obs[r].outcome, why).reason = why
        <5> TAKE tag \in VerdictTags, why \in Reasons \cup {"none"}
        <5>1. VerdictLine(tag, r, obs[r].outcome, why) \in LineType
          BY <1>a, <2>1, ObserverLineTyped
        <5> QED
          BY <5>1 DEF VerdictLine, Line
      <4>2. CASE Acknowledge(r)
        BY <4>1, <4>2 DEF Acknowledge, VerdictTags
      <4>3. CASE GiveUp(r) /\ obs[r].failure # "none"
        <5>1. obs[r].failure \in Reasons /\ obs[r].failure # "quiescence-gate"
          BY <1>a, <4>3 DEF NothingThrough, ObserverType
        <5> QED
          BY <4>1, <4>3, <5>1 DEF GiveUp, DeferralReason, VerdictTags
      <4> QED
        BY <1>5, <2>3, <4>2, <4>3
    <3>2. \A q \in Runs : obs[q].pc = "done" => obs'[q].pc = "done"
      BY <1>c, <2>1 DEF Steps
    <3>3. hb \in Seq(LineType) /\ GateLineIsLast /\ UNCHANGED prompts
      BY <1>a, <2>1
    <3>4. GateLineIsLast'
      BY <3>1, <3>2, <3>3, GateLinesKept
    <3> QED
      BY <1>c, <2>1, <2>2, <3>4 DEF Steps
  <2>4. CASE GiveUp(r) /\ obs[r].failure = "none"
    <3>1. PromptsOf(r) = {}
      BY <1>a, <2>4 DEF NothingThrough, GiveUp, At
    <3> DEFINE l == VerdictLine("WAKE_DEFERRED", r, obs[r].outcome, DeferralReason(r))
    <3>2. hb' = Append(hb, l) /\ l.run = r
      BY <2>4 DEF GiveUp, WriteLine, VerdictLine, Line
    <3> HIDE DEF l
    <3>3. \A i \in DOMAIN hb' : (i \in DOMAIN hb /\ hb'[i] = hb[i]) \/ hb'[i] = l
      BY <1>a, <3>2
    <3>4. GateLineIsLast'
      <4>1. \A q \in Runs : PromptsOf(q)' = PromptsOf(q)
        BY <2>1 DEF PromptsOf
      <4>2. obs'[r].pc = "done" /\ \A q \in Runs : obs[q].pc = "done" => obs'[q].pc = "done"
        BY <1>c, <2>1 DEF Steps
      <4> SUFFICES ASSUME NEW i \in DOMAIN hb', hb'[i].reason = "quiescence-gate"
                   PROVE  (/\ hb[i].run \in Runs
                           /\ obs[hb[i].run].pc = "done"
                           /\ PromptsOf(hb[i].run) = {})'
        BY DEF GateLineIsLast
      <4>3. CASE hb'[i] = l
        BY <3>1, <3>2, <4>1, <4>2, <4>3
      <4>4. CASE i \in DOMAIN hb /\ hb'[i] = hb[i]
        <5>1. hb[i].run \in Runs /\ obs[hb[i].run].pc = "done" /\ PromptsOf(hb[i].run) = {}
          BY <1>a, <4>4 DEF GateLineIsLast
        <5> QED
          BY <4>1, <4>2, <4>4, <5>1
      <4> QED
        BY <3>3, <4>3, <4>4
    <3> QED
      BY <1>c, <2>1, <2>2, <3>4 DEF Steps
  <2> QED
    BY <1>5, <2>3, <2>4
<1> QED
  BY <1>1, <1>2, <1>3, <1>4, <1>5 DEF ObserverStep
\* Every step of the composition keeps the invariant.
LEMMA GateStep ==
    ASSUME GateInv, [Next]_vars,
           LivenessAssumption, DispatcherAssumption, ObserverAssumption
    PROVE  GateInv'
<1>a. /\ ObserverTyped /\ SpawnedOnce /\ NothingThrough /\ GateLineIsLast
      /\ obs \in [Runs -> ObserverType] /\ hb \in Seq(LineType)
      /\ session \in SessionType
  BY DEF GateInv, ObserverTyped, ObserverTypeOK, DispatcherTyped, DispatcherTypeOK
<1>b. ObserverTyped'
  BY <1>a, ObserverTypeStep
<1>1. CASE (DispatcherStep \/ ChildStep \/ ForeignRecord) /\ UNCHANGED ovars
  BY <1>1, <1>b, GateDispatcherStep DEF GateInv, ovars
<1>2. CASE NameSession /\ SpawnObserver(run) /\ UNCHANGED <<orch, prompts>>
  <2>1. /\ run \in Runs /\ dpc = "running" /\ ~session.named
        /\ session'.named /\ UNCHANGED <<hb, run, dpc>>
    BY <1>2, <1>a
    DEF NameSession, SessionType, ObserverTyped, DispatcherTyped, JudgedFirst, filevars
  <2>2. obs[run].pc = "off"
    BY <1>a, <2>1 DEF SpawnedOnce
  <2>3. PICK url \in BOOLEAN :
          \/ Becomes(run, [obs[run] EXCEPT !.pc = "poll", !.url = url])
          \/ UNCHANGED obs
    BY <1>2 DEF SpawnObserver
  <2>4. /\ [obs[run] EXCEPT !.pc = "poll", !.url = url].pc = "poll"
        /\ [obs[run] EXCEPT !.pc = "poll", !.url = url].failure = obs[run].failure
    BY <1>a, <2>1 DEF ObserverType
  <2>5. /\ \A q \in Runs \ {run} : obs'[q] = obs[q]
        /\ obs'[run].failure = obs[run].failure
        /\ obs'[run].pc \in {"off", "poll"}
    BY <1>a, <2>1, <2>2, <2>3, <2>4 DEF Becomes
  <2>6. SpawnedOnce'
    BY <1>a, <2>1, <2>5 DEF SpawnedOnce
  <2>7. NothingThrough'
    BY <1>2, <1>a, <2>1, <2>2, <2>5 DEF NothingThrough, PromptsOf
  <2>8. GateLineIsLast'
    BY <1>2, <1>a, <2>1, <2>2, <2>5, GateLinesKept
  <2> QED
    BY <1>b, <2>6, <2>7, <2>8 DEF GateInv
<1>3. CASE \E r \in Runs : ObserverStep(r)
  BY <1>3, <1>b, GateObserverStep DEF GateInv
<1>4. CASE OrchestratorStep \/ UNCHANGED vars
  BY <1>4, <1>a, <1>b
  DEF OrchestratorStep, vars, ovars, dvars, filevars, GateInv, SpawnedOnce,
      NothingThrough, GateLineIsLast, PromptsOf
<1>5. CASE Tick
  <2>1. \A r \in Runs : /\ obs'[r].failure = obs[r].failure
                        /\ obs[r].pc = "off" => obs'[r].pc = "off"
                        /\ (obs[r].pc \in {"acknowledge", "done"})
                             <=> (obs'[r].pc \in {"acknowledge", "done"})
                        /\ obs[r].pc = "done" => obs'[r].pc = "done"
    <3>1. \A o \in ObserverType :
            /\ Slept(o).failure = o.failure
            /\ Slept(o).pc = (IF o.pc = "sleep" THEN "poll" ELSE o.pc)
      BY DEF Slept, ObserverType
    <3>2. \A r \in Runs : obs'[r] = IF obs[r].pc \in Finished THEN obs[r] ELSE Slept(obs[r])
      BY <1>5 DEF Tick
    <3> QED
      BY <1>a, <3>1, <3>2 DEF Finished
  <2> QED
    BY <1>5, <1>b, <2>1, GateDispatcherStep DEF Tick, GateInv
<1> QED
  BY <1>1, <1>2, <1>3, <1>4, <1>5 DEF Next

\* A WAKE_DEFERRED line that blames the quiescence gate is only written by an
\* observer of which no prompt ever reached the orchestrator, however often
\* deliveries were refused or their replies lost, for any number of dispatches,
\* resumed or fresh.
THEOREM GateDeferralIsSilence == Spec => []GateDeferralMeansSilence
<1>1. Init => GateInv
  <2> SUFFICES ASSUME Init
               PROVE  GateInv
    OBVIOUS
  <2>1. ObserverTyped
    BY ObserverTypeInit, LivenessAssumption, DispatcherAssumption, ObserverAssumption
  <2>2. SpawnedOnce /\ NothingThrough /\ GateLineIsLast
    BY DEF Init, DispatcherInit, NoObserver, SpawnedOnce, NothingThrough,
           GateLineIsLast, PromptsOf
  <2> QED
    BY <2>1, <2>2 DEF GateInv
<1>2. GateInv /\ [Next]_vars => GateInv'
  BY GateStep, LivenessAssumption, DispatcherAssumption, ObserverAssumption
<1>3. GateInv => GateDeferralMeansSilence
  BY DEF GateInv, GateLineIsLast, GateDeferralMeansSilence
<1> QED
  BY <1>1, <1>2, <1>3, PTL DEF Spec
---------------------------------------------------------------------------
(* A repeated wake does not pile up on the turn the first one started.     *)

\* The store of the orchestrator's session can be read, so that no delivery goes
\* past the gate unseen.
StoreIsRead == "noStore" \notin Faults

\* Every prompt is of a turn that has ended, or of the one that is running.
PromptsOfTurns ==
    \A i \in DOMAIN prompts :
      /\ prompts[i].turn <= orch.updated
      /\ prompts[i].turn = orch.updated => orch.busy

\* An observer that the gate let through finds the turns of its earlier prompts
\* finished.
PassedInQuiet ==
    \A r \in Runs : obs[r].pc = "deliver" =>
      \A i \in PromptsOf(r) : prompts[i].turn < orch.updated

SpacedInv == ObserverTyped /\ PromptsOfTurns /\ PassedInQuiet /\ RetriesAreSpaced

\* A step that leaves prompts and orchestrator alone, and lets no further
\* observer through.
LEMMA SpacingKept ==
    ASSUME SpacedInv, UNCHANGED <<orch, prompts>>,
           \A r \in Runs : obs'[r].pc = "deliver" => obs[r].pc = "deliver"
    PROVE  (PromptsOfTurns /\ PassedInQuiet /\ RetriesAreSpaced)'
  BY DEF SpacedInv, PromptsOfTurns, PassedInQuiet, RetriesAreSpaced, PromptsOf

\* An accepted prompt of an observer the gate let through.
LEMMA AcceptedIsSpaced ==
    ASSUME SpacedInv, NEW r \in Runs, obs[r].pc = "deliver", AcceptPrompt(r),
           Others(r), obs'[r].pc # "deliver"
    PROVE  (PromptsOfTurns /\ PassedInQuiet /\ RetriesAreSpaced)'
<1> DEFINE p == [run |-> r, outcome |-> obs[r].outcome, turn |-> orch.updated]
<1>a. /\ prompts \in Seq(PromptType) /\ orch \in OrchestratorType
      /\ PromptsOfTurns /\ PassedInQuiet /\ RetriesAreSpaced
  BY DEF SpacedInv, ObserverTyped, ObserverTypeOK
<1>1. p.run = r /\ p.turn = orch.updated /\ prompts' = Append(prompts, p)
  BY DEF AcceptPrompt
<1>2. orch'.busy /\ orch'.updated = orch.updated /\ orch.updated \in Nat
  BY <1>a DEF AcceptPrompt, OrchestratorType
<1> HIDE DEF p
<1>3. /\ Len(prompts) \in Nat /\ DOMAIN prompts = 1 .. Len(prompts)
      /\ DOMAIN prompts' = 1 .. Len(prompts) + 1
      /\ \A i \in 1 .. Len(prompts) : prompts'[i] = prompts[i]
      /\ prompts'[Len(prompts) + 1] = p
  BY <1>a, <1>1
<1>4. PromptsOfTurns'
  BY <1>a, <1>1, <1>2, <1>3 DEF PromptsOfTurns
<1>5. PassedInQuiet'
  <2>1. \A q \in Runs : obs'[q].pc = "deliver" => q # r /\ obs[q].pc = "deliver"
    BY DEF Others
  <2>2. \A q \in Runs \ {r} : \A i \in PromptsOf(q)' : i \in PromptsOf(q) /\ prompts'[i] = prompts[i]
    BY <1>1, <1>3 DEF PromptsOf
  <2> QED
    BY <1>a, <1>2, <2>1, <2>2 DEF PassedInQuiet
<1>6. RetriesAreSpaced'
  <2>1. \A i \in 1 .. Len(prompts) : prompts[i].run = r => prompts[i].turn < orch.updated
    BY <1>a, <1>3 DEF PassedInQuiet, PromptsOf
  <2> QED
    BY <1>a, <1>1, <1>3, <2>1 DEF RetriesAreSpaced
<1> QED
  BY <1>4, <1>5, <1>6

\* Every step of the composition keeps the invariant.
LEMMA SpacedStep ==
    ASSUME SpacedInv, [Next]_vars, StoreIsRead,
           LivenessAssumption, DispatcherAssumption, ObserverAssumption
    PROVE  SpacedInv'
<1>a. /\ ObserverTyped /\ obs \in [Runs -> ObserverType] /\ orch \in OrchestratorType
      /\ prompts \in Seq(PromptType)
  BY DEF SpacedInv, ObserverTyped, ObserverTypeOK
<1>b. ObserverTyped'
  BY <1>a, ObserverTypeStep
<1> SUFFICES (PromptsOfTurns /\ PassedInQuiet /\ RetriesAreSpaced)'
  BY <1>b DEF SpacedInv
<1>1. CASE (DispatcherStep \/ ChildStep \/ ForeignRecord) /\ UNCHANGED ovars
  BY <1>1, SpacingKept DEF ovars
<1>2. CASE NameSession /\ SpawnObserver(run) /\ UNCHANGED <<orch, prompts>>
  <2>1. run \in Runs
    BY <1>2, <1>a DEF NameSession, ObserverTyped, DispatcherTyped, JudgedFirst
  <2>2. \A r \in Runs : obs'[r].pc = "deliver" => obs[r].pc = "deliver"
    BY <1>2, <1>a, <2>1, SpawnFields DEF Others
  <2> QED
    BY <1>2, <2>2, SpacingKept
<1>3. ASSUME NEW r \in Runs, ObserverStep(r)
      PROVE  (PromptsOfTurns /\ PassedInQuiet /\ RetriesAreSpaced)'
  <2>1. CASE Poll(r)
    <3>1. UNCHANGED <<orch, prompts>> /\ obs'[r].pc # "deliver" /\ Others(r)
      BY <1>a, <2>1, PollFields DEF Poll
    <3> QED
      BY <3>1, SpacingKept DEF Others
  <2>2. CASE Conclude(r)
    <3>1. UNCHANGED <<orch, prompts>> /\ obs'[r].pc # "deliver" /\ Others(r)
      BY <1>a, <2>2, ConcludeFields DEF Conclude
    <3> QED
      BY <3>1, SpacingKept DEF Others
  <2>3. CASE Gate(r)
    <3>1. /\ UNCHANGED <<orch, prompts>> /\ Others(r)
          /\ obs'[r].pc = "deliver" => ~orch.busy
      BY <1>a, <2>3, GateFields DEF Quiescent, StoreIsRead
    <3>2. orch.updated \in Nat /\ \A i \in DOMAIN prompts : prompts[i] \in PromptType
      BY <1>a DEF OrchestratorType
    <3>3. \A i \in DOMAIN prompts : prompts[i].turn \in Nat
      BY <3>2 DEF PromptType
    <3> QED
      BY <3>1, <3>2, <3>3
      DEF Others, SpacedInv, PromptsOfTurns, PassedInQuiet, RetriesAreSpaced, PromptsOf
  <2>4. CASE Deliver(r)
    <3>1. /\ obs[r].pc = "deliver" /\ obs'[r].pc # "deliver" /\ Others(r)
          /\ AcceptPrompt(r) \/ UNCHANGED <<orch, prompts>>
      BY <1>a, <2>4, DeliverFields
    <3>2. CASE AcceptPrompt(r)
      BY <3>1, <3>2, AcceptedIsSpaced
    <3>3. CASE UNCHANGED <<orch, prompts>>
      BY <3>1, <3>3, SpacingKept DEF Others
    <3> QED
      BY <3>1, <3>2, <3>3
  <2>5. CASE Acknowledge(r) \/ GiveUp(r)
    <3>1. UNCHANGED <<orch, prompts>> /\ obs'[r].pc # "deliver" /\ Others(r)
      BY <1>a, <2>5, ExitFields
    <3> QED
      BY <3>1, SpacingKept DEF Others
  <2>6. CASE Retry(r)
    <3>1. UNCHANGED <<orch, prompts>> /\ obs'[r].pc # "deliver" /\ Others(r)
      BY <1>a, <2>6, RetryFields
    <3> QED
      BY <3>1, SpacingKept DEF Others
  <2> QED
    BY <1>3, <2>1, <2>2, <2>3, <2>4, <2>5, <2>6 DEF ObserverStep
<1>4. CASE OrchestratorStep
  <2>1. UNCHANGED <<prompts, obs>> /\ orch.updated \in Nat
    BY <1>4, <1>a DEF OrchestratorStep, OrchestratorType
  <2>2. \A i \in DOMAIN prompts : prompts[i] \in PromptType
    BY <1>a
  <2>3. \A i \in DOMAIN prompts : prompts[i].turn \in Nat
    BY <2>2 DEF PromptType
  <2>4. CASE orch'.busy /\ orch'.updated = orch.updated
    BY <2>1, <2>4
    DEF SpacedInv, PromptsOfTurns, PassedInQuiet, RetriesAreSpaced, PromptsOf
  <2>5. CASE orch'.updated = orch.updated + 1
    BY <2>1, <2>3, <2>5
    DEF SpacedInv, PromptsOfTurns, PassedInQuiet, RetriesAreSpaced, PromptsOf
  <2> QED
    BY <1>4, <1>a, <2>4, <2>5 DEF OrchestratorStep, OrchestratorType
<1>5. CASE Tick
  BY <1>5, <1>a, TickFields, SpacingKept
<1>6. CASE UNCHANGED vars
  BY <1>6, SpacingKept DEF vars, ovars
<1> QED
  BY <1>1, <1>2, <1>3, <1>4, <1>5, <1>6 DEF Next

\* Of one dispatch, for any number of them and any deadline, no two prompts are
\* of the same turn of the orchestrator: a wake that is repeated because its
\* reply was lost finds the turn of the first one finished, provided the store
\* that the gate looks at can be read.
THEOREM RetriesKeepTheirDistance ==
    ASSUME StoreIsRead
    PROVE  Spec => []RetriesAreSpaced
<1>1. Init => SpacedInv
  <2> SUFFICES ASSUME Init
               PROVE  SpacedInv
    OBVIOUS
  <2>1. ObserverTyped
    BY ObserverTypeInit, LivenessAssumption, DispatcherAssumption, ObserverAssumption
  <2> QED
    BY <2>1 DEF Init, SpacedInv, PromptsOfTurns, PassedInQuiet, RetriesAreSpaced, PromptsOf
<1>2. SpacedInv /\ [Next]_vars => SpacedInv'
  BY SpacedStep, StoreIsRead, LivenessAssumption, DispatcherAssumption, ObserverAssumption
<1>3. SpacedInv => RetriesAreSpaced
  BY DEF SpacedInv
<1> QED
  BY <1>1, <1>2, <1>3, PTL DEF Spec
---------------------------------------------------------------------------
(* The observer's own lines: one SURVEY, then one verdict.                 *)

\* A line in the observer's name is backed by what its observer has done, and
\* one that is off has done nothing.
LinesAreBacked ==
    /\ \A i \in DOMAIN hb : hb[i].tag \in OwnerTags =>
         /\ hb[i].run \in Runs
         /\ obs[hb[i].run].pc = "done" \/ (hb[i].tag = "SURVEY" /\ obs[hb[i].run].survey)
    /\ \A r \in Runs : obs[r].pc = "off" => ~obs[r].survey

\* No dispatch has two lines of a kind, and its SURVEY comes before its verdict.
LinesAreSingle ==
    \A i, j \in DOMAIN hb : hb[i].run = hb[j].run =>
      /\ hb[i].tag = "SURVEY" /\ hb[j].tag = "SURVEY" => i = j
      /\ hb[i].tag \in VerdictTags /\ hb[j].tag \in VerdictTags => i = j
      /\ hb[i].tag = "SURVEY" /\ hb[j].tag \in VerdictTags => i < j

OwnershipInv == GateInv /\ LinesAreBacked /\ LinesAreSingle

\* What a file that grows by one line consists of.
LEMMA OneLineMore ==
    ASSUME hb \in Seq(LineType), NEW l, hb' = Append(hb, l)
    PROVE  /\ Len(hb) \in Nat /\ DOMAIN hb = 1 .. Len(hb) /\ DOMAIN hb' = 1 .. Len(hb) + 1
           /\ \A i \in 1 .. Len(hb) : hb'[i] = hb[i]
           /\ hb'[Len(hb) + 1] = l
  OBVIOUS

\* A step that writes nothing in an observer's name, and lets no observer take
\* back what it did.
LEMMA OwnershipKept ==
    ASSUME OwnershipInv,
           \A r \in Runs : /\ obs[r].survey => obs'[r].survey \/ obs'[r].pc = "done"
                           /\ obs[r].pc = "done" => obs'[r].pc = "done"
                           /\ obs'[r].pc = "off" => ~obs'[r].survey,
           \/ UNCHANGED hb
           \/ hb' = <<>>
           \/ \E l \in LineType : (WriteLine(l) \/ hb' = Append(<<>>, l)) /\ l.tag \notin OwnerTags
    PROVE  (LinesAreBacked /\ LinesAreSingle)'
<1>a. hb \in Seq(LineType) /\ LinesAreBacked /\ LinesAreSingle
  BY DEF OwnershipInv, GateInv, ObserverTyped, DispatcherTyped, DispatcherTypeOK
<1>b. "SURVEY" \in OwnerTags /\ \A t \in VerdictTags : t \in OwnerTags
  BY DEF OwnerTags
<1>1. CASE UNCHANGED hb
  BY <1>a, <1>1 DEF LinesAreBacked, LinesAreSingle
<1>2. CASE hb' = <<>>
  BY <1>2 DEF LinesAreBacked, LinesAreSingle
<1>3. CASE \E l \in LineType : hb' = Append(<<>>, l) /\ l.tag \notin OwnerTags
  <2>1. PICK l \in LineType : hb' = Append(<<>>, l) /\ l.tag \notin OwnerTags
    BY <1>3
  <2>2. DOMAIN hb' = {1} /\ hb'[1] = l
    BY <2>1
  <2> QED
    BY <1>b, <2>1, <2>2 DEF LinesAreBacked, LinesAreSingle
<1>4. CASE \E l \in LineType : WriteLine(l) /\ l.tag \notin OwnerTags
  <2>1. PICK l \in LineType : hb' = Append(hb, l) /\ l.tag \notin OwnerTags
    BY <1>4 DEF WriteLine
  <2>2. \A i \in DOMAIN hb' : hb'[i].tag \in OwnerTags => i \in DOMAIN hb /\ hb'[i] = hb[i]
    BY <1>a, <2>1, OneLineMore
  <2>3. LinesAreBacked'
    BY <1>a, <2>2 DEF LinesAreBacked
  <2>4. LinesAreSingle'
    BY <1>a, <1>b, <2>2 DEF LinesAreSingle
  <2> QED
    BY <2>3, <2>4
<1> QED
  BY <1>1, <1>2, <1>3, <1>4

\* The SURVEY line of an observer that has not left one, or the verdict line of
\* one that ends with it.
LEMMA OwnLineWritten ==
    ASSUME OwnershipInv, NEW r \in Runs, obs[r].pc # "done", Others(r),
           obs'[r].pc # "off",
           NEW l, WriteLine(l), l.run = r,
           \/ l.tag = "SURVEY" /\ ~obs[r].survey /\ obs'[r].survey
           \/ l.tag \in VerdictTags /\ obs'[r].pc = "done"
    PROVE  (LinesAreBacked /\ LinesAreSingle)'
<1>a. hb \in Seq(LineType) /\ LinesAreBacked /\ LinesAreSingle
  BY DEF OwnershipInv, GateInv, ObserverTyped, DispatcherTyped, DispatcherTypeOK
<1>b. /\ "SURVEY" \in OwnerTags /\ "SURVEY" \notin VerdictTags
      /\ \A t \in VerdictTags : t \in OwnerTags
  BY DEF OwnerTags, VerdictTags
<1>1. /\ Len(hb) \in Nat /\ DOMAIN hb = 1 .. Len(hb) /\ DOMAIN hb' = 1 .. Len(hb) + 1
      /\ \A i \in 1 .. Len(hb) : hb'[i] = hb[i]
      /\ hb'[Len(hb) + 1] = l
  BY <1>a, OneLineMore DEF WriteLine
<1>2. \A i \in DOMAIN hb : hb[i].tag \in OwnerTags /\ hb[i].run = r =>
        hb[i].tag = "SURVEY" /\ obs[r].survey
  BY <1>a DEF LinesAreBacked
<1>3. LinesAreBacked'
  <2> SUFFICES ASSUME NEW i \in DOMAIN hb', hb'[i].tag \in OwnerTags
               PROVE  /\ hb'[i].run \in Runs
                      /\ \/ obs'[hb'[i].run].pc = "done"
                         \/ hb'[i].tag = "SURVEY" /\ obs'[hb'[i].run].survey
    BY <1>a DEF LinesAreBacked, Others
  <2>1. CASE i = Len(hb) + 1
    BY <1>1, <2>1
  <2>2. CASE i \in DOMAIN hb /\ hb[i].run # r
    BY <1>a, <1>1, <2>2 DEF LinesAreBacked, Others
  <2>3. CASE i \in DOMAIN hb /\ hb[i].run = r
    BY <1>1, <1>2, <2>3
  <2> QED
    BY <1>1, <2>1, <2>2, <2>3
<1>4. LinesAreSingle'
  BY <1>a, <1>b, <1>1, <1>2 DEF LinesAreSingle
<1> QED
  BY <1>3, <1>4

\* Every step of the composition keeps the invariant.
LEMMA OwnershipStep ==
    ASSUME OwnershipInv, [Next]_vars,
           LivenessAssumption, DispatcherAssumption, ObserverAssumption
    PROVE  OwnershipInv'
<1>a. /\ GateInv /\ DispatcherTyped /\ obs \in [Runs -> ObserverType] /\ SpawnedOnce
      /\ LinesAreBacked /\ LinesAreSingle /\ hb \in Seq(LineType)
  BY DEF OwnershipInv, GateInv, ObserverTyped, ObserverTypeOK, DispatcherTyped, DispatcherTypeOK
<1>b. GateInv'
  BY <1>a, GateStep
<1>c. \A r \in Runs : obs[r].pc = "off" => ~obs[r].survey
  BY <1>a DEF LinesAreBacked
<1> SUFFICES (LinesAreBacked /\ LinesAreSingle)'
  BY <1>b DEF OwnershipInv
<1>d. \A r \in Runs : obs[r] \in ObserverType
  BY <1>a
<1>1. CASE (DispatcherStep \/ ChildStep \/ ForeignRecord) /\ UNCHANGED ovars
  <2>1. DispatcherNext
    BY <1>1 DEF DispatcherNext
  <2> QED
    BY <1>1, <1>a, <1>c, <2>1, DispatchLines, OwnershipKept DEF ovars
<1>2. CASE NameSession /\ SpawnObserver(run) /\ UNCHANGED <<orch, prompts>>
  <2>1. run \in Runs /\ UNCHANGED hb
    BY <1>2, <1>a DEF NameSession, DispatcherTyped, JudgedFirst, filevars
  <2>2. obs[run].pc = "off"
    BY <1>2, <1>a, <2>1 DEF NameSession, SpawnedOnce
  <2> QED
    BY <1>2, <1>a, <1>c, <2>1, <2>2, SpawnFields, OwnershipKept DEF Others
<1>3. ASSUME NEW r \in Runs, ObserverStep(r)
      PROVE  (LinesAreBacked /\ LinesAreSingle)'
  <2>1. CASE Poll(r)
    <3>1. /\ obs[r].pc = "poll" /\ obs'[r].pc = "conclude" /\ Others(r)
          /\ obs'[r].survey <=> obs[r].survey \/ Surveys(r)
      BY <1>a, <2>1, PollFields
    <3>2. CASE Surveys(r)
      <4>1. ~obs[r].survey /\ WriteLine(Line("SURVEY", r))
        BY <2>1, <3>2 DEF Poll, Surveys
      <4>2. Line("SURVEY", r).tag = "SURVEY" /\ Line("SURVEY", r).run = r
        BY DEF Line
      <4> QED
        BY <3>1, <3>2, <4>1, <4>2, OwnLineWritten
    <3>3. CASE ~Surveys(r)
      <4>1. UNCHANGED hb
        BY <2>1, <3>3 DEF Poll
      <4> QED
        BY <1>c, <3>1, <4>1, OwnershipKept DEF Others
    <3> QED
      BY <3>2, <3>3
  <2>2. CASE Conclude(r)
    <3>1. /\ obs[r].pc = "conclude" /\ Others(r)
          /\ obs'[r].pc # "done" => obs'[r].survey = obs[r].survey /\ UNCHANGED hb
          /\ obs'[r].pc = "done" =>
               WriteLine(VerdictLine("WAKE_DEFERRED", r, Classification(r), "no-attach-target"))
          /\ obs'[r].pc \in {"sleep", "done", "gate"}
      BY <1>a, <2>2, ConcludeFields
    <3>2. \A o, why : /\ VerdictLine("WAKE_DEFERRED", r, o, why).tag \in VerdictTags
                      /\ VerdictLine("WAKE_DEFERRED", r, o, why).run = r
      BY DEF VerdictLine, Line, VerdictTags
    <3>3. CASE obs'[r].pc = "done"
      BY <3>1, <3>2, <3>3, OwnLineWritten
    <3>4. CASE obs'[r].pc # "done"
      BY <1>c, <3>1, <3>4, OwnershipKept DEF Others
    <3> QED
      BY <3>3, <3>4
  <2>3. CASE Gate(r) \/ Deliver(r) \/ Retry(r)
    <3>1. /\ UNCHANGED hb /\ Others(r) /\ Carried(obs'[r], obs[r])
          /\ obs[r].pc \in {"gate", "deliver", "late"}
          /\ obs'[r].pc \in {"deliver", "late", "acknowledge", "sleep"}
      <4>1. CASE Gate(r)
        BY <1>a, <4>1, GateFields
      <4>2. CASE Deliver(r)
        BY <1>a, <4>2, DeliverFields
      <4>3. CASE Retry(r)
        BY <1>a, <4>3, RetryFields
      <4> QED
        BY <2>3, <4>1, <4>2, <4>3
    <3> QED
      BY <1>c, <3>1, OwnershipKept DEF Others, Carried
  <2>4. CASE Acknowledge(r) \/ GiveUp(r)
    <3>1. /\ obs[r].pc # "done" /\ Others(r) /\ obs'[r].pc = "done"
          /\ \E tag \in VerdictTags : \E why :
                WriteLine(VerdictLine(tag, r, obs[r].outcome, why))
      BY <1>a, <2>4, ExitFields
    <3>p. PICK tag \in VerdictTags :
            \E why : WriteLine(VerdictLine(tag, r, obs[r].outcome, why))
      BY <3>1
    <3>2. PICK why : WriteLine(VerdictLine(tag, r, obs[r].outcome, why))
      BY <3>p
    <3> DEFINE l == VerdictLine(tag, r, obs[r].outcome, why)
    <3>3. l.tag = tag /\ l.run = r /\ WriteLine(l)
      BY <3>2 DEF VerdictLine, Line
    <3> HIDE DEF l
    <3> QED
      BY <3>1, <3>3, OwnLineWritten
  <2> QED
    BY <1>3, <2>1, <2>2, <2>3, <2>4 DEF ObserverStep
<1>4. CASE OrchestratorStep \/ UNCHANGED vars
  <2>1. UNCHANGED <<hb, obs>>
    BY <1>4 DEF OrchestratorStep, vars, ovars, dvars, filevars
  <2> QED
    BY <1>c, <2>1, OwnershipKept
<1>5. CASE Tick
  <2>1. UNCHANGED hb
    BY <1>5 DEF Tick, DispatcherTick
  <2> QED
    BY <1>5, <1>a, <1>c, <2>1, TickFields, OwnershipKept
<1> QED
  BY <1>1, <1>2, <1>3, <1>4, <1>5 DEF Next

\* Line ownership for any number of dispatches over one file, fresh or resumed,
\* and any faults: an observer leaves one SURVEY at most and one verdict line
\* when it ends, in that order, whoever writes in between.
THEOREM LinesAreOwned == Spec => []LineOwnership
<1>1. Init => OwnershipInv
  <2> SUFFICES ASSUME Init
               PROVE  OwnershipInv
    OBVIOUS
  <2>1. ObserverTyped
    BY ObserverTypeInit, LivenessAssumption, DispatcherAssumption, ObserverAssumption
  <2>2. SpawnedOnce /\ NothingThrough /\ GateLineIsLast
    BY DEF Init, DispatcherInit, NoObserver, SpawnedOnce, NothingThrough,
           GateLineIsLast, PromptsOf
  <2>3. LinesAreBacked /\ LinesAreSingle
    BY DEF Init, DispatcherInit, NoObserver, LinesAreBacked, LinesAreSingle
  <2> QED
    BY <2>1, <2>2, <2>3 DEF GateInv, OwnershipInv
<1>2. OwnershipInv /\ [Next]_vars => OwnershipInv'
  BY OwnershipStep, LivenessAssumption, DispatcherAssumption, ObserverAssumption
<1>3. OwnershipInv => LineOwnership
  <2> SUFFICES ASSUME OwnershipInv, NEW r \in Runs
               PROVE  /\ Cardinality(Lines(r, {"SURVEY"})) <= 1
                      /\ Cardinality(Lines(r, VerdictTags))
                           <= (IF At(r, "done") THEN 1 ELSE 0)
                      /\ \A i \in Lines(r, {"SURVEY"}), j \in Lines(r, VerdictTags) : i < j
    BY DEF LineOwnership
  <2>a. LinesAreSingle /\ LinesAreBacked
    BY DEF OwnershipInv
  <2>1. Cardinality(Lines(r, {"SURVEY"})) <= 1
    <3>1. \A i, j \in Lines(r, {"SURVEY"}) : i = j
      BY <2>a DEF LinesAreSingle, Lines
    <3> QED
      BY <3>1, AtMostOneElement
  <2>2. Cardinality(Lines(r, VerdictTags)) <= 1
    <3>1. \A i, j \in Lines(r, VerdictTags) : i = j
      BY <2>a DEF LinesAreSingle, Lines
    <3> QED
      BY <3>1, AtMostOneElement
  <2>3. ~At(r, "done") => Cardinality(Lines(r, VerdictTags)) = 0
    <3>1. ASSUME ~At(r, "done") PROVE Lines(r, VerdictTags) = {}
      BY <2>a, <3>1 DEF LinesAreBacked, Lines, At, OwnerTags, VerdictTags
    <3> QED
      BY <3>1, FS_EmptySet
  <2>4. \A i \in Lines(r, {"SURVEY"}), j \in Lines(r, VerdictTags) : i < j
    BY <2>a DEF LinesAreSingle, Lines
  <2> QED
    BY <2>1, <2>2, <2>3, <2>4
<1> QED
  BY <1>1, <1>2, <1>3, PTL DEF Spec
=============================================================================
