-------------------------- MODULE WakeTruth_proofs --------------------------
(***************************************************************************)
(* What a wake says is what the dispatch was judged to be, provided that a *)
(* heartbeat file serves one dispatch.  (With a resumed session it is not: *)
(* the run resumed_too_early.)  An abort is announced only of a dispatch   *)
(* whose dispatcher died, and a failure is told from an error.             *)
(***************************************************************************)
EXTENDS CompletionObserver_proofs

\* The heartbeat file is used once.
OneDispatch == Redispatch = {}

\* The dispatch has been judged for good.
Over == dpc \in {"reported", "exited", "crashed"}

\* It is true of dispatch r to announce o, or to write the tag t.
Truly(o, r) ==
    /\ o = "success" => Over /\ outcome[r] = "success"
    /\ o \in {"failure", "error"} => Over /\ outcome[r] \in {"failure", "error"}

TrulyTagged(t, r) ==
    /\ t = "DONE" => Truly("success", r)
    /\ t = "BLOCKED" => Truly("failure", r)

TruthInv ==
    /\ GateInv
    /\ run <= 1
    /\ \A i \in DOMAIN hb : TrulyTagged(hb[i].tag, run)
    /\ \A r \in Runs : TrulyTagged(obs[r].term.tag, r) /\ Truly(obs[r].outcome, r)
    /\ \A i \in DOMAIN prompts : Truly(prompts[i].outcome, prompts[i].run)

\* A dispatch that is over stays so, and its judgement stands.
Settled == Over => Over' /\ UNCHANGED outcome

\* What is true of a dispatch stays true of it.
LEMMA TruthStands ==
    ASSUME Settled, NEW r
    PROVE  /\ \A o : Truly(o, r) => Truly(o, r)'
           /\ \A t : TrulyTagged(t, r) => TrulyTagged(t, r)'
  BY DEF Settled, Truly, TrulyTagged

\* No step of the dispatcher, the child or the environment goes back on it.
LEMMA StepSettles ==
    ASSUME TruthInv, OneDispatch, DispatcherNext
    PROVE  Settled /\ run' <= 1
<1>a. run \in Nat /\ run <= 1 /\ (dpc # "idle" => run # 0) /\ Redispatch = {}
  BY DispatcherAssumption
  DEF TruthInv, GateInv, ObserverTyped, DispatcherTyped, DispatcherTypeOK, JudgedFirst,
      Runs, OneDispatch, DispatcherAssumption
<1>1. CASE \E fresh \in BOOLEAN : Preflight(fresh)
  <2>1. run = 0 /\ run' = run + 1
    BY <1>1, <1>a DEF Preflight
  <2> QED
    BY <1>a, <2>1 DEF Settled, Over
<1>2. CASE Refuse \/ Begin \/ TimeoutKill \/ Judge \/ Report \/ Record \/ Uncaught \/ Crash
           \/ \E f \in LaunchFlags : Launch(f)
  BY <1>2, <1>a
  DEF Refuse, Begin, TimeoutKill, Judge, Report, Record, Uncaught, Crash, Launch, Settled, Over, Ended
<1>3. CASE ChildStep \/ NameSession \/ ForeignRecord \/ DispatcherTick
  BY <1>3, <1>a
  DEF ChildStep, SessionPart, ChildLine, ChildExit, SessionEnds, NameSession,
      ForeignRecord, DispatcherTick, Settled, Over
<1> QED
  BY <1>1, <1>2, <1>3 DEF DispatcherNext, DispatcherStep

\* The lines of the heartbeat stay true under the dispatcher and the child.
LEMMA DispatchLinesTrue ==
    ASSUME TruthInv, OneDispatch, DispatcherNext
    PROVE  \A i \in DOMAIN hb' : TrulyTagged(hb[i].tag, run)'
<1>a. hb \in Seq(LineType) /\ run \in Nat
  BY DispatcherAssumption
  DEF TruthInv, GateInv, ObserverTyped, DispatcherTyped, DispatcherTypeOK, DispatcherAssumption
<1>b. \A i \in DOMAIN hb : TrulyTagged(hb[i].tag, run)
  BY DEF TruthInv
<1>c. Settled
  BY StepSettles
\* An appended line has to be true; the others were.
<1>d. ASSUME NEW l, hb' = Append(hb, l), TrulyTagged(l.tag, run)', UNCHANGED run
      PROVE  \A i \in DOMAIN hb' : TrulyTagged(hb[i].tag, run)'
  <2>1. \A t : TrulyTagged(t, run) => TrulyTagged(t, run)'
    BY <1>c, <1>d DEF Settled, TrulyTagged, Truly
  <2>2. \A i \in DOMAIN hb' : (i \in DOMAIN hb /\ hb'[i] = hb[i]) \/ hb'[i] = l
    BY <1>a, <1>d
  <2> SUFFICES ASSUME NEW i \in DOMAIN hb'
               PROVE  TrulyTagged(hb[i].tag, run)'
    OBVIOUS
  <2>3. CASE i \in DOMAIN hb /\ hb'[i] = hb[i]
    BY <1>b, <1>d, <2>1, <2>3
  <2>4. CASE hb'[i] = l
    BY <1>d, <2>4
  <2> QED
    BY <2>2, <2>3, <2>4
<1>1. CASE UNCHANGED <<hb, run>>
  <2>1. \A t : TrulyTagged(t, run) => TrulyTagged(t, run)'
    BY <1>c, <1>1 DEF Settled, TrulyTagged, Truly
  <2> QED
    BY <1>b, <1>1, <2>1
<1>2. CASE \E fresh \in BOOLEAN : Preflight(fresh)
  <2>1. run = 0 /\ ~Over
    BY <1>2 DEF Preflight, OneDispatch, TruthInv, GateInv, ObserverTyped, DispatcherTyped,
                JudgedFirst, Runs, Over
  <2>2. \A i \in DOMAIN hb : hb[i].tag \notin {"DONE", "BLOCKED"}
    BY <1>b, <2>1 DEF TrulyTagged, Truly
  <2>3. \A i \in DOMAIN hb' : hb'[i].tag \notin {"DONE", "BLOCKED"}
    BY <1>2, <2>2 DEF Preflight
  <2> QED
    BY <2>3 DEF TrulyTagged
<1>3. CASE Begin
  <2>1. StartLine(run, Len(runlog)).tag = "START"
    BY DEF StartLine, Line
  <2>2. CASE dpc = "preflight"
    <3>1. hb' = <<StartLine(run, Len(runlog))>>
      BY <1>3, <2>2 DEF Begin
    <3> QED
      BY <2>1, <3>1 DEF TrulyTagged
  <2>3. CASE dpc # "preflight"
    BY <1>3, <1>d, <2>1, <2>3 DEF Begin, TrulyTagged
  <2> QED
    BY <2>2, <2>3
<1>4. CASE Report
  <2>1. outcome[run] \in Judged
    BY <1>4 DEF Report, TruthInv, GateInv, ObserverTyped, DispatcherTyped, JudgedFirst
  <2>2. Line(TerminalTag(outcome[run]), run).tag = TerminalTag(outcome[run])
    BY DEF Line
  <2>3. TrulyTagged(TerminalTag(outcome[run]), run)'
    BY <1>4, <2>1 DEF Report, TerminalTag, TrulyTagged, Truly, Over, Judged
  <2>4. UNCHANGED <<run, outcome>>
    BY <1>4 DEF Report
  <2> QED
    BY <1>4, <1>d, <2>2, <2>3, <2>4 DEF Report, WriteDispatchLine, WriteLine
<1>5. CASE ChildLine
  <2>1. Line("STEP", run).tag = "STEP"
    BY DEF Line
  <2> QED
    BY <1>5, <1>d, <2>1 DEF ChildLine, WriteDispatchLine, WriteLine, TrulyTagged
<1>6. CASE Refuse \/ TimeoutKill \/ Judge \/ Record \/ Uncaught \/ Crash
           \/ \E f \in LaunchFlags : Launch(f)
  BY <1>6, <1>1 DEF Refuse, TimeoutKill, Judge, Record, Uncaught, Crash, Launch, filevars
<1>7. CASE SessionPart \/ ChildExit \/ SessionEnds \/ NameSession \/ ForeignRecord
           \/ DispatcherTick
  BY <1>7, <1>1
  DEF SessionPart, ChildExit, SessionEnds, NameSession, ForeignRecord, DispatcherTick,
      filevars
<1> QED
  BY <1>2, <1>3, <1>4, <1>5, <1>6, <1>7 DEF DispatcherNext, DispatcherStep, ChildStep
\* What an observer concludes from a true terminal line is true.
LEMMA ConclusionTrue ==
    ASSUME NEW r, TrulyTagged(obs[r].term.tag, r)
    PROVE  Truly(Classification(r), r)
  BY DEF Classification, Classify, BlockedOutcome, TrulyTagged, Truly, TerminalTags

\* The first terminal line of a true heartbeat is true.
LEMMA ReadTrue ==
    ASSUME hb \in Seq(LineType), \A i \in DOMAIN hb : TrulyTagged(hb[i].tag, run)
    PROVE  TrulyTagged(TerminalLine(hb).tag, run)
<1>1. CASE TerminalLine(hb) = NoLine
  BY <1>1 DEF NoLine, Line, TrulyTagged
<1>2. CASE \E i \in DOMAIN hb : TerminalLine(hb) = hb[i]
  BY <1>2
<1> QED
  BY <1>1, <1>2, FirstLineFound DEF TerminalLine

\* The observer's steps change nothing of the dispatcher, append no terminal
\* line and announce only what they concluded.
LEMMA TruthObserverStep ==
    ASSUME TruthInv, OneDispatch, NEW r \in Runs, ObserverStep(r)
    PROVE  /\ run' <= 1
           /\ \A i \in DOMAIN hb' : TrulyTagged(hb[i].tag, run)'
           /\ \A q \in Runs : (TrulyTagged(obs[q].term.tag, q) /\ Truly(obs[q].outcome, q))'
           /\ \A i \in DOMAIN prompts' : Truly(prompts[i].outcome, prompts[i].run)'
<1>a. /\ hb \in Seq(LineType) /\ obs \in [Runs -> ObserverType]
      /\ prompts \in Seq(PromptType) /\ obs[r] \in ObserverType
      /\ run <= 1 /\ SpawnedOnce /\ run \in Nat
      /\ \A i \in DOMAIN hb : TrulyTagged(hb[i].tag, run)
      /\ \A q \in Runs : TrulyTagged(obs[q].term.tag, q) /\ Truly(obs[q].outcome, q)
      /\ \A i \in DOMAIN prompts : Truly(prompts[i].outcome, prompts[i].run)
  BY DispatcherAssumption
  DEF TruthInv, GateInv, ObserverTyped, DispatcherTyped, DispatcherTypeOK, ObserverTypeOK,
      DispatcherAssumption
<1>b. /\ UNCHANGED <<run, dpc, outcome>> /\ obs[r].pc # "off"
  BY DEF ObserverStep, Poll, Conclude, Gate, Deliver, Acknowledge, GiveUp, Retry, At,
         dvars, filevars
<1>c. r = run
  <2>1. r \in Nat \ {0}
    BY DEF Runs
  <2> QED
    BY <1>a, <1>b, <2>1 DEF SpawnedOnce
<1>d. \A o, q : (Truly(o, q) <=> Truly(o, q)') /\ (TrulyTagged(o, q) <=> TrulyTagged(o, q)')
  BY <1>b DEF Truly, TrulyTagged, Over
<1>1. \A i \in DOMAIN hb' : TrulyTagged(hb[i].tag, run)'
  <2>1. ASSUME NEW l, WriteLine(l), l.tag \notin TerminalTags
        PROVE  \A i \in DOMAIN hb' : TrulyTagged(hb[i].tag, run)'
    <3>1. \A i \in DOMAIN hb' : (i \in DOMAIN hb /\ hb'[i] = hb[i]) \/ hb'[i] = l
      BY <1>a, <2>1 DEF WriteLine
    <3>2. TrulyTagged(l.tag, run)'
      BY <2>1 DEF TrulyTagged, TerminalTags
    <3> SUFFICES ASSUME NEW i \in DOMAIN hb'
                 PROVE  TrulyTagged(hb[i].tag, run)'
      OBVIOUS
    <3>3. CASE i \in DOMAIN hb /\ hb'[i] = hb[i]
      BY <1>a, <1>b, <1>d, <3>3
    <3>4. CASE hb'[i] = l
      BY <3>2, <3>4
    <3> QED
      BY <3>1, <3>3, <3>4
  <2>2. CASE UNCHANGED hb
    BY <1>a, <1>b, <1>d, <2>2
  <2>3. CASE \E l : WriteLine(l) /\ l.tag \notin TerminalTags
    BY <2>1, <2>3
  <2>4. \A tag, o, why : /\ VerdictLine(tag, r, o, why).tag = tag
                        /\ Line(tag, r).tag = tag
    BY DEF VerdictLine, Line
  <2>5. UNCHANGED hb \/ \E l : WriteLine(l) /\ l.tag \notin TerminalTags
    <3>1. CASE Poll(r)
      BY <3>1, <2>4 DEF Poll, TerminalTags
    <3>2. CASE Conclude(r)
      BY <3>2, <2>4 DEF Conclude, TerminalTags
    <3>3. CASE Acknowledge(r)
      BY <3>3, <2>4 DEF Acknowledge, TerminalTags
    <3>4. CASE GiveUp(r)
      BY <3>4, <2>4 DEF GiveUp, TerminalTags
    <3>5. CASE Gate(r) \/ Deliver(r) \/ Retry(r)
      BY <3>5 DEF Gate, Deliver, Retry, dvars, filevars
    <3> QED
      BY <3>1, <3>2, <3>3, <3>4, <3>5 DEF ObserverStep
  <2> QED
    BY <2>2, <2>3, <2>5
<1>2. \A q \in Runs : (TrulyTagged(obs[q].term.tag, q) /\ Truly(obs[q].outcome, q))'
  <2>1. ASSUME NEW o, Becomes(r, o), TrulyTagged(o.term.tag, r), Truly(o.outcome, r)
        PROVE  \A q \in Runs : (TrulyTagged(obs[q].term.tag, q) /\ Truly(obs[q].outcome, q))'
    <3>1. obs'[r] = o /\ \A q \in Runs \ {r} : obs'[q] = obs[q]
      BY <1>a, <2>1 DEF Becomes
    <3> QED
      BY <1>a, <1>d, <2>1, <3>1
  <2>2. Truly("none", r) /\ TrulyTagged(NoLine.tag, r)
    BY DEF Truly, TrulyTagged, NoLine, Line
  <2>3. Truly(Classification(r), r) /\ TrulyTagged(TerminalLine(hb).tag, r)
    BY <1>a, <1>c, ConclusionTrue, ReadTrue
  <2>4. TrulyTagged(obs[r].term.tag, r) /\ Truly(obs[r].outcome, r)
    BY <1>a
  <2>5. \E o : /\ Becomes(r, o)
               /\ o.term \in {obs[r].term, NoLine, TerminalLine(hb)}
               /\ o.outcome \in {obs[r].outcome, Classification(r)}
    <3>1. CASE Poll(r)
      <4> DEFINE o == [obs[r] EXCEPT
                         !.pc = "conclude", !.survey = obs[r].survey \/ Surveys(r),
                         !.term = TerminalLine(hb), !.since = StartEpoch(hb),
                         !.lineAge = lineAge, !.tool = session.tool]
      <4>1. Becomes(r, o)
        BY <3>1 DEF Poll
      <4>2. o.term = TerminalLine(hb) /\ o.outcome = obs[r].outcome
        BY <1>a DEF ObserverType
      <4> HIDE DEF o
      <4> QED
        BY <4>1, <4>2
    <3>2. CASE Conclude(r)
      <4> DEFINE c == Classification(r)
                 f == Forgotten(obs[r])
                 d == DeadlineClock(f.waited)
      <4>1. f.term = NoLine /\ f.outcome = obs[r].outcome
            /\ DOMAIN f = DOMAIN obs[r]
        BY <1>a DEF Forgotten, ObserverType
      <4> HIDE DEF c, f, d
      <4>2. \/ Becomes(r, [f EXCEPT !.pc = "sleep"])
            \/ Becomes(r, [NoObserver EXCEPT !.pc = "done", !.outcome = c])
            \/ Becomes(r, [f EXCEPT !.pc = "gate", !.outcome = c, !.waited = d])
        BY <3>2 DEF Conclude, Exits, c, f, d
      <4>3. /\ [f EXCEPT !.pc = "sleep"].term = NoLine
            /\ [f EXCEPT !.pc = "sleep"].outcome = obs[r].outcome
            /\ [NoObserver EXCEPT !.pc = "done", !.outcome = c].term = NoLine
            /\ [NoObserver EXCEPT !.pc = "done", !.outcome = c].outcome = c
            /\ [f EXCEPT !.pc = "gate", !.outcome = c, !.waited = d].term = NoLine
            /\ [f EXCEPT !.pc = "gate", !.outcome = c, !.waited = d].outcome = c
        BY <1>a, <4>1 DEF NoObserver, ObserverType
      <4> QED
        BY <4>2, <4>3 DEF c
    <3>3. CASE Gate(r) \/ Deliver(r) \/ Retry(r)
      <4> DEFINE Same(o) == o.term = obs[r].term /\ o.outcome = obs[r].outcome
      <4>1. \A x, y, z :
              /\ Same([obs[r] EXCEPT !.pc = x])
              /\ Same([obs[r] EXCEPT !.seen = y, !.pc = x])
              /\ Same([obs[r] EXCEPT !.pc = x, !.failure = z])
        BY <1>a DEF ObserverType
      <4>2. PICK x, y, z : \/ Becomes(r, [obs[r] EXCEPT !.pc = x])
                           \/ Becomes(r, [obs[r] EXCEPT !.seen = y, !.pc = x])
                           \/ Becomes(r, [obs[r] EXCEPT !.pc = x, !.failure = z])
        <5>1. CASE Gate(r)
          BY <5>1 DEF Gate
        <5>2. CASE Deliver(r)
          BY <5>2 DEF Deliver, Refused
        <5>3. CASE Retry(r)
          BY <5>3 DEF Retry
        <5> QED
          BY <3>3, <5>1, <5>2, <5>3
      <4> DEFINE o1 == [obs[r] EXCEPT !.pc = x]
                 o2 == [obs[r] EXCEPT !.seen = y, !.pc = x]
                 o3 == [obs[r] EXCEPT !.pc = x, !.failure = z]
      <4>3. Same(o1) /\ Same(o2) /\ Same(o3)
        BY <4>1
      <4>4. Becomes(r, o1) \/ Becomes(r, o2) \/ Becomes(r, o3)
        BY <4>2
      <4> HIDE DEF o1, o2, o3
      <4> QED
        BY <4>3, <4>4
    <3>4. CASE Acknowledge(r) \/ GiveUp(r)
      <4> DEFINE o == [NoObserver EXCEPT !.pc = "done", !.outcome = obs[r].outcome]
      <4>1. Becomes(r, o)
        BY <3>4 DEF Acknowledge, GiveUp, Exits
      <4>2. o.term = NoLine /\ o.outcome = obs[r].outcome
        BY DEF NoObserver
      <4> HIDE DEF o
      <4> QED
        BY <4>1, <4>2
    <3> QED
      BY <3>1, <3>2, <3>3, <3>4 DEF ObserverStep
  <2> QED
    BY <2>1, <2>2, <2>3, <2>4, <2>5
<1>3. \A i \in DOMAIN prompts' : Truly(prompts[i].outcome, prompts[i].run)'
  <2>1. CASE UNCHANGED prompts
    BY <1>a, <1>d, <2>1
  <2>2. CASE AcceptPrompt(r)
    <3> DEFINE p == [run |-> r, outcome |-> obs[r].outcome, turn |-> orch.updated]
    <3>1. prompts' = Append(prompts, p) /\ p.run = r /\ p.outcome = obs[r].outcome
      BY <2>2 DEF AcceptPrompt
    <3> HIDE DEF p
    <3>2. \A i \in DOMAIN prompts' :
            (i \in DOMAIN prompts /\ prompts'[i] = prompts[i]) \/ prompts'[i] = p
      BY <1>a, <3>1
    <3> SUFFICES ASSUME NEW i \in DOMAIN prompts'
                 PROVE  Truly(prompts[i].outcome, prompts[i].run)'
      OBVIOUS
    <3>3. CASE i \in DOMAIN prompts /\ prompts'[i] = prompts[i]
      BY <1>a, <1>d, <3>3
    <3>4. CASE prompts'[i] = p
      <4>1. Truly(obs[r].outcome, r) /\ UNCHANGED <<dpc, outcome>>
        BY <1>a, <1>b
      <4> QED
        BY <3>1, <3>4, <4>1 DEF Truly, Over
    <3> QED
      BY <3>2, <3>3, <3>4
  <2>3. UNCHANGED prompts \/ AcceptPrompt(r)
    BY DEF ObserverStep, Poll, Conclude, Gate, Deliver, Acknowledge, GiveUp, Retry
  <2> QED
    BY <2>1, <2>2, <2>3
<1> QED
  BY <1>a, <1>b, <1>1, <1>2, <1>3

\* Every step of the composition keeps the invariant.
LEMMA TruthStep ==
    ASSUME TruthInv, OneDispatch, [Next]_vars,
           LivenessAssumption, DispatcherAssumption, ObserverAssumption
    PROVE  TruthInv'
<1>a. /\ GateInv /\ run <= 1 /\ obs \in [Runs -> ObserverType]
      /\ \A i \in DOMAIN hb : TrulyTagged(hb[i].tag, run)
      /\ \A q \in Runs : TrulyTagged(obs[q].term.tag, q) /\ Truly(obs[q].outcome, q)
      /\ \A i \in DOMAIN prompts : Truly(prompts[i].outcome, prompts[i].run)
  BY DEF TruthInv, GateInv, ObserverTyped, ObserverTypeOK
<1>b. GateInv'
  BY <1>a, GateStep
\* A step that is one of the dispatcher's, the child's or the environment's and
\* leaves what the observers concluded alone.
<1>c. ASSUME DispatcherNext, UNCHANGED prompts,
             \A q \in Runs : obs'[q].term = obs[q].term /\ obs'[q].outcome = obs[q].outcome
      PROVE  TruthInv'
  <2>1. Settled /\ run' <= 1
    BY <1>c, StepSettles
  <2>2. \A i \in DOMAIN hb' : TrulyTagged(hb[i].tag, run)'
    BY <1>c, DispatchLinesTrue
  <2>3. \A o, q : (Truly(o, q) => Truly(o, q)') /\ (TrulyTagged(o, q) => TrulyTagged(o, q)')
    BY <2>1 DEF Settled, Truly, TrulyTagged
  <2>4. \A q \in Runs : (TrulyTagged(obs[q].term.tag, q) /\ Truly(obs[q].outcome, q))'
    BY <1>a, <1>c, <2>3
  <2>5. \A i \in DOMAIN prompts' : Truly(prompts[i].outcome, prompts[i].run)'
    BY <1>a, <1>c, <2>3
  <2> QED
    BY <1>b, <2>1, <2>2, <2>4, <2>5 DEF TruthInv
<1>1. CASE (DispatcherStep \/ ChildStep \/ ForeignRecord) /\ UNCHANGED ovars
  BY <1>1, <1>c DEF DispatcherNext, ovars
<1>2. CASE NameSession /\ SpawnObserver(run) /\ UNCHANGED <<orch, prompts>>
  <2>1. PICK url \in BOOLEAN :
          \/ Becomes(run, [obs[run] EXCEPT !.pc = "poll", !.url = url])
          \/ UNCHANGED obs
    BY <1>2 DEF SpawnObserver
  <2>2. run \in Runs
    BY <1>2, <1>a DEF NameSession, GateInv, ObserverTyped, DispatcherTyped, JudgedFirst
  <2>3. /\ [obs[run] EXCEPT !.pc = "poll", !.url = url].term = obs[run].term
        /\ [obs[run] EXCEPT !.pc = "poll", !.url = url].outcome = obs[run].outcome
    BY <1>a, <2>2 DEF ObserverType
  <2>4. \A q \in Runs : obs'[q].term = obs[q].term /\ obs'[q].outcome = obs[q].outcome
    BY <1>a, <2>1, <2>2, <2>3 DEF Becomes
  <2> QED
    BY <1>2, <1>c, <2>4 DEF DispatcherNext
<1>3. CASE \E r \in Runs : ObserverStep(r)
  BY <1>3, <1>b, TruthObserverStep DEF TruthInv
<1>4. CASE OrchestratorStep \/ UNCHANGED vars
  <2>1. UNCHANGED <<hb, run, dpc, outcome, obs, prompts>>
    BY <1>4 DEF OrchestratorStep, vars, ovars, dvars, filevars
  <2> QED
    BY <1>a, <1>b, <2>1 DEF TruthInv, Truly, TrulyTagged, Over
<1>5. CASE Tick
  <2>1. \A o \in ObserverType : Slept(o).term = o.term /\ Slept(o).outcome = o.outcome
    BY DEF Slept, ObserverType
  <2>2. \A q \in Runs : obs'[q].term = obs[q].term /\ obs'[q].outcome = obs[q].outcome
    BY <1>5, <1>a, <2>1 DEF Tick
  <2> QED
    BY <1>5, <1>c, <2>2 DEF Tick, DispatcherNext
<1> QED
  BY <1>1, <1>2, <1>3, <1>4, <1>5 DEF Next

\* The initial states are true.
LEMMA TruthInit ==
    ASSUME Init
    PROVE  TruthInv
<1>1. ObserverTyped
  BY ObserverTypeInit, LivenessAssumption, DispatcherAssumption, ObserverAssumption
<1>2. SpawnedOnce /\ NothingThrough /\ GateLineIsLast
  BY DEF Init, DispatcherInit, NoObserver, SpawnedOnce, NothingThrough,
         GateLineIsLast, PromptsOf
<1>3. \A r \in Runs : obs[r].term = NoLine /\ obs[r].outcome = "none"
  BY DEF Init, NoObserver
<1>4. \A r \in Runs : TrulyTagged(obs[r].term.tag, r) /\ Truly(obs[r].outcome, r)
  BY <1>3 DEF NoLine, Line, Truly, TrulyTagged
<1> QED
  BY <1>1, <1>2, <1>4 DEF TruthInv, GateInv, Init, DispatcherInit

\* A wake never announces a success that was not judged one, nor a failure of a
\* dispatch that succeeded or was not judged, whatever fails, is killed, is lost
\* or is logged by other dispatches in between, provided that the heartbeat file
\* serves one dispatch.
THEOREM WakeTellsTheTruth ==
    ASSUME OneDispatch
    PROVE  Spec => []WakeIsTrue
<1>1. Init => TruthInv
  BY TruthInit
<1>2. TruthInv /\ [Next]_vars => TruthInv'
  BY TruthStep, OneDispatch, LivenessAssumption, DispatcherAssumption, ObserverAssumption
<1>3. TruthInv => WakeIsTrue
  <2> SUFFICES ASSUME TruthInv, NEW i \in DOMAIN prompts
               PROVE  LET judged == outcome[prompts[i].run]
                      IN  /\ prompts[i].outcome = "success" => judged = "success"
                          /\ prompts[i].outcome \in {"failure", "error"} =>
                               judged \in {"failure", "error"}
    BY DEF WakeIsTrue
  <2> QED
    BY DEF TruthInv, Truly
<1> QED
  BY <1>1, <1>2, <1>3, PTL DEF Spec
---------------------------------------------------------------------------
(* The liveness window names an abort only of a dispatcher that died.      *)

\* A child that lives shows a sign of life within the window.
ChildSpeaks == "quietChild" \notin Faults

\* Once it began, a dispatch that has not ended is seen to be alive, it names
\* its session only when it runs, and no record of a run says that it stopped.
SignsInTime ==
    /\ child = "running" => session.live
    /\ dpc = "idle" => run = 0
    /\ dpc \in {"idle", "preflight", "resuming", "begun"} => ~session.named
    /\ dpc \in {"begun", "running", "judged", "reported"} =>
         Freshest(lineAge, session.age) <= Liveness
    /\ \A i \in DOMAIN runlog : runlog[i] \in Judged

\* A dispatch that an observer waits for ends with a terminal line, unless its
\* dispatcher dies.
AnsweredWhenOver ==
    /\ dpc = "reported" => HasEnded(run)
    /\ dpc = "exited" /\ obs[run].pc # "off" => HasEnded(run)

\* What a poll read of the current dispatch does not look like an abort.
ConcludesInTime ==
    \A r \in Runs : obs[r].pc = "conclude" /\ r = run /\ dpc # "crashed" =>
      \/ obs[r].term.tag \in TerminalTags
      \/ Freshest(obs[r].lineAge, session.age) <= Liveness

OffSaysNothing == \A r \in Runs : obs[r].pc = "off" => obs[r].outcome = "none"

AbortInv ==
    /\ GateInv /\ SignsInTime /\ AnsweredWhenOver
    /\ ConcludesInTime /\ OffSaysNothing /\ AbortMeansDispatcherDied

\* A file with a line of some tags has a first one.
LEMMA FirstLineTagged ==
    ASSUME NEW h \in Seq(LineType), NEW tags, NEW i \in DOMAIN h, h[i].tag \in tags
    PROVE  FirstLine(h, tags).tag \in tags
<1> DEFINE I == {j \in DOMAIN h : h[j].tag \in tags}
<1>1. I \subseteq Nat /\ I # {}
  OBVIOUS
<1>2. Min(I) \in I
  BY <1>1, MinOfNaturals
<1>3. FirstLine(h, tags) = h[Min(I)]
  BY <1>1, Zenon DEF FirstLine
<1> QED
  BY <1>2, <1>3

\* The latest record is the last one of the log, unless that is too old as well.
LEMMA LatestRecordIsLast ==
    ASSUME NEW S, NEW log \in Seq(S), NEW since \in Nat
    PROVE  LatestRecord(log, since) = IF Len(log) > since THEN log[Len(log)] ELSE "none"
<1> DEFINE I == {i \in DOMAIN log : i > since}
<1>1. DOMAIN log = 1 .. Len(log) /\ Len(log) \in Nat
  OBVIOUS
<1>2. CASE Len(log) > since
  <2>1. Len(log) \in I /\ \A j \in I : j <= Len(log)
    BY <1>1, <1>2
  <2>2. \A i \in I : (\A j \in I : j <= i) => i = Len(log)
    BY <1>1, <2>1
  <2> HIDE DEF I
  <2>3. (CHOOSE i \in I : \A j \in I : j <= i) = Len(log)
    BY <2>1, <2>2, Zenon
  <2>4. LatestRecord(log, since) = log[CHOOSE i \in I : \A j \in I : j <= i]
    BY <2>1, Zenon DEF LatestRecord, I
  <2> QED
    BY <1>2, <2>3, <2>4
<1>3. CASE ~(Len(log) > since)
  <2>1. I = {}
    BY <1>1, <1>3
  <2> QED
    BY <1>3, <2>1 DEF LatestRecord
<1> QED
  BY <1>2, <1>3

\* The dispatcher, the child and the environment keep the signs of life.
LEMMA SignsStep ==
    ASSUME DispatcherTyped, SignsInTime, DispatcherNext, ChildSpeaks,
           LivenessAssumption, DispatcherAssumption
    PROVE  SignsInTime'
<1> USE DEF SignsInTime
<1>a. /\ lineAge \in Ages /\ session \in SessionType /\ session.age \in Ages
      /\ runlog \in Seq(Judged \cup {"stopped"}) /\ Liveness \in Nat \ {0}
  BY LivenessAssumption
  DEF DispatcherTyped, DispatcherTypeOK, SessionType, LivenessAssumption
<1>b. \A a \in Ages : Freshest(0, a) <= Liveness /\ Freshest(a, 0) <= Liveness
  BY <1>a DEF Freshest, Ages, NoAge
\* A record that is logged is one of a judgement.
<1>c. ASSUME NEW x \in Judged, runlog' = Append(runlog, x)
      PROVE  \A i \in DOMAIN runlog' : runlog'[i] \in Judged
  <2>1. \A i \in DOMAIN runlog' : (i \in DOMAIN runlog /\ runlog'[i] = runlog[i]) \/ runlog'[i] = x
    BY <1>a, <1>c
  <2> QED
    BY <2>1
<1>1. CASE \E fresh \in BOOLEAN : Preflight(fresh)
  <2>1. /\ child' # "running" /\ ~session'.named /\ dpc' \in {"preflight", "resuming"}
        /\ UNCHANGED runlog
    BY <1>1, <1>a DEF Preflight, SessionType, NoSession
  <2> QED
    BY <2>1
<1>2. CASE Refuse \/ Uncaught \/ Crash
  BY <1>2 DEF Refuse, Uncaught, Crash, filevars
<1>3. CASE Begin
  <2>1. /\ UNCHANGED <<runlog, run, child, session>> /\ lineAge' = 0 /\ dpc' = "begun"
        /\ dpc \in {"preflight", "resuming"}
    BY <1>3 DEF Begin
  <2> QED
    BY <1>a, <1>b, <2>1
<1>4. CASE \E f \in LaunchFlags : Launch(f)
  <2>1. /\ UNCHANGED <<runlog, lineAge>> /\ dpc = "begun" /\ dpc' = "running"
        /\ session'.age = session.age /\ (child' = "running" => session'.live)
    BY <1>4, <1>a DEF Launch, SessionType, filevars
  <2> QED
    BY <2>1
<1>5. CASE TimeoutKill
  <2>1. /\ child' = "killed" /\ session'.age = session.age /\ session'.named = session.named
        /\ UNCHANGED <<runlog, run, lineAge, dpc>>
    BY <1>5, <1>a DEF TimeoutKill, SessionDies, SessionType, filevars
  <2> QED
    BY <2>1
<1>6. CASE Judge
  <2>1. session'.age = session.age
    BY <1>6, <1>a DEF Judge, InterruptSession, SessionType
  <2>2. child' # "running" /\ dpc = "running" /\ dpc' = "judged" /\ UNCHANGED <<runlog, lineAge>>
    BY <1>6 DEF Judge, filevars
  <2> QED
    BY <2>1, <2>2
<1>7. CASE Report
  BY <1>7, <1>a, <1>b DEF Report, WriteDispatchLine
<1>8. CASE Record
  <2>1. /\ dpc = "reported" /\ dpc' = "exited" /\ UNCHANGED <<child, session>>
        /\ (runlog' = Append(runlog, outcome[run]) \/ UNCHANGED runlog)
    BY <1>8 DEF Record
  <2>2. outcome[run] \in Judged
    BY <2>1 DEF DispatcherTyped, JudgedFirst
  <2> QED
    BY <1>c, <2>1, <2>2
<1>9. CASE NameSession
  <2>1. dpc = "running" /\ session'.age = session.age /\ session'.live = session.live
        /\ UNCHANGED <<runlog, run, lineAge, dpc, child>>
    BY <1>9, <1>a DEF NameSession, SessionType, filevars
  <2> QED
    BY <2>1
<1>10. CASE SessionPart
  <2>1. session'.age = 0 /\ session'.live = session.live /\ session'.named = session.named
        /\ UNCHANGED <<runlog, run, lineAge, dpc, child>>
    BY <1>10, <1>a DEF SessionPart, SessionType, filevars
  <2> QED
    BY <1>a, <1>b, <2>1
<1>11. CASE ChildLine
  BY <1>11, <1>a, <1>b DEF ChildLine, WriteDispatchLine
<1>12. CASE ChildExit \/ SessionEnds
  <2>1. child' # "running" /\ session'.age = session.age /\ session'.named = session.named
        /\ UNCHANGED <<runlog, run, lineAge, dpc>>
    BY <1>12, <1>a DEF ChildExit, SessionEnds, SessionDies, SessionType, filevars
  <2> QED
    BY <2>1
<1>13. CASE ForeignRecord
  BY <1>13, <1>c DEF ForeignRecord, Judged
<1>14. CASE DispatcherTick
  <2>1. /\ UNCHANGED <<runlog, run, dpc, child>> /\ dpc \notin Busy
        /\ dpc = "running" => session.live
        /\ session'.live = session.live /\ session'.named = session.named
        /\ session'.age = Aged(session.age) /\ lineAge' = Aged(lineAge)
        /\ session.live => Freshest(lineAge, session.age) < Liveness
    BY <1>14, <1>a DEF DispatcherTick, SessionType, ChildSpeaks
  <2>2. ASSUME Freshest(lineAge, session.age) < Liveness
        PROVE  Freshest(lineAge', session'.age) <= Liveness
    BY <1>a, <2>1, <2>2 DEF Freshest, Aged, Ages, NoAge
  <2> QED
    BY <2>1, <2>2 DEF Busy
<1> QED
  BY <1>1, <1>2, <1>3, <1>4, <1>5, <1>6, <1>7, <1>8, <1>9, <1>10, <1>11, <1>12, <1>13, <1>14
  DEF DispatcherNext, DispatcherStep, ChildStep

\* A terminal line stays where other lines are appended.
LEMMA EndStays ==
    ASSUME hb \in Seq(LineType), NEW r, HasEnded(r), UNCHANGED hb \/ \E l : WriteLine(l)
    PROVE  \E i \in DOMAIN hb' : IsTerminal(hb'[i]) /\ hb'[i].run = r
<1>1. PICK i \in DOMAIN hb : IsTerminal(hb[i]) /\ hb[i].run = r
  BY DEF HasEnded
<1>2. i \in DOMAIN hb' /\ hb'[i] = hb[i]
  BY DEF WriteLine
<1> QED
  BY <1>1, <1>2

\* A step in which no time passes.
NoTick == DispatcherStep \/ ChildStep \/ NameSession \/ ForeignRecord

\* How the current dispatch moves on: a new one begins, or the old one comes
\* nearer to its end, and its session only ages with the time.
LEMMA DispatchMoves ==
    ASSUME DispatcherTyped, SignsInTime, DispatcherNext,
           LivenessAssumption, DispatcherAssumption
    PROVE  \/ run' = run + 1 /\ dpc' \in {"preflight", "resuming"}
           \/ /\ UNCHANGED run
              /\ dpc = "crashed" => dpc' = "crashed"
              /\ dpc' = "exited" => dpc \in {"preflight", "resuming", "reported", "exited"}
              /\ dpc' \in {"reported", "exited"} /\ dpc = dpc' /\ HasEnded(run) => HasEnded(run)'
              /\ dpc' = "exited" /\ dpc = "reported" /\ HasEnded(run) => HasEnded(run)'
              /\ dpc' = "reported" /\ dpc # "reported" => HasEnded(run)'
              /\ NoTick => session'.age \in {session.age, 0}
<1>a. /\ session \in SessionType /\ hb \in Seq(LineType) /\ run \in Nat
  BY DispatcherAssumption DEF DispatcherTyped, DispatcherTypeOK, DispatcherAssumption
<1>b. ASSUME UNCHANGED run, HasEnded(run), UNCHANGED hb \/ \E l : WriteLine(l)
      PROVE  HasEnded(run)'
  BY <1>a, <1>b, EndStays DEF HasEnded
<1>c. ASSUME NoTick, UNCHANGED run
      PROVE  session'.age \in {session.age, 0}
  <2>1. CASE Refuse \/ Begin \/ Report \/ Record \/ Uncaught \/ Crash
    BY <2>1 DEF Refuse, Begin, Report, Record, Uncaught, Crash
  <2>2. CASE TimeoutKill \/ Judge \/ (\E f \in LaunchFlags : Launch(f))
    BY <2>2, <1>a DEF TimeoutKill, Judge, Launch, SessionDies, InterruptSession, SessionType
  <2>3. CASE ChildStep \/ NameSession \/ ForeignRecord
    BY <2>3, <1>a DEF ChildStep, SessionPart, ChildLine, ChildExit, SessionEnds, NameSession,
                      ForeignRecord, SessionDies, SessionType
  <2>4. CASE \E fresh \in BOOLEAN : Preflight(fresh)
    BY <1>a, <1>c, <2>4 DEF Preflight
  <2> QED
    BY <1>c, <2>1, <2>2, <2>3, <2>4 DEF NoTick, DispatcherStep
<1>1. CASE \E fresh \in BOOLEAN : Preflight(fresh)
  BY <1>1 DEF Preflight
<1>2. CASE Refuse \/ Begin \/ Record \/ Uncaught \/ Crash
  BY <1>2, <1>b, <1>c DEF Refuse, Begin, Record, Uncaught, Crash, filevars, Ended
<1>3. CASE Report
  <2> DEFINE l == Line(TerminalTag(outcome[run]), run)
  <2>1. IsTerminal(l) /\ l.run = run
    BY DEF IsTerminal, Line, TerminalTag, TerminalTags
  <2>2. hb' = Append(hb, l) /\ UNCHANGED <<run, session>> /\ dpc = "judged" /\ dpc' = "reported"
    BY <1>3 DEF Report, WriteDispatchLine, WriteLine
  <2> HIDE DEF l
  <2>3. Len(hb) + 1 \in DOMAIN hb' /\ hb'[Len(hb) + 1] = l
    BY <1>a, <2>2
  <2>4. HasEnded(run)'
    BY <2>1, <2>2, <2>3 DEF HasEnded
  <2> QED
    BY <2>2, <2>4
<1>4. CASE TimeoutKill \/ Judge \/ (\E f \in LaunchFlags : Launch(f))
  <2>1. /\ dpc' \in {"running", "judged"} /\ dpc \in {"begun", "running"}
        /\ UNCHANGED run
    BY <1>4 DEF TimeoutKill, Judge, Launch
  <2> QED
    BY <1>c, <2>1
<1>5. CASE SessionPart \/ ChildExit \/ SessionEnds \/ NameSession \/ ForeignRecord
           \/ DispatcherTick
  <2>1. UNCHANGED <<run, dpc, hb>>
    BY <1>5 DEF SessionPart, ChildExit, SessionEnds, NameSession, ForeignRecord,
                DispatcherTick, filevars
  <2> QED
    BY <1>b, <1>c, <2>1
<1>6. CASE ChildLine
  <2>1. UNCHANGED <<run, dpc, session>> /\ \E l : WriteLine(l)
    BY <1>6 DEF ChildLine, WriteDispatchLine
  <2> QED
    BY <1>b, <1>c, <2>1
<1> QED
  BY <1>1, <1>2, <1>3, <1>4, <1>5, <1>6 DEF DispatcherNext, DispatcherStep, ChildStep

\* A step of the dispatcher, the child, the environment or time: observers only
\* appear, sleep and wake.
LEMMA AbortDispatchStep ==
    ASSUME AbortInv, DispatcherNext, ChildSpeaks,
           \A r \in Runs : /\ obs'[r].outcome = obs[r].outcome
                           /\ obs'[r].pc = "off" => obs[r].pc = "off"
                           /\ obs[r].pc = "off" => obs'[r].pc = "off" \/ dpc' = "running"
                           /\ obs'[r].pc = "conclude" =>
                                obs[r].pc = "conclude" /\ obs'[r] = obs[r] /\ NoTick,
           LivenessAssumption, DispatcherAssumption
    PROVE  (SignsInTime /\ AnsweredWhenOver /\ ConcludesInTime /\ OffSaysNothing
             /\ AbortMeansDispatcherDied)'
<1>a. /\ DispatcherTyped /\ SignsInTime /\ AnsweredWhenOver /\ ConcludesInTime
      /\ OffSaysNothing /\ AbortMeansDispatcherDied /\ SpawnedOnce
      /\ obs \in [Runs -> ObserverType] /\ run \in 0 .. MaxRuns
      /\ Liveness \in Nat \ {0} /\ JudgedFirst
  BY LivenessAssumption
  DEF AbortInv, GateInv, ObserverTyped, ObserverTypeOK, DispatcherTyped, DispatcherTypeOK,
      LivenessAssumption
<1>b. run \in Nat /\ Runs \subseteq Nat \ {0}
  BY <1>a, DispatcherAssumption DEF DispatcherAssumption, Runs
<1>1. SignsInTime'
  BY <1>a, SignsStep
<1>2. OffSaysNothing'
  BY <1>a DEF OffSaysNothing
<1>3. \A r \in Runs : r > run => obs[r].pc = "off" /\ obs[r].outcome = "none"
  BY <1>a DEF SpawnedOnce, OffSaysNothing
<1>4. CASE run' = run + 1 /\ dpc' \in {"preflight", "resuming"}
  <2>1. AnsweredWhenOver'
    BY <1>4 DEF AnsweredWhenOver
  <2>2. ConcludesInTime'
    BY <1>3, <1>4, <1>b DEF ConcludesInTime
  <2>3. AbortMeansDispatcherDied'
    <3> SUFFICES ASSUME NEW r \in Runs, obs'[r].outcome = "aborted"
                 PROVE  run' > r
      BY DEF AbortMeansDispatcherDied
    <3>1. obs[r].outcome = "aborted" /\ r \in Nat
      BY <1>b
    <3>2. ~(r > run)
      BY <1>3, <3>1
    <3> QED
      BY <1>4, <1>b, <3>1, <3>2
  <2> QED
    BY <1>1, <1>2, <2>1, <2>2, <2>3
<1>5. CASE /\ UNCHANGED run
           /\ dpc = "crashed" => dpc' = "crashed"
           /\ dpc' = "exited" => dpc \in {"preflight", "resuming", "reported", "exited"}
           /\ dpc' \in {"reported", "exited"} /\ dpc = dpc' /\ HasEnded(run) => HasEnded(run)'
           /\ dpc' = "exited" /\ dpc = "reported" /\ HasEnded(run) => HasEnded(run)'
           /\ dpc' = "reported" /\ dpc # "reported" => HasEnded(run)'
           /\ NoTick => session'.age \in {session.age, 0}
  <2>1. AnsweredWhenOver'
    <3>1. dpc' = "reported" => HasEnded(run)'
      BY <1>5, <1>a DEF AnsweredWhenOver
    <3>2. ASSUME dpc' = "exited", obs'[run'].pc # "off" PROVE HasEnded(run)'
      <4>0. run \in Runs
        BY <1>5, <1>a, <3>2 DEF JudgedFirst
      <4>1. obs[run].pc # "off"
        BY <1>5, <3>2, <4>0
      <4>2. dpc \notin {"preflight", "resuming"}
        BY <1>a, <4>0, <4>1 DEF SignsInTime, SpawnedOnce
      <4> QED
        BY <1>5, <1>a, <3>2, <4>1, <4>2 DEF AnsweredWhenOver
    <3> QED
      BY <3>1, <3>2 DEF AnsweredWhenOver
  <2>2. ConcludesInTime'
    <3> SUFFICES ASSUME NEW r \in Runs, obs'[r].pc = "conclude", r = run', dpc' # "crashed"
                 PROVE  \/ obs'[r].term.tag \in TerminalTags
                        \/ Freshest(obs'[r].lineAge, session'.age) <= Liveness
      BY DEF ConcludesInTime
    <3>1. /\ obs[r].pc = "conclude" /\ obs'[r] = obs[r] /\ dpc # "crashed" /\ r = run
          /\ session'.age \in {session.age, 0}
      BY <1>5
    <3>2. obs[r].lineAge \in Ages
      BY <1>a DEF ObserverType
    <3>3. Freshest(obs[r].lineAge, 0) <= Liveness
      BY <1>a, <3>2 DEF Freshest, Ages, NoAge
    <3> QED
      BY <1>a, <3>1, <3>3 DEF ConcludesInTime
  <2>3. AbortMeansDispatcherDied'
    BY <1>5, <1>a DEF AbortMeansDispatcherDied
  <2> QED
    BY <1>1, <1>2, <2>1, <2>2, <2>3
<1> QED
  BY <1>4, <1>5, <1>a, DispatchMoves

\* A step of one observer: what it reads does not look like an abort, and what
\* does not look like one is not concluded to be one.
LEMMA AbortObserverStep ==
    ASSUME AbortInv, NEW r \in Runs, ObserverStep(r),
           LivenessAssumption, DispatcherAssumption
    PROVE  (SignsInTime /\ AnsweredWhenOver /\ ConcludesInTime /\ OffSaysNothing
             /\ AbortMeansDispatcherDied)'
<1>a. /\ SignsInTime /\ AnsweredWhenOver /\ ConcludesInTime
      /\ OffSaysNothing /\ AbortMeansDispatcherDied /\ SpawnedOnce
      /\ obs \in [Runs -> ObserverType] /\ run \in 0 .. MaxRuns /\ hb \in Seq(LineType)
      /\ dpc \in Ended \cup Busy \cup {"running"}
      /\ runlog \in Seq(Judged \cup {"stopped"}) /\ obs[r].since \in Nat
      /\ lineAge \in Ages /\ session.age \in Ages
  BY DEF AbortInv, GateInv, ObserverTyped, ObserverTypeOK, DispatcherTyped, DispatcherTypeOK,
         ObserverType, SessionType
<1>b. run \in Nat /\ Runs \subseteq Nat \ {0} /\ Liveness \in Nat
  BY <1>a, LivenessAssumption, DispatcherAssumption
  DEF DispatcherAssumption, LivenessAssumption, Runs
<1>c. /\ UNCHANGED <<lineAge, runlog, run, dpc, outcome, child, session>>
      /\ obs[r].pc \notin {"off", "done"}
      /\ UNCHANGED hb \/ \E l : WriteLine(l)
  BY DEF ObserverStep, Poll, Conclude, Gate, Deliver, Acknowledge, GiveUp, Retry, At,
         dvars, filevars
<1>d. r <= run /\ (r = run => dpc \in {"running", "judged", "reported", "exited", "crashed"})
  BY <1>a, <1>b, <1>c DEF SpawnedOnce, SignsInTime, Ended, Busy
<1>1. SignsInTime'
  BY <1>a, <1>c DEF SignsInTime
\* What the observer concludes is not an abort, unless its dispatcher died.
<1>2. obs[r].pc = "conclude" /\ Classification(r) = "aborted" => run > r \/ dpc = "crashed"
  <2> SUFFICES ASSUME obs[r].pc = "conclude", r = run, dpc # "crashed"
               PROVE  Classification(r) # "aborted"
    BY <1>b, <1>d
  <2>1. LatestRecord(runlog, obs[r].since) # "stopped"
    <3>1. LatestRecord(runlog, obs[r].since)
            = IF Len(runlog) > obs[r].since THEN runlog[Len(runlog)] ELSE "none"
      BY <1>a, LatestRecordIsLast
    <3>2. Len(runlog) > obs[r].since => Len(runlog) \in DOMAIN runlog
      BY <1>a
    <3> QED
      BY <1>a, <3>1, <3>2 DEF SignsInTime, Judged
  <2>2. CASE obs[r].term.tag \in TerminalTags
    BY <2>1, <2>2 DEF Classification, Classify, BlockedOutcome, TerminalTags
  <2>3. CASE Freshest(obs[r].lineAge, session.age) <= Liveness
    <3>1. obs[r].lineAge \in Ages
      BY <1>a DEF ObserverType
    <3>2. Freshest(obs[r].lineAge, session.age) \in Int
      BY <1>a, <1>b, <3>1 DEF Freshest, Ages, NoAge
    <3> DEFINE f == Freshest(obs[r].lineAge, session.age)
    <3>3. ~(f > Liveness)
      BY <1>b, <2>3, <3>2
    <3> HIDE DEF f
    <3> QED
      BY <2>1, <3>3 DEF Classification, Classify, BlockedOutcome, f
  <2> QED
    BY <1>a, <2>2, <2>3 DEF ConcludesInTime
\* What it reads does not look like one.
<1>3. ASSUME Poll(r), r = run, dpc # "crashed"
      PROVE  TerminalLine(hb).tag \in TerminalTags \/ Freshest(lineAge, session.age) <= Liveness
  <2>1. CASE dpc \in {"running", "judged", "reported"}
    BY <1>a, <2>1 DEF SignsInTime
  <2>2. CASE dpc = "exited"
    <3>1. HasEnded(run)
      BY <1>a, <1>c, <1>3, <2>2 DEF AnsweredWhenOver
    <3>2. PICK i \in DOMAIN hb : hb[i].tag \in TerminalTags
      BY <3>1 DEF HasEnded, IsTerminal
    <3> QED
      BY <1>a, <3>2, FirstLineTagged DEF TerminalLine
  <2> QED
    BY <1>d, <1>3, <2>1, <2>2
\* What it becomes.
<1>4. /\ Others(r) /\ obs'[r].pc # "off"
      /\ obs'[r].outcome = "aborted" => obs[r].outcome = "aborted"
                                        \/ (obs[r].pc = "conclude" /\ Classification(r) = "aborted")
      /\ obs'[r].pc = "conclude" => /\ Poll(r) /\ obs'[r].term = TerminalLine(hb)
                                    /\ obs'[r].lineAge = lineAge
  <2>1. CASE Poll(r)
    BY <1>a, <2>1, PollFields
  <2>2. CASE Conclude(r)
    BY <1>a, <2>2, ConcludeFields
  <2>3. CASE Gate(r)
    BY <1>a, <2>3, GateFields DEF Carried
  <2>4. CASE Deliver(r)
    BY <1>a, <2>4, DeliverFields DEF Carried
  <2>5. CASE Acknowledge(r) \/ GiveUp(r)
    BY <1>a, <2>5, ExitFields
  <2>6. CASE Retry(r)
    BY <1>a, <2>6, RetryFields DEF Carried
  <2> QED
    BY <2>1, <2>2, <2>3, <2>4, <2>5, <2>6 DEF ObserverStep
<1>5. OffSaysNothing'
  BY <1>a, <1>4 DEF OffSaysNothing, Others
<1>6. AnsweredWhenOver'
  <2>1. HasEnded(run) => HasEnded(run)'
    BY <1>a, <1>c, EndStays DEF HasEnded
  <2>2. dpc = "exited" => run \in Runs
    BY DEF AbortInv, GateInv, ObserverTyped, DispatcherTyped, JudgedFirst
  <2>3. run \in Runs => (obs'[run].pc # "off" => obs[run].pc # "off")
    BY <1>4, <1>c DEF Others
  <2> QED
    BY <1>a, <1>c, <2>1, <2>2, <2>3 DEF AnsweredWhenOver
<1>7. AbortMeansDispatcherDied'
  BY <1>a, <1>c, <1>2, <1>4 DEF AbortMeansDispatcherDied, Others
<1>8. ConcludesInTime'
  BY <1>a, <1>c, <1>3, <1>4 DEF ConcludesInTime, Others
<1> QED
  BY <1>1, <1>5, <1>6, <1>7, <1>8

\* Every step of the composition keeps the invariant.
LEMMA AbortStep ==
    ASSUME AbortInv, [Next]_vars, ChildSpeaks,
           LivenessAssumption, DispatcherAssumption, ObserverAssumption
    PROVE  AbortInv'
<1>a. /\ GateInv /\ obs \in [Runs -> ObserverType] /\ DispatcherTyped /\ SpawnedOnce
  BY DEF AbortInv, GateInv, ObserverTyped, ObserverTypeOK
<1>b. GateInv'
  BY <1>a, GateStep
<1> SUFFICES (SignsInTime /\ AnsweredWhenOver /\ ConcludesInTime /\ OffSaysNothing
               /\ AbortMeansDispatcherDied)'
  BY <1>b DEF AbortInv
<1>1. CASE (DispatcherStep \/ ChildStep \/ ForeignRecord) /\ UNCHANGED ovars
  <2>1. DispatcherNext /\ NoTick /\ UNCHANGED obs
    BY <1>1 DEF DispatcherNext, NoTick, ovars
  <2> QED
    BY <2>1, AbortDispatchStep
<1>2. CASE NameSession /\ SpawnObserver(run) /\ UNCHANGED <<orch, prompts>>
  <2>1. DispatcherNext /\ NoTick /\ dpc = "running" /\ dpc' = "running" /\ ~session.named
    BY <1>2 DEF DispatcherNext, NoTick, NameSession
  <2>2. run \in Runs
    BY <1>a, <2>1 DEF DispatcherTyped, JudgedFirst
  <2>3. obs[run].pc = "off"
    BY <1>a, <2>1, <2>2 DEF SpawnedOnce
  <2> QED
    BY <1>2, <1>a, <2>1, <2>2, <2>3, SpawnFields, AbortDispatchStep DEF Others
<1>3. CASE \E r \in Runs : ObserverStep(r)
  BY <1>3, AbortObserverStep
<1>4. CASE OrchestratorStep \/ UNCHANGED vars
  BY <1>4
  DEF OrchestratorStep, vars, ovars, dvars, filevars, AbortInv, SignsInTime, AnsweredWhenOver,
      HasEnded, ConcludesInTime, OffSaysNothing, AbortMeansDispatcherDied
<1>5. CASE Tick
  <2>1. DispatcherNext
    BY <1>5 DEF Tick, DispatcherNext
  <2> QED
    BY <1>5, <1>a, <2>1, TickFields, AbortDispatchStep DEF Finished
<1> QED
  BY <1>1, <1>2, <1>3, <1>4, <1>5 DEF Next

\* Nothing looks like an abort before anything has begun.
LEMMA AbortInit ==
    ASSUME Init
    PROVE  AbortInv
<1>1. ObserverTyped
  BY ObserverTypeInit, LivenessAssumption, DispatcherAssumption, ObserverAssumption
<1>2. SpawnedOnce /\ NothingThrough /\ GateLineIsLast
  BY DEF Init, DispatcherInit, NoObserver, SpawnedOnce, NothingThrough,
         GateLineIsLast, PromptsOf
<1>3. /\ SignsInTime /\ AnsweredWhenOver /\ ConcludesInTime /\ OffSaysNothing
      /\ AbortMeansDispatcherDied
  BY DEF Init, DispatcherInit, NoObserver, NoSession, SignsInTime, AnsweredWhenOver,
         ConcludesInTime, OffSaysNothing, AbortMeansDispatcherDied
<1> QED
  BY <1>1, <1>2, <1>3 DEF GateInv, AbortInv

\* For any number of dispatches over one file, fresh or resumed, and any other
\* faults: an observer concludes that a dispatch was aborted only when its
\* dispatcher died without a terminal line, or another dispatch has begun since,
\* provided that a child that lives shows a sign of life within the window.
THEOREM AbortIsDeserved ==
    ASSUME ChildSpeaks
    PROVE  Spec => []AbortMeansDispatcherDied
<1>1. Init => AbortInv
  BY AbortInit
<1>2. AbortInv /\ [Next]_vars => AbortInv'
  BY AbortStep, ChildSpeaks, LivenessAssumption, DispatcherAssumption, ObserverAssumption
<1>3. AbortInv => AbortMeansDispatcherDied
  BY DEF AbortInv
<1> QED
  BY <1>1, <1>2, <1>3, PTL DEF Spec
---------------------------------------------------------------------------
(* A failed contract is told from an error.                                *)

\* The record of a dispatch is written, and it is the only one of its agent.
RecordsAreKept == "environment" \notin Faults /\ "foreignRecord" \notin Faults

\* The dispatch is over and its record written, or its dispatcher is dead.
Closed == dpc \in {"exited", "crashed"}

\* To announce o of dispatch r tells a failure from an error.
Precisely(o, r) == o \in {"failure", "error"} /\ dpc # "crashed" => o = outcome[r]

RecordFollows ==
    IF dpc = "exited" THEN runlog = <<outcome[run]>> ELSE runlog = <<>>

\* No record is too old for a dispatch that begins the file.
NothingIsOlder ==
    /\ \A i \in DOMAIN hb : hb[i].tag = "START" => hb[i].at = 0
    /\ \A r \in Runs : obs[r].since = 0

\* An observer that has looked at the orchestrator did so when its dispatch was
\* over, and since it slept the record has been written.
LookedWhenOver ==
    \A r \in Runs : obs[r].seen # NoUpdate =>
      /\ Over
      /\ obs[r].pc \notin {"late", "sleep"} => Closed

\* Who is let through has looked before, and concluded again since.
PassedTwice ==
    \A r \in Runs :
      /\ obs[r].pc \in {"deliver", "acknowledge"} => obs[r].seen # NoUpdate
      /\ obs[r].seen # NoUpdate /\ obs[r].pc \in {"gate", "deliver", "acknowledge"} =>
           Precisely(obs[r].outcome, r)

NamedInv ==
    /\ TruthInv /\ AbortInv
    /\ RecordFollows /\ NothingIsOlder /\ LookedWhenOver /\ PassedTwice /\ ErrorIsNamed

NamedParts == RecordFollows /\ NothingIsOlder /\ LookedWhenOver /\ PassedTwice /\ ErrorIsNamed

\* With one dispatch, one that is closed stays as it is, and the record is
\* written by the step that closes it.
LEMMA ClosedStands ==
    ASSUME TruthInv, RecordFollows, OneDispatch, RecordsAreKept, DispatcherNext
    PROVE  /\ Closed => dpc' = dpc
           /\ RecordFollows'
<1>a. /\ run \in Nat /\ Redispatch = {} /\ runlog \in Seq(Judged \cup {"stopped"})
      /\ dpc # "idle" => run # 0 /\ run \in Runs
  BY DispatcherAssumption
  DEF TruthInv, GateInv, ObserverTyped, DispatcherTyped, DispatcherTypeOK, JudgedFirst,
      Runs, OneDispatch, DispatcherAssumption
<1>1. CASE \E fresh \in BOOLEAN : Preflight(fresh)
  <2>1. /\ run = 0 /\ dpc' \in {"preflight", "resuming"} /\ UNCHANGED runlog
        /\ dpc \in Ended
    BY <1>1, <1>a DEF Preflight
  <2> QED
    BY <1>a, <2>1 DEF RecordFollows, Closed, Ended
<1>2. CASE Record
  <2>1. /\ dpc = "reported" /\ dpc' = "exited" /\ UNCHANGED <<run, outcome>>
        /\ runlog' = Append(runlog, outcome[run])
    BY <1>2 DEF Record, RecordsAreKept
  <2> QED
    BY <2>1 DEF RecordFollows, Closed
<1>3. CASE Judge
  <2>1. dpc = "running" /\ dpc' = "judged" /\ UNCHANGED runlog
    BY <1>3 DEF Judge, filevars
  <2> QED
    BY <2>1 DEF RecordFollows, Closed
<1>4. CASE Begin \/ TimeoutKill \/ Report \/ Uncaught \/ Crash \/ \E f \in LaunchFlags : Launch(f)
  <2>1. /\ dpc \notin Ended /\ dpc' # "exited" /\ UNCHANGED runlog
    BY <1>4 DEF Begin, TimeoutKill, Report, Uncaught, Crash, Launch, filevars, Ended
  <2> QED
    BY <2>1 DEF RecordFollows, Closed, Ended
<1>5. CASE ChildStep \/ NameSession \/ DispatcherTick
  <2>1. UNCHANGED <<dpc, runlog, run, outcome>>
    BY <1>5 DEF ChildStep, SessionPart, ChildLine, ChildExit, SessionEnds, NameSession,
                DispatcherTick, filevars
  <2> QED
    BY <2>1 DEF RecordFollows
<1>6. ~Refuse /\ ~ForeignRecord
  BY DEF Refuse, ForeignRecord, RecordsAreKept
<1> QED
  BY <1>1, <1>2, <1>3, <1>4, <1>5, <1>6 DEF DispatcherNext, DispatcherStep

\* A step of the dispatcher, the child, the environment or time.
LEMMA NamedDispatchStep ==
    ASSUME NamedInv, OneDispatch, RecordsAreKept, DispatcherNext, UNCHANGED prompts,
           \A r \in Runs :
             /\ obs'[r].outcome = obs[r].outcome /\ obs'[r].seen = obs[r].seen
             /\ obs'[r].since = obs[r].since
             /\ \/ obs'[r].pc = obs[r].pc
                \/ obs[r].pc = "off" /\ obs'[r].pc = "poll"
                \/ dpc \notin Busy /\ obs[r].pc = "sleep" /\ obs'[r].pc = "poll",
           LivenessAssumption, DispatcherAssumption
    PROVE  NamedParts'
<1>a. /\ TruthInv /\ RecordFollows /\ NothingIsOlder /\ LookedWhenOver /\ PassedTwice
      /\ ErrorIsNamed /\ DispatcherTyped /\ hb \in Seq(LineType)
  BY DEF NamedInv, TruthInv, GateInv, ObserverTyped, DispatcherTyped, DispatcherTypeOK
<1>1. /\ Settled
      /\ Closed => dpc' = dpc
      /\ RecordFollows'
  BY <1>a, StepSettles, ClosedStands
<1>2. NothingIsOlder'
  <2>1. CASE UNCHANGED hb \/ hb' = <<>>
    BY <1>a, <2>1 DEF NothingIsOlder
  <2>2. ASSUME NEW l \in LineType, WriteLine(l) \/ hb' = Append(<<>>, l),
               l.tag = "START" => Begin /\ l.at = Len(runlog)
        PROVE  NothingIsOlder'
    <3>1. l.tag = "START" => l.at = 0
      BY <1>a, <2>2 DEF Begin, RecordFollows
    <3>2. \A i \in DOMAIN hb' : (i \in DOMAIN hb /\ hb'[i] = hb[i]) \/ hb'[i] = l
      <4>1. CASE WriteLine(l)
        BY <1>a, <4>1 DEF WriteLine
      <4>2. CASE hb' = Append(<<>>, l)
        BY <4>2
      <4> QED
        BY <2>2, <4>1, <4>2
    <3> QED
      BY <1>a, <3>1, <3>2 DEF NothingIsOlder
  <2> QED
    BY <1>a, <2>1, <2>2, DispatchLines
<1>3. LookedWhenOver'
  <2> SUFFICES ASSUME NEW r \in Runs, obs'[r].seen # NoUpdate
               PROVE  Over' /\ (obs'[r].pc \notin {"late", "sleep"} => Closed')
    BY DEF LookedWhenOver
  <2>1. Over /\ Over' /\ (obs[r].pc \notin {"late", "sleep"} => Closed)
    BY <1>a, <1>1 DEF LookedWhenOver, Settled
  <2>2. obs'[r].pc \notin {"late", "sleep"} => Closed
    BY <2>1 DEF Over, Closed, Busy
  <2> QED
    BY <1>1, <2>1, <2>2 DEF Closed
<1>4. PassedTwice'
  <2> SUFFICES ASSUME NEW r \in Runs
               PROVE  /\ obs'[r].pc \in {"deliver", "acknowledge"} => obs'[r].seen # NoUpdate
                      /\ obs'[r].seen # NoUpdate
                           /\ obs'[r].pc \in {"gate", "deliver", "acknowledge"}
                           /\ obs'[r].outcome \in {"failure", "error"} /\ dpc' # "crashed"
                         => obs'[r].outcome = outcome'[r]
    BY DEF PassedTwice, Precisely
  <2>1. obs[r].seen # NoUpdate => Over /\ UNCHANGED outcome /\ (dpc = "crashed" => dpc' = "crashed")
    BY <1>a, <1>1 DEF LookedWhenOver, Settled, Closed
  <2> QED
    BY <1>a, <2>1 DEF PassedTwice, Precisely
<1>5. ErrorIsNamed'
  <2> SUFFICES ASSUME NEW i \in DOMAIN prompts,
                      prompts[i].outcome \in {"failure", "error"}, dpc' # "crashed"
               PROVE  prompts[i].outcome = outcome'[prompts[i].run]
    BY DEF ErrorIsNamed
  <2>1. Truly(prompts[i].outcome, prompts[i].run)
    BY <1>a DEF TruthInv
  <2>2. UNCHANGED outcome /\ dpc # "crashed"
    BY <1>1, <2>1 DEF Truly, Settled, Closed
  <2> QED
    BY <1>a, <2>2 DEF ErrorIsNamed
<1> QED
  BY <1>1, <1>2, <1>3, <1>4, <1>5 DEF NamedParts

\* With the record written, a conclusion tells a failure from an error.
LEMMA ConcludesPrecisely ==
    ASSUME NamedInv, NEW r \in Runs, obs[r].pc = "conclude", Closed
    PROVE  Precisely(Classification(r), r)
<1> SUFFICES ASSUME dpc = "exited", Classification(r) \in {"failure", "error"}
             PROVE  Classification(r) = outcome[r]
  BY DEF Precisely, Closed
<1>a. /\ RecordFollows /\ NothingIsOlder /\ TrulyTagged(obs[r].term.tag, r)
      /\ run \in Nat /\ run <= 1 /\ SpawnedOnce /\ r \in Nat \ {0}
      /\ runlog \in Seq(Judged \cup {"stopped"})
  BY DispatcherAssumption
  DEF NamedInv, TruthInv, GateInv, ObserverTyped, DispatcherTyped, DispatcherTypeOK,
      DispatcherAssumption, Runs
<1>1. r = run
  BY <1>a DEF SpawnedOnce
<1>2. runlog = <<outcome[r]>> /\ obs[r].since = 0
  BY <1>a, <1>1 DEF RecordFollows, NothingIsOlder
<1>3. LatestRecord(runlog, 0) = outcome[r]
  <2>1. Len(runlog) = 1 /\ runlog[1] = outcome[r]
    BY <1>2
  <2>2. LatestRecord(runlog, 0) = IF Len(runlog) > 0 THEN runlog[Len(runlog)] ELSE "none"
    BY <1>a, LatestRecordIsLast
  <2> QED
    BY <2>1, <2>2
<1>4. obs[r].term.tag = "BLOCKED" /\ outcome[r] \in {"failure", "error"}
  BY <1>a DEF Classification, Classify, TerminalTags, TrulyTagged, Truly
<1> QED
  BY <1>2, <1>3, <1>4 DEF Classification, Classify, BlockedOutcome

\* A step of one observer.
LEMMA NamedObserverStep ==
    ASSUME NamedInv, StoreIsRead, NEW r \in Runs, ObserverStep(r),
           LivenessAssumption, DispatcherAssumption
    PROVE  NamedParts'
<1>a. /\ TruthInv /\ RecordFollows /\ NothingIsOlder /\ LookedWhenOver /\ PassedTwice
      /\ ErrorIsNamed /\ hb \in Seq(LineType) /\ obs \in [Runs -> ObserverType]
      /\ orch.updated \in Nat /\ prompts \in Seq(PromptType)
      /\ AbortMeansDispatcherDied /\ ConcludedFirst /\ run \in Nat /\ run <= 1
      /\ Truly(obs[r].outcome, r) /\ r \in Nat \ {0}
  BY DispatcherAssumption
  DEF NamedInv, TruthInv, AbortInv, GateInv, ObserverTyped, ObserverTypeOK, OrchestratorType,
      DispatcherTyped, DispatcherTypeOK, DispatcherAssumption, Runs
<1>b. UNCHANGED <<lineAge, runlog, run, dpc, outcome, child, session>>
  BY DEF ObserverStep, Poll, Conclude, Gate, Deliver, Acknowledge, GiveUp, Retry, At,
         dvars, filevars
<1>1. RecordFollows'
  BY <1>a, <1>b DEF RecordFollows
\* Its lines are no START lines.
<1>2. \A i \in DOMAIN hb' : hb'[i].tag = "START" => hb'[i].at = 0
  <2>1. CASE UNCHANGED hb
    BY <1>a, <2>1 DEF NothingIsOlder
  <2>2. ASSUME NEW l, WriteLine(l), l.tag # "START"
        PROVE  \A i \in DOMAIN hb' : hb'[i].tag = "START" => hb'[i].at = 0
    <3>1. \A i \in DOMAIN hb' : (i \in DOMAIN hb /\ hb'[i] = hb[i]) \/ hb'[i] = l
      BY <1>a, <2>2 DEF WriteLine
    <3> QED
      BY <1>a, <2>2, <3>1 DEF NothingIsOlder
  <2>3. \A o, why : /\ \A tag \in VerdictTags : VerdictLine(tag, r, o, why).tag # "START"
                    /\ Line("SURVEY", r).tag # "START"
    BY DEF VerdictLine, Line, VerdictTags
  <2>4. UNCHANGED hb \/ \E l : WriteLine(l) /\ l.tag # "START"
    <3>1. CASE Poll(r)
      BY <2>3, <3>1 DEF Poll
    <3>2. CASE Conclude(r)
      BY <1>a, <2>3, <3>2, ConcludeFields DEF VerdictTags
    <3>3. CASE Acknowledge(r) \/ GiveUp(r)
      BY <1>a, <2>3, <3>3, ExitFields
    <3>4. CASE Gate(r) \/ Deliver(r) \/ Retry(r)
      BY <3>4 DEF Gate, Deliver, Retry, dvars, filevars
    <3> QED
      BY <3>1, <3>2, <3>3, <3>4 DEF ObserverStep
  <2> QED
    BY <2>1, <2>2, <2>4
\* What it becomes decides everything else.
<1>c. ASSUME Others(r), obs'[r].since = 0,
             obs'[r].seen # NoUpdate =>
               Over /\ (obs'[r].pc \notin {"late", "sleep"} => Closed),
             obs'[r].pc \in {"deliver", "acknowledge"} => obs'[r].seen # NoUpdate,
             obs'[r].seen # NoUpdate /\ obs'[r].pc \in {"gate", "deliver", "acknowledge"}
               => Precisely(obs'[r].outcome, r)
      PROVE  (NothingIsOlder /\ LookedWhenOver /\ PassedTwice)'
  <2>1. NothingIsOlder'
    BY <1>a, <1>2, <1>c DEF NothingIsOlder, Others
  <2>2. LookedWhenOver'
    BY <1>a, <1>b, <1>c DEF LookedWhenOver, Others, Over, Closed
  <2>3. PassedTwice'
    BY <1>a, <1>b, <1>c DEF PassedTwice, Others, Precisely
  <2> QED
    BY <2>1, <2>2, <2>3
<1>d. /\ obs[r].since = 0
      /\ obs[r].seen # NoUpdate => Over /\ (obs[r].pc \notin {"late", "sleep"} => Closed)
      /\ obs[r].pc \in {"deliver", "acknowledge"} => obs[r].seen # NoUpdate
      /\ obs[r].seen # NoUpdate /\ obs[r].pc \in {"gate", "deliver", "acknowledge"}
           => Precisely(obs[r].outcome, r)
  BY <1>a DEF NothingIsOlder, LookedWhenOver, PassedTwice
<1>3. (NothingIsOlder /\ LookedWhenOver /\ PassedTwice)'
  <2>1. CASE Poll(r)
    <3>1. StartEpoch(hb) = 0
      <4>1. CASE FirstLine(hb, {"START"}) = NoLine
        BY <4>1 DEF StartEpoch, NoLine, Line
      <4>2. CASE \E i \in DOMAIN hb : hb[i].tag \in {"START"} /\ FirstLine(hb, {"START"}) = hb[i]
        BY <1>a, <4>2 DEF StartEpoch, NothingIsOlder
      <4> QED
        BY <1>a, <4>1, <4>2, FirstLineFound
    <3> QED
      BY <1>a, <1>c, <1>d, <2>1, <3>1, PollFields
  <2>2. CASE Conclude(r)
    <3>1. Closed /\ obs[r].pc = "conclude" => Precisely(Classification(r), r)
      BY ConcludesPrecisely
    <3> QED
      BY <1>a, <1>c, <1>d, <2>2, <3>1, ConcludeFields
  <2>3. CASE Gate(r)
    <3>1. Over
      <4>1. obs[r].outcome \in Outcomes
        BY <1>a, <2>3, GateFields DEF ConcludedFirst, Announcing
      <4>2. obs[r].outcome = "aborted" => dpc = "crashed"
        BY <1>a DEF AbortMeansDispatcherDied
      <4> QED
        BY <1>a, <4>1, <4>2 DEF Truly, Outcomes, Over
    <3>2. orch.updated # NoUpdate
      BY <1>a DEF NoUpdate
    <3>3. /\ Others(r) /\ obs'[r].since = obs[r].since /\ obs'[r].outcome = obs[r].outcome
          /\ obs[r].pc = "gate" /\ obs'[r].seen = orch.updated
          /\ obs'[r].pc = IF Quiescent(r) THEN "deliver" ELSE "late"
      BY <1>a, <2>3, GateFields DEF Carried, StoreIsRead
    <3>4. CASE Quiescent(r)
      <4>1. obs[r].seen # NoUpdate
        BY <3>2, <3>4 DEF Quiescent
      <4> QED
        BY <1>c, <1>d, <3>1, <3>2, <3>3, <3>4, <4>1
    <3>5. CASE ~Quiescent(r)
      BY <1>c, <1>d, <3>1, <3>2, <3>3, <3>5
    <3> QED
      BY <3>4, <3>5
  <2>4. CASE Deliver(r)
    BY <1>a, <1>c, <1>d, <2>4, DeliverFields DEF Carried
  <2>5. CASE Acknowledge(r) \/ GiveUp(r)
    BY <1>a, <1>c, <1>d, <2>5, ExitFields
  <2>6. CASE Retry(r)
    BY <1>a, <1>c, <1>d, <2>6, RetryFields DEF Carried
  <2> QED
    BY <2>1, <2>2, <2>3, <2>4, <2>5, <2>6 DEF ObserverStep
<1>4. ErrorIsNamed'
  <2>1. CASE UNCHANGED prompts
    BY <1>a, <1>b, <2>1 DEF ErrorIsNamed
  <2>2. CASE Deliver(r) /\ AcceptPrompt(r)
    <3> DEFINE p == [run |-> r, outcome |-> obs[r].outcome, turn |-> orch.updated]
    <3>1. p.run = r /\ p.outcome = obs[r].outcome /\ prompts' = Append(prompts, p)
      BY <2>2 DEF AcceptPrompt
    <3>2. Precisely(obs[r].outcome, r)
      BY <1>d, <2>2 DEF Deliver, At
    <3> HIDE DEF p
    <3>3. \A i \in DOMAIN prompts' :
            (i \in DOMAIN prompts /\ prompts'[i] = prompts[i]) \/ prompts'[i] = p
      BY <1>a, <3>1
    <3> QED
      BY <1>a, <1>b, <3>1, <3>2, <3>3 DEF ErrorIsNamed, Precisely
  <2> QED
    BY <2>1, <2>2
    DEF ObserverStep, Poll, Conclude, Gate, Deliver, Acknowledge, GiveUp, Retry
<1> QED
  BY <1>1, <1>3, <1>4 DEF NamedParts

\* Every step of the composition keeps the invariant.
LEMMA NamedStep ==
    ASSUME NamedInv, [Next]_vars, OneDispatch, ChildSpeaks, StoreIsRead, RecordsAreKept,
           LivenessAssumption, DispatcherAssumption, ObserverAssumption
    PROVE  NamedInv'
<1>a. /\ TruthInv /\ AbortInv /\ obs \in [Runs -> ObserverType] /\ DispatcherTyped
      /\ SpawnedOnce /\ NamedParts
  BY DEF NamedInv, NamedParts, TruthInv, GateInv, ObserverTyped, ObserverTypeOK
<1>b. TruthInv' /\ AbortInv'
  BY <1>a, TruthStep, AbortStep
<1> SUFFICES NamedParts'
  BY <1>b DEF NamedInv, NamedParts
<1>1. CASE (DispatcherStep \/ ChildStep \/ ForeignRecord) /\ UNCHANGED ovars
  BY <1>1, NamedDispatchStep DEF DispatcherNext, ovars
<1>2. CASE NameSession /\ SpawnObserver(run) /\ UNCHANGED <<orch, prompts>>
  <2>1. DispatcherNext /\ dpc = "running" /\ ~session.named
    BY <1>2 DEF DispatcherNext, NameSession
  <2>2. run \in Runs
    BY <1>a, <2>1 DEF DispatcherTyped, JudgedFirst
  <2>3. obs[run].pc = "off"
    BY <1>a, <2>1, <2>2 DEF SpawnedOnce
  <2> QED
    BY <1>2, <1>a, <2>1, <2>2, <2>3, SpawnFields, NamedDispatchStep DEF Others
<1>3. CASE \E r \in Runs : ObserverStep(r)
  BY <1>3, NamedObserverStep
<1>4. CASE OrchestratorStep \/ UNCHANGED vars
  <2>1. UNCHANGED <<hb, runlog, run, dpc, outcome, obs, prompts>>
    BY <1>4 DEF OrchestratorStep, vars, ovars, dvars, filevars
  <2> QED
    BY <1>a, <2>1
    DEF NamedParts, RecordFollows, NothingIsOlder, LookedWhenOver, PassedTwice, ErrorIsNamed,
        Over, Closed, Precisely
<1>5. CASE Tick
  <2>1. DispatcherNext /\ dpc \notin Busy
    BY <1>5 DEF Tick, DispatcherTick, DispatcherNext
  <2> QED
    BY <1>5, <1>a, <2>1, TickFields, NamedDispatchStep
<1> QED
  BY <1>1, <1>2, <1>3, <1>4, <1>5 DEF Next

\* A wake tells a failed contract from an error of the dispatch, although the
\* terminal line is read before the record that tells them apart exists: the gate
\* lets no delivery through on the first look, and when the second follows, an
\* interval later, the record has been written.  For any deadline, any crash, any
\* refusal and any lost reply, provided that the file serves one dispatch, that
\* its child speaks, that the store can be read, and that the record is written.
THEOREM ErrorsAreNamed ==
    ASSUME OneDispatch, ChildSpeaks, StoreIsRead, RecordsAreKept
    PROVE  Spec => []ErrorIsNamed
<1>1. Init => NamedInv
  <2> SUFFICES ASSUME Init
               PROVE  NamedInv
    OBVIOUS
  <2>1. TruthInv
    BY TruthInit
  <2>2. AbortInv
    BY AbortInit
  <2>3. NamedParts
    BY DEF Init, DispatcherInit, NoObserver, NoUpdate, NamedParts, RecordFollows,
           NothingIsOlder, LookedWhenOver, PassedTwice, ErrorIsNamed
  <2> QED
    BY <2>1, <2>2, <2>3 DEF NamedInv, NamedParts
<1>2. NamedInv /\ [Next]_vars => NamedInv'
  BY NamedStep, OneDispatch, ChildSpeaks, StoreIsRead, RecordsAreKept,
     LivenessAssumption, DispatcherAssumption, ObserverAssumption
<1>3. NamedInv => ErrorIsNamed
  BY DEF NamedInv
<1> QED
  BY <1>1, <1>2, <1>3, PTL DEF Spec
=============================================================================
