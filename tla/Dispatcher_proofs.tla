------------------------- MODULE Dispatcher_proofs -------------------------
(***************************************************************************)
(* Theorems about Dispatcher, for any number of dispatches, any window and *)
(* any set of faults.                                                      *)
(***************************************************************************)
EXTENDS Dispatcher, FiniteSetTheorems, TLAPS

\* Appending a line of the dispatcher or the child keeps the heartbeat typed:
\* the three ways a Dispatcher action builds a line.
LEMMA LineTyped ==
    ASSUME NEW tag \in LineTags, NEW r \in Nat
    PROVE  /\ Line(tag, r) \in LineType
           /\ \A at \in Nat : StartLine(r, at) \in LineType
  BY SMT DEF Line, StartLine, LineType, LineTags

\* A heartbeat that is typed stays so when a typed line is appended.
LEMMA AppendTyped ==
    ASSUME hb \in Seq(LineType), NEW l \in LineType, WriteDispatchLine(l),
           LivenessAssumption
    PROVE  hb' \in Seq(LineType) /\ lineAge' \in Ages
  BY SMT DEF WriteDispatchLine, WriteLine, Ages, NoAge, LivenessAssumption

\* An age stays in its range, and one that is known stays known.
LEMMA AgedTyped ==
    ASSUME NEW a \in Ages, LivenessAssumption
    PROVE  Aged(a) \in Ages
  BY SMT DEF Aged, Ages, NoAge, LivenessAssumption
\* The ways the actions change what is known of a session keep its type.
LEMMA SessionTyped ==
    ASSUME NEW s \in SessionType, NEW a \in Ages, NEW b \in BOOLEAN, NEW c \in BOOLEAN,
           NEW d \in BOOLEAN, NEW e \in BOOLEAN
    PROVE  /\ [s EXCEPT !.named = b] \in SessionType
           /\ [s EXCEPT !.age = a] \in SessionType
           /\ [s EXCEPT !.age = a, !.tool = b] \in SessionType
           /\ [s EXCEPT !.live = b, !.tool = c] \in SessionType
           /\ [s EXCEPT !.live = b, !.tool = c, !.own = d, !.private = e] \in SessionType
  BY DEF SessionType

\* A session that dies is still typed.
LEMMA SessionDiesTyped ==
    ASSUME session \in SessionType, SessionDies
    PROVE  session' \in SessionType
<1>1. PICK stuck \in BOOLEAN :
        session' = [session EXCEPT !.live = FALSE, !.tool = session.tool /\ stuck]
  BY DEF SessionDies
<1>2. (session.tool /\ stuck) \in BOOLEAN
  BY Zenon
<1>3. [session EXCEPT !.live = FALSE, !.tool = session.tool /\ stuck] \in SessionType
  <2> DEFINE t == session.tool /\ stuck
  <2>1. t \in BOOLEAN
    BY <1>2
  <2> HIDE DEF t
  <2>2. [session EXCEPT !.live = FALSE, !.tool = t] \in SessionType
    BY <2>1 DEF SessionType
  <2> QED
    BY <2>2 DEF t
<1> QED
  BY <1>1, <1>3

\* A part that reaches the store leaves it typed.
LEMMA SessionPartTyped ==
    ASSUME session \in SessionType, 0 \in Ages, SessionPart
    PROVE  session' \in SessionType
<1>1. PICK tool \in BOOLEAN : session' = [session EXCEPT !.age = 0, !.tool = tool]
  BY DEF SessionPart
<1>2. [session EXCEPT !.age = 0, !.tool = tool] \in SessionType
  BY SessionTyped
<1> QED
  BY <1>1, <1>2

---------------------------------------------------------------------------
(* Type correctness.                                                       *)

\* What a record needs beside its type: the dispatch that is reported has been
\* judged, and there is one.
JudgedFirst ==
    /\ dpc # "idle" => run \in Runs
    /\ dpc \in {"judged", "reported"} => outcome[run] \in Judged

DispatcherTyped == DispatcherTypeOK /\ JudgedFirst

\* Every action of the dispatcher, the child and the environment keeps the
\* types, one step per action.
LEMMA DispatcherTypeStep ==
    ASSUME DispatcherTyped, [DispatcherNext]_dvars,
           LivenessAssumption, DispatcherAssumption
    PROVE  DispatcherTyped'
<1> USE DEF DispatcherTyped, DispatcherTypeOK, JudgedFirst, filevars, dvars
<1> DEFINE Tags == {"START", "DONE", "BLOCKED", "STEP"}
<1>0. \A tag \in Tags : \A r \in Nat : Line(tag, r) \in LineType
  BY LineTyped DEF LineTags, TerminalTags, ChildTags
<1>a. run \in Nat /\ Len(runlog) \in Nat
  BY DispatcherAssumption DEF DispatcherAssumption
<1>b. NoAge \in Ages /\ 0 \in Ages
  BY LivenessAssumption DEF Ages, NoAge, LivenessAssumption
<1>1. ASSUME NEW fresh \in BOOLEAN, Preflight(fresh)
      PROVE  DispatcherTyped'
  <2>1. run' \in 0 .. MaxRuns /\ run' \in Runs /\ dpc' \in {"preflight", "resuming"}
    BY <1>1, DispatcherAssumption DEF Preflight, DispatcherAssumption, Runs
  <2>2. hb' \in Seq(LineType) /\ lineAge' \in Ages
    <3>1. CASE fresh
      BY <1>1, <1>b, <3>1 DEF Preflight
    <3>2. CASE ~fresh
      BY <1>1, <3>2 DEF Preflight
    <3> QED
      BY <3>1, <3>2
  <2>3. session' \in SessionType
    BY <1>1, <1>b DEF Preflight, SessionType, NoSession
  <2> QED
    BY <1>1, <2>1, <2>2, <2>3 DEF Preflight, Busy
<1>2. ASSUME Refuse
      PROVE  DispatcherTyped'
  BY <1>2 DEF Refuse, Ended
<1>3. ASSUME Begin
      PROVE  DispatcherTyped'
  <2>1. StartLine(run, Len(runlog)) \in LineType
    BY <1>a, LineTyped DEF LineTags
  <2>2. hb' \in Seq(LineType)
    <3>1. CASE dpc = "preflight"
      <4>1. hb' = Append(<<>>, StartLine(run, Len(runlog)))
        BY <1>3, <3>1 DEF Begin
      <4> QED
        BY <2>1, <4>1
    <3>2. CASE dpc # "preflight"
      <4>1. hb' = Append(hb, StartLine(run, Len(runlog)))
        BY <1>3, <3>2 DEF Begin
      <4> QED
        BY <2>1, <4>1
    <3> QED
      BY <3>1, <3>2
  <2> QED
    BY <1>3, <1>b, <2>2 DEF Begin, Busy
<1>4. ASSUME NEW f \in LaunchFlags, Launch(f)
      PROVE  DispatcherTyped'
  <2>1. f \in Flags
    BY DispatcherAssumption DEF DispatcherAssumption
  <2> QED
    BY <1>4, <2>1 DEF Launch, SessionType, GivenServer, PrivateServer, Flags
<1>5. ASSUME TimeoutKill
      PROVE  DispatcherTyped'
  <2>1. session' \in SessionType
    BY <1>5, SessionDiesTyped DEF TimeoutKill
  <2> QED
    BY <1>5, <2>1 DEF TimeoutKill
<1>6. ASSUME Judge
      PROVE  DispatcherTyped'
  <2>1. /\ session' \in SessionType
        /\ interrupt' \in {"none", "not-needed", "no-session", "ok", "failed"}
    <3>1. CASE child = "killed" /\ ~session.private /\ session.named
      <4>1. PICK accepted, stopped, answered \in BOOLEAN :
              /\ session' = IF accepted /\ stopped
                            THEN [session EXCEPT !.live = FALSE, !.tool = FALSE]
                            ELSE session
              /\ interrupt' = IF accepted /\ answered /\ ~session'.live
                              THEN "ok" ELSE "failed"
        BY <1>6, <3>1 DEF Judge, InterruptSession
      <4> QED
        BY <4>1, SessionTyped
    <3>2. CASE ~(child = "killed" /\ ~session.private /\ session.named)
      BY <1>6, <3>2 DEF Judge, InterruptSession
    <3> QED
      BY <3>1, <3>2
  <2>2. PICK v \in Judged : /\ outcome' = [outcome EXCEPT ![run] = v]
                            /\ exit' = IF v = "success" THEN "clean" ELSE "dirty"
    BY <1>6 DEF Judge, Verdicts, Judged
  <2>3. run \in Runs
    BY <1>6 DEF Judge
  <2> QED
    BY <1>6, <2>1, <2>2, <2>3 DEF Judge, Busy
<1>7. ASSUME Report
      PROVE  DispatcherTyped'
  <2>1. Line(TerminalTag(outcome[run]), run) \in LineType
    BY <1>0, <1>a DEF TerminalTag
  <2>2. hb' \in Seq(LineType) /\ lineAge' \in Ages
    BY <1>7, <2>1, AppendTyped DEF Report
  <2> QED
    BY <1>7, <2>2 DEF Report, Busy
<1>8. ASSUME Record
      PROVE  DispatcherTyped'
  <2>1. outcome[run] \in Judged \cup {"stopped"}
    BY <1>8 DEF Record
  <2>2. runlog' \in Seq(Judged \cup {"stopped"})
    BY <1>8, <2>1 DEF Record
  <2>3. exit' \in {"none", "clean", "dirty"}
    BY <1>8 DEF Record
  <2> QED
    BY <1>8, <2>2, <2>3 DEF Record, Ended
<1>9. ASSUME Crash \/ Uncaught
      PROVE  DispatcherTyped'
  BY <1>9 DEF Crash, Uncaught, Ended
<1>10. ASSUME NameSession
       PROVE  DispatcherTyped'
  <2>1. session' \in SessionType
    BY <1>10, SessionTyped, <1>b DEF NameSession
  <2> QED
    BY <1>10, <2>1 DEF NameSession
<1>11. ASSUME SessionPart
       PROVE  DispatcherTyped'
  <2>1. session' \in SessionType
    BY <1>11, <1>b, SessionPartTyped
  <2> QED
    BY <1>11, <2>1 DEF SessionPart
<1>12. ASSUME ChildLine
       PROVE  DispatcherTyped'
  <2>1. Line("STEP", run) \in LineType
    BY <1>0, <1>a
  <2>2. hb' \in Seq(LineType) /\ lineAge' \in Ages
    BY <1>12, <2>1, AppendTyped DEF ChildLine
  <2> QED
    BY <1>12, <2>2 DEF ChildLine
<1>13. ASSUME ChildExit
       PROVE  DispatcherTyped'
  <2>1. session' \in SessionType
    BY <1>13, SessionDiesTyped, SessionTyped DEF ChildExit
  <2> QED
    BY <1>13, <2>1 DEF ChildExit
<1>14. ASSUME SessionEnds
       PROVE  DispatcherTyped'
  <2>1. session' \in SessionType
    BY <1>14, <1>b, SessionTyped DEF SessionEnds
  <2> QED
    BY <1>14, <2>1 DEF SessionEnds
<1>15. ASSUME ForeignRecord
       PROVE  DispatcherTyped'
  BY <1>15 DEF ForeignRecord, Judged
<1>16. ASSUME DispatcherTick
       PROVE  DispatcherTyped'
  <2>1. session.age \in Ages
    BY DEF SessionType
  <2> QED
    BY <1>16, <2>1, AgedTyped DEF DispatcherTick, SessionType
<1>17. ASSUME UNCHANGED dvars
       PROVE  DispatcherTyped'
  BY <1>17
<1> QED
  BY <1>1, <1>2, <1>3, <1>4, <1>5, <1>6, <1>7, <1>8, <1>9, <1>10, <1>11, <1>12,
     <1>13, <1>14, <1>15, <1>16, <1>17
  DEF DispatcherNext, DispatcherStep, ChildStep

\* The initial state is typed.
LEMMA DispatcherTypeInit ==
    ASSUME DispatcherInit, LivenessAssumption, DispatcherAssumption
    PROVE  DispatcherTyped
  BY DEF DispatcherInit, DispatcherTyped, DispatcherTypeOK, JudgedFirst, DispatcherAssumption,
         LivenessAssumption, Ages, NoAge, Ended, SessionType, NoSession

\* Type correctness of the dispatcher, its child and the heartbeat file.
THEOREM DispatcherTypeCorrect == DispatcherSpec => []DispatcherTypeOK
<1>1. DispatcherInit => DispatcherTyped
  BY DispatcherTypeInit, LivenessAssumption, DispatcherAssumption
<1>2. DispatcherTyped /\ [DispatcherNext]_dvars => DispatcherTyped'
  BY DispatcherTypeStep, LivenessAssumption, DispatcherAssumption
<1>3. DispatcherTyped => DispatcherTypeOK
  BY DEF DispatcherTyped
<1> QED
  BY <1>1, <1>2, <1>3, PTL DEF DispatcherSpec
---------------------------------------------------------------------------
(* What the dispatcher, its child and the environment do to the file.      *)

\* They leave it alone, empty it, or put one line of their own at its end or at
\* its beginning; they write nothing in the observer's name.
LEMMA DispatchLines ==
    ASSUME DispatcherTyped, DispatcherNext, DispatcherAssumption
    PROVE  \/ UNCHANGED hb
           \/ hb' = <<>>
           \/ \E l \in LineType : /\ WriteLine(l) \/ hb' = Append(<<>>, l)
                                  /\ l.tag \notin OwnerTags /\ l.reason = "none"
                                  /\ l.run = run /\ run' = run
                                  /\ l.tag = "START" => Begin /\ l.at = Len(runlog)
<1>a. run \in Nat /\ Len(runlog) \in Nat
  BY DispatcherAssumption
  DEF DispatcherTyped, DispatcherTypeOK, DispatcherAssumption
<1>b. \A tag \in LineTags, at \in Nat :
        /\ Line(tag, run).reason = "none" /\ Line(tag, run).tag = tag
        /\ Line(tag, run).run = run /\ Line(tag, run) \in LineType
        /\ StartLine(run, at).reason = "none" /\ StartLine(run, at).tag = "START"
        /\ StartLine(run, at).run = run /\ StartLine(run, at) \in LineType
        /\ StartLine(run, at).at = at
  <2> TAKE tag \in LineTags, at \in Nat
  <2>1. Line(tag, run) \in LineType /\ StartLine(run, at) \in LineType
    BY <1>a, LineTyped
  <2> QED
    BY <2>1 DEF Line, StartLine
<1>1. CASE \E fresh \in BOOLEAN : Preflight(fresh)
  BY <1>1 DEF Preflight
<1>2. CASE Begin
  <2> DEFINE l == StartLine(run, Len(runlog))
  <2>1. /\ l \in LineType /\ l.tag \notin OwnerTags /\ l.reason = "none" /\ l.run = run
        /\ l.at = Len(runlog)
    BY <1>a, <1>b DEF LineTags, OwnerTags, VerdictTags
  <2>2. run' = run /\ (WriteLine(l) \/ hb' = Append(<<>>, l))
    BY <1>2 DEF Begin, WriteLine
  <2> HIDE DEF l
  <2> QED
    BY <1>2, <2>1, <2>2
<1>3. CASE Report
  <2> DEFINE l == Line(TerminalTag(outcome[run]), run)
  <2>1. TerminalTag(outcome[run]) \in LineTags \ (OwnerTags \cup {"START"})
    BY DEF TerminalTag, LineTags, TerminalTags, OwnerTags, VerdictTags
  <2>2. /\ l \in LineType /\ l.tag \notin OwnerTags /\ l.reason = "none" /\ l.run = run
        /\ l.tag # "START"
    BY <1>b, <2>1
  <2>3. run' = run /\ WriteLine(l)
    BY <1>3 DEF Report, WriteDispatchLine
  <2> HIDE DEF l
  <2> QED
    BY <2>2, <2>3
<1>4. CASE ChildLine
  <2> DEFINE l == Line("STEP", run)
  <2>1. "STEP" \in LineTags \ OwnerTags
    BY DEF LineTags, ChildTags, OwnerTags, VerdictTags
  <2>2. /\ l \in LineType /\ l.tag \notin OwnerTags /\ l.reason = "none" /\ l.run = run
        /\ l.tag # "START"
    BY <1>b, <2>1
  <2>3. run' = run /\ WriteLine(l)
    BY <1>4 DEF ChildLine, WriteDispatchLine
  <2> HIDE DEF l
  <2> QED
    BY <2>2, <2>3
<1>5. CASE Refuse \/ Record \/ Uncaught \/ Crash \/ TimeoutKill \/ Judge
           \/ (\E f \in LaunchFlags : Launch(f))
  BY <1>5 DEF Refuse, Record, Uncaught, Crash, TimeoutKill, Judge, Launch, filevars
<1>6. CASE SessionPart \/ ChildExit \/ SessionEnds \/ NameSession \/ ForeignRecord
           \/ DispatcherTick
  BY <1>6 DEF SessionPart, ChildExit, SessionEnds, NameSession, ForeignRecord,
              DispatcherTick, filevars
<1> QED
  BY <1>1, <1>2, <1>3, <1>4, <1>5, <1>6 DEF DispatcherNext, DispatcherStep, ChildStep

---------------------------------------------------------------------------
(* A timeout leaves nothing generating.                                    *)

\* No combination of flags has both --standalone and --server, as the usage
\* line has it.
FlagsExclude == \A f \in LaunchFlags : ~(f.standalone /\ f.server)

\* The dispatcher says nothing of its session before it judges the dispatch,
\* and a session it takes for private dies with the process group.
PrivateDies ==
    /\ dpc \in {"idle", "preflight", "resuming", "begun", "running"} => interrupt = "none"
    /\ dpc = "running" /\ session.private => session.own
    /\ child = "killed" /\ session.private => ~session.live

InterruptInv == DispatcherTyped /\ PrivateDies /\ InterruptHonest

\* Every step keeps the invariant; only Launch needs the flags to exclude.
LEMMA InterruptStep ==
    ASSUME InterruptInv, [DispatcherNext]_dvars, FlagsExclude,
           LivenessAssumption, DispatcherAssumption
    PROVE  (PrivateDies /\ InterruptHonest)'
<1> USE DEF InterruptInv, PrivateDies, InterruptHonest, DispatcherTyped,
            DispatcherTypeOK, filevars, dvars
<1>1. ASSUME NEW fresh \in BOOLEAN, Preflight(fresh)
      PROVE  (PrivateDies /\ InterruptHonest)'
  BY <1>1 DEF Preflight
<1>2. ASSUME Refuse \/ Begin \/ Report \/ Record \/ Uncaught \/ Crash
      PROVE  (PrivateDies /\ InterruptHonest)'
  BY <1>2 DEF Refuse, Begin, Report, Record, Uncaught, Crash, Busy, Ended
<1>3. ASSUME NEW f \in LaunchFlags, Launch(f)
      PROVE  (PrivateDies /\ InterruptHonest)'
  <2>1. f \in Flags /\ ~(f.standalone /\ f.server)
    BY DispatcherAssumption DEF DispatcherAssumption, FlagsExclude
  <2>2. PrivateServer(f) => ~GivenServer(f) /\ (f.standalone \/ f.grants)
    BY <2>1 DEF PrivateServer, GivenServer, Flags
  <2> QED
    BY <1>3, <2>2 DEF Launch, SessionType
<1>4. ASSUME TimeoutKill
      PROVE  (PrivateDies /\ InterruptHonest)'
  BY <1>4 DEF TimeoutKill, SessionDies, SessionType
<1>5. ASSUME Judge
      PROVE  (PrivateDies /\ InterruptHonest)'
  BY <1>5 DEF Judge, InterruptSession, SessionType
<1>6. ASSUME NameSession \/ SessionPart \/ ChildLine \/ SessionEnds
      PROVE  (PrivateDies /\ InterruptHonest)'
  BY <1>6 DEF NameSession, SessionPart, ChildLine, SessionEnds, SessionType
<1>7. ASSUME ChildExit
      PROVE  (PrivateDies /\ InterruptHonest)'
  BY <1>7 DEF ChildExit, SessionDies, SessionType
<1>8. ASSUME ForeignRecord \/ DispatcherTick \/ UNCHANGED dvars
      PROVE  (PrivateDies /\ InterruptHonest)'
  BY <1>8 DEF ForeignRecord, DispatcherTick, SessionType
<1> QED
  BY <1>1, <1>2, <1>3, <1>4, <1>5, <1>6, <1>7, <1>8
  DEF DispatcherNext, DispatcherStep, ChildStep

\* AC15 for every number of dispatches and any faults: a timed-out dispatch that
\* reports its session interrupted, or dead with a private server, has not left
\* it generating, provided --standalone and --server are never combined.
THEOREM InterruptIsHonest ==
    ASSUME FlagsExclude
    PROVE  DispatcherSpec => []InterruptHonest
<1>1. DispatcherInit => InterruptInv
  BY DispatcherTypeInit, LivenessAssumption, DispatcherAssumption
  DEF DispatcherInit, InterruptInv, PrivateDies, InterruptHonest, NoSession
<1>2. InterruptInv /\ [DispatcherNext]_dvars => InterruptInv'
  BY InterruptStep, DispatcherTypeStep, FlagsExclude, LivenessAssumption,
     DispatcherAssumption DEF InterruptInv
<1>3. InterruptInv => InterruptHonest
  BY DEF InterruptInv
<1> QED
  BY <1>1, <1>2, <1>3, PTL DEF DispatcherSpec
---------------------------------------------------------------------------
(* The envelope: START and one terminal line of each dispatch.             *)

\* A set in which any two elements are the same has at most one.
LEMMA AtMostOneElement ==
    ASSUME NEW S, \A x, y \in S : x = y
    PROVE  Cardinality(S) <= 1
<1>1. CASE S = {}
  BY <1>1, FS_EmptySet
<1>2. CASE S # {}
  <2>1. PICK x : x \in S
    BY <1>2
  <2>2. S = {x}
    BY <2>1
  <2> QED
    BY <2>2, FS_Singleton
<1> QED
  BY <1>1, <1>2

IsTerminal(l) == l.tag \in TerminalTags

\* What holds of the lines: no dispatch is named before it begins, none has two
\* terminal lines, and one tells of its judgement, follows the START of its
\* dispatch and no line of a later one.
RunsSoFar == \A i \in DOMAIN hb : hb[i].run <= run

EndsOnce ==
    \A i, j \in DOMAIN hb :
      IsTerminal(hb[i]) /\ IsTerminal(hb[j]) /\ hb[i].run = hb[j].run => i = j

EndsInOrder ==
    \A i \in DOMAIN hb :
      IsTerminal(hb[i]) =>
        /\ hb[i].run \in Runs
        /\ hb[i].tag = "DONE" <=> outcome[hb[i].run] = "success"
        /\ \E j \in 1 .. i : hb[j].tag = "START" /\ hb[j].run = hb[i].run
        /\ \A j \in 1 .. i : hb[j].run <= hb[i].run

LinesOrdered == RunsSoFar /\ EndsOnce /\ EndsInOrder

\* What the dispatcher knows of its own lines, from where it is.
Unended == {"preflight", "resuming", "begun", "running", "judged"}

HasEnded(r) == \E i \in DOMAIN hb : IsTerminal(hb[i]) /\ hb[i].run = r

OwnLines ==
    /\ dpc \in Unended => ~HasEnded(run)
    /\ dpc \in {"begun", "running", "judged"} =>
         \E j \in DOMAIN hb : hb[j].tag = "START" /\ hb[j].run = run
    /\ exit = "clean" => /\ dpc \in {"judged", "reported", "exited"}
                         /\ run \in Runs /\ outcome[run] = "success"
    /\ dpc = "reported" \/ (dpc = "exited" /\ exit = "clean") => HasEnded(run)

EnvelopeInv == DispatcherTyped /\ LinesOrdered /\ OwnLines

\* A line of the current dispatch that is no terminal line changes nothing.
LEMMA PlainLineKeeps ==
    ASSUME hb \in Seq(LineType), NEW l \in LineType, hb' = Append(hb, l),
           ~IsTerminal(l), l.run <= run, UNCHANGED <<run, outcome>>, LinesOrdered
    PROVE  /\ LinesOrdered'
           /\ \A r : HasEnded(r)' <=> HasEnded(r)
           /\ \A j \in DOMAIN hb : j \in DOMAIN hb' /\ hb'[j] = hb[j]
<1>1. /\ Len(hb) \in Nat /\ DOMAIN hb = 1 .. Len(hb) /\ DOMAIN hb' = 1 .. Len(hb) + 1
      /\ \A i \in 1 .. Len(hb) : hb'[i] = hb[i]
      /\ hb'[Len(hb) + 1] = l
  OBVIOUS
<1>2. RunsSoFar'
  BY <1>1 DEF LinesOrdered, RunsSoFar
<1>3. EndsOnce'
  BY <1>1 DEF LinesOrdered, EndsOnce
<1>4. EndsInOrder'
  BY <1>1 DEF LinesOrdered, EndsInOrder
<1>5. \A r : HasEnded(r)' <=> HasEnded(r)
  BY <1>1 DEF HasEnded
<1> QED
  BY <1>1, <1>2, <1>3, <1>4, <1>5 DEF LinesOrdered

\* The terminal line of the current dispatch, which has none yet.
LEMMA TerminalLineKeeps ==
    ASSUME hb \in Seq(LineType), NEW l \in LineType, hb' = Append(hb, l),
           IsTerminal(l), l.run = run, run \in Runs, UNCHANGED <<run, outcome>>,
           ~HasEnded(run), LinesOrdered, DispatcherAssumption,
           l.tag = "DONE" <=> outcome[run] = "success",
           \E j \in DOMAIN hb : hb[j].tag = "START" /\ hb[j].run = run
    PROVE  LinesOrdered' /\ HasEnded(run)'
<1>1. /\ Len(hb) \in Nat /\ DOMAIN hb = 1 .. Len(hb) /\ DOMAIN hb' = 1 .. Len(hb) + 1
      /\ \A i \in 1 .. Len(hb) : hb'[i] = hb[i]
      /\ hb'[Len(hb) + 1] = l
  OBVIOUS
<1>0. run \in Nat
  BY DispatcherAssumption DEF Runs, DispatcherAssumption
<1>2. RunsSoFar'
  BY <1>0, <1>1 DEF LinesOrdered, RunsSoFar
<1>3. EndsOnce'
  BY <1>1 DEF LinesOrdered, EndsOnce, HasEnded
<1>4. EndsInOrder'
  <2> SUFFICES ASSUME NEW i \in DOMAIN hb', IsTerminal(hb'[i])
               PROVE  /\ hb'[i].run \in Runs
                      /\ hb'[i].tag = "DONE" <=> outcome[hb'[i].run] = "success"
                      /\ \E j \in 1 .. i : hb'[j].tag = "START" /\ hb'[j].run = hb'[i].run
                      /\ \A j \in 1 .. i : hb'[j].run <= hb'[i].run
    BY DEF EndsInOrder, IsTerminal
  <2>1. CASE i \in DOMAIN hb
    BY <1>1, <2>1 DEF LinesOrdered, EndsInOrder
  <2>2. CASE i = Len(hb) + 1
    BY <1>0, <1>1, <2>2 DEF LinesOrdered, RunsSoFar
  <2> QED
    BY <1>1, <2>1, <2>2
<1>5. HasEnded(run)'
  BY <1>1 DEF HasEnded
<1> QED
  BY <1>2, <1>3, <1>4, <1>5 DEF LinesOrdered

\* A step that leaves the file and the judgements alone.
LEMMA SameLinesKeep ==
    ASSUME UNCHANGED <<hb, outcome>>, run <= run', run \in Nat, run' \in Nat,
           hb \in Seq(LineType), LinesOrdered
    PROVE  LinesOrdered' /\ \A r : HasEnded(r)' <=> HasEnded(r)
<1>1. \A i \in DOMAIN hb : hb[i] \in LineType
  OBVIOUS
<1>2. \A i \in DOMAIN hb : hb[i].run \in Nat
  BY <1>1 DEF LineType
<1> QED
  BY <1>2 DEF LinesOrdered, RunsSoFar, EndsOnce, EndsInOrder, HasEnded

\* Every step keeps the invariant.
LEMMA EnvelopeStep ==
    ASSUME EnvelopeInv, [DispatcherNext]_dvars,
           LivenessAssumption, DispatcherAssumption
    PROVE  (LinesOrdered /\ OwnLines)'
<1> USE DEF filevars
<1>a. /\ hb \in Seq(LineType) /\ run \in 0 .. MaxRuns /\ run \in Nat /\ MaxRuns \in Nat
      /\ LinesOrdered /\ OwnLines /\ JudgedFirst
      /\ outcome \in [Runs -> Judged \cup {"none"}]
      /\ Len(runlog) \in Nat
  BY DispatcherAssumption
  DEF EnvelopeInv, DispatcherTyped, DispatcherTypeOK, DispatcherAssumption
<1>b. \A i \in DOMAIN hb : hb[i] \in LineType
  BY <1>a
<1>c. \A i \in DOMAIN hb : hb[i].run \in Nat
  BY <1>b DEF LineType
<1>1. ASSUME NEW fresh \in BOOLEAN, Preflight(fresh)
      PROVE  (LinesOrdered /\ OwnLines)'
  <2>1. /\ run' = run + 1 /\ dpc' \in {"preflight", "resuming"} /\ exit' = "none"
        /\ UNCHANGED outcome /\ run' \in Nat /\ run <= run'
        /\ hb' = hb \/ hb' = <<>>
    BY <1>1, <1>a DEF Preflight
  <2>2. CASE hb' = hb
    <3>1. LinesOrdered' /\ \A r : HasEnded(r)' <=> HasEnded(r)
      BY <1>a, <2>1, <2>2, SameLinesKeep
    <3>2. \A i \in DOMAIN hb' : hb'[i].run # run'
      BY <1>a, <1>c, <2>1, <2>2 DEF LinesOrdered, RunsSoFar
    <3> QED
      BY <2>1, <3>1, <3>2 DEF OwnLines, HasEnded
  <2>3. CASE hb' = <<>>
    BY <2>1, <2>3 DEF OwnLines, HasEnded, LinesOrdered, RunsSoFar, EndsOnce, EndsInOrder
  <2> QED
    BY <2>1, <2>2, <2>3
<1>2. ASSUME Begin
      PROVE  (LinesOrdered /\ OwnLines)'
  <2> DEFINE l == StartLine(run, Len(runlog))
  <2>1. l \in LineType /\ ~IsTerminal(l) /\ l.run = run /\ l.tag = "START"
    BY <1>a, LineTyped DEF LineTags, StartLine, Line, IsTerminal, TerminalTags
  <2>2. /\ UNCHANGED <<run, outcome, exit>> /\ dpc' = "begun" /\ dpc \in {"preflight", "resuming"}
        /\ (hb' = Append(hb, l) \/ hb' = <<l>>)
    <3>1. /\ UNCHANGED <<run, outcome, exit>> /\ dpc' = "begun"
          /\ dpc \in {"preflight", "resuming"}
      BY <1>2 DEF Begin
    <3>2. CASE dpc = "preflight"
      <4>1. hb' = Append(<<>>, l)
        BY <1>2, <3>2 DEF Begin
      <4> QED
        BY <3>1, <4>1
    <3>3. CASE dpc # "preflight"
      <4>1. hb' = Append(hb, l)
        BY <1>2, <3>3 DEF Begin
      <4> QED
        BY <3>1, <4>1
    <3> QED
      BY <3>2, <3>3
  <2> HIDE DEF l
  <2>3. CASE hb' = Append(hb, l)
    <3>1. /\ LinesOrdered' /\ \A r : HasEnded(r)' <=> HasEnded(r)
      BY <1>a, <2>1, <2>2, <2>3, PlainLineKeeps
    <3>2. Len(hb) + 1 \in DOMAIN hb' /\ hb'[Len(hb) + 1] = l
      BY <1>a, <2>1, <2>3
    <3> QED
      BY <1>a, <2>1, <2>2, <3>1, <3>2 DEF OwnLines, Unended
  <2>4. CASE hb' = <<l>>
    <3>1. DOMAIN hb' = {1} /\ hb'[1] = l
      BY <2>4
    <3>2. ~HasEnded(run)' /\ EndsOnce' /\ EndsInOrder' /\ RunsSoFar'
      BY <1>a, <2>1, <2>2, <3>1 DEF HasEnded, EndsOnce, EndsInOrder, RunsSoFar
    <3> QED
      BY <1>a, <2>1, <2>2, <3>1, <3>2 DEF OwnLines, Unended, LinesOrdered
  <2> QED
    BY <2>2, <2>3, <2>4
<1>3. ASSUME Judge
      PROVE  (LinesOrdered /\ OwnLines)'
  <2>1. /\ dpc = "running" /\ dpc' = "judged" /\ UNCHANGED <<hb, run>> /\ run \in Runs
        /\ ~HasEnded(run)
    BY <1>3, <1>a DEF Judge, JudgedFirst, OwnLines, Unended
  <2>2. PICK v \in Judged : /\ outcome' = [outcome EXCEPT ![run] = v]
                            /\ exit' = IF v = "success" THEN "clean" ELSE "dirty"
    BY <1>3 DEF Judge, Verdicts, Judged
  <2>3. \A i \in DOMAIN hb : IsTerminal(hb[i]) => hb[i].run # run
    BY <2>1 DEF HasEnded
  <2>4. LinesOrdered'
    BY <1>a, <2>1, <2>2, <2>3 DEF LinesOrdered, RunsSoFar, EndsOnce, EndsInOrder
  <2>5. exit' = "clean" => outcome'[run] = "success"
    BY <1>a, <2>1, <2>2
  <2> QED
    BY <1>a, <2>1, <2>4, <2>5 DEF OwnLines, HasEnded, Unended
<1>4. ASSUME Report
      PROVE  (LinesOrdered /\ OwnLines)'
  <2> DEFINE l == Line(TerminalTag(outcome[run]), run)
  <2>1. /\ l \in LineType /\ IsTerminal(l) /\ l.run = run
        /\ l.tag = "DONE" <=> outcome[run] = "success"
    <3>1. TerminalTag(outcome[run]) \in LineTags
      BY DEF TerminalTag, LineTags, TerminalTags
    <3> QED
      BY <1>a, <3>1, LineTyped DEF Line, IsTerminal, TerminalTags, TerminalTag
  <2>2. /\ dpc = "judged" /\ dpc' = "reported" /\ UNCHANGED <<run, outcome, exit>>
        /\ hb' = Append(hb, l) /\ run \in Runs /\ ~HasEnded(run)
        /\ \E j \in DOMAIN hb : hb[j].tag = "START" /\ hb[j].run = run
    BY <1>4, <1>a DEF Report, WriteDispatchLine, WriteLine, JudgedFirst, OwnLines, Unended
  <2> HIDE DEF l
  <2>3. LinesOrdered' /\ HasEnded(run)'
    BY <1>a, <2>1, <2>2, TerminalLineKeeps
  <2> QED
    BY <1>a, <2>2, <2>3 DEF OwnLines, Unended, HasEnded
<1>5. ASSUME ChildLine
      PROVE  (LinesOrdered /\ OwnLines)'
  <2> DEFINE l == Line("STEP", run)
  <2>1. l \in LineType /\ ~IsTerminal(l) /\ l.run = run
    BY <1>a, LineTyped DEF LineTags, ChildTags, Line, IsTerminal, TerminalTags
  <2>2. hb' = Append(hb, l) /\ UNCHANGED <<run, outcome, dpc, exit>>
    BY <1>5 DEF ChildLine, WriteDispatchLine, WriteLine
  <2> HIDE DEF l
  <2>3. /\ LinesOrdered' /\ \A r : HasEnded(r)' <=> HasEnded(r)
        /\ \A j \in DOMAIN hb : j \in DOMAIN hb' /\ hb'[j] = hb[j]
    BY <1>a, <2>1, <2>2, PlainLineKeeps
  <2>4. HasEnded(run)' <=> HasEnded(run)
    BY <2>2, <2>3 DEF HasEnded
  <2> QED
    BY <1>a, <2>2, <2>3, <2>4 DEF OwnLines
<1>6. ASSUME UNCHANGED <<hb, run, outcome>>,
             \/ UNCHANGED <<dpc, exit>>
             \/ dpc' = "running" /\ dpc = "begun" /\ UNCHANGED exit
             \/ dpc' = "exited" /\ (dpc \in {"preflight", "resuming"} /\ exit' = "dirty")
             \/ dpc' = "exited" /\ dpc = "reported" /\ (exit' = exit \/ exit' = "dirty")
             \/ dpc' = "crashed" /\ dpc \notin Ended /\ exit' \in {"none", "dirty"}
      PROVE  (LinesOrdered /\ OwnLines)'
  <2>1. LinesOrdered' /\ \A r : HasEnded(r)' <=> HasEnded(r)
    BY <1>a, <1>6, SameLinesKeep
  <2>2. HasEnded(run)' <=> HasEnded(run)
    BY <1>6 DEF HasEnded
  <2> QED
    BY <1>a, <1>6, <2>1, <2>2 DEF OwnLines, Unended, Ended
<1>7. CASE Refuse \/ Record \/ Uncaught \/ Crash \/ TimeoutKill \/ (\E f \in LaunchFlags : Launch(f))
  BY <1>6, <1>7 DEF Refuse, Record, Uncaught, Crash, TimeoutKill, Launch, Ended
<1>8. CASE SessionPart \/ ChildExit \/ SessionEnds \/ NameSession \/ ForeignRecord
           \/ DispatcherTick \/ UNCHANGED dvars
  BY <1>6, <1>8 DEF SessionPart, ChildExit, SessionEnds, NameSession, ForeignRecord,
                    DispatcherTick, dvars
<1> QED
  BY <1>1, <1>2, <1>3, <1>4, <1>5, <1>7, <1>8
  DEF DispatcherNext, DispatcherStep, ChildStep

\* The envelope for every number of dispatches over one file, fresh or resumed,
\* and any faults: at most one terminal line per dispatch, between its own START
\* and anything of a later dispatch, DONE for a success only; and an exit code
\* that is 0 is only seen with a DONE, so that a dispatcher whose statement outside the
\* guard raised has not passed for one that succeeded.
THEOREM EnvelopeIsWhole == DispatcherSpec => []EnvelopeOK
<1>1. DispatcherInit => EnvelopeInv
  <2> SUFFICES ASSUME DispatcherInit PROVE EnvelopeInv
    OBVIOUS
  <2>1. DispatcherTyped
    BY DispatcherTypeInit, LivenessAssumption, DispatcherAssumption
  <2> QED
    BY <2>1 DEF DispatcherInit, EnvelopeInv, LinesOrdered, RunsSoFar, EndsOnce, EndsInOrder,
                OwnLines, HasEnded, Unended
<1>2. EnvelopeInv /\ [DispatcherNext]_dvars => EnvelopeInv'
  BY EnvelopeStep, DispatcherTypeStep, LivenessAssumption, DispatcherAssumption
  DEF EnvelopeInv
<1>3. EnvelopeInv => EnvelopeOK
  <2> SUFFICES ASSUME EnvelopeInv PROVE EnvelopeOK
    OBVIOUS
  <2>1. ASSUME NEW r \in Runs PROVE Cardinality(Envelope(r)) <= 1
    <3>1. \A i, j \in Envelope(r) : i = j
      BY DEF EnvelopeInv, LinesOrdered, EndsOnce, Envelope, IsTerminal
    <3> QED
      BY <3>1, AtMostOneElement
  <2>2. ASSUME NEW r \in Runs, NEW i \in Envelope(r)
        PROVE  /\ hb[i].tag = "DONE" <=> outcome[r] = "success"
               /\ \E j \in 1 .. i : hb[j].tag = "START" /\ hb[j].run = r
               /\ \A j \in 1 .. i : hb[j].run <= r
    BY DEF EnvelopeInv, LinesOrdered, EndsInOrder, Envelope, IsTerminal
  <2>3. dpc \in Ended /\ exit = "clean" => \E i \in Envelope(run) : hb[i].tag = "DONE"
    <3> SUFFICES ASSUME dpc \in Ended, exit = "clean"
                 PROVE  \E i \in Envelope(run) : hb[i].tag = "DONE"
      OBVIOUS
    <3>0. dpc = "exited"
      BY DEF EnvelopeInv, OwnLines, Ended
    <3>1. PICK i \in DOMAIN hb : IsTerminal(hb[i]) /\ hb[i].run = run
      BY <3>0 DEF EnvelopeInv, OwnLines, HasEnded
    <3>2. run \in Runs /\ outcome[run] = "success"
      BY DEF EnvelopeInv, OwnLines
    <3> QED
      BY <3>1, <3>2 DEF EnvelopeInv, LinesOrdered, EndsInOrder, Envelope, IsTerminal
  <2> QED
    BY <2>1, <2>2, <2>3 DEF EnvelopeOK
<1> QED
  BY <1>1, <1>2, <1>3, PTL DEF DispatcherSpec
=============================================================================
