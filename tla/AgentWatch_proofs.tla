---- MODULE AgentWatch_proofs ----
(* The watcher of a running agent (scripts/watch_agent.py) raises no false     *)
(* alarm: the proof of NoFalseAlarm for any windows.                           *)
(*                                                                             *)
(* The invariant follows one poll: what the heartbeat file says, what the      *)
(* session store says when it is read after it, and what the status service    *)
(* says last may be of three different moments, but a child that works gives   *)
(* its signs before its window is over (WorkerIsFresh), and whatever it has    *)
(* done between two looks shows in the look that comes after.                  *)
EXTENDS AgentWatch, TLAPS
---------------------------------------------------------------------------

\* What a sign of age a says of a child whose store is s: there never was one, or it is
\* within the window of what the child does, or the child waits for a call.
Fresh(a, s) == s.tool \/ a = NoSign \/ a <= QuietWindow(s)

\* A child that works is due before its window is over.
WorkerIsFresh == Alive => Fresh(Min({worker.line, worker.store.part}), worker.store)

\* Between its two looks the watcher holds an old line; what the child has done since
\* shows in the store it is about to read.
LineIsFresh ==
    watch.pc = "store" /\ Alive => Fresh(Min({watch.line, worker.store.part}), worker.store)

\* ... and what it has read then is of one child that works.
ReadIsFresh == watch.pc \in {"status", "judge"} /\ Alive => Fresh(LiveAge, watch.store)

WatchInv == WatchTypeOK /\ WorkerIsFresh /\ LineIsFresh /\ ReadIsFresh /\ NoFalseAlarm

WorkerType == [state : {"alive", "hung", "ended"}, line : SignAges, store : StoreType]
WatchType  == [pc : {"heartbeat", "store", "status", "judge", "sleep"}, line : SignAges,
               store : StoreType, status : Statuses, verdict : WatchVerdicts \cup {"none"}]

\* The fresher of two signs.
LEMMA PairMin ==
    ASSUME NEW a \in Int, NEW b \in Int
    PROVE  Min({a, b}) = IF a <= b THEN a ELSE b
<1> DEFINE m == IF a <= b THEN a ELSE b
<1>1. m \in {a, b} /\ \A y \in {a, b} : m <= y OBVIOUS
<1>2. \A x \in {a, b} : (\A y \in {a, b} : x <= y) => x = m OBVIOUS
<1>3. Min({a, b}) = CHOOSE x \in {a, b} : \A y \in {a, b} : x <= y BY DEF Min
<1> HIDE DEF m
<1>4. Min({a, b}) = m BY <1>1, <1>2, <1>3
<1> QED BY <1>4 DEF m

\* The ages, and the types of what is read.
LEMMA SignFacts ==
    /\ NoSign \in Nat /\ Oldest \in Nat /\ NoSign = Oldest + 1
    /\ SignAges = 0 .. NoSign /\ 0 \in SignAges /\ NoSign \in SignAges /\ 0 # NoSign
    /\ NoStore \in StoreType
    /\ \A s : QuietWindow(s) \in Nat /\ QuietWindow(s) < Oldest
<1>1. /\ NoSign \in Nat /\ Oldest \in Nat /\ NoSign = Oldest + 1
      /\ SignAges = 0 .. NoSign /\ 0 \in SignAges /\ NoSign \in SignAges /\ 0 # NoSign
  BY WatchAssumption DEF NoSign, Oldest, SignAges
<1>2. NoStore \in StoreType BY <1>1 DEF NoStore, StoreType, Texts
<1>3. \A s : QuietWindow(s) \in Nat /\ QuietWindow(s) < Oldest
  BY WatchAssumption DEF QuietWindow, Oldest
<1> QED BY <1>1, <1>2, <1>3

\* A sign of now is fresh, whatever the other one is.
LEMMA NowIsFresh ==
    ASSUME NEW a \in SignAges, NEW s
    PROVE  Fresh(Min({0, a}), s) /\ Fresh(Min({a, 0}), s)
<1>1. Min({0, a}) = 0 /\ Min({a, 0}) = 0 BY PairMin, SignFacts
<1> QED BY <1>1, SignFacts DEF Fresh

\* Before the first poll there is no sign to be late.
LEMMA WatchInitInv == WatchInit => WatchInv
<1> SUFFICES ASSUME WatchInit PROVE WatchInv OBVIOUS
<1>1. WatchTypeOK BY SignFacts DEF WatchInit, WatchTypeOK, Statuses
<1>2. Min({NoSign, NoSign}) = NoSign BY PairMin, SignFacts
<1>3. worker.line = NoSign /\ worker.store.part = NoSign /\ watch.pc = "heartbeat"
  BY DEF WatchInit, NoStore
<1> QED BY <1>1, <1>2, <1>3
    DEF WatchInv, WorkerIsFresh, LineIsFresh, ReadIsFresh, NoFalseAlarm, Fresh

\* The child and its server: whatever they do, time stands still.
LEMMA WorkerKeeps ==
    ASSUME WatchInv, HeartbeatLine \/ SessionMoves \/ WorkerEnds \/ Hangs \/ ServiceEntry
    PROVE  WatchInv'
<1>t. /\ worker \in WorkerType /\ watch \in WatchType
      /\ service \in [up : BOOLEAN, entry : {"none", "busy", "retry"},
                      idle : {"none", "success", "other"}]
  BY DEF WatchInv, WatchTypeOK, WorkerType, WatchType
<1>f. /\ worker.line \in SignAges /\ worker.store \in StoreType
      /\ worker.store.part \in SignAges /\ watch.line \in SignAges
  BY <1>t DEF WorkerType, WatchType, StoreType
<1>q. ASSUME watch' = watch, Alive' => Alive, WatchTypeOK',
             WorkerIsFresh', LineIsFresh'
      PROVE  WatchInv'
  BY <1>q DEF WatchInv, ReadIsFresh, NoFalseAlarm, LiveAge
<1>1. CASE HeartbeatLine
  <2>1. worker' = [worker EXCEPT !.line = 0] /\ UNCHANGED <<service, watch>>
    BY <1>1 DEF HeartbeatLine, Moves
  <2>2. worker' \in WorkerType /\ worker'.line = 0 /\ worker'.store = worker.store
        /\ worker'.state = worker.state
    BY <1>t, <2>1, SignFacts DEF WorkerType
  <2>3. WatchTypeOK' BY <1>t, <2>1, <2>2 DEF WatchTypeOK, WorkerType, WatchType
  <2>4. WorkerIsFresh' BY <1>f, <2>2, NowIsFresh DEF WorkerIsFresh
  <2>5. LineIsFresh' BY <2>1, <2>2 DEF WatchInv, LineIsFresh, Alive
  <2> QED BY <1>q, <2>1, <2>2, <2>3, <2>4, <2>5 DEF Alive
<1>2. CASE SessionMoves
  <2>1. PICK t \in StoreType : worker' = [worker EXCEPT !.store = t] /\ t.part = 0
    <3> DEFINE s == [worker.store EXCEPT !.part = 0]
    <3>1. s \in StoreType /\ s.part = 0 BY <1>f, SignFacts DEF StoreType
    <3>2. PICK t \in {[s EXCEPT !.open = TRUE], [s EXCEPT !.text = "open"],
                      [s EXCEPT !.tool = TRUE], [s EXCEPT !.tool = FALSE],
                      [s EXCEPT !.open = FALSE, !.text = IF @ = "open" THEN "closed" ELSE @]} :
            worker' = [worker EXCEPT !.store = t]
      BY <1>2 DEF SessionMoves, Moves
    <3> HIDE DEF s
    <3>3. t \in StoreType /\ t.part = 0 BY <3>1, <3>2 DEF StoreType, Texts
    <3> QED BY <3>2, <3>3
  <2>2. UNCHANGED <<service, watch>> BY <1>2 DEF SessionMoves, Moves
  <2>3. worker' \in WorkerType /\ worker'.line = worker.line /\ worker'.store.part = 0
        /\ worker'.state = worker.state
    BY <1>t, <2>1 DEF WorkerType
  <2>4. WatchTypeOK' BY <1>t, <2>2, <2>3 DEF WatchTypeOK, WorkerType, WatchType
  <2>5. WorkerIsFresh' BY <1>f, <2>3, NowIsFresh DEF WorkerIsFresh
  <2>6. LineIsFresh' BY <1>f, <2>2, <2>3, NowIsFresh DEF LineIsFresh
  <2> QED BY <1>q, <2>2, <2>3, <2>4, <2>5, <2>6 DEF Alive
<1>3. CASE WorkerEnds \/ Hangs
  <2>1. worker' \in WorkerType /\ worker'.state # "alive" /\ watch' = watch
    BY <1>3, <1>t DEF WorkerEnds, Hangs, Moves, WorkerType
  <2>2. service' \in [up : BOOLEAN, entry : {"none", "busy", "retry"},
                      idle : {"none", "success", "other"}]
    BY <1>3, <1>t DEF WorkerEnds, Hangs, Moves
  <2>3. WatchTypeOK' BY <1>t, <2>1, <2>2 DEF WatchTypeOK, WorkerType, WatchType
  <2> QED BY <1>q, <2>1, <2>3 DEF Alive, WorkerIsFresh, LineIsFresh
<1>4. CASE ServiceEntry
  <2>1. UNCHANGED <<worker, watch>> BY <1>4 DEF ServiceEntry
  <2>2. service' \in [up : BOOLEAN, entry : {"none", "busy", "retry"},
                      idle : {"none", "success", "other"}]
    BY <1>4, <1>t DEF ServiceEntry
  <2>3. WatchTypeOK' BY <1>t, <2>1, <2>2 DEF WatchTypeOK, WorkerType, WatchType
  <2> QED BY <1>q, <2>1, <2>3 DEF Alive, WatchInv, WorkerIsFresh, LineIsFresh
<1> QED BY <1>1, <1>2, <1>3, <1>4

\* The looks of the watcher, and its verdict.
LEMMA LooksKeep ==
    ASSUME WatchInv, ReadHeartbeat \/ ReadStore \/ AskStatus \/ Announce
    PROVE  WatchInv'
<1>t. /\ worker \in WorkerType /\ watch \in WatchType
      /\ service \in [up : BOOLEAN, entry : {"none", "busy", "retry"},
                      idle : {"none", "success", "other"}]
  BY DEF WatchInv, WatchTypeOK, WorkerType, WatchType
<1>f. /\ worker.line \in SignAges /\ worker.store \in StoreType
      /\ worker.store.part \in SignAges /\ watch.line \in SignAges
      /\ watch.store \in StoreType /\ watch.store.part \in SignAges
  BY <1>t DEF WorkerType, WatchType, StoreType
<1>u. UNCHANGED <<worker, service>>
  BY DEF ReadHeartbeat, ReadStore, AskStatus, Announce, Reads
<1>q. ASSUME watch' \in WatchType, LineIsFresh', ReadIsFresh', NoFalseAlarm'
      PROVE  WatchInv'
  <2>1. WatchTypeOK' BY <1>t, <1>u, <1>q DEF WatchTypeOK, WorkerType, WatchType
  <2>2. WorkerIsFresh' BY <1>u DEF WatchInv, WorkerIsFresh, Alive
  <2> QED BY <1>q, <2>1, <2>2 DEF WatchInv
<1>1. CASE ReadHeartbeat
  <2>1. watch' = [watch EXCEPT !.pc = "store", !.line = worker.line] BY <1>1 DEF ReadHeartbeat, Reads
  <2>2. watch' \in WatchType /\ watch'.pc = "store" /\ watch'.line = worker.line
    BY <1>f, <1>t, <2>1 DEF WatchType
  <2>3. LineIsFresh' BY <1>u, <2>2 DEF WatchInv, WorkerIsFresh, LineIsFresh, Alive
  <2> QED BY <1>q, <2>2, <2>3 DEF ReadIsFresh, NoFalseAlarm
<1>2. CASE ReadStore
  <2>1. watch' = [watch EXCEPT !.store = worker.store,
                    !.pc = IF worker.store.part = NoSign THEN "judge" ELSE "status"]
        /\ watch.pc = "store"
    BY <1>2 DEF ReadStore, Reads
  <2>2. /\ watch' \in WatchType /\ watch'.pc \in {"judge", "status"}
        /\ watch'.store = worker.store /\ watch'.line = watch.line
    BY <1>f, <1>t, <2>1 DEF WatchType
  <2>3. ReadIsFresh' BY <1>u, <2>1, <2>2 DEF WatchInv, LineIsFresh, ReadIsFresh, LiveAge, Alive
  <2> QED BY <1>q, <2>2, <2>3 DEF LineIsFresh, NoFalseAlarm
<1>3. CASE AskStatus
  <2>1. watch' = [watch EXCEPT !.pc = "judge", !.status = SessionStatus] /\ watch.pc = "status"
    BY <1>3 DEF AskStatus, Reads
  <2>2. SessionStatus \in Statuses BY <1>t DEF SessionStatus, Statuses
  <2>3. /\ watch' \in WatchType /\ watch'.pc = "judge"
        /\ watch'.store = watch.store /\ watch'.line = watch.line
    BY <1>t, <2>1, <2>2 DEF WatchType
  <2>4. ReadIsFresh' BY <1>u, <2>1, <2>3 DEF WatchInv, ReadIsFresh, LiveAge, Alive
  <2> QED BY <1>q, <2>3, <2>4 DEF LineIsFresh, NoFalseAlarm
<1>4. CASE Announce
  <2> DEFINE kept == [NoStore EXCEPT !.tool = watch.store.tool]
  <2>1. watch' = [watch EXCEPT !.pc = "sleep", !.verdict = Verdict, !.line = NoSign,
                    !.store = kept] /\ watch.pc = "judge"
    BY <1>4 DEF Announce, Reads
  <2>2. Verdict \in WatchVerdicts
    <3>1. LiveAge \in Nat BY <1>f, PairMin, SignFacts DEF LiveAge
    <3>2. QuietWindow(watch.store) \in Nat BY SignFacts
    <3>3. SilenceVerdict \in {"DEAD", "STALLED", "BLOCKING", "OK"}
      BY <3>1, <3>2 DEF SilenceVerdict
    <3> QED BY <3>3 DEF Verdict, WatchVerdicts
  <2>3. kept \in StoreType /\ kept.tool = watch.store.tool
    BY <1>f, SignFacts DEF StoreType, NoStore
  <2> HIDE DEF kept
  <2>4. /\ watch' \in WatchType /\ watch'.pc = "sleep" /\ watch'.verdict = Verdict
        /\ watch'.store = kept /\ watch'.status = watch.status
    BY <1>t, <2>1, <2>2, <2>3, SignFacts DEF WatchType
  <2>5. Verdict \in Alarms /\ Alive => watch.status = "retry" \/ watch.store.tool
    <3> SUFFICES ASSUME Verdict \in Alarms, Alive, watch.status # "retry", ~watch.store.tool
                 PROVE  FALSE
      OBVIOUS
    <3>1. Fresh(LiveAge, watch.store) BY <2>1 DEF WatchInv, ReadIsFresh
    <3>2. LiveAge # NoSign /\ watch.status # "busy" BY DEF Verdict, Alarms
    <3>3. LiveAge <= QuietWindow(watch.store) BY <3>1, <3>2 DEF Fresh
    <3>4. LiveAge \in Nat BY <1>f, PairMin, SignFacts DEF LiveAge
    <3>5. SilenceVerdict \in Alarms BY <3>2 DEF Verdict, Alarms
    <3> QED BY <3>3, <3>4, <3>5, SignFacts DEF SilenceVerdict, Alarms
  <2>6. NoFalseAlarm' BY <1>u, <2>3, <2>4, <2>5 DEF NoFalseAlarm, Alive
  <2> QED BY <1>q, <2>4, <2>6 DEF LineIsFresh, ReadIsFresh
<1> QED BY <1>1, <1>2, <1>3, <1>4

\* Time passes, and no child that works is late.
LEMMA WakesKeeps ==
    ASSUME WatchInv, Wakes
    PROVE  WatchInv'
<1>t. worker \in WorkerType /\ watch \in WatchType
  BY DEF WatchInv, WatchTypeOK, WorkerType, WatchType
<1>f. /\ worker.line \in SignAges /\ worker.store \in StoreType
      /\ worker.store.part \in SignAges /\ worker.store.tool \in BOOLEAN
  BY <1>t DEF WorkerType, StoreType
<1> DEFINE l == OneOlder(worker.line)
           p == OneOlder(worker.store.part)
           a == Min({worker.line, worker.store.part})
<1>1. worker' = [worker EXCEPT !.line = l, !.store.part = p] BY DEF Wakes
<1>2. l \in SignAges /\ p \in SignAges BY <1>f, SignFacts DEF OneOlder
<1>3. /\ worker' \in WorkerType /\ worker'.line = l /\ worker'.store.part = p
      /\ worker'.store.tool = worker.store.tool /\ worker'.store.open = worker.store.open
      /\ worker'.state = worker.state
  <2> HIDE DEF l, p
  <2> QED BY <1>1, <1>2, <1>t DEF WorkerType, StoreType
<1>4. watch' \in WatchType /\ watch'.pc = "heartbeat"
  BY <1>t, SignFacts DEF Wakes, WatchType, Statuses
<1>5. WatchTypeOK' BY <1>3, <1>4 DEF WatchInv, WatchTypeOK, WorkerType, WatchType, Wakes
<1>6. WorkerIsFresh'
  <2> SUFFICES ASSUME Alive, ~worker.store.tool
               PROVE  Min({l, p}) = NoSign \/ Min({l, p}) <= QuietWindow(worker.store)
    BY <1>3 DEF WorkerIsFresh, Fresh, Alive, QuietWindow
  <2>1. a = NoSign \/ a < QuietWindow(worker.store)
    BY PairMin, <1>f, SignFacts DEF Wakes, Due, QuietWindow
  <2>2. a = IF worker.line <= worker.store.part THEN worker.line ELSE worker.store.part
    BY <1>f, PairMin, SignFacts
  <2>3. Min({l, p}) = IF l <= p THEN l ELSE p BY <1>2, PairMin, SignFacts
  <2>4. CASE a = NoSign
    <3>1. worker.line = NoSign /\ worker.store.part = NoSign BY <1>f, <2>2, <2>4, SignFacts
    <3>2. l = NoSign /\ p = NoSign BY <3>1, SignFacts DEF OneOlder
    <3> QED BY <2>3, <3>2
  <2>5. CASE a < QuietWindow(worker.store)
    <3>1. Min({l, p}) <= a + 1
      BY <1>f, <2>2, <2>3, SignFacts DEF OneOlder
    <3>2. a \in Int /\ Min({l, p}) \in Int BY <1>2, <1>f, <2>2, <2>3, SignFacts
    <3> HIDE DEF a, l, p
    <3> QED BY <2>5, <3>1, <3>2, SignFacts
  <2> QED BY <2>1, <2>4, <2>5
<1> QED BY <1>4, <1>5, <1>6 DEF WatchInv, LineIsFresh, ReadIsFresh, NoFalseAlarm

\* NoFalseAlarm (watch_agent.py): for any windows, and wherever between the three looks of
\* the watcher the child moves, STALLED and DEAD are said of a working child only when
\* its service reports a retry or it waits for a tool.
THEOREM AlarmsAreTrue == WatchSpec => []NoFalseAlarm
<1>1. WatchInv /\ [WatchNext]_watchvars => WatchInv'
  <2> SUFFICES ASSUME WatchInv, [WatchNext]_watchvars PROVE WatchInv' OBVIOUS
  <2>1. CASE UNCHANGED watchvars
    BY <2>1 DEF watchvars, WatchInv, WatchTypeOK, WorkerIsFresh, LineIsFresh, ReadIsFresh,
                NoFalseAlarm, LiveAge, Alive
  <2> QED BY <2>1, WorkerKeeps, LooksKeep, WakesKeeps DEF WatchNext, WatchStep
<1>2. WatchInv => NoFalseAlarm BY DEF WatchInv
<1> QED BY <1>1, <1>2, WatchInitInv, PTL DEF WatchSpec

====
