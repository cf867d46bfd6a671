-------------------------- MODULE Delegation_proofs --------------------------
(***************************************************************************)
(* Theorems about the delegation observer: of its server part, for any     *)
(* locations, sessions and tree, that what is dropped is in the health     *)
(* record, that one root is told, and each milestone once, the start       *)
(* before the end; of its reducer, for any calls and windows, that alarms  *)
(* are earned, no silence is passed over, every wake is paid for, an       *)
(* outcome is final and nothing runs without evidence.                     *)
(***************************************************************************)
EXTENDS DelegationObserver, DelegationServer, FiniteSetTheorems, TLAPS

---------------------------------------------------------------------------
(* The types of the server part.                                           *)

\* What an instance does at the end of a step: it is an instance still, all but the
\* record of its health is as it was, and what was signed is its health.
LEMMA PublishFields ==
    ASSUME NEW i \in Locations, NEW n \in InstanceType, NEW p \in Publish(i, n)
    PROVE  /\ p \in InstanceType
           /\ p.boot = n.boot /\ p.stopped = n.stopped /\ p.row = n.row
           /\ p.emitted = n.emitted /\ p.inbox = n.inbox /\ p.job = n.job
           /\ p.trust = n.trust /\ p.health = n.health
           /\ p.signed = n.health
           /\ "healthFile" \notin tree.faults[i] /\ n.file = n.signed => p.file = n.health
<1>1. CASE n.health = n.signed
  <2>1. p = n BY <1>1 DEF Publish
  <2> QED BY <1>1, <2>1
<1>2. CASE n.health # n.signed
  <2>1. PICK f \in {n.health} \cup (IF "healthFile" \in tree.faults[i] THEN {n.file} ELSE {}) :
          p = [n EXCEPT !.signed = n.health, !.file = f]
    BY <1>2 DEF Publish
  <2>2. f \in Health BY DEF InstanceType
  <2>3. "healthFile" \notin tree.faults[i] => f = n.health BY <2>1
  <2> QED BY <2>1, <2>2, <2>3 DEF InstanceType
<1> QED BY <1>1, <1>2

\* A session that a chain leads to is one, and a chain leads on from the delegate.
LEMMA OnwardTyped ==
    ASSUME tree \in TreeType, NEW s \in Sessions
    PROVE  Onward(s) \in Sessions \cup {Nobody}
BY DEF TreeType, Onward

\* The environment keeps the types.
LEMMA ChildTypeStep ==
    ASSUME ServerTypeOK, ChildBegins \/ ChildEnds
    PROVE  ServerTypeOK'
<1>1. PICK e \in {"created", "ended"} : Heard(e) /\ UNCHANGED <<tree, missed, told>>
  BY DEF ChildBegins, ChildEnds
<1>2. delegate' \in {"unborn", "running", "ended"} BY DEF ChildBegins, ChildEnds
<1>3. ASSUME NEW i \in Locations
      PROVE  inst'[i] \in InstanceType
  <2>1. inst[i] \in InstanceType BY DEF ServerTypeOK
  <2>2. inst'[i] = IF inst[i].boot = "open" /\ ~inst[i].stopped
                   THEN [inst[i] EXCEPT !.inbox = Append(@, e)] ELSE inst[i]
    BY <1>1 DEF Heard
  <2>3. Append(inst[i].inbox, e) \in Seq({"created", "ended"}) BY <2>1 DEF InstanceType
  <2> QED BY <2>1, <2>2, <2>3 DEF InstanceType
<1>4. inst' \in [Locations -> InstanceType] BY <1>1, <1>3 DEF Heard
<1> QED BY <1>1, <1>2, <1>4 DEF ServerTypeOK

\* An instance that takes another one's place is still one.
LEMMA TurnTyped ==
    ASSUME NEW i \in Locations, NEW n \in InstanceType, inst \in [Locations -> InstanceType],
           Turns(i, n)
    PROVE  /\ inst' \in [Locations -> InstanceType] /\ inst'[i] = n
           /\ \A k \in Locations \ {i} : inst'[k] = inst[k]
BY DEF Turns

\* No delivery is one that could be.
LEMMA NoJobTyped == NoJob \in JobType
<1>1. 0 \in 0 .. MaxHops - 1 BY ServerAssumption
<1> QED BY <1>1 DEF NoJob, JobType

\* The bootstrap, the events and the end of the stream keep the types.
LEMMA InstanceTypeStep ==
    ASSUME ServerTypeOK, NEW i \in Locations,
           InstanceStep(i) \/ Flush(i) \/ StreamEnds(i) \/ Stop(i)
    PROVE  ServerTypeOK'
<1> DEFINE n == inst[i]
<1>t. n \in InstanceType BY DEF ServerTypeOK
<1>h. Disconnected(n.health) \in Health BY <1>t DEF InstanceType, Health, Disconnected
<1>u. /\ n.inbox \in Seq({"created", "ended"}) /\ <<>> \in Seq({"created", "ended"})
      /\ n.inbox # <<>> => Tail(n.inbox) \in Seq({"created", "ended"})
  BY <1>t DEF InstanceType
<1>j. ASSUME NEW j \in Emitters, NEW ms \in Milestones, NEW m \in InstanceType
      PROVE  [m EXCEPT !.job[j] = [NoJob EXCEPT !.ms = ms, !.step = "resolve"]] \in InstanceType
  <2>1. [NoJob EXCEPT !.ms = ms, !.step = "resolve"] \in JobType BY NoJobTyped DEF JobType
  <2>2. m.job \in [Emitters -> JobType] BY DEF InstanceType
  <2> QED BY <2>1, <2>2 DEF InstanceType
<1>1. SUFFICES /\ UNCHANGED <<tree, delegate, missed, told>>
               /\ \E m \in InstanceType : Turns(i, m)
  BY TurnTyped DEF ServerTypeOK
<1>2. CASE ListSessions(i) BY <1>2, <1>t DEF ListSessions, InstanceType
<1>3. CASE Subscribe(i)
  <2>1. CASE Turns(i, [n EXCEPT !.boot = IF n.stopped THEN "closed" ELSE "open"])
    <3>1. [n EXCEPT !.boot = IF n.stopped THEN "closed" ELSE "open"] \in InstanceType
      BY <1>t DEF InstanceType
    <3> QED BY <3>1, <2>1, <1>3 DEF Subscribe
  <2>2. CASE \E m \in Publish(i, [n EXCEPT !.boot = "closed", !.health = Disconnected(@)]) :
               Turns(i, m)
    <3>1. [n EXCEPT !.boot = "closed", !.health = Disconnected(@)] \in InstanceType
      BY <1>t, <1>h DEF InstanceType
    <3> QED BY <3>1, <2>2, <1>3, PublishFields DEF Subscribe
  <2> QED BY <1>3, <2>1, <2>2 DEF Subscribe
<1>4. CASE Observed(i)
  <2> DEFINE q == [n EXCEPT !.inbox = Tail(@)]
  <2>1. q \in InstanceType BY <1>t, <1>u, <1>4 DEF Observed, LoopReady, InstanceType
  <2>2. CASE Head(n.inbox) = "created" /\ q.row = "none"
    <3>1. [q EXCEPT !.row = "observed", !.emitted = @ \cup {"start"}] \in InstanceType
      BY <2>1 DEF InstanceType
    <3>2. Announces(i, "loop", "start", [q EXCEPT !.row = "observed", !.emitted = @ \cup {"start"}])
      BY <1>4, <2>2 DEF Observed
    <3> QED BY <3>1, <3>2, <1>j DEF Announces, Emitters, Milestones
  <2>3. CASE Head(n.inbox) = "ended" /\ q.row \in {"listed", "observed"}
    <3>1. [q EXCEPT !.row = "over"] \in InstanceType BY <2>1 DEF InstanceType
    <3>2. Announces(i, "loop", "terminal", [q EXCEPT !.row = "over"])
      BY <1>4, <2>3 DEF Observed
    <3> QED BY <3>1, <3>2, <1>j DEF Announces, Emitters, Milestones
  <2>4. CASE /\ ~(Head(n.inbox) = "created" /\ q.row = "none")
             /\ ~(Head(n.inbox) = "ended" /\ q.row \in {"listed", "observed"})
    <3>1. /\ \E p \in Publish(i, q) : Turns(i, p)
          /\ UNCHANGED <<tree, delegate, missed, told>>
      BY <1>4, <2>4 DEF Observed
    <3> QED BY <3>1, <2>1, PublishFields
  <2> QED BY <2>2, <2>3, <2>4
<1>5. CASE Flush(i)
  <2>1. [n EXCEPT !.emitted = @ \cup {"stall"}] \in InstanceType BY <1>t DEF InstanceType
  <2> QED BY <2>1, <1>5, <1>j DEF Flush, Announces, Emitters, Milestones
<1>6. CASE StreamEnds(i)
  <2>1. [n EXCEPT !.boot = "closed", !.inbox = <<>>, !.health = Disconnected(@)] \in InstanceType
    BY <1>t, <1>h, <1>u DEF InstanceType
  <2> QED BY <2>1, <1>6, PublishFields DEF StreamEnds
<1>7. CASE Stop(i)
  <2>1. [n EXCEPT !.stopped = TRUE, !.inbox = <<>>] \in InstanceType
    BY <1>t, <1>u DEF InstanceType
  <2> QED BY <2>1, <1>7 DEF Stop
<1> QED BY <1>2, <1>3, <1>4, <1>5, <1>6, <1>7 DEF InstanceStep

\* What a delivery looks up and whom it tells are sessions.
SessionsAreMeant ==
    \A i \in Locations :
      /\ inst[i].trust.trusted = "yes" => inst[i].trust.root \in Sessions
      /\ \A j \in Emitters :
           /\ Job(i, j).step = "walk" => Job(i, j).at \in Sessions
           /\ Job(i, j).step = "send" => Job(i, j).root \in Sessions
           /\ Job(i, j).step # "idle" => Job(i, j).ms \in Milestones

\* The types, of the tree what the constants say, and of the deliveries more.
ServerTyped == ServerTypeOK /\ tree \in Trees /\ SessionsAreMeant

\* The delegate is named by its parent or its title.
LEMMA NamedTyped ==
    ASSUME tree \in Trees
    PROVE  tree \in TreeType /\ Named \in Sessions
BY TreesAssumption DEF Named, TreeType, Sessions

\* A delivery that goes on is one still, whichever emitter's it is.
LEMMA WorksTyped ==
    ASSUME NEW n \in InstanceType, NEW j \in Emitters, NEW job \in JobType
    PROVE  LET m == [n EXCEPT !.job[j] = job]
           IN  /\ m \in InstanceType
               /\ m.boot = n.boot /\ m.stopped = n.stopped /\ m.row = n.row
               /\ m.emitted = n.emitted /\ m.inbox = n.inbox /\ m.trust = n.trust
               /\ m.health = n.health /\ m.signed = n.signed /\ m.file = n.file
               /\ m.job[j] = job /\ \A e \in Emitters \ {j} : m.job[e] = n.job[e]
<1>1. n.job \in [Emitters -> JobType] BY DEF InstanceType
<1> QED BY <1>1 DEF InstanceType

\* A delivery that comes to its end.
LEMMA SettlesFields ==
    ASSUME inst \in [Locations -> InstanceType], NEW i \in Locations, NEW j \in Emitters,
           NEW lost \in BOOLEAN, NEW n \in InstanceType, Settles(i, j, lost, n)
    PROVE  /\ UNCHANGED <<tree, delegate>>
           /\ missed' = missed \cup (IF lost THEN {i} ELSE {})
           /\ inst' \in [Locations -> InstanceType]
           /\ \A k \in Locations \ {i} : inst'[k] = inst[k]
           /\ inst'[i].boot = n.boot /\ inst'[i].stopped = n.stopped /\ inst'[i].row = n.row
           /\ inst'[i].emitted = n.emitted /\ inst'[i].inbox = n.inbox
           /\ inst'[i].trust = n.trust /\ inst'[i].health = n.health
           /\ inst'[i].job[j] = NoJob /\ \A e \in Emitters \ {j} : inst'[i].job[e] = n.job[e]
           /\ inst'[i].signed = n.health
           /\ "healthFile" \notin tree.faults[i] /\ n.file = n.signed => inst'[i].file = n.health
<1> DEFINE q == [n EXCEPT !.job[j] = NoJob]
<1>1. /\ q \in InstanceType
      /\ q.boot = n.boot /\ q.stopped = n.stopped /\ q.row = n.row
      /\ q.emitted = n.emitted /\ q.inbox = n.inbox /\ q.trust = n.trust
      /\ q.health = n.health /\ q.signed = n.signed /\ q.file = n.file
      /\ q.job[j] = NoJob /\ \A e \in Emitters \ {j} : q.job[e] = n.job[e]
  BY WorksTyped, NoJobTyped
<1>2. (\E p \in Publish(i, q) : Turns(i, p)) /\ UNCHANGED <<tree, delegate>>
      /\ missed' = missed \cup (IF lost THEN {i} ELSE {})
  BY DEF Settles
<1> HIDE DEF q
<1>3. PICK p \in Publish(i, q) : Turns(i, p) BY <1>2
<1>4. /\ p \in InstanceType
      /\ p.boot = q.boot /\ p.stopped = q.stopped /\ p.row = q.row
      /\ p.emitted = q.emitted /\ p.inbox = q.inbox /\ p.job = q.job
      /\ p.trust = q.trust /\ p.health = q.health /\ p.signed = q.health
      /\ "healthFile" \notin tree.faults[i] /\ q.file = q.signed => p.file = q.health
  BY <1>1, PublishFields
<1>5. /\ inst' \in [Locations -> InstanceType] /\ inst'[i] = p
      /\ \A k \in Locations \ {i} : inst'[k] = inst[k]
  BY <1>3, <1>4, TurnTyped
<1> QED BY <1>1, <1>2, <1>4, <1>5

\* Where the walk of a delegate's deliveries leads: a look-up is at a session with the
\* location known so far.
Lookups == Sessions \X (Locations \cup {Nobody})
Known(l) == IF tree.place[l[1]] # Nobody THEN tree.place[l[1]] ELSE l[2]
After(l) == <<Onward(l[1]), Known(l)>>

\* Once in the text, a degradation stays in it.
Bad(health) == health.reasons > 0 /\ health.connection # "connected"

---------------------------------------------------------------------------
(* What one step is to one location.  Each of the following says what it   *)
(* does to the fields that matter and is silent on the others.             *)

Rest(k) == told'[k] = told[k] /\ (k \in missed' <=> k \in missed)
Row(k)  == /\ inst'[k].row = inst[k].row /\ inst'[k].emitted = inst[k].emitted
           /\ inst'[k].boot = inst[k].boot
OtherJobs(k, j) == \A e \in Emitters \ {j} : inst'[k].job[e] = inst[k].job[e]

\* Nothing of its deliveries moves; the row may come from the list.
Idles(k) ==
    /\ Rest(k)
    /\ inst'[k].job = inst[k].job /\ inst'[k].trust = inst[k].trust
    /\ inst'[k].emitted = inst[k].emitted
    /\ \/ inst'[k].row = inst[k].row /\ (inst'[k].boot = "list" => inst[k].boot = "list")
       \/ inst[k].boot = "list" /\ inst'[k].boot # "list"

\* A milestone is announced.
Announced(k, j, ms) ==
    /\ inst[k].job[j].step = "idle" \/ j = "timer"
    /\ inst'[k].job[j] = [NoJob EXCEPT !.ms = ms, !.step = "resolve"]
    /\ OtherJobs(k, j)
    /\ Rest(k) /\ inst'[k].trust = inst[k].trust /\ inst'[k].boot = inst[k].boot
    /\ inst[k].boot # "list"
    /\ \/ /\ j = "loop" /\ ms = "start"
          /\ inst[k].row = "none" /\ inst'[k].row = "observed"
          /\ inst'[k].emitted = inst[k].emitted \cup {"start"}
       \/ /\ j = "loop" /\ ms = "terminal"
          /\ inst[k].row \in {"listed", "observed"} /\ inst'[k].row = "over"
          /\ inst'[k].emitted = inst[k].emitted
       \/ /\ j = "timer" /\ ms = "stall"
          /\ inst'[k].row = inst[k].row /\ "stall" \notin inst[k].emitted
          /\ inst'[k].emitted = inst[k].emitted \cup {"stall"}

\* A look-up: the first one, or the next of the chain.
LooksUp(k, j) ==
    LET old == inst[k].job[j]  new == inst'[k].job[j] IN
    /\ Rest(k) /\ Row(k) /\ OtherJobs(k, j) /\ inst'[k].trust = inst[k].trust
    /\ new.step = "walk" /\ new.ms = old.ms
    /\ \/ old.step = "resolve" /\ new.at = Named /\ new.place = old.place
       \/ /\ old.step = "walk" /\ Onward(old.at) # Nobody
          /\ <<new.at, new.place>> = After(<<old.at, old.place>>)

\* The instance knows whom the milestone is for, and drops it, leaves it to another or
\* goes on to send it.
Concludes(k, j) ==
    LET old == inst[k].job[j]  new == inst'[k].job[j]  trust == inst'[k].trust IN
    /\ Row(k) /\ OtherJobs(k, j) /\ told'[k] = told[k]
    /\ old.step \in {"resolve", "walk"}
    /\ \/ trust = inst[k].trust
       \/ trust.trusted = "no" /\ Bad(inst'[k].health)
       \/ /\ trust.trusted = "yes"
          /\ old.step = "walk" /\ Onward(old.at) = Nobody
          /\ trust.root = old.at /\ trust.place = Known(<<old.at, old.place>>)
    /\ \/ trust.trusted = "no" /\ new = NoJob /\ k \in missed'
       \/ /\ trust.trusted = "yes" /\ ~Mine(k, trust.place)
          /\ new = NoJob /\ (k \in missed' <=> k \in missed)
       \/ /\ trust.trusted = "yes" /\ Mine(k, trust.place)
          /\ new.step = "send" /\ new.ms = old.ms
          /\ new.root = trust.root /\ new.place = trust.place
          /\ (k \in missed' <=> k \in missed)

\* The message is in the root's session, or is refused.
Delivers(k, j) ==
    LET old == inst[k].job[j] IN
    /\ Row(k) /\ OtherJobs(k, j) /\ inst'[k].trust = inst[k].trust
    /\ old.step = "send" /\ inst'[k].job[j] = NoJob
    /\ \/ /\ told'[k] = Append(told[k], [ms |-> old.ms, to |-> old.root])
          /\ (k \in missed' <=> k \in missed)
       \/ told'[k] = told[k] /\ k \in missed' /\ Bad(inst'[k].health)

\* The health is never repaired, and what is written is what it is.
HealthMoves(k) ==
    /\ inst'[k].health = inst[k].health \/ Bad(inst'[k].health)
    /\ inst[k].signed = inst[k].health => inst'[k].signed = inst'[k].health
    /\ "healthFile" \notin tree.faults[k] /\ inst[k].file = inst[k].signed
         => inst'[k].file = inst'[k].signed

\* A location the step is not about.
Untouched(k) == inst'[k] = inst[k] /\ Rest(k)

\* What is said of a delivery of i is said of every location.
Moves(k) == \/ Idles(k)
            \/ \E j \in Emitters : LooksUp(k, j) \/ Concludes(k, j) \/ Delivers(k, j)
            \/ \E j \in Emitters, ms \in Milestones : Announced(k, j, ms)

\* An instance that a step leaves alone makes a move that is none.
LEMMA UntouchedIdles ==
    ASSUME NEW k \in Locations, Untouched(k)
    PROVE  Idles(k) /\ HealthMoves(k)
BY DEF Untouched, Idles, HealthMoves

\* An answer, from the cache or from the walk.
LEMMA ResolvedMoves ==
    ASSUME ServerTyped, NEW i \in Locations, NEW j \in Emitters, NEW entry \in EntryType,
           NEW h \in Health, h = inst[i].health \/ Bad(h),
           Job(i, j).step \in {"resolve", "walk"},
           entry.trusted # "unknown",
           entry.trusted = "yes" => entry.root \in Sessions,
           \/ entry = inst[i].trust
           \/ entry.trusted = "no" /\ Bad(h)
           \/ /\ entry.trusted = "yes"
              /\ Job(i, j).step = "walk" /\ Onward(Job(i, j).at) = Nobody
              /\ entry.root = Job(i, j).at
              /\ entry.place = Known(<<Job(i, j).at, Job(i, j).place>>),
           Resolved(i, j, entry, [inst[i] EXCEPT !.trust = entry, !.health = h]),
           h # inst[i].health => entry.trusted = "no"
    PROVE  /\ ServerTyped' /\ UNCHANGED tree
           /\ Concludes(i, j) /\ HealthMoves(i)
           /\ \A k \in Locations \ {i} : Untouched(k)
<1> DEFINE n == [inst[i] EXCEPT !.trust = entry, !.health = h]
<1>1. /\ inst \in [Locations -> InstanceType] /\ inst[i] \in InstanceType
      /\ told \in [Locations -> Seq([ms : Milestones, to : Sessions])]
      /\ missed \subseteq Locations
  BY DEF ServerTyped, ServerTypeOK
<1>2. /\ n \in InstanceType
      /\ n.boot = inst[i].boot /\ n.stopped = inst[i].stopped /\ n.row = inst[i].row
      /\ n.emitted = inst[i].emitted /\ n.inbox = inst[i].inbox /\ n.job = inst[i].job
      /\ n.trust = entry /\ n.health = h
      /\ n.signed = inst[i].signed /\ n.file = inst[i].file
  BY <1>1 DEF InstanceType
<1>3. Resolved(i, j, entry, n) OBVIOUS
<1> HIDE DEF n
<1>4. SUFFICES /\ UNCHANGED <<tree, delegate>> /\ told' = told
               /\ inst' \in [Locations -> InstanceType]
               /\ missed' \subseteq Locations
               /\ Concludes(i, j) /\ HealthMoves(i)
               /\ \A k \in Locations \ {i} : Untouched(k)
  <2>1. ServerTypeOK' BY <1>4 DEF ServerTyped, ServerTypeOK
  <2>2. inst'[i].trust = entry \/ inst'[i].trust = inst[i].trust \/ inst'[i].trust.trusted = "no"
          \/ (inst'[i].trust.root = Job(i, j).at /\ Job(i, j).step = "walk")
    BY <1>4 DEF Concludes, Job
  <2>3. SessionsAreMeant'
    <3> SUFFICES ASSUME NEW k \in Locations
                 PROVE  /\ inst'[k].trust.trusted = "yes" => inst'[k].trust.root \in Sessions
                        /\ \A e \in Emitters :
                             /\ inst'[k].job[e].step = "walk" => inst'[k].job[e].at \in Sessions
                             /\ inst'[k].job[e].step = "send" => inst'[k].job[e].root \in Sessions
                             /\ inst'[k].job[e].step # "idle" => inst'[k].job[e].ms \in Milestones
      BY DEF SessionsAreMeant, Job
    <3>1. CASE k # i BY <3>1, <1>4 DEF Untouched, ServerTyped, SessionsAreMeant, Job
    <3>2. CASE k = i
      <4>1. inst'[i].trust.trusted = "yes" => inst'[i].trust.root \in Sessions
        BY <1>4, <2>2 DEF ServerTyped, SessionsAreMeant, Job
      <4>2. \A e \in Emitters \ {j} : inst'[i].job[e] = inst[i].job[e]
        BY <1>4 DEF Concludes, OtherJobs
      <4>3. /\ inst'[i].job[j].step = "walk" => inst'[i].job[j].at \in Sessions
            /\ inst'[i].job[j].step = "send" => inst'[i].job[j].root \in Sessions
            /\ inst'[i].job[j].step # "idle" => inst'[i].job[j].ms \in Milestones
        BY <1>4, <4>1 DEF Concludes, NoJob, ServerTyped, SessionsAreMeant, Job
      <4> QED BY <3>2, <4>1, <4>2, <4>3 DEF ServerTyped, SessionsAreMeant, Job
    <3> QED BY <3>1, <3>2
  <2> QED BY <1>4, <2>1, <2>3 DEF ServerTyped
<1>5. ASSUME NEW lost \in BOOLEAN, Settles(i, j, lost, n), told' = told,
             lost <=> entry.trusted = "no", ~lost => ~Mine(i, entry.place)
      PROVE  /\ UNCHANGED <<tree, delegate>> /\ told' = told
             /\ inst' \in [Locations -> InstanceType]
             /\ missed' \subseteq Locations
             /\ Concludes(i, j) /\ HealthMoves(i)
             /\ \A k \in Locations \ {i} : Untouched(k)
  <2>1. /\ UNCHANGED <<tree, delegate>>
        /\ missed' = missed \cup (IF lost THEN {i} ELSE {})
        /\ inst' \in [Locations -> InstanceType]
        /\ \A k \in Locations \ {i} : inst'[k] = inst[k]
        /\ inst'[i].boot = n.boot /\ inst'[i].stopped = n.stopped /\ inst'[i].row = n.row
        /\ inst'[i].emitted = n.emitted /\ inst'[i].inbox = n.inbox
        /\ inst'[i].trust = n.trust /\ inst'[i].health = n.health
        /\ inst'[i].job[j] = NoJob /\ \A e \in Emitters \ {j} : inst'[i].job[e] = n.job[e]
        /\ inst'[i].signed = n.health
        /\ "healthFile" \notin tree.faults[i] /\ n.file = n.signed => inst'[i].file = n.health
    BY <1>1, <1>2, <1>5, SettlesFields
  <2>2. missed' \subseteq Locations /\ \A k \in Locations \ {i} : Untouched(k)
    BY <1>1, <1>5, <2>1 DEF Untouched, Rest
  <2>3. (lost => i \in missed') /\ (~lost => (i \in missed' <=> i \in missed))
    BY <2>1
  <2>4. HealthMoves(i) BY <1>2, <2>1 DEF HealthMoves
  <2>5. entry.trusted \in {"yes", "no"} BY DEF EntryType
  <2>6. Row(i) /\ OtherJobs(i, j) /\ inst'[i].trust = entry /\ inst'[i].health = h
    BY <1>2, <2>1 DEF Row, OtherJobs
  <2>7. Concludes(i, j) BY <1>5, <2>1, <2>3, <2>5, <2>6 DEF Concludes, Job
  <2> QED BY <1>5, <2>1, <2>2, <2>4, <2>7
<1>6. CASE entry.trusted = "no"
  <2>1. Settles(i, j, TRUE, n) /\ UNCHANGED told BY <1>3, <1>6 DEF Resolved
  <2> QED BY <1>5, <1>6, <2>1
<1>7. CASE entry.trusted = "yes" /\ ~Mine(i, entry.place)
  <2>1. Settles(i, j, FALSE, n) /\ UNCHANGED told BY <1>3, <1>7 DEF Resolved
  <2> QED BY <1>5, <1>7, <2>1
<1>8. CASE entry.trusted = "yes" /\ Mine(i, entry.place)
  <2> DEFINE job == [NoJob EXCEPT !.ms = Job(i, j).ms, !.step = "send",
                                  !.root = entry.root, !.place = entry.place]
  <2>1. Turns(i, [n EXCEPT !.job[j] = job]) /\ UNCHANGED <<tree, delegate, missed, told>>
    BY <1>3, <1>8 DEF Resolved
  <2>2. inst[i].job[j] \in JobType BY <1>1 DEF InstanceType
  <2>3. /\ job \in JobType /\ job.ms = inst[i].job[j].ms /\ job.step = "send"
        /\ job.root = entry.root /\ job.place = entry.place
    BY <2>2, NoJobTyped DEF JobType, EntryType, Job
  <2> HIDE DEF job
  <2> DEFINE m == [n EXCEPT !.job[j] = job]
  <2>4. /\ m \in InstanceType
        /\ m.boot = n.boot /\ m.stopped = n.stopped /\ m.row = n.row
        /\ m.emitted = n.emitted /\ m.inbox = n.inbox /\ m.trust = n.trust
        /\ m.health = n.health /\ m.signed = n.signed /\ m.file = n.file
        /\ m.job[j] = job /\ \A e \in Emitters \ {j} : m.job[e] = n.job[e]
    BY <1>2, <2>3, WorksTyped
  <2>5. Turns(i, m) BY <2>1
  <2> HIDE DEF m
  <2>6. /\ inst' \in [Locations -> InstanceType] /\ inst'[i] = m
        /\ \A k \in Locations \ {i} : inst'[k] = inst[k]
    BY <1>1, <2>4, <2>5, TurnTyped
  <2>7. \A k \in Locations \ {i} : Untouched(k) BY <2>1, <2>6 DEF Untouched, Rest
  <2>8. h = inst[i].health BY <1>8
  <2>9. HealthMoves(i) BY <1>2, <2>4, <2>6, <2>8 DEF HealthMoves
  <2>10. Row(i) /\ OtherJobs(i, j) /\ inst'[i].trust = entry /\ inst'[i].health = h
         /\ told'[i] = told[i] /\ (i \in missed' <=> i \in missed)
    BY <1>2, <2>1, <2>4, <2>6 DEF Row, OtherJobs
  <2>11. Concludes(i, j) BY <1>8, <2>3, <2>4, <2>6, <2>10 DEF Concludes, Job
  <2> QED BY <1>1, <2>1, <2>6, <2>7, <2>9, <2>11
<1> QED BY <1>6, <1>7, <1>8 DEF EntryType

\* Works: one job of one instance changes and nothing else.
LEMMA WorksFields ==
    ASSUME ServerTyped, NEW i \in Locations, NEW j \in Emitters, NEW job \in JobType,
           Works(i, j, job), UNCHANGED <<tree, delegate, missed, told>>
    PROVE  /\ ServerTypeOK' /\ inst'[i].job[j] = job
           /\ Rest(i) /\ Row(i) /\ OtherJobs(i, j) /\ inst'[i].trust = inst[i].trust
           /\ HealthMoves(i)
           /\ \A k \in Locations \ {i} : Untouched(k)
<1> DEFINE m == [inst[i] EXCEPT !.job[j] = job]
<1>1. /\ inst \in [Locations -> InstanceType] /\ inst[i] \in InstanceType
  BY DEF ServerTyped, ServerTypeOK
<1>2. /\ m \in InstanceType
      /\ m.boot = inst[i].boot /\ m.row = inst[i].row
      /\ m.emitted = inst[i].emitted /\ m.trust = inst[i].trust
      /\ m.health = inst[i].health /\ m.signed = inst[i].signed /\ m.file = inst[i].file
      /\ m.job[j] = job /\ \A e \in Emitters \ {j} : m.job[e] = inst[i].job[e]
  BY <1>1, WorksTyped
<1>3. Turns(i, m) BY DEF Works
<1> HIDE DEF m
<1>4. /\ inst' \in [Locations -> InstanceType] /\ inst'[i] = m
      /\ \A k \in Locations \ {i} : inst'[k] = inst[k]
  BY <1>1, <1>2, <1>3, TurnTyped
<1>5. ServerTypeOK' BY <1>4 DEF ServerTyped, ServerTypeOK
<1>6. \A k \in Locations \ {i} : Untouched(k) BY <1>4 DEF Untouched, Rest
<1>7. Rest(i) /\ Row(i) /\ OtherJobs(i, j) /\ inst'[i].trust = inst[i].trust /\ inst'[i].job[j] = job
  BY <1>2, <1>4 DEF Rest, Row, OtherJobs
<1>8. HealthMoves(i) BY <1>2, <1>4 DEF HealthMoves
<1> QED BY <1>5, <1>6, <1>7, <1>8

\* Whatever moves, the sessions that are meant are sessions.
LEMMA MeantStep ==
    ASSUME ServerTyped, NEW i \in Locations, NEW j \in Emitters,
           \A k \in Locations \ {i} : Untouched(k),
           OtherJobs(i, j), inst'[i].trust = inst[i].trust,
           inst'[i].job[j].step = "walk" => inst'[i].job[j].at \in Sessions,
           inst'[i].job[j].step # "idle" => inst'[i].job[j].ms \in Milestones,
           inst'[i].job[j].step # "send"
    PROVE  SessionsAreMeant'
<1> SUFFICES ASSUME NEW k \in Locations
             PROVE  /\ inst'[k].trust.trusted = "yes" => inst'[k].trust.root \in Sessions
                    /\ \A e \in Emitters :
                         /\ inst'[k].job[e].step = "walk" => inst'[k].job[e].at \in Sessions
                         /\ inst'[k].job[e].step = "send" => inst'[k].job[e].root \in Sessions
                         /\ inst'[k].job[e].step # "idle" => inst'[k].job[e].ms \in Milestones
  BY DEF SessionsAreMeant, Job
<1>1. CASE k # i BY <1>1 DEF Untouched, ServerTyped, SessionsAreMeant, Job
<1>2. CASE k = i
  <2>1. \A e \in Emitters \ {j} : inst'[i].job[e] = inst[i].job[e] BY DEF OtherJobs
  <2> QED BY <1>2, <2>1 DEF ServerTyped, SessionsAreMeant, Job
<1> QED BY <1>1, <1>2

\* resolveParent, up to the first look-up.
LEMMA ResolveMoves ==
    ASSUME ServerTyped, NEW i \in Locations, NEW j \in Emitters, Resolve(i, j)
    PROVE  /\ ServerTyped' /\ UNCHANGED tree
           /\ LooksUp(i, j) \/ Concludes(i, j)
           /\ HealthMoves(i)
           /\ \A k \in Locations \ {i} : Untouched(k)
<1> DEFINE old == inst[i].job[j]
<1>1. inst[i] \in InstanceType /\ old \in JobType /\ old.step = "resolve"
  BY DEF ServerTyped, ServerTypeOK, InstanceType, Resolve, Job
<1>2. CASE inst[i].trust.trusted # "unknown" /\ Resolved(i, j, inst[i].trust, inst[i])
  <2>1. inst[i].trust \in EntryType /\ inst[i].health \in Health BY <1>1 DEF InstanceType
  <2>2. [inst[i] EXCEPT !.trust = inst[i].trust, !.health = inst[i].health] = inst[i]
    BY <1>1 DEF InstanceType
  <2>3. Resolved(i, j, inst[i].trust,
                 [inst[i] EXCEPT !.trust = inst[i].trust, !.health = inst[i].health])
    BY <1>2, <2>2
  <2>4. inst[i].trust.trusted = "yes" => inst[i].trust.root \in Sessions
    BY DEF ServerTyped, SessionsAreMeant
  <2> QED BY <1>1, <1>2, <2>1, <2>3, <2>4, ResolvedMoves DEF Job
<1>3. CASE /\ Works(i, j, [Job(i, j) EXCEPT !.step = "walk", !.at = Named])
           /\ UNCHANGED <<tree, delegate, missed, told>>
  <2> DEFINE job == [old EXCEPT !.step = "walk", !.at = Named]
  <2>1. Named \in Sessions BY NamedTyped DEF ServerTyped
  <2>2. /\ job \in JobType /\ job.step = "walk" /\ job.ms = old.ms
        /\ job.at = Named /\ job.place = old.place
    BY <1>1, <2>1 DEF JobType
  <2>3. Works(i, j, job) BY <1>3 DEF Job
  <2> HIDE DEF job
  <2>4. /\ ServerTypeOK' /\ inst'[i].job[j] = job
        /\ Rest(i) /\ Row(i) /\ OtherJobs(i, j) /\ inst'[i].trust = inst[i].trust
        /\ HealthMoves(i)
        /\ \A k \in Locations \ {i} : Untouched(k)
    BY <1>3, <2>2, <2>3, WorksFields
  <2>5. SessionsAreMeant'
    <3>1. old.ms \in Milestones BY <1>1 DEF ServerTyped, SessionsAreMeant, Job
    <3> QED BY <2>1, <2>2, <2>4, <3>1, MeantStep
  <2>6. LooksUp(i, j) BY <1>1, <2>2, <2>4 DEF LooksUp
  <2> QED BY <1>3, <2>4, <2>5, <2>6 DEF ServerTyped
<1> QED BY <1>2, <1>3 DEF Resolve

\* One look-up of resolveParent.
LEMMA WalkMoves ==
    ASSUME ServerTyped, NEW i \in Locations, NEW j \in Emitters, Walk(i, j)
    PROVE  /\ ServerTyped' /\ UNCHANGED tree
           /\ LooksUp(i, j) \/ Concludes(i, j)
           /\ HealthMoves(i)
           /\ \A k \in Locations \ {i} : Untouched(k)
<1> DEFINE w == inst[i].job[j]
           place == IF tree.place[w.at] # Nobody THEN tree.place[w.at] ELSE w.place
<1>1. /\ inst[i] \in InstanceType /\ w \in JobType /\ w.step = "walk" /\ w.at \in Sessions
      /\ tree \in TreeType
  BY NamedTyped DEF ServerTyped, ServerTypeOK, InstanceType, Walk, Job, SessionsAreMeant
<1>2. place \in Locations \cup {Nobody} /\ w.place \in Locations \cup {Nobody}
  BY <1>1 DEF TreeType, JobType
<1>3. place = Known(<<w.at, w.place>>) BY DEF Known
<1>4. Onward(w.at) \in Sessions \cup {Nobody} BY <1>1, OnwardTyped
<1>5. \/ Found(i, j, Nobody, w.place) \/ Found(i, j, Nobody, place)
      \/ Onward(w.at) = Nobody /\ Found(i, j, w.at, place)
      \/ /\ Onward(w.at) # Nobody /\ ~LastHop(w.hop)
         /\ Works(i, j, [w EXCEPT !.at = Onward(w.at), !.place = place,
                           !.hop = IF @ < MaxHops THEN @ + 1 ELSE @])
         /\ UNCHANGED <<tree, delegate, missed, told>>
  BY DEF Walk, Job
<1> HIDE DEF place
<1>6. ASSUME NEW q \in Locations \cup {Nobody}, Found(i, j, Nobody, q)
      PROVE  /\ ServerTyped' /\ UNCHANGED tree
             /\ Concludes(i, j)
             /\ HealthMoves(i)
             /\ \A k \in Locations \ {i} : Untouched(k)
  <2> DEFINE entry == [trusted |-> "no", root |-> Nobody, place |-> q]
             h == Degraded(inst[i].health)
  <2>1. Resolved(i, j, entry, [inst[i] EXCEPT !.trust = entry, !.health = h])
    BY <1>6 DEF Found
  <2>2. entry \in EntryType /\ entry.trusted = "no" BY DEF EntryType
  <2>3. h \in Health /\ Bad(h) BY <1>1 DEF InstanceType, Health, Degraded, Bad
  <2> HIDE DEF entry, h
  <2> QED BY <1>1, <2>1, <2>2, <2>3, ResolvedMoves DEF Job
<1>7. CASE Onward(w.at) = Nobody /\ Found(i, j, w.at, place)
  <2> DEFINE entry == [trusted |-> "yes", root |-> w.at, place |-> place]
             h == inst[i].health
  <2>1. w.at # Nobody BY <1>1, TreesAssumption
  <2>2. Resolved(i, j, entry, [inst[i] EXCEPT !.trust = entry, !.health = h])
    BY <1>7, <2>1 DEF Found
  <2>3. /\ entry \in EntryType /\ entry.trusted = "yes"
        /\ entry.root = w.at /\ entry.place = place
    BY <1>1, <1>2 DEF EntryType
  <2>4. h \in Health /\ h = inst[i].health BY <1>1 DEF InstanceType
  <2> HIDE DEF entry, h
  <2> QED BY <1>1, <1>3, <1>7, <2>2, <2>3, <2>4, ResolvedMoves DEF Job
<1>8. CASE /\ Onward(w.at) # Nobody /\ ~LastHop(w.hop)
           /\ Works(i, j, [w EXCEPT !.at = Onward(w.at), !.place = place,
                             !.hop = IF @ < MaxHops THEN @ + 1 ELSE @])
           /\ UNCHANGED <<tree, delegate, missed, told>>
  <2> DEFINE job == [w EXCEPT !.at = Onward(w.at), !.place = place,
                              !.hop = IF @ < MaxHops THEN @ + 1 ELSE @]
  <2>1. w.hop \in Nat /\ w.hop + 1 < MaxHops /\ MaxHops \in Nat
    BY <1>1, <1>8, ServerAssumption DEF JobType, LastHop
  <2>2. (IF w.hop < MaxHops THEN w.hop + 1 ELSE w.hop) \in 0 .. MaxHops - 1
    BY <2>1
  <2>3. /\ job \in JobType /\ job.step = "walk" /\ job.ms = w.ms
        /\ job.at = Onward(w.at) /\ job.place = place
    BY <1>1, <1>2, <1>4, <2>2 DEF JobType
  <2>4. Works(i, j, job) BY <1>8
  <2> HIDE DEF job
  <2>5. /\ ServerTypeOK' /\ inst'[i].job[j] = job
        /\ Rest(i) /\ Row(i) /\ OtherJobs(i, j) /\ inst'[i].trust = inst[i].trust
        /\ HealthMoves(i)
        /\ \A k \in Locations \ {i} : Untouched(k)
    BY <1>8, <2>3, <2>4, WorksFields
  <2>6. SessionsAreMeant'
    <3>1. w.ms \in Milestones BY <1>1 DEF ServerTyped, SessionsAreMeant, Job
    <3> QED BY <1>4, <1>8, <2>3, <2>5, <3>1, MeantStep
  <2>7. LooksUp(i, j) BY <1>1, <1>3, <1>8, <2>3, <2>5 DEF LooksUp, After
  <2> QED BY <1>8, <2>5, <2>6, <2>7 DEF ServerTyped
<1> QED BY <1>2, <1>5, <1>6, <1>7, <1>8

\* The delivery itself.
LEMMA SendMoves ==
    ASSUME ServerTyped, NEW i \in Locations, NEW j \in Emitters, Send(i, j)
    PROVE  /\ ServerTyped' /\ UNCHANGED tree
           /\ Delivers(i, j)
           /\ HealthMoves(i)
           /\ \A k \in Locations \ {i} : Untouched(k)
<1> DEFINE old == inst[i].job[j]
<1>1. /\ inst \in [Locations -> InstanceType] /\ inst[i] \in InstanceType
      /\ old \in JobType /\ old.step = "send" /\ old.root \in Sessions
      /\ told \in [Locations -> Seq([ms : Milestones, to : Sessions])]
      /\ missed \subseteq Locations
  BY DEF ServerTyped, ServerTypeOK, InstanceType, Send, Job, SessionsAreMeant
<1>2. ASSUME NEW lost \in BOOLEAN, NEW n \in InstanceType, Settles(i, j, lost, n),
             n.boot = inst[i].boot, n.row = inst[i].row, n.emitted = inst[i].emitted,
             n.trust = inst[i].trust, n.job = inst[i].job,
             n.signed = inst[i].signed, n.file = inst[i].file,
             n.health = inst[i].health \/ Bad(n.health),
             told' \in [Locations -> Seq([ms : Milestones, to : Sessions])],
             \A k \in Locations \ {i} : told'[k] = told[k],
             \/ told'[i] = Append(told[i], [ms |-> old.ms, to |-> old.root]) /\ ~lost
             \/ told'[i] = told[i] /\ lost /\ Bad(n.health)
      PROVE  /\ ServerTyped' /\ UNCHANGED tree
             /\ Delivers(i, j)
             /\ HealthMoves(i)
             /\ \A k \in Locations \ {i} : Untouched(k)
  <2>1. /\ UNCHANGED <<tree, delegate>>
        /\ missed' = missed \cup (IF lost THEN {i} ELSE {})
        /\ inst' \in [Locations -> InstanceType]
        /\ \A k \in Locations \ {i} : inst'[k] = inst[k]
        /\ inst'[i].boot = n.boot /\ inst'[i].stopped = n.stopped /\ inst'[i].row = n.row
        /\ inst'[i].emitted = n.emitted /\ inst'[i].inbox = n.inbox
        /\ inst'[i].trust = n.trust /\ inst'[i].health = n.health
        /\ inst'[i].job[j] = NoJob /\ \A e \in Emitters \ {j} : inst'[i].job[e] = n.job[e]
        /\ inst'[i].signed = n.health
        /\ "healthFile" \notin tree.faults[i] /\ n.file = n.signed => inst'[i].file = n.health
    BY <1>1, <1>2, SettlesFields
  <2>2. missed' \subseteq Locations /\ \A k \in Locations \ {i} : Untouched(k)
    BY <1>1, <1>2, <2>1 DEF Untouched, Rest
  <2>3. (lost => i \in missed') /\ (~lost => (i \in missed' <=> i \in missed))
    BY <2>1
  <2>4. HealthMoves(i) BY <1>2, <2>1 DEF HealthMoves
  <2>5. Row(i) /\ OtherJobs(i, j) /\ inst'[i].trust = inst[i].trust
        /\ inst'[i].health = n.health /\ inst'[i].job[j] = NoJob
    BY <1>2, <2>1 DEF Row, OtherJobs
  <2>6. Delivers(i, j) BY <1>1, <1>2, <2>3, <2>5 DEF Delivers
  <2>7. ServerTypeOK' BY <1>2, <2>1, <2>2 DEF ServerTyped, ServerTypeOK
  <2>8. NoJob.step = "idle" BY DEF NoJob
  <2>9. SessionsAreMeant' BY <2>2, <2>5, <2>8, MeantStep
  <2> QED BY <2>1, <2>2, <2>4, <2>6, <2>7, <2>9 DEF ServerTyped
<1>3. CASE /\ Settles(i, j, FALSE, inst[i])
           /\ told' = [told EXCEPT ![i] = Append(@, [ms |-> Job(i, j).ms, to |-> Job(i, j).root])]
  <2>1. old.ms \in Milestones \cup {"none"} BY <1>1 DEF JobType
  <2>2. CASE old.ms \in Milestones
    <3> DEFINE T == [ms : Milestones, to : Sessions]
    <3>3. [ms |-> old.ms, to |-> old.root] \in T BY <1>1, <2>2
    <3>4. told[i] \in Seq(T) BY <1>1
    <3> HIDE DEF T
    <3>5. Append(told[i], [ms |-> old.ms, to |-> old.root]) \in Seq(T) BY <3>3, <3>4
    <3>1. Append(told[i], [ms |-> old.ms, to |-> old.root]) \in Seq([ms : Milestones, to : Sessions])
      BY <3>5 DEF T
    <3>2. /\ told'[i] = Append(told[i], [ms |-> old.ms, to |-> old.root])
          /\ told' \in [Locations -> Seq([ms : Milestones, to : Sessions])]
          /\ \A k \in Locations \ {i} : told'[k] = told[k]
      BY <1>1, <1>3, <3>1 DEF Job
    <3> QED BY <1>1, <1>2, <1>3, <3>2
  <2> QED BY <1>1, <2>1, <2>2 DEF ServerTyped, SessionsAreMeant, Job
<1>4. CASE Settles(i, j, TRUE, Failed(inst[i])) /\ UNCHANGED told
  <2> DEFINE n == Failed(inst[i])
  <2>1. Degraded(inst[i].health) \in Health /\ Bad(Degraded(inst[i].health))
    BY <1>1 DEF InstanceType, Health, Degraded, Bad
  <2>2. /\ n \in InstanceType /\ Bad(n.health)
        /\ n.boot = inst[i].boot /\ n.row = inst[i].row /\ n.emitted = inst[i].emitted
        /\ n.trust = inst[i].trust /\ n.job = inst[i].job
        /\ n.signed = inst[i].signed /\ n.file = inst[i].file
    BY <1>1, <2>1 DEF Failed, InstanceType
  <2>3. Settles(i, j, TRUE, n) BY <1>4
  <2> HIDE DEF n
  <2> QED BY <1>1, <1>2, <1>4, <2>2, <2>3
<1> QED BY <1>3, <1>4 DEF Send

\* An instance that was published from one that changed no job and no trust.
LEMMA PublishMoves ==
    ASSUME ServerTyped, NEW i \in Locations, NEW n \in InstanceType,
           \E p \in Publish(i, n) : Turns(i, p), UNCHANGED <<tree, delegate, missed, told>>,
           n.job = inst[i].job, n.trust = inst[i].trust, n.emitted = inst[i].emitted,
           n.row = inst[i].row, n.boot = "list" => inst[i].boot = "list",
           n.signed = inst[i].signed, n.file = inst[i].file,
           n.health = inst[i].health \/ Bad(n.health)
    PROVE  Idles(i) /\ HealthMoves(i) /\ \A k \in Locations \ {i} : Untouched(k)
<1>1. PICK p \in Publish(i, n) : Turns(i, p) OBVIOUS
<1>2. inst \in [Locations -> InstanceType] BY DEF ServerTyped, ServerTypeOK
<1>3. /\ p \in InstanceType
      /\ p.boot = n.boot /\ p.stopped = n.stopped /\ p.row = n.row
      /\ p.emitted = n.emitted /\ p.inbox = n.inbox /\ p.job = n.job
      /\ p.trust = n.trust /\ p.health = n.health
      /\ p.signed = n.health
      /\ "healthFile" \notin tree.faults[i] /\ n.file = n.signed => p.file = n.health
  BY PublishFields
<1>4. inst'[i] = p /\ \A k \in Locations \ {i} : inst'[k] = inst[k]
  BY <1>1, <1>2, <1>3, TurnTyped
<1>5. Idles(i) BY <1>3, <1>4 DEF Idles, Rest
<1>6. HealthMoves(i) BY <1>3, <1>4 DEF HealthMoves
<1> QED BY <1>4, <1>5, <1>6 DEF Untouched, Rest

\* An announcement by an instance n that differs from the one before in row and keys.
LEMMA AnnouncesMoves ==
    ASSUME ServerTyped, NEW i \in Locations, NEW j \in Emitters, NEW ms \in Milestones,
           NEW n \in InstanceType, Announces(i, j, ms, n),
           n.job = inst[i].job, n.trust = inst[i].trust,
           n.boot = inst[i].boot, n.boot # "list",
           n.signed = inst[i].signed, n.file = inst[i].file, n.health = inst[i].health,
           inst[i].job[j].step = "idle" \/ j = "timer",
           \/ /\ j = "loop" /\ ms = "start" /\ inst[i].row = "none" /\ n.row = "observed"
              /\ n.emitted = inst[i].emitted \cup {"start"}
           \/ /\ j = "loop" /\ ms = "terminal"
              /\ inst[i].row \in {"listed", "observed"} /\ n.row = "over"
              /\ n.emitted = inst[i].emitted
           \/ /\ j = "timer" /\ ms = "stall"
              /\ n.row = inst[i].row /\ "stall" \notin inst[i].emitted
              /\ n.emitted = inst[i].emitted \cup {"stall"}
    PROVE  Announced(i, j, ms) /\ HealthMoves(i) /\ \A k \in Locations \ {i} : Untouched(k)
<1> DEFINE job == [NoJob EXCEPT !.ms = ms, !.step = "resolve"]
           m == [n EXCEPT !.job[j] = job]
<1>1. job \in JobType BY NoJobTyped DEF JobType
<1>2. Turns(i, m) /\ UNCHANGED <<tree, delegate, missed, told>> BY DEF Announces
<1> HIDE DEF job
<1>3. /\ m \in InstanceType
      /\ m.boot = n.boot /\ m.stopped = n.stopped /\ m.row = n.row
      /\ m.emitted = n.emitted /\ m.inbox = n.inbox /\ m.trust = n.trust
      /\ m.health = n.health /\ m.signed = n.signed /\ m.file = n.file
      /\ m.job[j] = job /\ \A e \in Emitters \ {j} : m.job[e] = n.job[e]
  BY <1>1, WorksTyped, ZenonT(30)
<1> HIDE DEF m
<1>4. inst'[i] = m /\ \A k \in Locations \ {i} : inst'[k] = inst[k]
  BY <1>2, <1>3, TurnTyped DEF ServerTyped, ServerTypeOK
<1>5. \A k \in Locations \ {i} : Untouched(k) BY <1>2, <1>4 DEF Untouched, Rest
<1>6. HealthMoves(i) BY <1>3, <1>4 DEF HealthMoves
<1>7. OtherJobs(i, j) /\ Rest(i) BY <1>2, <1>3, <1>4 DEF OtherJobs, Rest
<1>8. Announced(i, j, ms) BY <1>3, <1>4, <1>7 DEF Announced, job
<1> QED BY <1>5, <1>6, <1>8

\* The bootstrap, the events, the timer, the end of the stream and the stop.
LEMMA InstanceMoves ==
    ASSUME ServerTyped, NEW i \in Locations,
           InstanceStep(i) \/ Flush(i) \/ StreamEnds(i) \/ Stop(i)
    PROVE  /\ UNCHANGED tree
           /\ Idles(i) \/ \E j \in Emitters, ms \in Milestones : Announced(i, j, ms)
           /\ HealthMoves(i)
           /\ \A k \in Locations \ {i} : Untouched(k)
<1> DEFINE n == inst[i]
<1>t. n \in InstanceType /\ inst \in [Locations -> InstanceType]
  BY DEF ServerTyped, ServerTypeOK
<1>h. Disconnected(n.health) \in Health /\ Bad(Disconnected(n.health))
  BY <1>t DEF InstanceType, Health, Disconnected, Bad
<1>u. /\ n.inbox \in Seq({"created", "ended"}) /\ <<>> \in Seq({"created", "ended"})
      /\ n.inbox # <<>> => Tail(n.inbox) \in Seq({"created", "ended"})
  BY <1>t DEF InstanceType
<1>p. ASSUME NEW m \in InstanceType, Turns(i, m), UNCHANGED <<tree, delegate, missed, told>>,
             m.job = n.job, m.trust = n.trust, m.emitted = n.emitted,
             \/ m.row = n.row /\ (m.boot = "list" => n.boot = "list")
             \/ n.boot = "list" /\ m.boot # "list",
             m.signed = n.signed, m.file = n.file, m.health = n.health
      PROVE  Idles(i) /\ HealthMoves(i) /\ \A k \in Locations \ {i} : Untouched(k)
  <2>1. inst'[i] = m /\ \A k \in Locations \ {i} : inst'[k] = inst[k]
    BY <1>t, <1>p, TurnTyped
  <2>2. Idles(i) BY <1>p, <2>1 DEF Idles, Rest
  <2>3. HealthMoves(i) BY <1>p, <2>1 DEF HealthMoves
  <2> QED BY <1>p, <2>1, <2>2, <2>3 DEF Untouched, Rest
<1>1. UNCHANGED <<tree, delegate, missed, told>>
  BY DEF InstanceStep, ListSessions, Subscribe, Observed, Flush, StreamEnds, Stop, Announces
<1>2. CASE ListSessions(i)
  <2>1. PICK r \in {"none", "over", "listed"} : Turns(i, [n EXCEPT !.boot = "subscribe", !.row = r])
    BY <1>2 DEF ListSessions
  <2> DEFINE m == [n EXCEPT !.boot = "subscribe", !.row = r]
  <2>2. /\ m \in InstanceType /\ m.job = n.job /\ m.trust = n.trust /\ m.emitted = n.emitted
        /\ m.signed = n.signed /\ m.file = n.file /\ m.health = n.health /\ m.boot = "subscribe"
    BY <1>t DEF InstanceType
  <2>3. n.boot = "list" BY <1>2 DEF ListSessions
  <2>4. Turns(i, m) BY <2>1
  <2> HIDE DEF m
  <2> QED BY <1>1, <1>p, <2>2, <2>3, <2>4
<1>3. CASE Subscribe(i)
  <2>1. CASE Turns(i, [n EXCEPT !.boot = IF n.stopped THEN "closed" ELSE "open"])
    <3> DEFINE m == [n EXCEPT !.boot = IF n.stopped THEN "closed" ELSE "open"]
    <3>1. /\ m \in InstanceType /\ m.job = n.job /\ m.trust = n.trust /\ m.emitted = n.emitted
          /\ m.row = n.row /\ m.boot # "list"
          /\ m.signed = n.signed /\ m.file = n.file /\ m.health = n.health
      BY <1>t DEF InstanceType
    <3>2. Turns(i, m) BY <2>1
    <3> HIDE DEF m
    <3> QED BY <1>1, <1>p, <3>1, <3>2
  <2>2. CASE \E p \in Publish(i, [n EXCEPT !.boot = "closed", !.health = Disconnected(@)]) :
               Turns(i, p)
    <3> DEFINE m == [n EXCEPT !.boot = "closed", !.health = Disconnected(@)]
    <3>1. /\ m \in InstanceType /\ m.job = n.job /\ m.trust = n.trust /\ m.emitted = n.emitted
          /\ m.row = n.row /\ m.boot # "list"
          /\ m.signed = n.signed /\ m.file = n.file /\ m.health = Disconnected(n.health)
      BY <1>t, <1>h DEF InstanceType
    <3>2. \E p \in Publish(i, m) : Turns(i, p) BY <2>2
    <3> HIDE DEF m
    <3> QED BY <1>1, <1>h, <3>1, <3>2, PublishMoves
  <2> QED BY <1>1, <1>3, <2>1, <2>2 DEF Subscribe
<1>4. CASE Observed(i)
  <2> DEFINE q == [n EXCEPT !.inbox = Tail(@)]
  <2>1. /\ q \in InstanceType /\ q.job = n.job /\ q.trust = n.trust /\ q.emitted = n.emitted
        /\ q.row = n.row /\ q.boot = n.boot
        /\ q.signed = n.signed /\ q.file = n.file /\ q.health = n.health
        /\ n.boot = "open" /\ n.job["loop"].step = "idle"
    BY <1>t, <1>u, <1>4 DEF Observed, LoopReady, InstanceType
  <2>2. CASE Head(n.inbox) = "created" /\ q.row = "none"
    <3> DEFINE m == [q EXCEPT !.row = "observed", !.emitted = @ \cup {"start"}]
    <3>1. Announces(i, "loop", "start", m) BY <1>4, <2>2 DEF Observed
    <3> HIDE DEF q
    <3>2. /\ m \in InstanceType /\ m.job = n.job /\ m.trust = n.trust
          /\ m.emitted = n.emitted \cup {"start"} /\ m.row = "observed" /\ m.boot = n.boot
          /\ m.signed = n.signed /\ m.file = n.file /\ m.health = n.health
      BY <2>1 DEF InstanceType
    <3> HIDE DEF m
    <3>3. "loop" \in Emitters /\ "start" \in Milestones BY DEF Emitters, Milestones
    <3> QED BY <1>1, <2>1, <2>2, <3>1, <3>2, <3>3, AnnouncesMoves
  <2>3. CASE Head(n.inbox) = "ended" /\ q.row \in {"listed", "observed"}
    <3> DEFINE m == [q EXCEPT !.row = "over"]
    <3>1. Announces(i, "loop", "terminal", m) BY <1>4, <2>3 DEF Observed
    <3> HIDE DEF q
    <3>2. /\ m \in InstanceType /\ m.job = n.job /\ m.trust = n.trust
          /\ m.emitted = n.emitted /\ m.row = "over" /\ m.boot = n.boot
          /\ m.signed = n.signed /\ m.file = n.file /\ m.health = n.health
      BY <2>1 DEF InstanceType
    <3> HIDE DEF m
    <3>3. "loop" \in Emitters /\ "terminal" \in Milestones BY DEF Emitters, Milestones
    <3> QED BY <1>1, <2>1, <2>3, <3>1, <3>2, <3>3, AnnouncesMoves
  <2>4. CASE /\ ~(Head(n.inbox) = "created" /\ q.row = "none")
             /\ ~(Head(n.inbox) = "ended" /\ q.row \in {"listed", "observed"})
    <3>1. \E p \in Publish(i, q) : Turns(i, p) BY <1>4, <2>4 DEF Observed
    <3> HIDE DEF q
    <3> QED BY <1>1, <2>1, <3>1, PublishMoves
  <2> QED BY <2>2, <2>3, <2>4
<1>5. CASE Flush(i)
  <2> DEFINE m == [n EXCEPT !.emitted = @ \cup {"stall"}]
  <2>1. Announces(i, "timer", "stall", m) /\ "stall" \notin n.emitted /\ n.boot # "list"
    BY <1>5 DEF Flush
  <2>2. /\ m \in InstanceType /\ m.job = n.job /\ m.trust = n.trust
        /\ m.emitted = n.emitted \cup {"stall"} /\ m.row = n.row /\ m.boot = n.boot
        /\ m.signed = n.signed /\ m.file = n.file /\ m.health = n.health
    BY <1>t DEF InstanceType
  <2> HIDE DEF m
  <2>3. "timer" \in Emitters /\ "stall" \in Milestones BY DEF Emitters, Milestones
  <2> QED BY <1>1, <2>1, <2>2, <2>3, AnnouncesMoves
<1>6. CASE StreamEnds(i)
  <2> DEFINE m == [n EXCEPT !.boot = "closed", !.inbox = <<>>, !.health = Disconnected(@)]
  <2>1. /\ m \in InstanceType /\ m.job = n.job /\ m.trust = n.trust /\ m.emitted = n.emitted
        /\ m.row = n.row /\ m.boot # "list"
        /\ m.signed = n.signed /\ m.file = n.file /\ m.health = Disconnected(n.health)
    BY <1>t, <1>h, <1>u DEF InstanceType
  <2>2. \E p \in Publish(i, m) : Turns(i, p) BY <1>6 DEF StreamEnds
  <2> HIDE DEF m
  <2> QED BY <1>1, <1>h, <2>1, <2>2, PublishMoves
<1>7. CASE Stop(i)
  <2> DEFINE m == [n EXCEPT !.stopped = TRUE, !.inbox = <<>>]
  <2>1. /\ m \in InstanceType /\ m.job = n.job /\ m.trust = n.trust /\ m.emitted = n.emitted
        /\ m.row = n.row /\ m.boot = n.boot
        /\ m.signed = n.signed /\ m.file = n.file /\ m.health = n.health
    BY <1>t, <1>u DEF InstanceType
  <2>2. Turns(i, m) BY <1>7 DEF Stop
  <2> HIDE DEF m
  <2> QED BY <1>1, <1>p, <2>1, <2>2
<1> QED BY <1>1, <1>2, <1>3, <1>4, <1>5, <1>6, <1>7 DEF InstanceStep

\* The delegate's events reach the inboxes and nothing else.
LEMMA ChildMoves ==
    ASSUME ServerTyped, ChildBegins \/ ChildEnds
    PROVE  UNCHANGED tree /\ \A k \in Locations : Idles(k) /\ HealthMoves(k)
<1>1. PICK e \in {"created", "ended"} : Heard(e) /\ UNCHANGED <<tree, missed, told>>
  BY DEF ChildBegins, ChildEnds
<1>2. ASSUME NEW k \in Locations
      PROVE  Idles(k) /\ HealthMoves(k)
  <2>1. inst[k] \in InstanceType BY DEF ServerTyped, ServerTypeOK
  <2>2. inst'[k] = IF inst[k].boot = "open" /\ ~inst[k].stopped
                   THEN [inst[k] EXCEPT !.inbox = Append(@, e)] ELSE inst[k]
    BY <1>1 DEF Heard
  <2>3. /\ inst'[k].job = inst[k].job /\ inst'[k].trust = inst[k].trust
        /\ inst'[k].emitted = inst[k].emitted /\ inst'[k].row = inst[k].row
        /\ inst'[k].boot = inst[k].boot /\ inst'[k].health = inst[k].health
        /\ inst'[k].signed = inst[k].signed /\ inst'[k].file = inst[k].file
    BY <2>1, <2>2 DEF InstanceType
  <2> QED BY <1>1, <2>3 DEF Idles, Rest, HealthMoves
<1> QED BY <1>1, <1>2

\* What a step of the server part is to each location.
LEMMA ServerStepMoves ==
    ASSUME ServerTyped, [ServerNext]_servervars
    PROVE  /\ ServerTyped' /\ UNCHANGED tree
           /\ \A k \in Locations : Moves(k) /\ HealthMoves(k)
<1>1. ASSUME ServerTypeOK', UNCHANGED tree,
             \A k \in Locations :
               Idles(k) \/ \E j \in Emitters, ms \in Milestones : Announced(k, j, ms)
      PROVE  ServerTyped'
  <2> SUFFICES ASSUME NEW k \in Locations
               PROVE  /\ inst'[k].trust.trusted = "yes" => inst'[k].trust.root \in Sessions
                      /\ \A e \in Emitters :
                           /\ inst'[k].job[e].step = "walk" => inst'[k].job[e].at \in Sessions
                           /\ inst'[k].job[e].step = "send" => inst'[k].job[e].root \in Sessions
                           /\ inst'[k].job[e].step # "idle" => inst'[k].job[e].ms \in Milestones
    BY <1>1 DEF SessionsAreMeant, Job, ServerTyped
  <2>1. CASE Idles(k) BY <2>1 DEF Idles, ServerTyped, SessionsAreMeant, Job
  <2>2. ASSUME NEW j \in Emitters, NEW ms \in Milestones, Announced(k, j, ms)
        PROVE  /\ inst'[k].trust.trusted = "yes" => inst'[k].trust.root \in Sessions
               /\ \A e \in Emitters :
                    /\ inst'[k].job[e].step = "walk" => inst'[k].job[e].at \in Sessions
                    /\ inst'[k].job[e].step = "send" => inst'[k].job[e].root \in Sessions
                    /\ inst'[k].job[e].step # "idle" => inst'[k].job[e].ms \in Milestones
    <3>1. inst'[k].trust = inst[k].trust /\ \A e \in Emitters \ {j} : inst'[k].job[e] = inst[k].job[e]
      BY <2>2 DEF Announced, OtherJobs
    <3>2. inst'[k].job[j].step = "resolve" /\ inst'[k].job[j].ms = ms
      BY <2>2 DEF Announced, NoJob
    <3> QED BY <3>1, <3>2 DEF ServerTyped, SessionsAreMeant, Job
  <2> QED BY <1>1, <2>1, <2>2
<1>2. CASE ChildBegins \/ ChildEnds
  <2>1. UNCHANGED tree /\ \A k \in Locations : Idles(k) /\ HealthMoves(k) BY <1>2, ChildMoves
  <2>2. ServerTypeOK' BY <1>2, ChildTypeStep DEF ServerTyped
  <2> QED BY <1>1, <2>1, <2>2 DEF Moves
<1>3. ASSUME NEW i \in Locations, InstanceStep(i) \/ Flush(i) \/ StreamEnds(i) \/ Stop(i)
      PROVE  /\ ServerTyped' /\ UNCHANGED tree
             /\ \A k \in Locations : Moves(k) /\ HealthMoves(k)
  <2>1. /\ UNCHANGED tree
        /\ Idles(i) \/ \E j \in Emitters, ms \in Milestones : Announced(i, j, ms)
        /\ HealthMoves(i)
        /\ \A k \in Locations \ {i} : Untouched(k)
    BY <1>3, InstanceMoves
  <2>2. ServerTypeOK' BY <1>3, InstanceTypeStep DEF ServerTyped
  <2>3. \A k \in Locations \ {i} : Idles(k) /\ HealthMoves(k) BY <2>1, UntouchedIdles
  <2>4. \A k \in Locations :
          Idles(k) \/ \E j \in Emitters, ms \in Milestones : Announced(k, j, ms)
    BY <2>1, <2>3
  <2>5. ServerTyped' BY <1>1, <2>1, <2>2, <2>4
  <2> QED BY <2>1, <2>3, <2>4, <2>5 DEF Moves
<1>4. ASSUME NEW i \in Locations, NEW j \in Emitters, EmitStep(i, j)
      PROVE  /\ ServerTyped' /\ UNCHANGED tree
             /\ \A k \in Locations : Moves(k) /\ HealthMoves(k)
  <2>1. /\ ServerTyped' /\ UNCHANGED tree
        /\ LooksUp(i, j) \/ Concludes(i, j) \/ Delivers(i, j)
        /\ HealthMoves(i)
        /\ \A k \in Locations \ {i} : Untouched(k)
    BY <1>4, ResolveMoves, WalkMoves, SendMoves DEF EmitStep
  <2>2. \A k \in Locations \ {i} : Idles(k) /\ HealthMoves(k) BY <2>1, UntouchedIdles
  <2> QED BY <2>1, <2>2 DEF Moves
<1>5. CASE UNCHANGED servervars
  <2>1. ServerTypeOK' /\ UNCHANGED tree BY <1>5 DEF servervars, ServerTyped, ServerTypeOK
  <2>2. \A k \in Locations : Untouched(k) BY <1>5 DEF servervars, Untouched, Rest
  <2>3. \A k \in Locations : Idles(k) /\ HealthMoves(k) BY <2>2, UntouchedIdles
  <2> QED BY <1>1, <2>1, <2>3 DEF Moves
<1> QED BY <1>2, <1>3, <1>4, <1>5 DEF ServerNext, ServerStep

\* At the start.
LEMMA ServerTypedInit ==
    ASSUME ServerInit
    PROVE  ServerTyped
<1>1. tree \in Trees /\ tree \in TreeType BY NamedTyped DEF ServerInit
<1>2. Healthy \in Health BY DEF Healthy, Health
<1>3. Unknown \in EntryType BY DEF Unknown, EntryType
<1>4. ASSUME NEW i \in Locations
      PROVE  inst[i] \in InstanceType /\ inst[i].trust = Unknown
             /\ \A j \in Emitters : inst[i].job[j] = NoJob
  BY <1>2, <1>3, NoJobTyped DEF ServerInit, InstanceType
<1>5. inst \in [Locations -> InstanceType] BY <1>4 DEF ServerInit
<1>6. told \in [Locations -> Seq([ms : Milestones, to : Sessions])] BY DEF ServerInit
<1>7. ServerTypeOK BY <1>1, <1>5, <1>6 DEF ServerInit, ServerTypeOK
<1>8. SessionsAreMeant BY <1>4 DEF SessionsAreMeant, Job, NoJob, Unknown
<1> QED BY <1>1, <1>7, <1>8 DEF ServerTyped

---------------------------------------------------------------------------
(* Degradation is never silent.                                            *)

\* The health was never repaired, what was signed is it, and what was signed was
\* written; a refusal in the cache and a lost milestone are in it.
HealthIsKept ==
    \A i \in Locations :
      /\ inst[i].signed = inst[i].health
      /\ "healthFile" \notin tree.faults[i] => inst[i].file = inst[i].signed
      /\ inst[i].trust.trusted = "no" => Bad(inst[i].health)
      /\ i \in missed => Bad(inst[i].health)

\* Whatever an instance does, what it dropped stays in its record, for it is written as
\* the last thing of each step.
LEMMA HealthStep ==
    ASSUME ServerTyped, HealthIsKept, [ServerNext]_servervars
    PROVE  HealthIsKept'
<1>1. ServerTyped' /\ UNCHANGED tree /\ \A k \in Locations : Moves(k) /\ HealthMoves(k)
  BY ServerStepMoves
<1> SUFFICES ASSUME NEW k \in Locations
             PROVE  /\ inst'[k].signed = inst'[k].health
                    /\ "healthFile" \notin tree.faults[k] => inst'[k].file = inst'[k].signed
                    /\ inst'[k].trust.trusted = "no" => Bad(inst'[k].health)
                    /\ k \in missed' => Bad(inst'[k].health)
  BY <1>1 DEF HealthIsKept
<1>2. /\ inst'[k].signed = inst'[k].health
      /\ "healthFile" \notin tree.faults[k] => inst'[k].file = inst'[k].signed
  BY <1>1 DEF HealthIsKept, HealthMoves
<1>3. Bad(inst[k].health) => Bad(inst'[k].health) BY <1>1 DEF HealthMoves
<1>4. CASE Idles(k) \/ \E j \in Emitters, ms \in Milestones : Announced(k, j, ms)
  <2>1. inst'[k].trust = inst[k].trust /\ (k \in missed' <=> k \in missed)
    BY <1>4 DEF Idles, Announced, Rest
  <2> QED BY <1>2, <1>3, <2>1 DEF HealthIsKept
<1>5. CASE \E j \in Emitters : LooksUp(k, j)
  <2>1. inst'[k].trust = inst[k].trust /\ (k \in missed' <=> k \in missed)
    BY <1>5 DEF LooksUp, Rest
  <2> QED BY <1>2, <1>3, <2>1 DEF HealthIsKept
<1>6. CASE \E j \in Emitters : Concludes(k, j)
  <2>1. inst'[k].trust.trusted = "no" => Bad(inst'[k].health)
    BY <1>3, <1>6 DEF Concludes, HealthIsKept
  <2>2. (k \in missed' <=> k \in missed) \/ inst'[k].trust.trusted = "no"
    BY <1>6 DEF Concludes
  <2> QED BY <1>2, <1>3, <2>1, <2>2 DEF HealthIsKept
<1>7. CASE \E j \in Emitters : Delivers(k, j)
  <2>1. inst'[k].trust = inst[k].trust /\ ((k \in missed' <=> k \in missed) \/ Bad(inst'[k].health))
    BY <1>7 DEF Delivers
  <2> QED BY <1>2, <1>3, <2>1 DEF HealthIsKept
<1> QED BY <1>1, <1>4, <1>5, <1>6, <1>7 DEF Moves

\* An instance begins with nothing dropped and nothing signed.
LEMMA HealthInit ==
    ASSUME ServerInit
    PROVE  HealthIsKept
BY DEF ServerInit, HealthIsKept, Unknown

\* DropIsVisible (degrade, disconnect, writeHealth): however many instances there are,
\* whatever hangs together how, an instance that dropped a milestone, or could not
\* deliver one, is degraded, and where the health record can be written it says so.
THEOREM DropsAreVisible == ServerSpec => []DropIsVisible
<1>1. ServerInit => ServerTyped /\ HealthIsKept BY ServerTypedInit, HealthInit
<1>2. ServerTyped /\ HealthIsKept /\ [ServerNext]_servervars => (ServerTyped /\ HealthIsKept)'
  BY ServerStepMoves, HealthStep
<1>3. ServerTyped /\ HealthIsKept => DropIsVisible
  <2> SUFFICES ASSUME HealthIsKept, missed \subseteq Locations
               PROVE  DropIsVisible
    BY DEF ServerTyped, ServerTypeOK
  <2> QED BY DEF HealthIsKept, DropIsVisible, Bad
<1> QED BY <1>1, <1>2, <1>3, PTL DEF ServerSpec

---------------------------------------------------------------------------
(* Every walk of every instance is the same walk: where it comes to its    *)
(* end there is one root and one location.                                 *)

\* A look-up is reached when every set of look-ups that holds the first one, and with
\* a look-up the one it leads to, holds it.
Closed(S) == \A l \in S : Onward(l[1]) # Nobody => After(l) \in S
ReachedFrom(m, l) == \A S \in SUBSET Lookups : m \in S /\ Closed(S) => l \in S
First_Lookup == <<Named, Nobody>>
Reached(l) == l \in Lookups /\ ReachedFrom(First_Lookup, l)

\* Where the chain ends: the root, and the last location that was known.
Outcome(root, place) ==
    \E l \in Lookups : /\ Reached(l) /\ Onward(l[1]) = Nobody
                       /\ root = l[1] /\ place = Known(l)

\* The look-up that a look-up leads to is one.
LEMMA AfterTyped ==
    ASSUME tree \in TreeType, NEW l \in Lookups, Onward(l[1]) # Nobody
    PROVE  After(l) \in Lookups
<1>1. l[1] \in Sessions /\ l[2] \in Locations \cup {Nobody} BY DEF Lookups
<1>2. Onward(l[1]) \in Sessions BY <1>1, OnwardTyped
<1>3. Known(l) \in Locations \cup {Nobody} BY <1>1 DEF Known, TreeType
<1> QED BY <1>2, <1>3 DEF After, Lookups

\* The walk starts at a reached look-up and goes from one to the next.
LEMMA WalkIsReached ==
    ASSUME tree \in Trees
    PROVE  /\ Reached(First_Lookup)
           /\ \A l \in Lookups : Reached(l) /\ Onward(l[1]) # Nobody => Reached(After(l))
<1>1. tree \in TreeType /\ Named \in Sessions BY NamedTyped
<1>2. First_Lookup \in Lookups BY <1>1 DEF First_Lookup, Lookups
<1>3. Reached(First_Lookup) BY <1>2 DEF Reached, ReachedFrom
<1>4. ASSUME NEW l \in Lookups, Reached(l), Onward(l[1]) # Nobody
      PROVE  Reached(After(l))
  <2>1. After(l) \in Lookups BY <1>1, <1>4, AfterTyped
  <2>2. ASSUME NEW S \in SUBSET Lookups, First_Lookup \in S, Closed(S)
        PROVE  After(l) \in S
    <3>1. l \in S BY <1>4, <2>2 DEF Reached, ReachedFrom
    <3> QED BY <1>4, <2>2, <3>1 DEF Closed
  <2> QED BY <2>1, <2>2 DEF Reached, ReachedFrom
<1> QED BY <1>3, <1>4

\* The end of the chain is one: the look-ups that lead to it are closed, so that the
\* first one leads to every reached one, and an end leads nowhere else.
LEMMA OneEnd ==
    ASSUME tree \in Trees, NEW l \in Lookups, NEW m \in Lookups, Reached(l), Reached(m),
           Onward(l[1]) = Nobody, Onward(m[1]) = Nobody
    PROVE  l = m
<1> DEFINE S == {x \in Lookups : ReachedFrom(x, l)}
<1>1. First_Lookup \in Lookups BY NamedTyped DEF First_Lookup, Lookups
<1>2. First_Lookup \in S BY <1>1 DEF Reached
<1>3. ASSUME NEW x \in S, Onward(x[1]) # Nobody
      PROVE  After(x) \in S
  <2>1. After(x) \in Lookups BY <1>3, NamedTyped, AfterTyped
  <2>2. ASSUME NEW T \in SUBSET Lookups, After(x) \in T, Closed(T)
        PROVE  l \in T
    <3>1. T \cup {x} \in SUBSET Lookups /\ Closed(T \cup {x}) BY <1>3, <2>2 DEF Closed
    <3>2. l \in T \cup {x} BY <1>3, <3>1 DEF ReachedFrom
    <3>3. l # x BY <1>3
    <3> QED BY <3>2, <3>3
  <2> QED BY <2>1, <2>2 DEF ReachedFrom
<1>4. S \in SUBSET Lookups /\ Closed(S) BY <1>3 DEF Closed
<1>5. m \in S BY <1>2, <1>4 DEF Reached, ReachedFrom
<1>6. {m} \in SUBSET Lookups /\ Closed({m}) BY DEF Closed
<1>7. l \in {m} BY <1>5, <1>6 DEF ReachedFrom
<1> QED BY <1>7

\* A chain has one end: whoever walks it finds the same root and the same location.
LEMMA OneOutcome ==
    ASSUME tree \in Trees,
           NEW r, NEW p, Outcome(r, p), NEW q, NEW t, Outcome(q, t)
    PROVE  r = q /\ p = t
BY OneEnd, NamedTyped DEF Outcome

\* The tree stays what it is, and so does its end.
LEMMA SameTree ==
    ASSUME UNCHANGED tree
    PROVE  /\ Named' = Named /\ First_Lookup' = First_Lookup
           /\ \A s : Onward(s)' = Onward(s)
           /\ \A l : Known(l)' = Known(l) /\ After(l)' = After(l) /\ (Reached(l)' <=> Reached(l))
           /\ \A r, p : Outcome(r, p)' <=> Outcome(r, p)
<1>1. Named' = Named /\ First_Lookup' = First_Lookup BY DEF Named, First_Lookup
<1>2. \A s : Onward(s)' = Onward(s) BY DEF Onward
<1>3. \A l : Known(l)' = Known(l) /\ After(l)' = After(l) BY <1>2 DEF Known, After
<1>4. \A S : Closed(S)' <=> Closed(S) BY <1>2, <1>3 DEF Closed
<1>5. \A l : Reached(l)' <=> Reached(l) BY <1>1, <1>4 DEF Reached, ReachedFrom
<1>6. \A r, p : Outcome(r, p)' <=> Outcome(r, p) BY <1>2, <1>3, <1>5 DEF Outcome
<1> QED BY <1>1, <1>2, <1>3, <1>5, <1>6

\* A delivery looks up what the walk reaches; what an instance trusts, sends to or has
\* told is what the walk comes to, and is its own to tell.
ChainIsFollowed ==
    \A i \in Locations :
      /\ inst[i].trust.trusted = "yes" => Outcome(inst[i].trust.root, inst[i].trust.place)
      /\ \A j \in Emitters :
           /\ inst[i].job[j].step = "resolve" => inst[i].job[j].place = Nobody
           /\ inst[i].job[j].step = "walk" =>
                Reached(<<inst[i].job[j].at, inst[i].job[j].place>>)
           /\ inst[i].job[j].step = "send" =>
                Outcome(inst[i].job[j].root, inst[i].job[j].place) /\ Mine(i, inst[i].job[j].place)
      /\ \A a \in Told(i) : \E place : Outcome(told[i][a].to, place) /\ Mine(i, place)

\* A record at the end of a sequence.
LEMMA AppendFields ==
    ASSUME NEW T, NEW s \in Seq(T), NEW e
    PROVE  /\ DOMAIN Append(s, e) = DOMAIN s \cup {Len(s) + 1}
           /\ Len(s) + 1 \notin DOMAIN s
           /\ \A a \in DOMAIN s : Append(s, e)[a] = s[a] /\ a \in Nat /\ a < Len(s) + 1
           /\ Append(s, e)[Len(s) + 1] = e
OBVIOUS

\* Each step of a walk goes from a look-up of the chain to the next one of it, and what
\* is remembered of a walk, or told, is where the chain ends.
LEMMA ChainStep ==
    ASSUME ServerTyped, ChainIsFollowed, [ServerNext]_servervars
    PROVE  ChainIsFollowed'
<1>1. ServerTyped' /\ UNCHANGED tree /\ \A k \in Locations : Moves(k) BY ServerStepMoves
<1>2. /\ Named' = Named /\ First_Lookup' = First_Lookup
      /\ \A s : Onward(s)' = Onward(s)
      /\ \A l : Known(l)' = Known(l) /\ After(l)' = After(l) /\ (Reached(l)' <=> Reached(l))
      /\ \A r, p : Outcome(r, p)' <=> Outcome(r, p)
  BY <1>1, SameTree
<1> DEFINE TrustFollows(t) == t.trusted = "yes" => Outcome(t.root, t.place)
           JobFollows(k, job) ==
             /\ job.step = "resolve" => job.place = Nobody
             /\ job.step = "walk" => Reached(<<job.at, job.place>>)
             /\ job.step = "send" => Outcome(job.root, job.place) /\ Mine(k, job.place)
           ToldFollows(k, s) ==
             \A a \in DOMAIN s : \E place : Outcome(s[a].to, place) /\ Mine(k, place)
<1>3. \A k \in Locations : /\ TrustFollows(inst[k].trust)
                           /\ \A j \in Emitters : JobFollows(k, inst[k].job[j])
                           /\ ToldFollows(k, told[k])
  BY DEF ChainIsFollowed, Told
<1>4. SUFFICES ASSUME NEW k \in Locations
               PROVE  /\ TrustFollows(inst'[k].trust)
                      /\ \A j \in Emitters : JobFollows(k, inst'[k].job[j])
                      /\ ToldFollows(k, told'[k])
  <2>1. \A k \in Locations : /\ TrustFollows(inst'[k].trust)
                             /\ \A j \in Emitters : JobFollows(k, inst'[k].job[j])
                             /\ ToldFollows(k, told'[k])
    BY <1>4
  <2> QED BY <1>2, <2>1 DEF ChainIsFollowed, Told, Mine
<1>n. JobFollows(k, NoJob) BY DEF NoJob
<1>t. /\ inst[k] \in InstanceType /\ told[k] \in Seq([ms : Milestones, to : Sessions])
      /\ \A j \in Emitters : inst[k].job[j] \in JobType
  BY DEF ServerTyped, ServerTypeOK, InstanceType
<1>5. CASE Idles(k)
  <2>1. inst'[k].trust = inst[k].trust /\ inst'[k].job = inst[k].job /\ told'[k] = told[k]
    BY <1>5 DEF Idles, Rest
  <2> QED BY <1>3, <2>1
<1>6. ASSUME NEW j \in Emitters, NEW ms \in Milestones, Announced(k, j, ms)
      PROVE  /\ TrustFollows(inst'[k].trust)
             /\ \A e \in Emitters : JobFollows(k, inst'[k].job[e])
             /\ ToldFollows(k, told'[k])
  <2>1. /\ inst'[k].trust = inst[k].trust /\ told'[k] = told[k]
        /\ \A e \in Emitters \ {j} : inst'[k].job[e] = inst[k].job[e]
        /\ inst'[k].job[j] = [NoJob EXCEPT !.ms = ms, !.step = "resolve"]
    BY <1>6 DEF Announced, Rest, OtherJobs
  <2>2. JobFollows(k, inst'[k].job[j]) BY <2>1 DEF NoJob
  <2> HIDE DEF TrustFollows, JobFollows, ToldFollows
  <2> QED BY <1>3, <2>1, <2>2
<1>7. ASSUME NEW j \in Emitters, LooksUp(k, j)
      PROVE  /\ TrustFollows(inst'[k].trust)
             /\ \A e \in Emitters : JobFollows(k, inst'[k].job[e])
             /\ ToldFollows(k, told'[k])
  <2> DEFINE old == inst[k].job[j]
             new == inst'[k].job[j]
  <2>1. /\ inst'[k].trust = inst[k].trust /\ told'[k] = told[k]
        /\ \A e \in Emitters \ {j} : inst'[k].job[e] = inst[k].job[e]
        /\ new.step = "walk"
        /\ \/ old.step = "resolve" /\ new.at = Named /\ new.place = old.place
           \/ /\ old.step = "walk" /\ Onward(old.at) # Nobody
              /\ <<new.at, new.place>> = After(<<old.at, old.place>>)
    BY <1>7 DEF LooksUp, Rest, OtherJobs
  <2>2. tree \in Trees BY DEF ServerTyped
  <2>3. CASE old.step = "resolve" /\ new.at = Named /\ new.place = old.place
    <3>1. old.place = Nobody BY <1>3, <2>3
    <3>2. Reached(<<Named, Nobody>>) BY <2>2, WalkIsReached DEF First_Lookup
    <3>3. JobFollows(k, new) BY <2>1, <2>3, <3>1, <3>2
    <3> QED BY <1>3, <2>1, <3>3
  <2>4. CASE /\ old.step = "walk" /\ Onward(old.at) # Nobody
             /\ <<new.at, new.place>> = After(<<old.at, old.place>>)
    <3> DEFINE l == <<old.at, old.place>>
    <3>1. Reached(l) /\ l \in Lookups BY <1>3, <2>4 DEF Reached
    <3>2. Onward(l[1]) # Nobody BY <2>4
    <3>3. Reached(After(l)) BY <2>2, <3>1, <3>2, WalkIsReached
    <3>4. JobFollows(k, new) BY <2>1, <2>4, <3>3
    <3> QED BY <1>3, <2>1, <3>4
  <2> QED BY <2>1, <2>3, <2>4
<1>8. ASSUME NEW j \in Emitters, Concludes(k, j)
      PROVE  /\ TrustFollows(inst'[k].trust)
             /\ \A e \in Emitters : JobFollows(k, inst'[k].job[e])
             /\ ToldFollows(k, told'[k])
  <2> DEFINE old == inst[k].job[j]
             new == inst'[k].job[j]
             trust == inst'[k].trust
  <2>1. /\ told'[k] = told[k]
        /\ \A e \in Emitters \ {j} : inst'[k].job[e] = inst[k].job[e]
        /\ \/ trust = inst[k].trust
           \/ trust.trusted = "no"
           \/ /\ trust.trusted = "yes"
              /\ old.step = "walk" /\ Onward(old.at) = Nobody
              /\ trust.root = old.at /\ trust.place = Known(<<old.at, old.place>>)
        /\ \/ new = NoJob
           \/ /\ trust.trusted = "yes" /\ Mine(k, trust.place)
              /\ new.step = "send"
              /\ new.root = trust.root /\ new.place = trust.place
    BY <1>8 DEF Concludes, OtherJobs
  <2>2. TrustFollows(trust)
    <3>1. CASE /\ trust.trusted = "yes"
               /\ old.step = "walk" /\ Onward(old.at) = Nobody
               /\ trust.root = old.at /\ trust.place = Known(<<old.at, old.place>>)
      <4> DEFINE l == <<old.at, old.place>>
      <4>1. Reached(l) /\ l \in Lookups BY <1>3, <3>1 DEF Reached
      <4>2. Onward(l[1]) = Nobody /\ trust.root = l[1] /\ trust.place = Known(l) BY <3>1
      <4> HIDE DEF l
      <4>3. Outcome(trust.root, trust.place) BY <4>1, <4>2 DEF Outcome
      <4> QED BY <4>3
    <3> QED BY <1>3, <2>1, <3>1
  <2>3. JobFollows(k, new) BY <1>n, <2>1, <2>2
  <2> QED BY <1>3, <2>1, <2>2, <2>3
<1>9. ASSUME NEW j \in Emitters, Delivers(k, j)
      PROVE  /\ TrustFollows(inst'[k].trust)
             /\ \A e \in Emitters : JobFollows(k, inst'[k].job[e])
             /\ ToldFollows(k, told'[k])
  <2> DEFINE old == inst[k].job[j]
             entry == [ms |-> old.ms, to |-> old.root]
  <2>1. /\ inst'[k].trust = inst[k].trust
        /\ \A e \in Emitters \ {j} : inst'[k].job[e] = inst[k].job[e]
        /\ inst'[k].job[j] = NoJob /\ old.step = "send"
        /\ told'[k] = Append(told[k], entry) \/ told'[k] = told[k]
    BY <1>9 DEF Delivers, OtherJobs
  <2>2. ToldFollows(k, told'[k])
    <3>1. CASE told'[k] = Append(told[k], entry)
      <4>1. /\ DOMAIN told'[k] = DOMAIN told[k] \cup {Len(told[k]) + 1}
            /\ \A a \in DOMAIN told[k] : told'[k][a] = told[k][a]
            /\ told'[k][Len(told[k]) + 1] = entry
        BY <1>t, <3>1, AppendFields
      <4>2. Outcome(old.root, old.place) /\ Mine(k, old.place) BY <1>3, <2>1
      <4>3. entry.to = old.root OBVIOUS
      <4> HIDE DEF entry, old
      <4> QED BY <1>3, <4>1, <4>2, <4>3
    <3> QED BY <1>3, <2>1, <3>1
  <2> QED BY <1>3, <1>n, <2>1, <2>2
<1> QED BY <1>1, <1>5, <1>6, <1>7, <1>8, <1>9 DEF Moves

\* Nobody has walked yet.
LEMMA ChainInit ==
    ASSUME ServerInit
    PROVE  ChainIsFollowed
<1> SUFFICES ASSUME NEW i \in Locations
             PROVE  /\ inst[i].trust.trusted = "unknown"
                    /\ \A j \in Emitters : inst[i].job[j].step = "idle"
                    /\ Told(i) = {}
  BY DEF ChainIsFollowed
<1> QED BY DEF ServerInit, Unknown, NoJob, Told

---------------------------------------------------------------------------
(* No milestone is announced twice, and none is told twice.                *)

\* What is announced has its key in the row, or has ended it.
KeysAreKept ==
    \A i \in Locations :
      /\ inst[i].boot = "list" => inst[i].row = "none"
      /\ "start" \in inst[i].emitted => inst[i].row \in {"observed", "over"}
      /\ inst[i].job["loop"].step # "idle" =>
           \/ inst[i].job["loop"].ms = "start" /\ inst[i].row = "observed"
                /\ "start" \in inst[i].emitted
           \/ inst[i].job["loop"].ms = "terminal" /\ inst[i].row = "over"
      /\ inst[i].job["timer"].step # "idle" =>
           inst[i].job["timer"].ms = "stall" /\ "stall" \in inst[i].emitted

\* A milestone of the instance's row is still to be announced.
ToCome(ms, n) == \/ ms = "start" /\ "start" \notin n.emitted
                 \/ ms = "stall" /\ "stall" \notin n.emitted
                 \/ ms = "terminal" /\ n.row # "over"

\* What was told is not to come, nor under way, and was told once.
ToldOnce ==
    \A i \in Locations : \A a \in Told(i) :
      /\ ~ToCome(told[i][a].ms, inst[i])
      /\ \A j \in Emitters : inst[i].job[j].step # "idle" => inst[i].job[j].ms # told[i][a].ms
      /\ \A b \in Told(i) : told[i][a].ms = told[i][b].ms => a = b

\* A milestone that is announced is keyed first, and a key is never taken back.
LEMMA KeysStep ==
    ASSUME ServerTyped, KeysAreKept, [ServerNext]_servervars
    PROVE  KeysAreKept'
<1>1. ServerTyped' /\ \A k \in Locations : Moves(k) BY ServerStepMoves
<1> SUFFICES ASSUME NEW k \in Locations
             PROVE  /\ inst'[k].boot = "list" => inst'[k].row = "none"
                    /\ "start" \in inst'[k].emitted => inst'[k].row \in {"observed", "over"}
                    /\ inst'[k].job["loop"].step # "idle" =>
                         \/ inst'[k].job["loop"].ms = "start" /\ inst'[k].row = "observed"
                              /\ "start" \in inst'[k].emitted
                         \/ inst'[k].job["loop"].ms = "terminal" /\ inst'[k].row = "over"
                    /\ inst'[k].job["timer"].step # "idle" =>
                         inst'[k].job["timer"].ms = "stall" /\ "stall" \in inst'[k].emitted
  BY DEF KeysAreKept
<1>e. Emitters = {"loop", "timer"} BY DEF Emitters
<1>2. CASE Idles(k)
  <2>1. CASE inst'[k].row = inst[k].row /\ (inst'[k].boot = "list" => inst[k].boot = "list")
    BY <1>2, <2>1 DEF Idles, KeysAreKept
  <2>2. CASE inst[k].boot = "list" /\ inst'[k].boot # "list"
    <3>1. inst[k].row = "none" /\ "start" \notin inst[k].emitted /\ inst[k].job["loop"].step = "idle"
      BY <2>2 DEF KeysAreKept
    <3> QED BY <1>2, <2>2, <3>1 DEF Idles, KeysAreKept
  <2> QED BY <1>2, <2>1, <2>2 DEF Idles
<1>3. ASSUME NEW j \in Emitters, NEW ms \in Milestones, Announced(k, j, ms)
      PROVE  /\ inst'[k].boot = "list" => inst'[k].row = "none"
             /\ "start" \in inst'[k].emitted => inst'[k].row \in {"observed", "over"}
             /\ inst'[k].job["loop"].step # "idle" =>
                  \/ inst'[k].job["loop"].ms = "start" /\ inst'[k].row = "observed"
                       /\ "start" \in inst'[k].emitted
                  \/ inst'[k].job["loop"].ms = "terminal" /\ inst'[k].row = "over"
             /\ inst'[k].job["timer"].step # "idle" =>
                  inst'[k].job["timer"].ms = "stall" /\ "stall" \in inst'[k].emitted
  <2>1. /\ inst'[k].job[j].ms = ms /\ inst'[k].job[j].step = "resolve"
        /\ \A e \in Emitters \ {j} : inst'[k].job[e] = inst[k].job[e]
        /\ inst'[k].boot # "list"
    BY <1>3 DEF Announced, NoJob, OtherJobs
  <2>2. CASE /\ j = "loop" /\ ms = "start"
             /\ inst[k].row = "none" /\ inst'[k].row = "observed"
             /\ inst'[k].emitted = inst[k].emitted \cup {"start"}
    <3>1. inst'[k].job["timer"] = inst[k].job["timer"] BY <1>e, <2>1, <2>2
    <3> QED BY <2>1, <2>2, <3>1 DEF KeysAreKept
  <2>3. CASE /\ j = "loop" /\ ms = "terminal"
             /\ inst[k].row \in {"listed", "observed"} /\ inst'[k].row = "over"
             /\ inst'[k].emitted = inst[k].emitted
    <3>1. inst'[k].job["timer"] = inst[k].job["timer"] BY <1>e, <2>1, <2>3
    <3> QED BY <2>1, <2>3, <3>1 DEF KeysAreKept
  <2>4. CASE /\ j = "timer" /\ ms = "stall"
             /\ inst'[k].row = inst[k].row /\ "stall" \notin inst[k].emitted
             /\ inst'[k].emitted = inst[k].emitted \cup {"stall"}
    <3>1. inst'[k].job["loop"] = inst[k].job["loop"] BY <1>e, <2>1, <2>4
    <3> QED BY <2>1, <2>4, <3>1 DEF KeysAreKept
  <2> QED BY <1>3, <2>2, <2>3, <2>4 DEF Announced
<1>4. ASSUME NEW j \in Emitters, Row(k), OtherJobs(k, j),
             \/ inst'[k].job[j].step = "idle"
             \/ inst[k].job[j].step # "idle" /\ inst'[k].job[j].ms = inst[k].job[j].ms
      PROVE  /\ inst'[k].boot = "list" => inst'[k].row = "none"
             /\ "start" \in inst'[k].emitted => inst'[k].row \in {"observed", "over"}
             /\ inst'[k].job["loop"].step # "idle" =>
                  \/ inst'[k].job["loop"].ms = "start" /\ inst'[k].row = "observed"
                       /\ "start" \in inst'[k].emitted
                  \/ inst'[k].job["loop"].ms = "terminal" /\ inst'[k].row = "over"
             /\ inst'[k].job["timer"].step # "idle" =>
                  inst'[k].job["timer"].ms = "stall" /\ "stall" \in inst'[k].emitted
  <2>1. \A e \in Emitters : inst'[k].job[e].step # "idle" =>
          inst[k].job[e].step # "idle" /\ inst'[k].job[e].ms = inst[k].job[e].ms
    BY <1>4 DEF OtherJobs
  <2>2. \A e \in {"loop", "timer"} : inst'[k].job[e].step # "idle" =>
          inst[k].job[e].step # "idle" /\ inst'[k].job[e].ms = inst[k].job[e].ms
    BY <1>e, <2>1
  <2> QED BY <1>4, <2>2 DEF Row, KeysAreKept
<1>5. ASSUME NEW j \in Emitters, LooksUp(k, j) \/ Concludes(k, j) \/ Delivers(k, j)
      PROVE  /\ Row(k) /\ OtherJobs(k, j)
             /\ \/ inst'[k].job[j].step = "idle"
                \/ inst[k].job[j].step # "idle" /\ inst'[k].job[j].ms = inst[k].job[j].ms
  BY <1>5 DEF LooksUp, Concludes, Delivers, NoJob
<1> QED BY <1>1, <1>2, <1>3, <1>4, <1>5 DEF Moves

\* Whatever a location does that announces nothing and tells nothing.
LEMMA ToldKept ==
    ASSUME ToldOnce, NEW k \in Locations, told'[k] = told[k],
           \A ms \in Milestones : ToCome(ms, inst'[k]) => ToCome(ms, inst[k]),
           told[k] \in Seq([ms : Milestones, to : Sessions]),
           \A j \in Emitters : inst'[k].job[j].step # "idle" =>
             \/ inst[k].job[j].step # "idle" /\ inst'[k].job[j].ms = inst[k].job[j].ms
             \/ ToCome(inst'[k].job[j].ms, inst[k])
    PROVE  \A a \in DOMAIN told'[k] :
             /\ ~ToCome(told'[k][a].ms, inst'[k])
             /\ \A j \in Emitters : inst'[k].job[j].step # "idle" =>
                  inst'[k].job[j].ms # told'[k][a].ms
             /\ \A b \in DOMAIN told'[k] : told'[k][a].ms = told'[k][b].ms => a = b
<1> SUFFICES ASSUME NEW a \in DOMAIN told[k]
             PROVE  /\ ~ToCome(told[k][a].ms, inst'[k])
                    /\ \A j \in Emitters : inst'[k].job[j].step # "idle" =>
                         inst'[k].job[j].ms # told[k][a].ms
                    /\ \A b \in DOMAIN told[k] : told[k][a].ms = told[k][b].ms => a = b
  OBVIOUS
<1>1. told[k][a].ms \in Milestones
  <2> DEFINE T == [ms : Milestones, to : Sessions]
  <2>1. told[k] \in Seq(T) OBVIOUS
  <2> HIDE DEF T
  <2>2. \A b \in DOMAIN told[k] : told[k][b] \in T BY <2>1
  <2> QED BY <2>2 DEF T
<1> QED BY <1>1 DEF ToldOnce, Told

\* What is told is of the job at hand, whose key keeps it from being a job again.
LEMMA OnceToldStep ==
    ASSUME ServerTyped, KeysAreKept, ToldOnce, [ServerNext]_servervars
    PROVE  ToldOnce'
<1>1. ServerTyped' /\ \A k \in Locations : Moves(k) BY ServerStepMoves
<1> SUFFICES ASSUME NEW k \in Locations
             PROVE  \A a \in DOMAIN told'[k] :
                      /\ ~ToCome(told'[k][a].ms, inst'[k])
                      /\ \A j \in Emitters : inst'[k].job[j].step # "idle" =>
                           inst'[k].job[j].ms # told'[k][a].ms
                      /\ \A b \in DOMAIN told'[k] : told'[k][a].ms = told'[k][b].ms => a = b
  BY DEF ToldOnce, Told
<1>t. told[k] \in Seq([ms : Milestones, to : Sessions]) BY DEF ServerTyped, ServerTypeOK
<1>e. Emitters = {"loop", "timer"} /\ Milestones = {"start", "stall", "terminal"}
  BY DEF Emitters, Milestones
<1>2. CASE Idles(k)
  <2>1. told'[k] = told[k] /\ inst'[k].job = inst[k].job /\ inst'[k].emitted = inst[k].emitted
        /\ (inst'[k].row = inst[k].row \/ inst[k].boot = "list")
    BY <1>2 DEF Idles, Rest
  <2>2. inst[k].boot = "list" => inst[k].row # "over" BY DEF KeysAreKept
  <2>3. \A ms \in Milestones : ToCome(ms, inst'[k]) => ToCome(ms, inst[k])
    BY <2>1, <2>2 DEF ToCome
  <2> QED BY <1>t, <2>1, <2>3, ToldKept
<1>3. ASSUME NEW j \in Emitters, NEW ms \in Milestones, Announced(k, j, ms)
      PROVE  \A a \in DOMAIN told'[k] :
               /\ ~ToCome(told'[k][a].ms, inst'[k])
               /\ \A e \in Emitters : inst'[k].job[e].step # "idle" =>
                    inst'[k].job[e].ms # told'[k][a].ms
               /\ \A b \in DOMAIN told'[k] : told'[k][a].ms = told'[k][b].ms => a = b
  <2>1. /\ inst'[k].job[j].ms = ms /\ inst'[k].job[j].step = "resolve"
        /\ \A e \in Emitters \ {j} : inst'[k].job[e] = inst[k].job[e]
        /\ told'[k] = told[k]
    BY <1>3 DEF Announced, NoJob, OtherJobs, Rest
  <2>2. ToCome(ms, inst[k]) /\ \A m \in Milestones : ToCome(m, inst'[k]) => ToCome(m, inst[k])
    <3>1. CASE /\ j = "loop" /\ ms = "start"
               /\ inst[k].row = "none" /\ inst'[k].row = "observed"
               /\ inst'[k].emitted = inst[k].emitted \cup {"start"}
      BY <3>1 DEF ToCome, KeysAreKept
    <3>2. CASE /\ j = "loop" /\ ms = "terminal"
               /\ inst[k].row \in {"listed", "observed"} /\ inst'[k].row = "over"
               /\ inst'[k].emitted = inst[k].emitted
      BY <3>2 DEF ToCome
    <3>3. CASE /\ j = "timer" /\ ms = "stall"
               /\ inst'[k].row = inst[k].row /\ "stall" \notin inst[k].emitted
               /\ inst'[k].emitted = inst[k].emitted \cup {"stall"}
      BY <3>3 DEF ToCome
    <3> QED BY <1>3, <3>1, <3>2, <3>3 DEF Announced
  <2>3. \A e \in Emitters : inst'[k].job[e].step # "idle" =>
             \/ inst[k].job[e].step # "idle" /\ inst'[k].job[e].ms = inst[k].job[e].ms
             \/ ToCome(inst'[k].job[e].ms, inst[k])
    BY <2>1, <2>2
  <2> QED BY <1>t, <2>1, <2>2, <2>3, ToldKept
<1>4. ASSUME NEW j \in Emitters, Row(k), OtherJobs(k, j), told'[k] = told[k],
             \/ inst'[k].job[j].step = "idle"
             \/ inst[k].job[j].step # "idle" /\ inst'[k].job[j].ms = inst[k].job[j].ms
      PROVE  \A a \in DOMAIN told'[k] :
               /\ ~ToCome(told'[k][a].ms, inst'[k])
               /\ \A e \in Emitters : inst'[k].job[e].step # "idle" =>
                    inst'[k].job[e].ms # told'[k][a].ms
               /\ \A b \in DOMAIN told'[k] : told'[k][a].ms = told'[k][b].ms => a = b
  <2>1. \A e \in Emitters : inst'[k].job[e].step # "idle" =>
             \/ inst[k].job[e].step # "idle" /\ inst'[k].job[e].ms = inst[k].job[e].ms
             \/ ToCome(inst'[k].job[e].ms, inst[k])
    BY <1>4 DEF OtherJobs
  <2>2. \A m \in Milestones : ToCome(m, inst'[k]) => ToCome(m, inst[k])
    BY <1>4 DEF Row, ToCome
  <2> QED BY <1>t, <1>4, <2>1, <2>2, ToldKept
<1>5. ASSUME NEW j \in Emitters, LooksUp(k, j) \/ Concludes(k, j)
      PROVE  /\ Row(k) /\ OtherJobs(k, j) /\ told'[k] = told[k]
             /\ \/ inst'[k].job[j].step = "idle"
                \/ inst[k].job[j].step # "idle" /\ inst'[k].job[j].ms = inst[k].job[j].ms
  BY <1>5 DEF LooksUp, Concludes, Rest, NoJob
<1>6. ASSUME NEW j \in Emitters, Delivers(k, j)
      PROVE  \A a \in DOMAIN told'[k] :
               /\ ~ToCome(told'[k][a].ms, inst'[k])
               /\ \A e \in Emitters : inst'[k].job[e].step # "idle" =>
                    inst'[k].job[e].ms # told'[k][a].ms
               /\ \A b \in DOMAIN told'[k] : told'[k][a].ms = told'[k][b].ms => a = b
  <2> DEFINE old == inst[k].job[j]
             entry == [ms |-> old.ms, to |-> old.root]
             last == Len(told[k]) + 1
  <2>1. /\ Row(k) /\ OtherJobs(k, j) /\ inst'[k].job[j].step = "idle" /\ old.step # "idle"
        /\ told'[k] = Append(told[k], entry) \/ told'[k] = told[k]
    BY <1>6 DEF Delivers, NoJob
  <2>2. CASE told'[k] = Append(told[k], entry)
    <3>1. /\ DOMAIN told'[k] = DOMAIN told[k] \cup {last}
          /\ \A a \in DOMAIN told[k] : told'[k][a] = told[k][a]
          /\ told'[k][last] = entry
      BY <1>t, <2>2, AppendFields
    <3>2. ~ToCome(old.ms, inst[k]) BY <1>e, <2>1 DEF KeysAreKept, ToCome
    <3>3. \A m : ToCome(m, inst'[k]) <=> ToCome(m, inst[k]) BY <2>1 DEF Row, ToCome
    <3>4. \A e \in Emitters \ {j} : inst'[k].job[e] = inst[k].job[e] BY <2>1 DEF OtherJobs
    <3>5. \A e \in Emitters \ {j} : inst[k].job[e].step # "idle" => inst[k].job[e].ms # old.ms
      BY <1>e, <2>1 DEF KeysAreKept
    <3>6. entry.ms = old.ms OBVIOUS
    <3>7. \A a \in DOMAIN told[k] : told[k][a].ms # old.ms BY <2>1 DEF ToldOnce, Told
    <3> HIDE DEF entry, last, old
    <3>8. ASSUME NEW a \in DOMAIN told'[k]
          PROVE  /\ ~ToCome(told'[k][a].ms, inst'[k])
                 /\ \A e \in Emitters : inst'[k].job[e].step # "idle" =>
                      inst'[k].job[e].ms # told'[k][a].ms
                 /\ \A b \in DOMAIN told'[k] : told'[k][a].ms = told'[k][b].ms => a = b
      <4>1. CASE a = last BY <2>1, <3>1, <3>2, <3>3, <3>4, <3>5, <3>6, <3>7, <4>1
      <4>2. CASE a \in DOMAIN told[k]
        <5>1. told'[k][a] = told[k][a] BY <3>1, <4>2
        <5>2. ~ToCome(told[k][a].ms, inst[k]) BY <4>2 DEF ToldOnce, Told
        <5>3. \A e \in Emitters : inst'[k].job[e].step # "idle" =>
                inst'[k].job[e].ms # told[k][a].ms
          BY <2>1, <3>4, <4>2 DEF ToldOnce, Told
        <5>4. \A b \in DOMAIN told'[k] : told[k][a].ms = told'[k][b].ms => a = b
          BY <3>1, <3>6, <3>7, <4>2 DEF ToldOnce, Told
        <5> QED BY <3>3, <5>1, <5>2, <5>3, <5>4
      <4> QED BY <3>1, <4>1, <4>2
    <3> QED BY <3>8
  <2> QED BY <1>4, <2>1, <2>2
<1> QED BY <1>1, <1>2, <1>3, <1>4, <1>5, <1>6 DEF Moves

\* Nothing is keyed, and nothing told.
LEMMA OnceToldInit ==
    ASSUME ServerInit
    PROVE  KeysAreKept /\ ToldOnce
<1>1. ASSUME NEW i \in Locations
      PROVE  /\ inst[i].row = "none" /\ inst[i].emitted = {} /\ DOMAIN told[i] = {}
             /\ \A j \in Emitters : inst[i].job[j].step = "idle"
  BY DEF ServerInit, NoJob
<1>2. {"loop", "timer"} \subseteq Emitters BY DEF Emitters
<1> QED BY <1>1, <1>2 DEF KeysAreKept, ToldOnce, Told

\* OneRootIsTold (resolveParent, emit): for any number of locations, any tree of
\* sessions, with or without a cycle, and whatever the host refuses in between, all that
\* is told of the delegation is told to a root, and as long as the host tells where the
\* sessions are, a milestone is told by one instance, and once.
THEOREM OneRootTold == ServerSpec => []OneRootIsTold
<1> DEFINE TellingInv == ServerTyped /\ ChainIsFollowed /\ KeysAreKept /\ ToldOnce
<1>1. ServerInit => TellingInv BY ServerTypedInit, ChainInit, OnceToldInit
<1>2. TellingInv /\ [ServerNext]_servervars => TellingInv'
  BY ServerStepMoves, ChainStep, KeysStep, OnceToldStep
<1>3. TellingInv => OneRootIsTold
  <2> SUFFICES ASSUME TellingInv
               PROVE  OneRootIsTold
    OBVIOUS
  <2>1. ASSUME NEW i \in Locations, NEW a \in Told(i)
        PROVE  IsRoot(told[i][a].to)
    <3>1. PICK place : Outcome(told[i][a].to, place) BY <2>1 DEF ChainIsFollowed
    <3>2. told[i][a].to \in Sessions /\ Onward(told[i][a].to) = Nobody
      BY <3>1 DEF Outcome, Lookups
    <3> QED BY <3>2, NamedTyped, TreesAssumption DEF Onward, IsRoot, TreeType, ServerTyped
  <2>2. ASSUME Located, NEW i \in Locations, NEW k \in Locations,
               NEW a \in Told(i), NEW b \in Told(k), told[i][a].ms = told[k][b].ms
        PROVE  i = k /\ a = b
    <3>1. PICK p : Outcome(told[i][a].to, p) /\ Mine(i, p) BY <2>2 DEF ChainIsFollowed
    <3>2. PICK q : Outcome(told[k][b].to, q) /\ Mine(k, q) BY <2>2 DEF ChainIsFollowed
    <3>3. p = q BY <3>1, <3>2, OneOutcome DEF ServerTyped
    <3>4. p # Nobody BY <2>2, <3>1 DEF Outcome, Known, Located, Lookups
    <3>5. i = k BY <3>1, <3>2, <3>3, <3>4 DEF Mine
    <3> QED BY <2>2, <3>5 DEF ToldOnce
  <2> QED BY <2>1, <2>2 DEF OneRootIsTold
<1> QED BY <1>1, <1>2, <1>3, PTL DEF ServerSpec

---------------------------------------------------------------------------
(* The start arrives before the end.                                       *)

\* An instance that lost nothing has told of the start it announced, is about to,
\* or is not the one to tell.
StartIsTold ==
    \A i \in Locations \ missed : "start" \in inst[i].emitted =>
      \/ inst[i].job["loop"].step # "idle" /\ inst[i].job["loop"].ms = "start"
      \/ \E a \in Told(i) : told[i][a].ms = "start"
      \/ \E root, place : Outcome(root, place) /\ ~Mine(i, place)

\* A start that is announced is told before the loop goes on, or is lost, or is told by
\* the instance of another location.
LEMMA StartToldStep ==
    ASSUME ServerTyped, ChainIsFollowed, KeysAreKept, StartIsTold, [ServerNext]_servervars
    PROVE  StartIsTold'
<1>1. ServerTyped' /\ UNCHANGED tree /\ \A k \in Locations : Moves(k) BY ServerStepMoves
<1>2. ChainIsFollowed' BY ChainStep
<1>3. \A r, p : Outcome(r, p)' <=> Outcome(r, p) BY <1>1, SameTree
<1> SUFFICES ASSUME NEW k \in Locations, k \notin missed', "start" \in inst'[k].emitted
             PROVE  \/ inst'[k].job["loop"].step # "idle" /\ inst'[k].job["loop"].ms = "start"
                    \/ \E a \in DOMAIN told'[k] : told'[k][a].ms = "start"
                    \/ \E root, place : Outcome(root, place) /\ ~Mine(k, place)
  BY <1>3 DEF StartIsTold, Told, Mine
<1>e. Emitters = {"loop", "timer"} BY DEF Emitters
<1>t. told[k] \in Seq([ms : Milestones, to : Sessions]) BY DEF ServerTyped, ServerTypeOK
<1>4. ASSUME k \notin missed, "start" \in inst[k].emitted,
             \A a \in DOMAIN told[k] : a \in DOMAIN told'[k] /\ told'[k][a] = told[k][a],
             inst[k].job["loop"].step # "idle" /\ inst[k].job["loop"].ms = "start" =>
               \/ inst'[k].job["loop"].step # "idle" /\ inst'[k].job["loop"].ms = "start"
               \/ \E a \in DOMAIN told'[k] : told'[k][a].ms = "start"
               \/ \E root, place : Outcome(root, place) /\ ~Mine(k, place)
      PROVE  \/ inst'[k].job["loop"].step # "idle" /\ inst'[k].job["loop"].ms = "start"
             \/ \E a \in DOMAIN told'[k] : told'[k][a].ms = "start"
             \/ \E root, place : Outcome(root, place) /\ ~Mine(k, place)
  BY <1>4 DEF StartIsTold, Told
<1>5. CASE Idles(k) BY <1>4, <1>5 DEF Idles, Rest
<1>6. ASSUME NEW j \in Emitters, NEW ms \in Milestones, Announced(k, j, ms)
      PROVE  \/ inst'[k].job["loop"].step # "idle" /\ inst'[k].job["loop"].ms = "start"
             \/ \E a \in DOMAIN told'[k] : told'[k][a].ms = "start"
             \/ \E root, place : Outcome(root, place) /\ ~Mine(k, place)
  <2>1. /\ inst'[k].job[j].ms = ms /\ inst'[k].job[j].step = "resolve"
        /\ \A e \in Emitters \ {j} : inst'[k].job[e] = inst[k].job[e]
        /\ told'[k] = told[k] /\ (k \in missed' <=> k \in missed)
    BY <1>6 DEF Announced, NoJob, OtherJobs, Rest
  <2>2. CASE j = "loop" /\ ms = "start" BY <2>1, <2>2
  <2>3. CASE j = "loop" /\ ms # "start"
    <3>1. inst[k].job["loop"].step = "idle" /\ inst'[k].emitted = inst[k].emitted
      BY <1>6, <2>3 DEF Announced
    <3> QED BY <1>4, <2>1, <3>1
  <2>4. CASE j = "timer"
    <3>1. inst'[k].job["loop"] = inst[k].job["loop"] /\ "start" \in inst[k].emitted
      BY <1>6, <1>e, <2>1, <2>4 DEF Announced
    <3> QED BY <1>4, <2>1, <3>1
  <2> QED BY <1>e, <2>2, <2>3, <2>4
<1>7. ASSUME NEW j \in Emitters, LooksUp(k, j) \/ Concludes(k, j) \/ Delivers(k, j)
      PROVE  \/ inst'[k].job["loop"].step # "idle" /\ inst'[k].job["loop"].ms = "start"
             \/ \E a \in DOMAIN told'[k] : told'[k][a].ms = "start"
             \/ \E root, place : Outcome(root, place) /\ ~Mine(k, place)
  <2>1. /\ "start" \in inst[k].emitted
        /\ \A e \in Emitters \ {j} : inst'[k].job[e] = inst[k].job[e]
        /\ k \notin missed
    BY <1>7, <1>1 DEF LooksUp, Concludes, Delivers, Row, Rest, OtherJobs, ServerTyped
  <2>2. \A a \in DOMAIN told[k] : a \in DOMAIN told'[k] /\ told'[k][a] = told[k][a]
    <3>1. CASE told'[k] = told[k] BY <3>1
    <3>2. CASE Delivers(k, j) BY <1>t, <3>1, <3>2, AppendFields DEF Delivers
    <3> QED BY <1>7, <3>1, <3>2 DEF LooksUp, Concludes, Rest
  <2>3. CASE j = "timer" BY <1>4, <1>e, <2>1, <2>2, <2>3
  <2>4. ASSUME j = "loop", inst[k].job["loop"].step # "idle", inst[k].job["loop"].ms = "start"
        PROVE  \/ inst'[k].job["loop"].step # "idle" /\ inst'[k].job["loop"].ms = "start"
               \/ \E a \in DOMAIN told'[k] : told'[k][a].ms = "start"
               \/ \E root, place : Outcome(root, place) /\ ~Mine(k, place)
    <3>1. CASE LooksUp(k, "loop") BY <2>4, <3>1 DEF LooksUp
    <3>2. CASE Concludes(k, "loop")
      <4>1. CASE inst'[k].trust.trusted = "yes" /\ ~Mine(k, inst'[k].trust.place)
        <5>1. Outcome(inst'[k].trust.root, inst'[k].trust.place)
          BY <1>2, <1>3, <4>1 DEF ChainIsFollowed
        <5> QED BY <4>1, <5>1
      <4>2. CASE inst'[k].job["loop"].step = "send" /\ inst'[k].job["loop"].ms = "start"
        BY <4>2
      <4> QED BY <2>4, <3>2, <4>1, <4>2 DEF Concludes
    <3>3. CASE Delivers(k, "loop")
      <4> DEFINE entry == [ms |-> inst[k].job["loop"].ms, to |-> inst[k].job["loop"].root]
      <4>1. told'[k] = Append(told[k], entry) BY <3>3 DEF Delivers
      <4>2. entry.ms = "start" BY <2>4
      <4> HIDE DEF entry
      <4>3. Len(told[k]) + 1 \in DOMAIN told'[k] /\ told'[k][Len(told[k]) + 1] = entry
        BY <1>t, <4>1, AppendFields
      <4> QED BY <4>2, <4>3
    <3> QED BY <1>7, <2>4, <3>1, <3>2, <3>3
  <2> QED BY <1>4, <1>e, <2>1, <2>2, <2>3, <2>4
<1> QED BY <1>1, <1>5, <1>6, <1>7 DEF Moves

\* StartThenEnd, one step: a message that arrives is the last one, and an end is sent
\* by the loop, so that the start it announced is no more under way.
LEMMA StartThenEndStep ==
    ASSUME ServerTyped, ChainIsFollowed, KeysAreKept, ToldOnce, StartIsTold, StartThenEnd,
           [ServerNext]_servervars
    PROVE  StartThenEnd'
<1>1. ServerTyped' /\ UNCHANGED tree /\ \A k \in Locations : Moves(k) BY ServerStepMoves
<1> SUFFICES ASSUME NEW k \in Locations, k \notin missed', NEW b \in DOMAIN told'[k],
                    told'[k][b].ms = "terminal", "start" \in inst'[k].emitted
             PROVE  \E a \in DOMAIN told'[k] : a < b /\ told'[k][a].ms = "start"
  BY DEF StartThenEnd, Told
<1>e. Emitters = {"loop", "timer"} BY DEF Emitters
<1>t. told[k] \in Seq([ms : Milestones, to : Sessions]) BY DEF ServerTyped, ServerTypeOK
<1>2. ASSUME told'[k] = told[k], k \notin missed, "start" \in inst[k].emitted
      PROVE  \E a \in DOMAIN told'[k] : a < b /\ told'[k][a].ms = "start"
  BY <1>2 DEF StartThenEnd, Told
<1>3. CASE Idles(k) BY <1>2, <1>3 DEF Idles, Rest
<1>4. ASSUME NEW j \in Emitters, NEW ms \in Milestones, Announced(k, j, ms)
      PROVE  \E a \in DOMAIN told'[k] : a < b /\ told'[k][a].ms = "start"
  <2>1. told'[k] = told[k] /\ k \notin missed BY <1>4 DEF Announced, Rest
  <2>2. ~ToCome("terminal", inst[k]) BY <2>1 DEF ToldOnce, Told
  <2>3. inst[k].row = "over" BY <2>2 DEF ToCome
  <2>4. "start" \in inst[k].emitted BY <1>4, <2>3 DEF Announced
  <2> QED BY <1>2, <2>1, <2>4
<1>5. ASSUME NEW j \in Emitters, LooksUp(k, j) \/ Concludes(k, j)
      PROVE  \E a \in DOMAIN told'[k] : a < b /\ told'[k][a].ms = "start"
  <2>1. told'[k] = told[k] /\ k \notin missed /\ "start" \in inst[k].emitted
    BY <1>5 DEF LooksUp, Concludes, Rest, Row
  <2> QED BY <1>2, <2>1
<1>6. ASSUME NEW j \in Emitters, Delivers(k, j)
      PROVE  \E a \in DOMAIN told'[k] : a < b /\ told'[k][a].ms = "start"
  <2> DEFINE old == inst[k].job[j]
             entry == [ms |-> old.ms, to |-> old.root]
             last == Len(told[k]) + 1
  <2>1. /\ k \notin missed /\ "start" \in inst[k].emitted /\ old.step = "send"
        /\ told'[k] = Append(told[k], entry)
    BY <1>6 DEF Delivers, Row
  <2>2. entry.ms = old.ms OBVIOUS
  <2> HIDE DEF entry
  <2>3. /\ DOMAIN told'[k] = DOMAIN told[k] \cup {last} /\ last \notin DOMAIN told[k]
        /\ \A a \in DOMAIN told[k] : told'[k][a] = told[k][a] /\ a \in Nat /\ a < last
        /\ told'[k][last] = entry
    BY <1>t, <2>1, AppendFields
  <2>4. CASE b \in DOMAIN told[k]
    <3>1. told[k][b].ms = "terminal" BY <2>3, <2>4
    <3>2. PICK a \in DOMAIN told[k] : a < b /\ told[k][a].ms = "start"
      BY <2>1, <2>4, <3>1 DEF StartThenEnd, Told
    <3> QED BY <2>3, <3>2
  <2>5. CASE b = last
    <3>1. old.ms = "terminal" BY <2>2, <2>3, <2>5
    <3>2. j = "loop" BY <1>e, <2>1, <3>1 DEF KeysAreKept
    <3>3. PICK r, p : Outcome(r, p) /\ Mine(k, p)
      BY <2>1, <3>2 DEF ChainIsFollowed
    <3>4. ~\E root, place : Outcome(root, place) /\ ~Mine(k, place)
      BY <3>3, OneOutcome DEF ServerTyped
    <3>5. PICK a \in DOMAIN told[k] : told[k][a].ms = "start"
      BY <2>1, <3>1, <3>2, <3>4 DEF StartIsTold, Told
    <3> QED BY <2>3, <2>5, <3>5
  <2> QED BY <2>3, <2>4, <2>5
<1> QED BY <1>1, <1>3, <1>4, <1>5, <1>6 DEF Moves

\* StartThenEnd (the loop of server.ts awaits emit, flush does not): for any tree and
\* whatever the timer and the stop do in between, an instance that lost nothing and has
\* announced the start of a delegation tells of it before it tells of the end.
THEOREM StartsThenEnds == ServerSpec => []StartThenEnd
<1> DEFINE OrderInv == /\ ServerTyped /\ ChainIsFollowed /\ KeysAreKept /\ ToldOnce
                       /\ StartIsTold /\ StartThenEnd
<1>1. ServerInit => OrderInv
  <2>1. ServerInit => StartIsTold /\ StartThenEnd
    BY DEF ServerInit, StartIsTold, StartThenEnd, Told
  <2> QED BY <2>1, ServerTypedInit, ChainInit, OnceToldInit
<1>2. OrderInv /\ [ServerNext]_servervars => OrderInv'
  BY ServerStepMoves, ChainStep, KeysStep, OnceToldStep, StartToldStep, StartThenEndStep
<1> QED BY <1>1, <1>2, PTL DEF ServerSpec

---------------------------------------------------------------------------
(* The reducer: what its handlers return.                                  *)

SaidType == [kind : Kinds, about : Requests \cup {None}, wake : BOOLEAN]
NoStalls(keys) == \A key \in keys : key[1] # "stall"

\* A row, and its count of the calls on one target is of calls it counted.
Counts(r) == r \in RowType /\ r.loop.count <= Cardinality(r.calls)

\* A milestone changes what a row remembers of milestones and nothing else of it.
LEMMA MilestoneFields ==
    ASSUME NEW r, Counts(r), NEW kind \in Kinds, NEW about,
           kind = "resume" \/ Key(kind, about) \in Keys
    PROVE  LET o == Milestone(r, kind, about) IN
           /\ Counts(o.row)
           /\ o.row.status = r.status /\ o.row.phase = r.phase /\ o.row.age = r.age
           /\ o.row.provenance = r.provenance /\ o.row.archived = r.archived
           /\ o.row.terminal = r.terminal /\ o.row.loop = r.loop
           /\ o.row.needsInput = r.needsInput /\ o.row.busy = r.busy
           /\ r.emitted \subseteq o.row.emitted
           /\ o.row.emitted \subseteq r.emitted \cup {Key(kind, about)}
           /\ o.said \subseteq SaidType
           /\ \A m \in o.said : m.kind = kind
           /\ kind \notin Routine /\ Key(kind, about) \notin r.emitted => o.said # {}
<1> DEFINE key == Key(kind, about)
           kept == [r EXCEPT !.emitted = IF kind = "resume" THEN @ ELSE @ \cup {key}]
           spaced == IF kind \in Routine THEN 0 ELSE kept.routineAge
           woken == IF WakeNow(r, kind) THEN kept.wakes + 1 ELSE kept.wakes
           full == [kept EXCEPT !.routineAge = spaced, !.wakes = woken]
           m == [kind |-> kind, about |-> IF about \in Requests THEN about ELSE None,
                 wake |-> WakeNow(r, kind)]
           o == Milestone(r, kind, about)
<1>1. r \in RowType BY DEF Counts
<1>2. /\ Counts(kept)
      /\ kept.status = r.status /\ kept.phase = r.phase /\ kept.age = r.age
      /\ kept.provenance = r.provenance /\ kept.archived = r.archived
      /\ kept.terminal = r.terminal /\ kept.loop = r.loop
      /\ kept.needsInput = r.needsInput /\ kept.busy = r.busy
      /\ kept.wakes = r.wakes
      /\ r.emitted \subseteq kept.emitted /\ kept.emitted \subseteq r.emitted \cup {key}
  BY DEF Counts, RowType
<1>3. m \in SaidType /\ m.kind = kind
  <2>1. WakeNow(r, kind) \in BOOLEAN BY DEF WakeNow
  <2> QED BY <2>1 DEF SaidType
<1>4. /\ key \in r.emitted => o.row = r /\ o.said = {}
      /\ key \notin r.emitted /\ TooSoon(r, kind) => o.row = kept /\ o.said = {}
      /\ key \notin r.emitted /\ ~TooSoon(r, kind) => o.row = full /\ o.said = {m}
  BY DEF Milestone, Quietly
<1>5. kind \notin Routine => ~TooSoon(r, kind) BY DEF TooSoon
<1>6. /\ Counts(full)
      /\ full.status = kept.status /\ full.phase = kept.phase /\ full.age = kept.age
      /\ full.provenance = kept.provenance /\ full.archived = kept.archived
      /\ full.terminal = kept.terminal /\ full.loop = kept.loop
      /\ full.needsInput = kept.needsInput /\ full.busy = kept.busy
      /\ full.emitted = kept.emitted
  <2> HIDE DEF kept
  <2>1. spaced \in 0 .. RoutineGap \cup {Never}
    BY <1>2, ReducerAssumption DEF Counts, RowType
  <2>2. woken \in 0 .. MaxWakes
    BY <1>1, <1>2, ReducerAssumption DEF WakeNow, RowType
  <2> HIDE DEF spaced, woken
  <2>3. full \in RowType BY <1>2, <2>1, <2>2, Zenon DEF Counts, RowType
  <2>4. kept \in RowType BY <1>2 DEF Counts
  <2>5. /\ full.calls = kept.calls
        /\ full.status = kept.status /\ full.phase = kept.phase /\ full.age = kept.age
        /\ full.provenance = kept.provenance /\ full.archived = kept.archived
        /\ full.terminal = kept.terminal /\ full.loop = kept.loop
        /\ full.needsInput = kept.needsInput /\ full.busy = kept.busy
        /\ full.emitted = kept.emitted
    BY <2>4 DEF RowType
  <2> QED BY <1>2, <2>3, <2>5 DEF Counts
<1> HIDE DEF kept, full, m, o
<1>7. /\ Counts(o.row)
      /\ o.row.status = r.status /\ o.row.phase = r.phase /\ o.row.age = r.age
      /\ o.row.provenance = r.provenance /\ o.row.archived = r.archived
      /\ o.row.terminal = r.terminal /\ o.row.loop = r.loop
      /\ o.row.needsInput = r.needsInput /\ o.row.busy = r.busy
      /\ r.emitted \subseteq o.row.emitted
      /\ o.row.emitted \subseteq r.emitted \cup {key}
      /\ o.said \subseteq SaidType
      /\ \A x \in o.said : x.kind = kind
      /\ kind \notin Routine /\ key \notin r.emitted => o.said # {}
  <2>1. CASE key \in r.emitted BY <1>4, <2>1
  <2>2. CASE key \notin r.emitted /\ TooSoon(r, kind) BY <1>2, <1>4, <1>5, <2>2
  <2>3. CASE key \notin r.emitted /\ ~TooSoon(r, kind) BY <1>2, <1>3, <1>4, <1>6, <2>3
  <2> QED BY <2>1, <2>2, <2>3
<1> QED BY <1>7 DEF o

\* Activity: the clock restarts and a stall may be announced again.
LEMMA TouchFields ==
    ASSUME NEW r, Counts(r)
    PROVE  /\ Counts(Touch(r)) /\ Touch(r).age = 0 /\ NoStalls(Touch(r).emitted)
           /\ Touch(r).provenance = r.provenance /\ Touch(r).archived = r.archived
           /\ Touch(r).terminal = r.terminal /\ Touch(r).loop = r.loop
           /\ Touch(r).calls = r.calls /\ Touch(r).needsInput = r.needsInput
           /\ Touch(r).emitted \subseteq r.emitted
<1> DEFINE status == IF r.status \in {"warning", "failed", "unknown"} THEN "running" ELSE r.status
           keys == {key \in r.emitted : key[1] # "stall"}
           t == [r EXCEPT !.age = 0, !.stale = FALSE, !.status = status, !.emitted = keys]
<1>1. 0 \in RowAges BY ReducerAssumption DEF RowAges, AgeCap
<1>2. keys \subseteq Keys /\ keys \subseteq r.emitted /\ NoStalls(keys)
  BY DEF Counts, RowType, NoStalls
<1>3. status \in {"running", "waiting", "warning", "unknown"} \cup RowOutcomes
  BY DEF Counts, RowType
<1>4. Touch(r) = t BY DEF Touch
<1> HIDE DEF status, keys
<1>5. t \in RowType BY <1>1, <1>2, <1>3, Zenon DEF Counts, RowType
<1>6. /\ t.age = 0 /\ t.emitted = keys
      /\ t.provenance = r.provenance /\ t.archived = r.archived
      /\ t.terminal = r.terminal /\ t.loop = r.loop
      /\ t.calls = r.calls /\ t.needsInput = r.needsInput
  BY DEF Counts, RowType
<1> HIDE DEF t
<1> QED BY <1>2, <1>4, <1>5, <1>6 DEF Counts

\* The first event of a listed row touches it.
LEMMA PromotedFields ==
    ASSUME NEW r, Counts(r), r.terminal = None
    PROVE  /\ Counts(Promoted(r)) /\ Promoted(r).provenance = "observed"
           /\ Promoted(r).terminal = None /\ Promoted(r).archived = r.archived
           /\ Promoted(r).needsInput = r.needsInput /\ Promoted(r).calls = r.calls
           /\ r.provenance = "observed" => Promoted(r) = r
           /\ r.provenance # "observed" => Promoted(r).age = 0 /\ NoStalls(Promoted(r).emitted)
<1> DEFINE p == [r EXCEPT !.provenance = "observed"]
<1>1. /\ Counts(p) /\ p.provenance = "observed" /\ p.terminal = r.terminal
      /\ p.archived = r.archived /\ p.needsInput = r.needsInput /\ p.calls = r.calls
  BY DEF Counts, RowType
<1>2. Promoted(r) = IF r.provenance = "observed" THEN r ELSE Touch(p) BY DEF Promoted
<1> HIDE DEF p
<1> QED BY <1>1, <1>2, TouchFields

\* What a handler makes of an observed row that is not over: a sign of life restarts
\* the clock, or ends the row; anything else leaves the clock and the stalls alone.
Handled(r, o, sign) ==
    /\ Counts(o.row) /\ o.row.provenance = r.provenance /\ o.row.archived = r.archived
    /\ o.said \subseteq SaidType /\ \A m \in o.said : m.kind # "stall"
    /\ IF sign THEN o.row.terminal # None \/ (o.row.age = 0 /\ NoStalls(o.row.emitted))
       ELSE /\ o.row.age = r.age /\ o.row.terminal = r.terminal
            /\ NoStalls(r.emitted) => NoStalls(o.row.emitted)

\* The phases the handlers name.
LEMMA PhasesAre ==
    /\ "starting" \in Phases /\ "active" \in Phases /\ "no events observed" \in Phases
    /\ "archived" \in Phases /\ "waiting" \in Phases /\ "denied" \in Phases
    /\ "resumed" \in Phases /\ "retry" \in Phases /\ "generating" \in Phases
    /\ "idle" \in Phases /\ "thinking" \in Phases /\ "step failed" \in Phases
    /\ "tool" \in Phases /\ "completed" \in Phases /\ "failed" \in Phases
BY DEF Phases

Statuses == {"running", "waiting", "warning", "unknown"} \cup RowOutcomes
Loops == [key : Targets \cup {None}, count : 0 .. Cardinality(Calls)]

\* An event that changes nothing but is one.
LEMMA QuietlyHandled ==
    ASSUME NEW r, Counts(r)
    PROVE  Handled(r, Quietly(r), FALSE)
BY DEF Handled, Quietly

\* session.status and the steps.
LEMMA TurnsHandled ==
    ASSUME NEW r, Counts(r)
    PROVE  /\ Handled(r, BusyTurn(r), TRUE) /\ Handled(r, IdleTurn(r), TRUE)
           /\ Handled(r, RetryTurn(r), FALSE)
           /\ Handled(r, StepStarted(r), TRUE) /\ Handled(r, StepEnded(r), TRUE)
           /\ Handled(r, StepFailed(r), TRUE)
<1>r. r \in RowType BY DEF Counts
<1>q. ASSUME NEW t, Counts(t), t.provenance = r.provenance, t.archived = r.archived,
             t.age = 0, NoStalls(t.emitted)
      PROVE  Handled(r, Quietly(t), TRUE)
  BY <1>q DEF Handled, Quietly
<1>1. Handled(r, BusyTurn(r), TRUE)
  <2> DEFINE status == IF r.needsInput # None THEN "waiting" ELSE "running"
             phase == IF r.needsInput # None THEN r.phase ELSE "generating"
             b == [r EXCEPT !.busy = TRUE, !.status = status, !.phase = phase]
  <2>1. phase \in Phases BY <1>r DEF RowType, Phases
  <2>2. BusyTurn(r) = Quietly(Touch(b)) BY DEF BusyTurn
  <2>4. status \in Statuses BY DEF Statuses
  <2> HIDE DEF phase, status
  <2>3. Counts(b) /\ b.provenance = r.provenance /\ b.archived = r.archived
    <3>1. b \in RowType BY <2>1, <2>4, ZenonT(30) DEF Counts, RowType, Statuses
    <3>2. b.calls = r.calls /\ b.loop = r.loop
          /\ b.provenance = r.provenance /\ b.archived = r.archived
      BY <2>1, SMT DEF Counts, RowType
    <3> QED BY <2>1, <3>1, <3>2 DEF Counts
  <2> HIDE DEF b
  <2> QED BY <1>q, <2>2, <2>3, TouchFields
<1>2. Handled(r, IdleTurn(r), TRUE)
  <2> DEFINE b == [r EXCEPT !.busy = FALSE]
             t == Touch(b)
             status == IF t.status = "waiting" THEN t.status ELSE "running"
             i == [t EXCEPT !.status = status, !.phase = "idle"]
  <2>1. Counts(b) /\ b.provenance = r.provenance /\ b.archived = r.archived
    <3>1. b \in RowType BY PhasesAre, ZenonT(30) DEF Counts, RowType, Statuses
    <3>2. b.calls = r.calls /\ b.loop = r.loop
          /\ b.provenance = r.provenance /\ b.archived = r.archived
      BY SMT DEF Counts, RowType
    <3> QED BY <3>1, <3>2 DEF Counts
  <2>2. IdleTurn(r) = Quietly(i) BY DEF IdleTurn
  <2>5. status \in Statuses BY DEF Statuses
  <2> HIDE DEF b, status
  <2>3. Counts(t) /\ t.age = 0 /\ NoStalls(t.emitted)
        /\ t.provenance = r.provenance /\ t.archived = r.archived
    BY <2>1, TouchFields
  <2> HIDE DEF t
  <2>4. Counts(i) /\ i.age = t.age /\ i.emitted = t.emitted
        /\ i.provenance = t.provenance /\ i.archived = t.archived
    <3>r. t \in RowType BY <2>3 DEF Counts
    <3>1. i \in RowType BY <3>r, <2>5, PhasesAre, ZenonT(30) DEF RowType, Statuses
    <3>2. i.calls = t.calls /\ i.loop = t.loop
          /\ i.age = t.age /\ i.emitted = t.emitted /\ i.provenance = t.provenance /\ i.archived = t.archived
      BY <2>3, SMT DEF Counts, RowType
    <3> QED BY <2>3, <3>1, <3>2 DEF Counts
  <2> HIDE DEF i
  <2> QED BY <1>q, <2>2, <2>3, <2>4
<1>3. Handled(r, RetryTurn(r), FALSE)
  <2> DEFINE b == [r EXCEPT !.busy = FALSE, !.status = "warning", !.phase = "retry"]
             o == Milestone(b, "retry", None)
  <2>1. Counts(b) /\ b.provenance = r.provenance /\ b.archived = r.archived
        /\ b.age = r.age /\ b.terminal = r.terminal /\ b.emitted = r.emitted
    <3>1. b \in RowType BY PhasesAre, ZenonT(30) DEF Counts, RowType, Statuses
    <3>2. b.calls = r.calls /\ b.loop = r.loop
          /\ b.provenance = r.provenance /\ b.archived = r.archived /\ b.age = r.age /\ b.terminal = r.terminal /\ b.emitted = r.emitted
      BY SMT DEF Counts, RowType
    <3> QED BY <3>1, <3>2 DEF Counts
  <2>2. RetryTurn(r) = o BY DEF RetryTurn
  <2> HIDE DEF b
  <2>3. "retry" \in Kinds /\ Key("retry", None) \in Keys /\ Key("retry", None)[1] = "retry"
    BY DEF Kinds, Keys, Key
  <2>4. /\ Counts(o.row) /\ o.row.age = b.age /\ o.row.terminal = b.terminal
        /\ o.row.provenance = b.provenance /\ o.row.archived = b.archived
        /\ o.row.emitted \subseteq b.emitted \cup {Key("retry", None)}
        /\ o.said \subseteq SaidType /\ \A m \in o.said : m.kind = "retry"
    BY <2>1, <2>3, MilestoneFields
  <2> HIDE DEF o
  <2> QED BY <2>1, <2>2, <2>3, <2>4 DEF Handled, NoStalls
<1>4. Handled(r, StepStarted(r), TRUE)
  <2> DEFINE b == [r EXCEPT !.openStep = TRUE, !.phase = "generating"]
  <2>1. Counts(b) /\ b.provenance = r.provenance /\ b.archived = r.archived
    <3>1. b \in RowType BY PhasesAre, ZenonT(30) DEF Counts, RowType, Statuses
    <3>2. b.calls = r.calls /\ b.loop = r.loop
          /\ b.provenance = r.provenance /\ b.archived = r.archived
      BY SMT DEF Counts, RowType
    <3> QED BY <3>1, <3>2 DEF Counts
  <2>2. StepStarted(r) = Quietly(Touch(b)) BY DEF StepStarted
  <2> HIDE DEF b
  <2> QED BY <1>q, <2>1, <2>2, TouchFields
<1>5. Handled(r, StepEnded(r), TRUE)
  <2> DEFINE b == [r EXCEPT !.openStep = FALSE, !.phase = "thinking"]
  <2>1. Counts(b) /\ b.provenance = r.provenance /\ b.archived = r.archived
    <3>1. b \in RowType BY PhasesAre, ZenonT(30) DEF Counts, RowType, Statuses
    <3>2. b.calls = r.calls /\ b.loop = r.loop
          /\ b.provenance = r.provenance /\ b.archived = r.archived
      BY SMT DEF Counts, RowType
    <3> QED BY <3>1, <3>2 DEF Counts
  <2>2. StepEnded(r) = Quietly(Touch(b)) BY DEF StepEnded
  <2> HIDE DEF b
  <2> QED BY <1>q, <2>1, <2>2, TouchFields
<1>6. Handled(r, StepFailed(r), TRUE)
  <2> DEFINE b == [r EXCEPT !.openStep = FALSE]
             t == Touch(b)
             i == [t EXCEPT !.status = "warning", !.phase = "step failed"]
  <2>1. Counts(b) /\ b.provenance = r.provenance /\ b.archived = r.archived
    <3>1. b \in RowType BY PhasesAre, ZenonT(30) DEF Counts, RowType, Statuses
    <3>2. b.calls = r.calls /\ b.loop = r.loop
          /\ b.provenance = r.provenance /\ b.archived = r.archived
      BY SMT DEF Counts, RowType
    <3> QED BY <3>1, <3>2 DEF Counts
  <2>2. StepFailed(r) = Quietly(i) BY DEF StepFailed
  <2> HIDE DEF b
  <2>3. Counts(t) /\ t.age = 0 /\ NoStalls(t.emitted)
        /\ t.provenance = r.provenance /\ t.archived = r.archived
    BY <2>1, TouchFields
  <2> HIDE DEF t
  <2>4. Counts(i) /\ i.age = t.age /\ i.emitted = t.emitted
        /\ i.provenance = t.provenance /\ i.archived = t.archived
    <3>r. t \in RowType BY <2>3 DEF Counts
    <3>1. i \in RowType BY <3>r, PhasesAre, ZenonT(30) DEF RowType
    <3>2. i.calls = t.calls /\ i.loop = t.loop
          /\ i.age = t.age /\ i.emitted = t.emitted /\ i.provenance = t.provenance /\ i.archived = t.archived
      BY <2>3, SMT DEF Counts, RowType
    <3> QED BY <2>3, <3>1, <3>2 DEF Counts
  <2> HIDE DEF i
  <2> QED BY <1>q, <2>2, <2>3, <2>4
<1> QED BY <1>1, <1>2, <1>3, <1>4, <1>5, <1>6

\* permission.asked, permission.replied and the forms.
LEMMA RequestsHandled ==
    ASSUME NEW r, Counts(r), NEW q \in Requests
    PROVE  /\ Handled(r, Milestone([r EXCEPT !.needsInput = q, !.status = "waiting",
                                             !.phase = "waiting"], "needs-input", q), FALSE)
           /\ Handled(r, Resumed(r), r.needsInput # None)
           /\ Handled(r, Denied(r), r.needsInput # None)
<1>1. Handled(r, Milestone([r EXCEPT !.needsInput = q, !.status = "waiting",
                                     !.phase = "waiting"], "needs-input", q), FALSE)
  <2> DEFINE b == [r EXCEPT !.needsInput = q, !.status = "waiting", !.phase = "waiting"]
             o == Milestone(b, "needs-input", q)
  <2>1. Counts(b) /\ b.provenance = r.provenance /\ b.archived = r.archived
        /\ b.age = r.age /\ b.terminal = r.terminal /\ b.emitted = r.emitted
    <3>1. b \in RowType BY PhasesAre, ZenonT(30) DEF Counts, RowType, Statuses
    <3>2. b.calls = r.calls /\ b.loop = r.loop
          /\ b.provenance = r.provenance /\ b.archived = r.archived /\ b.age = r.age /\ b.terminal = r.terminal /\ b.emitted = r.emitted
      BY SMT DEF Counts, RowType
    <3> QED BY <3>1, <3>2 DEF Counts
  <2> HIDE DEF b
  <2>2. /\ "needs-input" \in Kinds /\ Key("needs-input", q) \in Keys
        /\ Key("needs-input", q)[1] = "needs-input"
    BY DEF Kinds, WakeKinds, Keys, Key
  <2>3. /\ Counts(o.row) /\ o.row.age = b.age /\ o.row.terminal = b.terminal
        /\ o.row.provenance = b.provenance /\ o.row.archived = b.archived
        /\ o.row.emitted \subseteq b.emitted \cup {Key("needs-input", q)}
        /\ o.said \subseteq SaidType /\ \A m \in o.said : m.kind = "needs-input"
    BY <2>1, <2>2, MilestoneFields
  <2> HIDE DEF o
  <2>4. Handled(r, o, FALSE) BY <2>1, <2>2, <2>3 DEF Handled, NoStalls
  <2> QED BY <2>4 DEF o, b
<1>2. Handled(r, Resumed(r), r.needsInput # None)
  <2>1. CASE r.needsInput = None
    <3>1. Resumed(r) = Quietly(r) BY <2>1 DEF Resumed
    <3>2. (r.needsInput # None) = FALSE BY <2>1
    <3> QED BY <3>1, <3>2, QuietlyHandled
  <2>2. CASE r.needsInput # None
    <3> DEFINE b == [r EXCEPT !.needsInput = None, !.status = "running", !.phase = "resumed"]
               t == Touch(b)
               o == Milestone(t, "resume", None)
    <3>1. Counts(b) /\ b.provenance = r.provenance /\ b.archived = r.archived
      <4>1. b \in RowType BY PhasesAre, ZenonT(30) DEF Counts, RowType, Statuses
      <4>2. b.calls = r.calls /\ b.loop = r.loop
            /\ b.provenance = r.provenance /\ b.archived = r.archived
        BY SMT DEF Counts, RowType
      <4> QED BY <4>1, <4>2 DEF Counts
    <3>2. Resumed(r) = o BY <2>2 DEF Resumed
    <3> HIDE DEF b
    <3>3. Counts(t) /\ t.age = 0 /\ NoStalls(t.emitted)
          /\ t.provenance = r.provenance /\ t.archived = r.archived
      BY <3>1, TouchFields
    <3> HIDE DEF t
    <3>4. "resume" \in Kinds /\ Key("resume", None)[1] = "resume" BY DEF Kinds, Key
    <3>5. /\ Counts(o.row) /\ o.row.age = t.age
          /\ o.row.provenance = t.provenance /\ o.row.archived = t.archived
          /\ o.row.emitted \subseteq t.emitted \cup {Key("resume", None)}
          /\ o.said \subseteq SaidType /\ \A m \in o.said : m.kind = "resume"
      BY <3>3, <3>4, MilestoneFields
    <3> HIDE DEF o
    <3>6. Handled(r, o, TRUE) BY <3>3, <3>4, <3>5 DEF Handled, NoStalls
    <3>7. (r.needsInput # None) = TRUE BY <2>2
    <3> QED BY <3>2, <3>6, <3>7
  <2> QED BY <2>1, <2>2
<1>3. Handled(r, Denied(r), r.needsInput # None)
  <2>1. CASE r.needsInput = None
    <3>1. Denied(r) = Quietly(r) BY <2>1 DEF Denied
    <3>2. (r.needsInput # None) = FALSE BY <2>1
    <3> QED BY <3>1, <3>2, QuietlyHandled
  <2>2. CASE r.needsInput # None
    <3> DEFINE b == [r EXCEPT !.needsInput = None]
               t == Touch(b)
               d == [t EXCEPT !.status = "warning", !.phase = "denied"]
               o == Milestone(d, "denied", r.needsInput)
    <3>1. Counts(b) /\ b.provenance = r.provenance /\ b.archived = r.archived
          /\ r.needsInput \in Requests
      <4>1. b \in RowType BY <2>2, PhasesAre, ZenonT(30) DEF Counts, RowType, Statuses
      <4>2. b.calls = r.calls /\ b.loop = r.loop
            /\ b.provenance = r.provenance /\ b.archived = r.archived
        BY <2>2, SMT DEF Counts, RowType
      <4> QED BY <2>2, <4>1, <4>2 DEF Counts, RowType
    <3>2. Denied(r) = o BY <2>2 DEF Denied
    <3> HIDE DEF b
    <3>3. Counts(t) /\ t.age = 0 /\ NoStalls(t.emitted)
          /\ t.provenance = r.provenance /\ t.archived = r.archived
      BY <3>1, TouchFields
    <3> HIDE DEF t
    <3>4. Counts(d) /\ d.age = t.age /\ d.emitted = t.emitted
          /\ d.provenance = t.provenance /\ d.archived = t.archived
      <4>r. t \in RowType BY <3>3 DEF Counts
      <4>1. d \in RowType BY <4>r, PhasesAre, ZenonT(30) DEF RowType
      <4>2. d.calls = t.calls /\ d.loop = t.loop
            /\ d.age = t.age /\ d.emitted = t.emitted /\ d.provenance = t.provenance /\ d.archived = t.archived
        BY <3>3, SMT DEF Counts, RowType
      <4> QED BY <3>3, <4>1, <4>2 DEF Counts
    <3> HIDE DEF d
    <3>5. /\ "denied" \in Kinds /\ Key("denied", r.needsInput) \in Keys
          /\ Key("denied", r.needsInput)[1] = "denied"
      BY <3>1 DEF Kinds, WakeKinds, Keys, Key
    <3>6. /\ Counts(o.row) /\ o.row.age = d.age
          /\ o.row.provenance = d.provenance /\ o.row.archived = d.archived
          /\ o.row.emitted \subseteq d.emitted \cup {Key("denied", r.needsInput)}
          /\ o.said \subseteq SaidType /\ \A m \in o.said : m.kind = "denied"
      BY <3>4, <3>5, MilestoneFields
    <3> HIDE DEF o
    <3>7. Handled(r, o, TRUE) BY <3>3, <3>4, <3>5, <3>6 DEF Handled, NoStalls
    <3>8. (r.needsInput # None) = TRUE BY <2>2
    <3> QED BY <3>2, <3>7, <3>8
  <2> QED BY <2>1, <2>2
<1> QED BY <1>1, <1>2, <1>3

\* A call is counted once: the row's count of a target stays within its calls.
LEMMA CountedFields ==
    ASSUME NEW r, Counts(r), NEW c \in Calls, c \notin r.calls
    PROVE  /\ Counts(Counted(r, c)) /\ Counted(r, c).age = r.age
           /\ Counted(r, c).provenance = r.provenance /\ Counted(r, c).archived = r.archived
           /\ Counted(r, c).emitted = r.emitted
<1> DEFINE cs == r.calls \cup {c}
           lp == [key |-> TargetOf[c],
                  count |-> IF r.loop.key = TargetOf[c] THEN r.loop.count + 1 ELSE 1]
           k == [r EXCEPT !.calls = cs, !.loop = lp]
<1>1. r \in RowType /\ r.calls \subseteq Calls /\ r.loop.count \in Nat
      /\ r.loop.count <= Cardinality(r.calls)
  BY DEF Counts, RowType
<1>2. /\ IsFiniteSet(r.calls) /\ Cardinality(r.calls) \in Nat
      /\ IsFiniteSet(cs) /\ Cardinality(cs) = Cardinality(r.calls) + 1
      /\ Cardinality(cs) <= Cardinality(Calls) /\ Cardinality(Calls) \in Nat
  <2>1. IsFiniteSet(Calls) BY ReducerAssumption
  <2>2. IsFiniteSet(r.calls) /\ cs \subseteq Calls BY <1>1, <2>1, FS_Subset
  <2>3. /\ Cardinality(r.calls) \in Nat /\ Cardinality(Calls) \in Nat
    BY <2>1, <2>2, FS_CardinalityType
  <2>4. IsFiniteSet(cs) /\ Cardinality(cs) = Cardinality(r.calls) + 1
    BY <2>2, FS_AddElement
  <2>5. Cardinality(cs) <= Cardinality(Calls) BY <2>1, <2>2, FS_Subset
  <2> QED BY <2>2, <2>3, <2>4, <2>5
<1>3. lp.count \in Nat /\ lp.count <= Cardinality(cs) BY <1>1, <1>2
<1>4. lp \in [key : Targets \cup {None}, count : 0 .. Cardinality(Calls)]
  <2>1. TargetOf[c] \in Targets BY DEF Targets
  <2>2. lp.count \in 0 .. Cardinality(Calls) BY <1>2, <1>3
  <2> QED BY <2>1, <2>2
<1>5. cs \in SUBSET Calls BY <1>1
<1>6. Counted(r, c) = k BY DEF Counted
<1> HIDE DEF cs, lp
<1>7. k \in RowType
  <2>1. r \in RowType BY <1>1
  <2> QED BY <2>1, <1>4, <1>5, ZenonT(30) DEF RowType
<1>8. /\ k.calls = cs /\ k.loop = lp /\ k.age = r.age
      /\ k.provenance = r.provenance /\ k.archived = r.archived /\ k.emitted = r.emitted
  BY <1>1 DEF RowType
<1> HIDE DEF k
<1> QED BY <1>3, <1>6, <1>7, <1>8 DEF Counts

\* A call that runs.
LEMMA ToolRunsHandled ==
    ASSUME NEW r, Counts(r), NEW c \in Calls, NEW named \in BOOLEAN
    PROVE  Handled(r, ToolRuns(r, c, named), TRUE)
<1> DEFINE t == Touch(r)
           run == [t EXCEPT !.phase = "tool", !.toolInFlight = TRUE, !.tool = c]
           first == Milestone(Counted(run, c), "first-tool", None)
           thrash == Milestone(first.row, "thrash", TargetOf[c])
           status == IF thrash.said # {} /\ thrash.row.status = "running"
                     THEN "warning" ELSE thrash.row.status
           end == [thrash.row EXCEPT !.status = status]
           o == ToolRuns(r, c, named)
<1> SUFFICES Handled(r, o, TRUE) OBVIOUS
<1>0. /\ c \in r.calls \/ ~named => o.row = run /\ o.said = {}
      /\ ~(c \in r.calls \/ ~named) =>
           \/ o = first
           \/ o.row = end /\ o.said = first.said \cup thrash.said
  BY DEF ToolRuns, Quietly
<1> HIDE DEF o, status
<1>1. /\ Counts(t) /\ t.age = 0 /\ NoStalls(t.emitted)
      /\ t.provenance = r.provenance /\ t.archived = r.archived /\ t.calls = r.calls
  BY TouchFields
<1> HIDE DEF t
<1>2. /\ Counts(run) /\ run.age = 0 /\ NoStalls(run.emitted)
      /\ run.provenance = r.provenance /\ run.archived = r.archived /\ run.calls = r.calls
  <2>1. t \in RowType BY <1>1 DEF Counts
  <2>2. run \in RowType BY <2>1, PhasesAre, ZenonT(30) DEF RowType
  <2>3. /\ run.calls = t.calls /\ run.loop = t.loop /\ run.age = t.age
        /\ run.emitted = t.emitted /\ run.provenance = t.provenance /\ run.archived = t.archived
    BY <2>1 DEF RowType
  <2> QED BY <1>1, <2>2, <2>3 DEF Counts
<1> HIDE DEF run
<1>3. CASE c \in r.calls \/ ~named
  BY <1>0, <1>2, <1>3 DEF Handled
<1>4. CASE ~(c \in r.calls \/ ~named)
  <2>1. /\ Counts(Counted(run, c)) /\ Counted(run, c).age = run.age
        /\ Counted(run, c).provenance = run.provenance
        /\ Counted(run, c).archived = run.archived
        /\ Counted(run, c).emitted = run.emitted
    BY <1>2, <1>4, CountedFields
  <2>2. /\ "first-tool" \in Kinds /\ Key("first-tool", None) \in Keys
        /\ Key("first-tool", None)[1] = "first-tool"
    BY DEF Kinds, Keys, Key
  <2>3. /\ "thrash" \in Kinds /\ Key("thrash", TargetOf[c]) \in Keys
        /\ Key("thrash", TargetOf[c])[1] = "thrash"
    BY DEF Kinds, WakeKinds, Keys, Key, Targets
  <2>4. /\ Counts(first.row) /\ first.row.age = Counted(run, c).age
        /\ first.row.provenance = Counted(run, c).provenance
        /\ first.row.archived = Counted(run, c).archived
        /\ first.row.emitted \subseteq Counted(run, c).emitted \cup {Key("first-tool", None)}
        /\ first.said \subseteq SaidType /\ \A m \in first.said : m.kind = "first-tool"
    BY <2>1, <2>2, MilestoneFields
  <2> HIDE DEF first
  <2>5. first.row.age = 0 /\ NoStalls(first.row.emitted)
        /\ first.row.provenance = r.provenance /\ first.row.archived = r.archived
    BY <1>2, <2>1, <2>2, <2>4 DEF NoStalls
  <2>6. /\ Counts(thrash.row) /\ thrash.row.age = first.row.age
        /\ thrash.row.provenance = first.row.provenance
        /\ thrash.row.archived = first.row.archived
        /\ thrash.row.emitted \subseteq first.row.emitted \cup {Key("thrash", TargetOf[c])}
        /\ thrash.said \subseteq SaidType /\ \A m \in thrash.said : m.kind = "thrash"
    BY <2>3, <2>4, MilestoneFields
  <2>7. status \in Statuses
    <3>1. thrash.row.status \in Statuses BY <2>6 DEF Counts, RowType, Statuses
    <3> QED BY <3>1 DEF status, Statuses
  <2> HIDE DEF thrash
  <2>8. /\ Counts(end) /\ end.age = thrash.row.age /\ end.emitted = thrash.row.emitted
        /\ end.provenance = thrash.row.provenance /\ end.archived = thrash.row.archived
    <3>1. thrash.row \in RowType BY <2>6 DEF Counts
    <3>2. end \in RowType BY <3>1, <2>7, ZenonT(30) DEF RowType, Statuses
    <3>3. /\ end.calls = thrash.row.calls /\ end.loop = thrash.row.loop
          /\ end.age = thrash.row.age /\ end.emitted = thrash.row.emitted
          /\ end.provenance = thrash.row.provenance /\ end.archived = thrash.row.archived
      BY <3>1 DEF RowType
    <3> QED BY <2>6, <3>2, <3>3 DEF Counts
  <2> HIDE DEF end
  <2>9. CASE o = first BY <2>4, <2>5, <2>9 DEF Handled
  <2>10. CASE o.row = end /\ o.said = first.said \cup thrash.said
    <3>1. NoStalls(end.emitted) BY <2>3, <2>5, <2>6, <2>8 DEF NoStalls
    <3>2. o.said \subseteq SaidType /\ \A m \in o.said : m.kind # "stall"
      BY <2>4, <2>6, <2>10
    <3> QED BY <2>5, <2>6, <2>8, <2>10, <3>1, <3>2 DEF Handled
  <2> QED BY <1>0, <1>4, <2>9, <2>10
<1> QED BY <1>3, <1>4

\* A call that ends.
LEMMA ToolEndsHandled ==
    ASSUME NEW r, Counts(r)
    PROVE  Handled(r, ToolEnds(r), TRUE)
<1> DEFINE t == Touch(r)
           e == [t EXCEPT !.phase = "thinking", !.toolInFlight = FALSE, !.tool = None]
<1>1. /\ Counts(t) /\ t.age = 0 /\ NoStalls(t.emitted)
      /\ t.provenance = r.provenance /\ t.archived = r.archived
  BY TouchFields
<1>2. ToolEnds(r) = Quietly(e) BY DEF ToolEnds
<1> HIDE DEF t
<1>3. t \in RowType BY <1>1 DEF Counts
<1>4. e \in RowType BY <1>3, PhasesAre, ZenonT(30) DEF RowType
<1>5. /\ e.calls = t.calls /\ e.loop = t.loop /\ e.age = t.age
      /\ e.emitted = t.emitted /\ e.provenance = t.provenance /\ e.archived = t.archived
  BY <1>3 DEF RowType
<1> HIDE DEF e
<1> QED BY <1>1, <1>2, <1>4, <1>5 DEF Handled, Quietly, Counts

\* session.execution.*: the row is over.
LEMMA TerminatedHandled ==
    ASSUME NEW r, Counts(r), NEW outcome \in RowOutcomes
    PROVE  Handled(r, Terminated(r, outcome), TRUE)
<1> DEFINE a == [r EXCEPT !.terminal = outcome, !.status = outcome, !.phase = outcome]
           b == [a EXCEPT !.needsInput = None, !.toolInFlight = FALSE, !.age = Never]
           o == Milestone(b, "terminal", None)
<1>1. Terminated(r, outcome) = o BY DEF Terminated
<1>2. outcome \in Phases /\ outcome \in Statuses /\ outcome # None
  BY OutcomeAssumption DEF RowOutcomes, Phases, Statuses
<1>3. r \in RowType BY DEF Counts
<1>4. a \in RowType BY <1>2, <1>3, ZenonT(30) DEF RowType, Statuses
<1>5. /\ a.terminal = outcome /\ a.calls = r.calls /\ a.loop = r.loop
      /\ a.provenance = r.provenance /\ a.archived = r.archived
  BY <1>3 DEF RowType
<1> HIDE DEF a
<1>6. b \in RowType BY <1>4, ZenonT(30) DEF RowType
<1>7. /\ b.terminal = a.terminal /\ b.calls = a.calls /\ b.loop = a.loop
      /\ b.provenance = a.provenance /\ b.archived = a.archived
  BY <1>4 DEF RowType
<1> HIDE DEF b
<1>8. Counts(b) BY <1>5, <1>6, <1>7 DEF Counts
<1>9. "terminal" \in Kinds /\ Key("terminal", None) \in Keys
  BY DEF Kinds, Keys
<1>10. /\ Counts(o.row) /\ o.row.terminal = b.terminal
       /\ o.row.provenance = b.provenance /\ o.row.archived = b.archived
       /\ o.said \subseteq SaidType /\ \A m \in o.said : m.kind = "terminal"
  BY <1>8, <1>9, MilestoneFields
<1> HIDE DEF o
<1> QED BY <1>1, <1>2, <1>5, <1>7, <1>10 DEF Handled

---------------------------------------------------------------------------
(* The reducer: its steps.                                                 *)

\* What a step does to the row and to the silence.
ReducerTyped == ReducerTypeOK /\ (row # None => Counts(row))

\* The clock of an observed row that is not over is the silence of its session, and
\* while no stall was announced since, none of the row's keys is one.
ClockIsSilence ==
    row # None /\ row.provenance = "observed" /\ row.terminal = None =>
      /\ row.age = quiet
      /\ ~alarmed => NoStalls(row.emitted)

\* A row the server part has from the list alone is never shown as running.
ListedIsNoEvidence ==
    row # None /\ row.provenance = "discovered" /\ row.terminal = None /\ Host = "server" =>
      row.status # "running"

ReducerInv == ReducerTyped /\ ClockIsSilence /\ ListedIsNoEvidence

\* Observe, with what its handler returned.
Observes(o, sign) ==
    IF Listening(row)
    THEN LET restart == sign \/ row.provenance = "discovered"
         IN  /\ row' = o.row /\ said' = o.said
             /\ quiet' = (IF restart THEN 0 ELSE quiet)
             /\ alarmed' = (alarmed /\ ~restart)
             /\ live' = None
    ELSE said' = {} /\ UNCHANGED <<row, live, quiet, alarmed>>

\* What the steps other than the clock's keep.
EventKeeps == /\ ReducerTyped' /\ ClockIsSilence' /\ ListedIsNoEvidence'
              /\ \A m \in said' : m.kind # "stall"
              /\ row # None => row' # None
              /\ row # None /\ row.archived => said' = {}
              /\ row # None /\ row.terminal # None =>
                   /\ row'.terminal = row.terminal /\ row'.status = row.status
                   /\ \A m \in said' : m.kind = "start"

\* Any handler that does what a handler does.
LEMMA ObservesKeeps ==
    ASSUME ReducerInv, NEW o, NEW sign \in BOOLEAN, Observes(o, sign),
           Listening(row) => Handled(Promoted(row), o, sign),
           asked' \in [Requests -> {"no", "open", "rejected"}], ended' \in BOOLEAN
    PROVE  EventKeeps
<1>t. /\ row \in RowType \cup {None} /\ live \in BOOLEAN \cup {None}
      /\ quiet \in RowAges /\ alarmed \in BOOLEAN /\ 0 \in RowAges
  BY ReducerAssumption DEF ReducerInv, ReducerTyped, ReducerTypeOK, RowAges, AgeCap
<1>1. CASE ~Listening(row)
  <2>1. said' = {} /\ UNCHANGED <<row, live, quiet, alarmed>> BY <1>1 DEF Observes
  <2>2. ReducerTypeOK' BY <1>t, <2>1 DEF ReducerTypeOK
  <2>3. ReducerTyped' /\ ClockIsSilence' /\ ListedIsNoEvidence'
    BY <2>1, <2>2 DEF ReducerInv, ReducerTyped, ClockIsSilence, ListedIsNoEvidence
  <2> QED BY <2>1, <2>3 DEF EventKeeps
<1>2. CASE Listening(row)
  <2> DEFINE p == Promoted(row)
             restart == sign \/ row.provenance = "discovered"
  <2>1. /\ row' = o.row /\ said' = o.said
        /\ quiet' = (IF restart THEN 0 ELSE quiet)
        /\ alarmed' = (alarmed /\ ~restart)
        /\ live' = None
    BY <1>2 DEF Observes
  <2>2. row # None /\ ~row.archived /\ row.terminal = None /\ Counts(row)
    BY <1>2 DEF Listening, ReducerInv, ReducerTyped
  <2>3. /\ Counts(p) /\ p.provenance = "observed" /\ p.terminal = None
        /\ row.provenance = "observed" => p = row
        /\ row.provenance # "observed" => p.age = 0 /\ NoStalls(p.emitted)
    BY <2>2, PromotedFields
  <2>4. Handled(p, o, sign) BY <1>2
  <2>5. row.provenance \in {"observed", "discovered"} BY <2>2 DEF Counts, RowType
  <2>6. Counts(row') /\ row'.provenance = "observed" BY <2>1, <2>3, <2>4 DEF Handled
  <2>7. row' \in RowType BY <2>6 DEF Counts
  <2>8. quiet' \in RowAges BY <1>t, <2>1
  <2>9. alarmed' \in BOOLEAN BY <2>1
  <2>10. said' \subseteq SaidType /\ \A m \in said' : m.kind # "stall"
    BY <2>1, <2>4 DEF Handled
  <2>11. ReducerTypeOK' BY <2>1, <2>7, <2>8, <2>9, <2>10 DEF ReducerTypeOK, SaidType
  <2>12. ClockIsSilence'
    <3> SUFFICES ASSUME row'.terminal = None
                 PROVE  row'.age = quiet' /\ (~alarmed' => NoStalls(row'.emitted))
      BY DEF ClockIsSilence
    <3>1. CASE sign
      <4>1. quiet' = 0 BY <2>1, <3>1
      <4> QED BY <2>1, <2>4, <3>1, <4>1 DEF Handled
    <3>2. CASE ~sign
      <4>1. /\ row'.age = p.age
            /\ NoStalls(p.emitted) => NoStalls(row'.emitted)
        BY <2>1, <2>4, <3>2 DEF Handled
      <4>2. CASE row.provenance = "discovered"
        <5>1. quiet' = 0 BY <2>1, <4>2
        <5> QED BY <2>3, <4>1, <4>2, <5>1
      <4>3. CASE row.provenance = "observed"
        <5>1. quiet' = quiet /\ (alarmed' <=> alarmed) BY <2>1, <3>2, <4>3
        <5>2. row.age = quiet /\ (~alarmed => NoStalls(row.emitted))
          BY <2>2, <4>3 DEF ReducerInv, ClockIsSilence
        <5> QED BY <2>3, <4>1, <4>3, <5>1, <5>2
      <4> QED BY <2>5, <4>2, <4>3
    <3> QED BY <3>1, <3>2
  <2>13. ListedIsNoEvidence' BY <2>6 DEF ListedIsNoEvidence
  <2>14. row' # None BY <2>7, RowAssumption
  <2> QED BY <2>2, <2>6, <2>10, <2>11, <2>12, <2>13, <2>14 DEF EventKeeps, ReducerTyped
<1> QED BY <1>1, <1>2

\* The events of the child.
LEMMA ChildEventKeeps ==
    ASSUME ReducerInv, ChildEvent
    PROVE  EventKeeps
<1>1. /\ asked' \in [Requests -> {"no", "open", "rejected"}] /\ ended' \in BOOLEAN
  BY DEF ChildEvent, ReducerInv, ReducerTyped, ReducerTypeOK
<1>2. Listening(row) => Counts(Promoted(row))
  BY PromotedFields DEF Listening, ReducerInv, ReducerTyped
<1>3. CASE Observe(BusyTurn, TRUE)
  <2>1. Observes(BusyTurn(Promoted(row)), TRUE) BY <1>3 DEF Observe, Observes
  <2> QED BY <1>1, <1>2, <2>1, ObservesKeeps, TurnsHandled
<1>4. CASE Observe(IdleTurn, TRUE)
  <2>1. Observes(IdleTurn(Promoted(row)), TRUE) BY <1>4 DEF Observe, Observes
  <2> QED BY <1>1, <1>2, <2>1, ObservesKeeps, TurnsHandled
<1>5. CASE Observe(RetryTurn, FALSE)
  <2>1. Observes(RetryTurn(Promoted(row)), FALSE) BY <1>5 DEF Observe, Observes
  <2> QED BY <1>1, <1>2, <2>1, ObservesKeeps, TurnsHandled
<1>6. CASE Observe(StepStarted, TRUE)
  <2>1. Observes(StepStarted(Promoted(row)), TRUE) BY <1>6 DEF Observe, Observes
  <2> QED BY <1>1, <1>2, <2>1, ObservesKeeps, TurnsHandled
<1>7. CASE Observe(StepEnded, TRUE)
  <2>1. Observes(StepEnded(Promoted(row)), TRUE) BY <1>7 DEF Observe, Observes
  <2> QED BY <1>1, <1>2, <2>1, ObservesKeeps, TurnsHandled
<1>8. CASE Observe(StepFailed, TRUE)
  <2>1. Observes(StepFailed(Promoted(row)), TRUE) BY <1>8 DEF Observe, Observes
  <2> QED BY <1>1, <1>2, <2>1, ObservesKeeps, TurnsHandled
<1>9. CASE Observe(Quietly, FALSE)
  <2>1. Observes(Quietly(Promoted(row)), FALSE) BY <1>9 DEF Observe, Observes
  <2> QED BY <1>1, <1>2, <2>1, ObservesKeeps, QuietlyHandled
<1> QED BY <1>3, <1>4, <1>5, <1>6, <1>7, <1>8, <1>9 DEF ChildEvent

\* The requests of the child.
LEMMA RequestsKeep ==
    ASSUME ReducerInv, NEW q \in Requests, Asked(q) \/ Answered(q) \/ Rejected(q)
    PROVE  EventKeeps
<1> DEFINE wait(r) == Milestone([r EXCEPT !.needsInput = q, !.status = "waiting",
                                          !.phase = "waiting"], "needs-input", q)
           sign == row # None /\ row.needsInput # None
<1>1. /\ asked' \in [Requests -> {"no", "open", "rejected"}] /\ ended' \in BOOLEAN
  BY DEF Asked, Answered, Rejected, ReducerInv, ReducerTyped, ReducerTypeOK
<1>2. Listening(row) => Counts(Promoted(row)) /\ (sign <=> Promoted(row).needsInput # None)
  BY PromotedFields DEF Listening, ReducerInv, ReducerTyped
<1>3. CASE Asked(q)
  <2>1. Observes(wait(Promoted(row)), FALSE) BY <1>3 DEF Asked, Observe, Observes
  <2>2. Listening(row) => Handled(Promoted(row), wait(Promoted(row)), FALSE)
    BY <1>2, RequestsHandled
  <2> HIDE DEF wait
  <2> QED BY <1>1, <2>1, <2>2, ObservesKeeps
<1>4. CASE Answered(q)
  <2>1. Observes(Resumed(Promoted(row)), sign) BY <1>4 DEF Answered, Observe, Observes
  <2>2. Listening(row) => Handled(Promoted(row), Resumed(Promoted(row)), sign)
    <3> SUFFICES ASSUME Listening(row)
                 PROVE  Handled(Promoted(row), Resumed(Promoted(row)), sign) OBVIOUS
    <3>1. Handled(Promoted(row), Resumed(Promoted(row)), Promoted(row).needsInput # None)
      BY <1>2, RequestsHandled
    <3> QED BY <1>2, <3>1 DEF Handled
  <2>3. sign \in BOOLEAN OBVIOUS
  <2> HIDE DEF sign
  <2> QED BY <1>1, <2>1, <2>2, <2>3, ObservesKeeps
<1>5. CASE Rejected(q)
  <2>1. Observes(Denied(Promoted(row)), sign) BY <1>5 DEF Rejected, Observe, Observes
  <2>2. Listening(row) => Handled(Promoted(row), Denied(Promoted(row)), sign)
    <3> SUFFICES ASSUME Listening(row)
                 PROVE  Handled(Promoted(row), Denied(Promoted(row)), sign) OBVIOUS
    <3>1. Handled(Promoted(row), Denied(Promoted(row)), Promoted(row).needsInput # None)
      BY <1>2, RequestsHandled
    <3> QED BY <1>2, <3>1 DEF Handled
  <2>3. sign \in BOOLEAN OBVIOUS
  <2> HIDE DEF sign
  <2> QED BY <1>1, <2>1, <2>2, <2>3, ObservesKeeps
<1> QED BY <1>3, <1>4, <1>5

\* The calls of the child, and its end.
LEMMA CallsKeep ==
    ASSUME ReducerInv, (\E c \in Calls : ToolCalled(c)) \/ ToolEnded \/ ExecutionEnded
    PROVE  EventKeeps
<1>1. /\ asked' \in [Requests -> {"no", "open", "rejected"}] /\ ended' \in BOOLEAN
  BY DEF ToolCalled, ToolEnded, ExecutionEnded, NoneAsked, ReducerInv, ReducerTyped, ReducerTypeOK
<1>2. Listening(row) => Counts(Promoted(row))
  BY PromotedFields DEF Listening, ReducerInv, ReducerTyped
<1>3. ASSUME NEW c \in Calls, ToolCalled(c) PROVE EventKeeps
  <2>1. CASE Observe(Quietly, FALSE)
    <3>1. Observes(Quietly(Promoted(row)), FALSE) BY <2>1 DEF Observe, Observes
    <3> QED BY <1>1, <1>2, <3>1, ObservesKeeps, QuietlyHandled
  <2>2. ASSUME NEW named \in BOOLEAN, Observe(LAMBDA r : ToolRuns(r, c, named), TRUE)
        PROVE  EventKeeps
    <3>1. Observes(ToolRuns(Promoted(row), c, named), TRUE) BY <2>2 DEF Observe, Observes
    <3>2. Listening(row) =>
            Handled(Promoted(row), ToolRuns(Promoted(row), c, named), TRUE)
      BY <1>2, ToolRunsHandled
    <3> QED BY <1>1, <3>1, <3>2, ObservesKeeps
  <2> QED BY <1>3, <2>1, <2>2 DEF ToolCalled
<1>4. CASE ToolEnded
  <2>1. Observes(ToolEnds(Promoted(row)), TRUE) BY <1>4 DEF ToolEnded, Observe, Observes
  <2> QED BY <1>1, <1>2, <2>1, ObservesKeeps, ToolEndsHandled
<1>5. CASE ExecutionEnded
  <2>1. PICK outcome \in RowOutcomes : Observe(LAMBDA r : Terminated(r, outcome), TRUE)
    BY <1>5 DEF ExecutionEnded
  <2>2. Observes(Terminated(Promoted(row), outcome), TRUE) BY <2>1 DEF Observe, Observes
  <2>3. Listening(row) => Handled(Promoted(row), Terminated(Promoted(row), outcome), TRUE)
    BY <1>2, TerminatedHandled
  <2> QED BY <1>1, <2>2, <2>3, ObservesKeeps
<1> QED BY <1>3, <1>4, <1>5

\* A row as it is made, by an event or from the list.
LEMMA NewRowFields ==
    ASSUME NEW provenance \in {"observed", "discovered"}, NEW age \in RowAges \cup {Never},
           NEW archived \in BOOLEAN
    PROVE  LET r == NewRow(provenance, age, archived) IN
           /\ Counts(r) /\ r.provenance = provenance /\ r.age = age
           /\ r.archived = archived /\ r.terminal = None /\ r.emitted = {}
<1> DEFINE r == NewRow(provenance, age, archived)
           lp == [key |-> None, count |-> 0]
<1>1. Cardinality(Calls) \in Nat BY ReducerAssumption, FS_CardinalityType
<1>2. lp \in [key : Targets \cup {None}, count : 0 .. Cardinality(Calls)] /\ lp.count = 0
  BY <1>1
<1>3. 0 \in 0 .. MaxWakes BY ReducerAssumption
<1> DEFINE new == [status |-> "running", phase |-> "starting", age |-> age,
             provenance |-> provenance, stale |-> FALSE, archived |-> archived,
             busy |-> FALSE, openStep |-> FALSE, toolInFlight |-> FALSE, tool |-> None,
             calls |-> {}, loop |-> lp, needsInput |-> None,
             terminal |-> None, routineAge |-> Never, wakes |-> 0, emitted |-> {}]
<1>4. r = new BY DEF NewRow
<1> HIDE DEF lp
<1>5. r \in RowType
  <2>1. /\ "running" \in Statuses /\ {} \in SUBSET Calls /\ {} \in SUBSET Keys
        /\ Never \in 0 .. RoutineGap \cup {Never} /\ FALSE \in BOOLEAN
        /\ None \in Calls \cup {None} /\ None \in Requests \cup {None}
        /\ None \in RowOutcomes \cup {None} /\ "starting" \in Phases
        /\ lp \in [key : Targets \cup {None}, count : 0 .. Cardinality(Calls)]
        /\ 0 \in 0 .. MaxWakes
    BY <1>2, <1>3, PhasesAre DEF Statuses
  <2>2. new \in RowType BY <2>1, ZenonT(60) DEF RowType, Statuses
  <2> HIDE DEF new, r
  <2> QED BY <1>4, <2>2
<1>6. /\ r.calls = {} /\ r.loop = lp /\ r.provenance = provenance /\ r.age = age
      /\ r.archived = archived /\ r.terminal = None /\ r.emitted = {}
  BY <1>4
<1>7. Cardinality(r.calls) = 0 BY <1>6, FS_EmptySet
<1> HIDE DEF r
<1>8. Counts(r) BY <1>2, <1>5, <1>6, <1>7 DEF Counts
<1>9. /\ Counts(r) /\ r.provenance = provenance /\ r.age = age
      /\ r.archived = archived /\ r.terminal = None /\ r.emitted = {}
  BY <1>6, <1>8
<1> QED BY <1>9 DEF r

\* The start of a session, of which the process has a row or not.
LEMMA CreatedKeeps ==
    ASSUME ReducerInv, Created \/ Renamed
    PROVE  EventKeeps
<1>t. /\ row \in RowType \cup {None} /\ live \in BOOLEAN \cup {None}
      /\ quiet \in RowAges /\ alarmed \in BOOLEAN /\ 0 \in RowAges
      /\ asked' \in [Requests -> {"no", "open", "rejected"}] /\ ended' \in BOOLEAN
  <2>1. ReducerTypeOK BY DEF ReducerInv, ReducerTyped
  <2>2. asked' = asked /\ ended' = ended BY DEF Created, Renamed
  <2>3. 0 \in RowAges BY ReducerAssumption DEF RowAges, AgeCap
  <2> QED BY <2>1, <2>2, <2>3 DEF ReducerTypeOK
<1>m. "start" \in Kinds /\ Key("start", None) \in Keys BY DEF Kinds, Keys
<1>1. CASE row = None
  <2> DEFINE r == NewRow("observed", 0, FALSE)
             o == Milestone(r, "start", None)
  <2>1. /\ Counts(r) /\ r.provenance = "observed" /\ r.age = 0 /\ r.terminal = None
        /\ NoStalls(r.emitted)
    BY <1>t, NewRowFields DEF NoStalls
  <2> HIDE DEF r
  <2>2. /\ Counts(o.row) /\ o.row.provenance = r.provenance /\ o.row.age = r.age
        /\ o.row.emitted \subseteq r.emitted \cup {Key("start", None)}
        /\ o.said \subseteq SaidType /\ \A m \in o.said : m.kind = "start"
    BY <1>m, <2>1, MilestoneFields
  <2>3. NoStalls(o.row.emitted)
    <3> HIDE DEF o
    <3> QED BY <2>1, <2>2 DEF NoStalls, Key
  <2>4. /\ (row' = o.row /\ said' = o.said) \/ (row' = r /\ said' = {})
        /\ quiet' = 0 /\ alarmed' = FALSE /\ live' = live
    BY <1>1 DEF Created, Renamed, r
  <2> HIDE DEF o
  <2>5. /\ Counts(row') /\ row'.provenance = "observed" /\ row'.age = 0
        /\ NoStalls(row'.emitted)
        /\ said' \subseteq SaidType /\ \A m \in said' : m.kind = "start"
    BY <2>1, <2>2, <2>3, <2>4
  <2>6. ReducerTypeOK' BY <1>t, <2>4, <2>5 DEF ReducerTypeOK, Counts, SaidType
  <2>7. ClockIsSilence' BY <2>4, <2>5 DEF ClockIsSilence
  <2>8. ListedIsNoEvidence' BY <2>5 DEF ListedIsNoEvidence
  <2> QED BY <1>1, <2>5, <2>6, <2>7, <2>8 DEF EventKeeps, ReducerTyped
<1>2. CASE row # None /\ Renamed
  <2>1. Observes(Quietly(Promoted(row)), FALSE) BY <1>2 DEF Renamed, Observe, Observes
  <2>2. Listening(row) => Counts(Promoted(row))
    BY PromotedFields DEF Listening, ReducerInv, ReducerTyped
  <2> QED BY <1>t, <2>1, <2>2, ObservesKeeps, QuietlyHandled
<1>3. CASE row # None /\ Created
  <2> DEFINE fresh == Milestone(row, "start", None)
             first == row.provenance = "discovered"
  <2>1. Counts(row) BY <1>3 DEF ReducerInv, ReducerTyped
  <2>2. /\ Counts(fresh.row) /\ fresh.row.provenance = row.provenance
        /\ fresh.row.age = row.age /\ fresh.row.terminal = row.terminal
        /\ fresh.row.status = row.status /\ fresh.row.archived = row.archived
        /\ fresh.row.emitted \subseteq row.emitted \cup {Key("start", None)}
        /\ fresh.said \subseteq SaidType /\ \A m \in fresh.said : m.kind = "start"
    BY <1>m, <2>1, MilestoneFields
  <2>3. NoStalls(row.emitted) => NoStalls(fresh.row.emitted) BY <2>2 DEF NoStalls, Key
  <2>4. row.archived \/
        ( /\ said' = fresh.said
          /\ row' = (IF row.terminal = None THEN Promoted(fresh.row) ELSE fresh.row)
          /\ quiet' = (IF first THEN 0 ELSE quiet)
          /\ alarmed' = (alarmed /\ ~first)
          /\ live' = (IF row.terminal = None THEN None ELSE live))
    BY <1>3 DEF Created
  <2>5. row.archived => said' = {} /\ UNCHANGED <<row, live, quiet, alarmed>>
    BY <1>3 DEF Created
  <2>6. CASE row.archived
    <3>1. ReducerTypeOK' BY <1>t, <2>5, <2>6 DEF ReducerTypeOK
    <3> QED BY <2>5, <2>6, <3>1
         DEF EventKeeps, ReducerInv, ReducerTyped, ClockIsSilence, ListedIsNoEvidence
  <2> HIDE DEF fresh
  <2>7. CASE ~row.archived /\ row.terminal # None
    <3>1. Counts(row') /\ row'.terminal # None /\ row'.terminal = row.terminal
          /\ row'.status = row.status
      BY <2>2, <2>4, <2>7
    <3>2. quiet' \in RowAges /\ alarmed' \in BOOLEAN /\ live' = live
      BY <1>t, <2>4, <2>7
    <3>3. said' \subseteq SaidType /\ \A m \in said' : m.kind = "start"
      BY <2>2, <2>4, <2>7
    <3>4. ReducerTypeOK' BY <1>t, <3>1, <3>2, <3>3 DEF ReducerTypeOK, Counts, SaidType
    <3>5. row' # None BY <3>1, RowAssumption DEF Counts
    <3> QED BY <2>7, <3>1, <3>3, <3>4, <3>5
         DEF EventKeeps, ReducerTyped, ClockIsSilence, ListedIsNoEvidence
  <2>8. CASE ~row.archived /\ row.terminal = None
    <3> DEFINE o == [row |-> Promoted(fresh.row), said |-> fresh.said]
               p == Promoted(row)
    <3>1. /\ Counts(o.row) /\ o.row.provenance = "observed" /\ o.row.terminal = None
          /\ o.row.archived = fresh.row.archived
          /\ fresh.row.provenance = "observed" => o.row = fresh.row
          /\ fresh.row.provenance # "observed" => o.row.age = 0 /\ NoStalls(o.row.emitted)
      BY <2>2, <2>8, PromotedFields
    <3>2. /\ Counts(p) /\ p.provenance = "observed" /\ p.terminal = None
          /\ p.archived = row.archived
          /\ row.provenance = "observed" => p = row
          /\ row.provenance # "observed" => p.age = 0 /\ NoStalls(p.emitted)
      BY <2>1, <2>8, PromotedFields
    <3>3. /\ row' = o.row /\ said' = o.said
          /\ quiet' = (IF FALSE \/ row.provenance = "discovered" THEN 0 ELSE quiet)
          /\ alarmed' = (alarmed /\ ~(FALSE \/ row.provenance = "discovered"))
          /\ live' = None
      BY <2>4, <2>8
    <3>4. o.said = fresh.said OBVIOUS
    <3> HIDE DEF o, p
    <3>5. Handled(p, o, FALSE)
      <4>1. o.row.age = p.age /\ (NoStalls(p.emitted) => NoStalls(o.row.emitted))
        <5>1. CASE row.provenance = "observed" BY <2>2, <2>3, <3>1, <3>2, <5>1
        <5>2. CASE row.provenance # "observed" BY <2>2, <3>1, <3>2, <5>2
        <5> QED BY <5>1, <5>2
      <4> QED BY <2>2, <3>1, <3>2, <3>4, <4>1 DEF Handled
    <3>6. Observes(o, FALSE)
      <4>1. Listening(row) BY <1>3, <2>8 DEF Listening
      <4> QED BY <3>3, <4>1 DEF Observes
    <3> QED BY <1>t, <3>5, <3>6, ObservesKeeps DEF p
  <2> QED BY <2>6, <2>7, <2>8, <2>1 DEF Counts, RowType
<1> QED BY <1>1, <1>2, <1>3

\* The archive, the time that passes and the session that goes on.
LEMMA OthersKeep ==
    ASSUME ReducerInv, Archive \/ Unarchive \/ GoesOn \/ Time
    PROVE  EventKeeps
<1>t. ReducerTypeOK BY DEF ReducerInv, ReducerTyped
<1>s. said' = {} BY DEF Archive, Unarchive, GoesOn, Time
<1>1. CASE GoesOn
  <2>1. ended' = FALSE /\ UNCHANGED <<row, live, asked, quiet, alarmed>> BY <1>1 DEF GoesOn
  <2>2. ReducerTypeOK' BY <1>t, <1>s, <2>1 DEF ReducerTypeOK
  <2> QED BY <1>s, <2>1, <2>2
       DEF EventKeeps, ReducerInv, ReducerTyped, ClockIsSilence, ListedIsNoEvidence
<1>2. ASSUME NEW r, row # None, row' = r, r \in RowType,
             r.calls = row.calls, r.loop = row.loop, r.age = row.age,
             r.provenance = row.provenance, r.terminal = row.terminal,
             r.status = row.status, r.emitted = row.emitted,
             UNCHANGED <<live, asked, ended, quiet, alarmed>>
      PROVE  EventKeeps
  <2>1. Counts(row') /\ row' # None => ReducerTyped'
    BY <1>t, <1>s, <1>2 DEF ReducerTyped, ReducerTypeOK, Counts
  <2>2. Counts(row') BY <1>2 DEF Counts, ReducerInv, ReducerTyped
  <2>3. ReducerTyped'
    <3>1. ReducerTypeOK' BY <1>t, <1>s, <1>2 DEF ReducerTypeOK
    <3> QED BY <2>2, <3>1 DEF ReducerTyped
  <2>4. ClockIsSilence' /\ ListedIsNoEvidence'
    BY <1>2 DEF ReducerInv, ClockIsSilence, ListedIsNoEvidence
  <2>5. row' # None BY <1>2, RowAssumption
  <2> QED BY <1>s, <1>2, <2>3, <2>4, <2>5 DEF EventKeeps
<1>3. CASE Archive
  <2> DEFINE r == [row EXCEPT !.archived = TRUE, !.needsInput = None,
                              !.toolInFlight = FALSE, !.busy = FALSE, !.stale = TRUE]
  <2>1. row # None /\ row' = r /\ UNCHANGED <<live, asked, ended, quiet, alarmed>>
    BY <1>3 DEF Archive
  <2>2. row \in RowType BY <1>t, <2>1 DEF ReducerTypeOK
  <2>3. r \in RowType BY <2>2, ZenonT(30) DEF RowType
  <2>4. /\ r.calls = row.calls /\ r.loop = row.loop /\ r.age = row.age
        /\ r.provenance = row.provenance /\ r.terminal = row.terminal
        /\ r.status = row.status /\ r.emitted = row.emitted
    BY <2>2 DEF RowType
  <2> HIDE DEF r
  <2> QED BY <1>2, <2>1, <2>3, <2>4
<1>4. CASE Unarchive
  <2> DEFINE d == [row EXCEPT !.archived = FALSE]
             r == [d EXCEPT !.stale = IsStale(d, live)]
  <2>1. row # None /\ row' = r /\ UNCHANGED <<live, asked, ended, quiet, alarmed>>
    BY <1>4 DEF Unarchive
  <2>2. row \in RowType BY <1>t, <2>1 DEF ReducerTypeOK
  <2>3. d \in RowType BY <2>2, ZenonT(30) DEF RowType
  <2>4. /\ d.calls = row.calls /\ d.loop = row.loop /\ d.age = row.age
        /\ d.provenance = row.provenance /\ d.terminal = row.terminal
        /\ d.status = row.status /\ d.emitted = row.emitted
    BY <2>2 DEF RowType
  <2>5. IsStale(d, live) \in BOOLEAN BY DEF IsStale
  <2> HIDE DEF d
  <2>6. r \in RowType BY <2>3, <2>5, ZenonT(30) DEF RowType
  <2>7. /\ r.calls = d.calls /\ r.loop = d.loop /\ r.age = d.age
        /\ r.provenance = d.provenance /\ r.terminal = d.terminal
        /\ r.status = d.status /\ r.emitted = d.emitted
    BY <2>3 DEF RowType
  <2> HIDE DEF r
  <2> QED BY <1>2, <2>1, <2>4, <2>6, <2>7
<1>5. CASE Time
  <2> DEFINE age == Older(row.age, AgeCap)
             gap == Older(row.routineAge, RoutineGap)
             r == [row EXCEPT !.age = age, !.routineAge = gap]
  <2>1. /\ row # None /\ row.terminal = None /\ row' = r /\ quiet' = Older(quiet, AgeCap)
        /\ UNCHANGED <<live, asked, ended, alarmed>>
    BY <1>5 DEF Time
  <2>2. row \in RowType /\ Counts(row) /\ quiet \in RowAges
    BY <1>t, <2>1 DEF ReducerTypeOK, ReducerInv, ReducerTyped
  <2>3. AgeCap \in Nat /\ RoutineGap \in Nat BY ReducerAssumption DEF AgeCap
  <2>4. age \in RowAges \cup {Never} /\ gap \in 0 .. RoutineGap \cup {Never}
    <3>1. row.age \in RowAges \cup {Never} /\ row.routineAge \in 0 .. RoutineGap \cup {Never}
      BY <2>2 DEF RowType
    <3> QED BY <2>3, <3>1 DEF Older, RowAges, Never
  <2>5. quiet' \in RowAges BY <2>1, <2>2, <2>3 DEF Older, RowAges, Never
  <2>6. row.age = quiet => age = quiet' BY <2>1
  <2> HIDE DEF age, gap
  <2>7. r \in RowType
    <3>1. row \in RowType BY <2>2
    <3> QED BY <3>1, <2>4, ZenonT(30) DEF RowType
  <2>8. /\ r.calls = row.calls /\ r.loop = row.loop /\ r.age = age
        /\ r.provenance = row.provenance /\ r.terminal = row.terminal
        /\ r.status = row.status /\ r.emitted = row.emitted
    BY <2>2 DEF RowType
  <2> HIDE DEF r
  <2>9. Counts(row') BY <2>1, <2>2, <2>7, <2>8 DEF Counts
  <2>10. ReducerTypeOK' BY <1>t, <1>s, <2>1, <2>5, <2>7 DEF ReducerTypeOK
  <2>11. ClockIsSilence' BY <2>1, <2>6, <2>8 DEF ReducerInv, ClockIsSilence
  <2>12. ListedIsNoEvidence' BY <2>1, <2>8 DEF ReducerInv, ListedIsNoEvidence
  <2>13. row' # None BY <2>1, <2>7, RowAssumption
  <2> QED BY <1>s, <2>1, <2>9, <2>10, <2>11, <2>12, <2>13 DEF EventKeeps, ReducerTyped
<1> QED BY <1>1, <1>3, <1>4, <1>5

\* What an answer of the host does to a row known from the list alone: shown as running,
\* it is in the active map.
LEMMA MarkedFields ==
    ASSUME NEW r, Counts(r), NEW next \in BOOLEAN
    PROVE  LET m == Marked(r, next) IN
           /\ Counts(m) /\ m.age = r.age /\ m.provenance = r.provenance
           /\ m.archived = r.archived /\ m.terminal = r.terminal /\ m.emitted = r.emitted
           /\ r.archived \/ r.terminal # None \/ r.provenance = "observed" => m = r
           /\ ~r.archived /\ r.terminal = None /\ r.provenance # "observed"
                /\ m.status = "running" => next
<1> DEFINE m == Marked(r, next)
           a == [r EXCEPT !.status = "running", !.phase = "active", !.stale = FALSE]
           d == [r EXCEPT !.status = "unknown", !.phase = "no events observed"]
           b == [d EXCEPT !.stale = IsStale(d, FALSE)]
           Like(x) == /\ Counts(x) /\ x.age = r.age /\ x.provenance = r.provenance
                      /\ x.archived = r.archived /\ x.terminal = r.terminal
                      /\ x.emitted = r.emitted
<1>2. r \in RowType /\ r # None BY RowAssumption DEF Counts
<1>3. Like(a)
  <2>1. a \in RowType
    <3>1. "running" \in Statuses BY DEF Statuses
    <3> QED BY <1>2, <3>1, PhasesAre, ZenonT(30) DEF RowType, Statuses
  <2>2. /\ a.calls = r.calls /\ a.loop = r.loop /\ a.age = r.age
        /\ a.provenance = r.provenance /\ a.archived = r.archived
        /\ a.terminal = r.terminal /\ a.emitted = r.emitted
    BY <1>2 DEF RowType
  <2> HIDE DEF a
  <2> QED BY <2>1, <2>2 DEF Counts
<1>4. Like(b) /\ b.status = "unknown"
  <2>1. d \in RowType
    <3>1. "unknown" \in Statuses BY DEF Statuses
    <3> QED BY <1>2, <3>1, PhasesAre, ZenonT(30) DEF RowType, Statuses
  <2>2. /\ d.calls = r.calls /\ d.loop = r.loop /\ d.age = r.age
        /\ d.provenance = r.provenance /\ d.archived = r.archived
        /\ d.terminal = r.terminal /\ d.emitted = r.emitted /\ d.status = "unknown"
    BY <1>2 DEF RowType
  <2>3. IsStale(d, FALSE) \in BOOLEAN BY DEF IsStale
  <2> HIDE DEF d
  <2>4. b \in RowType BY <2>1, <2>3, ZenonT(30) DEF RowType
  <2>5. /\ b.calls = d.calls /\ b.loop = d.loop /\ b.age = d.age
        /\ b.provenance = d.provenance /\ b.archived = d.archived
        /\ b.terminal = d.terminal /\ b.emitted = d.emitted /\ b.status = d.status
    BY <2>1 DEF RowType
  <2> HIDE DEF b
  <2> QED BY <2>2, <2>4, <2>5 DEF Counts
<1>5. m = IF r = None \/ r.archived \/ r.terminal # None \/ r.provenance = "observed" THEN r
          ELSE IF next THEN a ELSE IF r.status # "running" THEN r ELSE b
  BY DEF Marked
<1>6. Like(r) OBVIOUS
<1> HIDE DEF m, a, b
<1>7. Like(m)
  <2> HIDE DEF Like
  <2> QED BY <1>3, <1>4, <1>5, <1>6
<1>8. /\ r.archived \/ r.terminal # None \/ r.provenance = "observed" => m = r
      /\ ~r.archived /\ r.terminal = None /\ r.provenance # "observed"
           /\ m.status = "running" => next
  BY <1>2, <1>4, <1>5
<1> QED BY <1>7, <1>8 DEF m

\* The clock says nothing of a row but that it is silent beyond its budget, and says it
\* of every such row that has not been told.
LEMMA ClassifiedFields ==
    ASSUME NEW r, Counts(r), NEW map
    PROVE  LET o == Classified(r, map) IN
           /\ Counts(o.row) /\ o.row.age = r.age /\ o.row.provenance = r.provenance
           /\ o.row.archived = r.archived /\ o.row.terminal = r.terminal
           /\ o.said \subseteq SaidType /\ \A m \in o.said : m.kind = "stall"
           /\ o.said # {} => Watched(r) /\ r.age > Threshold(r)
           /\ Watched(r) /\ r.age > Threshold(r) /\ NoStalls(r.emitted) => o.said # {}
           /\ o.said = {} /\ NoStalls(r.emitted) => NoStalls(o.row.emitted)
           /\ o.row.status = "running" => r.status = "running"
           /\ r.archived \/ r.terminal # None => o.row.status = r.status
<1> DEFINE o == Classified(r, map)
           d == [r EXCEPT !.stale = IsStale(r, map)]
           about == IF d.tool # None THEN d.tool ELSE d.phase
           verdict == IF d.age > 2 * Threshold(d) THEN "failed" ELSE "warning"
           v == [d EXCEPT !.status = verdict]
           s == Milestone(v, "stall", about)
           w == [d EXCEPT !.status = "waiting"]
           late == Watched(d) /\ d.age > Threshold(d)
<1>1. r \in RowType /\ r # None BY RowAssumption DEF Counts
<1>2. Counts(d) /\ d # None
  <2>1. IsStale(r, map) \in BOOLEAN BY DEF IsStale
  <2>2. d \in RowType BY <1>1, <2>1, ZenonT(30) DEF RowType
  <2>3. d.calls = r.calls /\ d.loop = r.loop BY <1>1 DEF RowType
  <2> HIDE DEF d
  <2> QED BY <2>2, <2>3, RowAssumption DEF Counts
<1>3. /\ d.age = r.age /\ d.provenance = r.provenance /\ d.archived = r.archived
      /\ d.terminal = r.terminal /\ d.emitted = r.emitted /\ d.status = r.status
      /\ d.needsInput = r.needsInput /\ d.busy = r.busy /\ d.openStep = r.openStep
      /\ d.toolInFlight = r.toolInFlight /\ d.tool = r.tool /\ d.phase = r.phase
  BY <1>1 DEF RowType
<1>4. /\ Watched(d) <=> Watched(r)
      /\ Threshold(d) = Threshold(r)
      /\ Listening(d) => d.terminal = None /\ ~d.archived
  <2> HIDE DEF d
  <2> QED BY <1>1, <1>2, <1>3 DEF Watched, Threshold, Listening
<1>5. Watched(d) => d.terminal = None /\ ~d.archived BY DEF Watched
<1>6. /\ late => o = s
      /\ ~late /\ Listening(d) /\ d.needsInput # None => o = [row |-> w, said |-> {}]
      /\ ~late /\ ~(Listening(d) /\ d.needsInput # None) => o = [row |-> d, said |-> {}]
  BY <1>1 DEF Classified, Quietly
<1> HIDE DEF d
<1>7. about \in Phases \cup Calls /\ Key("stall", about) \in Keys /\ "stall" \in Kinds
  <2>1. d.tool \in Calls \cup {None} /\ d.phase \in Phases BY <1>2 DEF Counts, RowType
  <2> QED BY <2>1 DEF Keys, Kinds, WakeKinds
<1>8. verdict \in Statuses /\ verdict # "running" /\ "waiting" \in Statuses
  BY DEF Statuses, RowOutcomes
<1> HIDE DEF about, verdict
<1>9. /\ Counts(v) /\ v.age = d.age /\ v.provenance = d.provenance
      /\ v.archived = d.archived /\ v.terminal = d.terminal
      /\ v.emitted = d.emitted /\ v.status # "running"
  <2>1. d \in RowType BY <1>2 DEF Counts
  <2>2. v \in RowType BY <1>8, <2>1, ZenonT(30) DEF RowType, Statuses
  <2>3. /\ v.calls = d.calls /\ v.loop = d.loop /\ v.age = d.age
        /\ v.provenance = d.provenance /\ v.archived = d.archived
        /\ v.terminal = d.terminal /\ v.emitted = d.emitted /\ v.status = verdict
    BY <2>1 DEF RowType
  <2> HIDE DEF v
  <2> QED BY <1>2, <1>8, <2>2, <2>3 DEF Counts
<1>10. /\ Counts(w) /\ w.age = d.age /\ w.provenance = d.provenance
       /\ w.archived = d.archived /\ w.terminal = d.terminal
       /\ w.emitted = d.emitted /\ w.status # "running"
  <2>1. d \in RowType BY <1>2 DEF Counts
  <2>2. w \in RowType BY <1>8, <2>1, ZenonT(30) DEF RowType, Statuses
  <2>3. /\ w.calls = d.calls /\ w.loop = d.loop /\ w.age = d.age
        /\ w.provenance = d.provenance /\ w.archived = d.archived
        /\ w.terminal = d.terminal /\ w.emitted = d.emitted /\ w.status = "waiting"
    BY <2>1 DEF RowType
  <2> HIDE DEF w
  <2> QED BY <1>2, <2>2, <2>3 DEF Counts
<1> HIDE DEF v, w
<1>11. /\ Counts(s.row) /\ s.row.age = v.age /\ s.row.provenance = v.provenance
       /\ s.row.archived = v.archived /\ s.row.terminal = v.terminal
       /\ s.row.status = v.status
       /\ s.said \subseteq SaidType /\ \A m \in s.said : m.kind = "stall"
       /\ Key("stall", about) \notin v.emitted => s.said # {}
  <2>1. "stall" \notin Routine BY DEF Routine
  <2> QED BY <1>7, <1>9, <2>1, MilestoneFields
<1>12. NoStalls(v.emitted) => s.said # {}
  <2>1. Key("stall", about)[1] = "stall" BY DEF Key
  <2> QED BY <1>11, <2>1 DEF NoStalls
<1> HIDE DEF s, o
<1>13. CASE late BY <1>3, <1>4, <1>5, <1>6, <1>9, <1>11, <1>12, <1>13 DEF o
<1>14. CASE ~late /\ Listening(d) /\ d.needsInput # None
  BY <1>3, <1>4, <1>6, <1>10, <1>14 DEF o
<1>15. CASE ~late /\ ~(Listening(d) /\ d.needsInput # None)
  BY <1>2, <1>3, <1>4, <1>6, <1>15 DEF o
<1> QED BY <1>13, <1>14, <1>15

\* What a tick of the host does.
TickKeeps == /\ ReducerTyped' /\ ClockIsSilence' /\ ListedIsNoEvidence'
             /\ row # None => row' # None
             /\ said' # {} => quiet > Threshold(row)
             /\ Watched(row) /\ quiet > Threshold(row) => alarmed'
             /\ row # None /\ (row.archived \/ row.terminal # None) =>
                  said' = {} /\ row'.terminal = row.terminal /\ row'.status = row.status
             /\ Listening(row') /\ row'.provenance = "discovered"
                  /\ row'.status = "running" => live' = TRUE

\* A tick judges a row by the silence of its session, and a listed one by the map.
LEMMA HostTickKeeps ==
    ASSUME ReducerInv, HostTick
    PROVE  TickKeeps
<1> DEFINE mapped == Host = "tui" /\ row # None /\ row.provenance = "discovered"
<1>t. ReducerTypeOK BY DEF ReducerInv, ReducerTyped
<1>1. PICK next \in BOOLEAN :
        LET o == IF mapped THEN Classified(Marked(row, next), next) ELSE Classified(row, live)
        IN  /\ live' = (IF mapped THEN next ELSE live)
            /\ row' = o.row
            /\ said' = o.said
            /\ alarmed' = (alarmed \/ \E m \in o.said : m.kind = "stall")
  BY DEF HostTick
<1>2. UNCHANGED <<asked, ended, quiet>> BY DEF HostTick
<1>3. CASE row = None
  <2>1. row' = None /\ said' = {} /\ live' = live BY <1>1, <1>3 DEF Classified, Quietly
  <2>2. alarmed' \in BOOLEAN BY <1>1, <1>t DEF ReducerTypeOK
  <2>3. ReducerTypeOK' BY <1>t, <1>2, <2>1, <2>2 DEF ReducerTypeOK
  <2> QED BY <1>3, <2>1, <2>3
       DEF TickKeeps, ReducerTyped, ClockIsSilence, ListedIsNoEvidence, Watched, Listening
<1>4. CASE row # None
  <2> DEFINE r == IF mapped THEN Marked(row, next) ELSE row
             map == IF mapped THEN next ELSE live
             o == Classified(r, map)
  <2>1. Counts(row) BY <1>4 DEF ReducerInv, ReducerTyped
  <2>2. row.provenance \in {"observed", "discovered"} BY <2>1 DEF Counts, RowType
  <2>3. /\ Counts(r) /\ r.age = row.age /\ r.provenance = row.provenance
        /\ r.archived = row.archived /\ r.terminal = row.terminal /\ r.emitted = row.emitted
        /\ row.archived \/ row.terminal # None \/ ~mapped => r = row
        /\ mapped /\ ~row.archived /\ row.terminal = None /\ r.status = "running" => next
    BY <2>1, MarkedFields
  <2>4. /\ live' = map /\ row' = o.row /\ said' = o.said
        /\ alarmed' = (alarmed \/ \E m \in o.said : m.kind = "stall")
    BY <1>1
  <2>5. map \in BOOLEAN \cup {None} BY <1>t DEF ReducerTypeOK
  <2>6. Watched(row) => ~mapped BY DEF Watched
  <2>7. Watched(r) => r.provenance = "observed" /\ r.terminal = None BY DEF Watched
  <2>8. mapped <=> Host = "tui" /\ row.provenance = "discovered" BY <1>4
  <2>9. mapped => map = next OBVIOUS
  <2> HIDE DEF mapped, r, map
  <2>10. /\ Counts(o.row) /\ o.row.age = r.age /\ o.row.provenance = r.provenance
         /\ o.row.archived = r.archived /\ o.row.terminal = r.terminal
         /\ o.said \subseteq SaidType /\ \A m \in o.said : m.kind = "stall"
         /\ o.said # {} => Watched(r) /\ r.age > Threshold(r)
         /\ Watched(r) /\ r.age > Threshold(r) /\ NoStalls(r.emitted) => o.said # {}
         /\ o.said = {} /\ NoStalls(r.emitted) => NoStalls(o.row.emitted)
         /\ o.row.status = "running" => r.status = "running"
         /\ r.archived \/ r.terminal # None => o.row.status = r.status
    BY <2>3, ClassifiedFields
  <2> HIDE DEF o
  <2>11. /\ alarmed' \in BOOLEAN
         /\ alarmed' <=> (alarmed \/ o.said # {})
    BY <1>t, <2>4, <2>10 DEF ReducerTypeOK
  <2>12. /\ row.provenance = "observed" /\ row.terminal = None => row.age = quiet
         /\ row.provenance = "observed" /\ row.terminal = None /\ ~alarmed =>
              NoStalls(row.emitted)
    BY <1>4 DEF ReducerInv, ClockIsSilence
  <2>13. ReducerTyped'
    <3>1. row' \in RowType /\ Counts(row') BY <2>4, <2>10 DEF Counts
    <3>2. said' \subseteq SaidType BY <2>4, <2>10
    <3>3. ReducerTypeOK' BY <1>t, <1>2, <2>4, <2>5, <2>11, <3>1, <3>2 DEF ReducerTypeOK, SaidType
    <3> QED BY <3>1, <3>3 DEF ReducerTyped
  <2>14. ClockIsSilence'
    <3> SUFFICES ASSUME row'.provenance = "observed", row'.terminal = None
                 PROVE  row'.age = quiet' /\ (~alarmed' => NoStalls(row'.emitted))
      BY DEF ClockIsSilence
    <3>1. row.provenance = "observed" /\ row.terminal = None BY <2>3, <2>4, <2>10
    <3>2. row'.age = quiet' BY <1>2, <2>3, <2>4, <2>10, <2>12, <3>1
    <3>3. ~alarmed' => NoStalls(row'.emitted)
      BY <2>3, <2>4, <2>10, <2>11, <2>12, <3>1
    <3> QED BY <3>2, <3>3
  <2>15. said' # {} => quiet > Threshold(row)
    <3> SUFFICES ASSUME said' # {} PROVE quiet > Threshold(row) OBVIOUS
    <3>1. Watched(r) /\ r.age > Threshold(r) BY <2>4, <2>10
    <3>2. row.provenance = "observed" /\ row.terminal = None BY <2>3, <2>7, <3>1
    <3>3. ~mapped BY <2>8, <3>2
    <3>4. r = row BY <2>3, <3>3
    <3> QED BY <2>12, <3>1, <3>2, <3>4
  <2>16. Watched(row) /\ quiet > Threshold(row) => alarmed'
    <3> SUFFICES ASSUME Watched(row), quiet > Threshold(row) PROVE alarmed' OBVIOUS
    <3>1. r = row BY <2>3, <2>6
    <3>2. row.provenance = "observed" /\ row.terminal = None BY <2>7, <3>1
    <3>3. row.age = quiet BY <2>12, <3>2
    <3>4. Watched(r) /\ r.age > Threshold(r) BY <3>1, <3>3
    <3>5. CASE alarmed BY <2>11, <3>5
    <3>6. CASE ~alarmed
      <4>1. NoStalls(r.emitted) BY <2>12, <3>1, <3>2, <3>6
      <4> QED BY <2>10, <2>11, <3>4, <4>1
    <3> QED BY <3>5, <3>6
  <2>17. row.archived \/ row.terminal # None =>
           said' = {} /\ row'.terminal = row.terminal /\ row'.status = row.status
    <3> SUFFICES ASSUME row.archived \/ row.terminal # None
                 PROVE  said' = {} /\ row'.terminal = row.terminal /\ row'.status = row.status
      OBVIOUS
    <3>1. r = row BY <2>3
    <3>2. ~Watched(r) BY <3>1 DEF Watched
    <3> QED BY <2>4, <2>10, <3>1, <3>2
  <2>18. /\ ListedIsNoEvidence'
         /\ Listening(row') /\ row'.provenance = "discovered"
              /\ row'.status = "running" => live' = TRUE
    <3>1. Host \in {"server", "tui"} BY ReducerAssumption
    <3>2. CASE mapped
      <4>1. Host = "tui" BY <2>8, <3>2
      <4>2. ListedIsNoEvidence' BY <4>1 DEF ListedIsNoEvidence
      <4>3. Listening(row') /\ row'.status = "running" => live' = TRUE
        <5> SUFFICES ASSUME Listening(row'), row'.status = "running" PROVE live' = TRUE
          OBVIOUS
        <5>1. ~row.archived /\ row.terminal = None
          BY <2>3, <2>4, <2>10 DEF Listening
        <5>2. r.status = "running" BY <2>4, <2>10
        <5>3. next BY <2>3, <3>2, <5>1, <5>2
        <5> QED BY <2>4, <2>9, <3>2, <5>3
      <4> QED BY <4>2, <4>3
    <3>3. CASE ~mapped
      <4>1. r = row BY <2>3, <3>3
      <4>2. row.provenance = "discovered" => Host = "server" BY <2>8, <3>1, <3>3
      <4>3. row'.provenance = "discovered" /\ row'.terminal = None =>
              row.provenance = "discovered" /\ row.terminal = None
        BY <2>3, <2>4, <2>10
      <4>4. row.provenance = "discovered" /\ row.terminal = None => row.status # "running"
        BY <1>4, <4>2 DEF ReducerInv, ListedIsNoEvidence
      <4>5. row'.status = "running" => row.status = "running" BY <2>4, <2>10, <4>1
      <4> QED BY <4>3, <4>4, <4>5 DEF ListedIsNoEvidence, Listening
    <3> QED BY <3>2, <3>3
  <2>19. row' # None BY <2>4, <2>10, RowAssumption DEF Counts
  <2> QED BY <1>4, <2>13, <2>14, <2>15, <2>16, <2>17, <2>18, <2>19 DEF TickKeeps
<1> QED BY <1>3, <1>4

\* A row of the list: an outcome outranks the archive, which outranks the map, and only
\* the map can show the session as running.
LEMMA DiscoveredFields ==
    ASSUME NEW age \in RowAges \cup {Never}, NEW outcome \in RowOutcomes \cup {None},
           NEW archived \in BOOLEAN, NEW map
    PROVE  LET d == Discovered(age, outcome, archived, map) IN
           /\ Counts(d) /\ d.provenance = "discovered"
           /\ d.terminal = None /\ d.status = "running" => map = TRUE
<1> DEFINE r == NewRow("discovered", age, archived)
           keys == {Key("start", None)}
           silent == [r EXCEPT !.status = "unknown", !.emitted = keys]
           both == r.emitted \cup {Key("start", None), Key("terminal", None)}
           a == [r EXCEPT !.terminal = outcome, !.status = outcome, !.phase = outcome]
           over == [a EXCEPT !.needsInput = None, !.toolInFlight = FALSE, !.busy = FALSE,
                             !.emitted = both]
           arch == [silent EXCEPT !.phase = "archived"]
           act == [r EXCEPT !.phase = "active"]
           none == [silent EXCEPT !.phase = "no events observed"]
           d == IF outcome # None THEN StoreOutcome(r, outcome)
                ELSE IF archived THEN arch ELSE IF map = TRUE THEN act ELSE none
           e == [d EXCEPT !.stale = IsStale(d, map)]
           Listed(x) == Counts(x) /\ x.provenance = "discovered"
<1>1. /\ Listed(r) /\ r.terminal = None
      /\ Key("start", None) \in Keys /\ Key("terminal", None) \in Keys
      /\ "unknown" \in Statuses
  BY NewRowFields DEF Keys, Statuses
<1>2. Discovered(age, outcome, archived, map) = e BY DEF Discovered
<1>3. StoreOutcome(r, outcome) = over BY <1>1 DEF StoreOutcome
<1> HIDE DEF r
<1>4. r \in RowType BY <1>1 DEF Counts
<1>5. Listed(silent) /\ silent.status = "unknown" /\ silent.terminal = None
  <2>1. keys \in SUBSET Keys BY <1>1
  <2> HIDE DEF keys
  <2>2. silent \in RowType
    <3>1. "unknown" \in Statuses BY <1>1
    <3> QED BY <1>4, <2>1, <3>1, ZenonT(30) DEF RowType, Statuses
  <2>3. /\ silent.calls = r.calls /\ silent.loop = r.loop /\ silent.status = "unknown"
        /\ silent.provenance = r.provenance /\ silent.terminal = r.terminal
    BY <1>4 DEF RowType
  <2> HIDE DEF silent
  <2> QED BY <1>1, <2>2, <2>3 DEF Counts
<1> HIDE DEF silent
<1>6. outcome # None => Listed(over) /\ over.terminal # None
  <2> SUFFICES ASSUME outcome # None PROVE Listed(over) /\ over.terminal # None OBVIOUS
  <2>1. outcome \in Phases /\ outcome \in Statuses
    BY DEF RowOutcomes, Phases, Statuses
  <2>2. a \in RowType BY <1>4, <2>1, ZenonT(30) DEF RowType, Statuses
  <2>3. /\ a.calls = r.calls /\ a.loop = r.loop /\ a.provenance = r.provenance
        /\ a.terminal = outcome
    BY <1>4 DEF RowType
  <2>4. both \in SUBSET Keys BY <1>1, <1>4 DEF RowType
  <2> HIDE DEF a, both
  <2>5. over \in RowType BY <2>2, <2>4, ZenonT(30) DEF RowType
  <2>6. /\ over.calls = a.calls /\ over.loop = a.loop /\ over.provenance = a.provenance
        /\ over.terminal = a.terminal
    BY <2>2 DEF RowType
  <2> HIDE DEF over
  <2> QED BY <1>1, <2>3, <2>5, <2>6 DEF Counts
<1>7. Listed(arch) /\ arch.status = "unknown"
  <2>1. silent \in RowType BY <1>5 DEF Counts
  <2>2. arch \in RowType BY <2>1, PhasesAre, ZenonT(30) DEF RowType
  <2>3. /\ arch.calls = silent.calls /\ arch.loop = silent.loop
        /\ arch.provenance = silent.provenance /\ arch.status = silent.status
    BY <2>1 DEF RowType
  <2> HIDE DEF arch
  <2> QED BY <1>5, <2>2, <2>3 DEF Counts
<1>8. Listed(none) /\ none.status = "unknown"
  <2>1. silent \in RowType BY <1>5 DEF Counts
  <2>2. none \in RowType BY <2>1, PhasesAre, ZenonT(30) DEF RowType
  <2>3. /\ none.calls = silent.calls /\ none.loop = silent.loop
        /\ none.provenance = silent.provenance /\ none.status = silent.status
    BY <2>1 DEF RowType
  <2> HIDE DEF none
  <2> QED BY <1>5, <2>2, <2>3 DEF Counts
<1>9. Listed(act)
  <2>1. act \in RowType BY <1>4, PhasesAre, ZenonT(30) DEF RowType
  <2>2. act.calls = r.calls /\ act.loop = r.loop /\ act.provenance = r.provenance
    BY <1>4 DEF RowType
  <2> HIDE DEF act
  <2> QED BY <1>1, <2>1, <2>2 DEF Counts
<1> HIDE DEF over, arch, none, act
<1>10. Listed(d) /\ (d.terminal = None /\ d.status = "running" => map = TRUE)
  <2> HIDE DEF Listed
  <2> QED BY <1>3, <1>6, <1>7, <1>8, <1>9
<1> HIDE DEF d
<1>11. Listed(e) /\ e.status = d.status /\ e.terminal = d.terminal
  <2>1. d \in RowType BY <1>10 DEF Counts
  <2>2. IsStale(d, map) \in BOOLEAN BY DEF IsStale
  <2>3. e \in RowType BY <2>1, <2>2, ZenonT(30) DEF RowType
  <2>4. /\ e.calls = d.calls /\ e.loop = d.loop /\ e.provenance = d.provenance
        /\ e.status = d.status /\ e.terminal = d.terminal
    BY <2>1 DEF RowType
  <2> HIDE DEF e
  <2> QED BY <1>10, <2>3, <2>4 DEF Counts
<1> HIDE DEF e
<1> QED BY <1>2, <1>10, <1>11

\* Where the reducer begins.
LEMMA ReducerInvInit == ReducerInit => ReducerInv
<1> SUFFICES ASSUME ReducerInit PROVE ReducerInv OBVIOUS
<1>1. /\ asked \in [Requests -> {"no", "open"}] /\ said = {} /\ quiet = 0
      /\ alarmed = FALSE /\ 0 \in RowAges
  BY ReducerAssumption DEF ReducerInit, RowAges, AgeCap
<1>2. CASE row = None /\ live = None /\ asked = NoneAsked /\ ended = FALSE
  BY <1>1, <1>2 DEF ReducerInv, ReducerTyped, ReducerTypeOK, ClockIsSilence, ListedIsNoEvidence
<1>3. ASSUME NEW age \in RowAges \cup {Never}, NEW outcome \in RowOutcomes \cup {None},
             NEW archived \in BOOLEAN, NEW map \in BOOLEAN \cup {None},
             Bootstrapped(age, outcome, archived, map)
      PROVE  ReducerInv
  <2>1. /\ Counts(row) /\ row.provenance = "discovered"
        /\ row.terminal = None /\ row.status = "running" => map = TRUE
    BY <1>3, DiscoveredFields DEF Bootstrapped
  <2>2. live = map /\ (Host = "server" => map = None) /\ ended \in BOOLEAN
    BY <1>3 DEF Bootstrapped
  <2>3. ReducerTypeOK BY <1>1, <2>1, <2>2 DEF ReducerTypeOK, Counts
  <2>4. Host = "server" => map # TRUE BY <2>2, RowAssumption
  <2> QED BY <2>1, <2>2, <2>3, <2>4
       DEF ReducerInv, ReducerTyped, ClockIsSilence, ListedIsNoEvidence
<1> QED BY <1>2, <1>3 DEF ReducerInit

\* What a step of the reducer does.
LEMMA ReducerStep ==
    ASSUME ReducerInv, ReducerNext
    PROVE  EventKeeps \/ (HostTick /\ TickKeeps)
<1>1. CASE Created \/ Renamed BY <1>1, CreatedKeeps
<1>2. CASE \E q \in Requests : Asked(q) \/ Answered(q) \/ Rejected(q)
  BY <1>2, RequestsKeep
<1>3. CASE ChildEvent BY <1>3, ChildEventKeeps
<1>4. CASE (\E c \in Calls : ToolCalled(c)) \/ ToolEnded \/ ExecutionEnded
  BY <1>4, CallsKeep
<1>5. CASE Archive \/ Unarchive \/ GoesOn \/ Time BY <1>5, OthersKeep
<1>6. CASE HostTick BY <1>6, HostTickKeeps
<1> QED BY <1>1, <1>2, <1>3, <1>4, <1>5, <1>6 DEF ReducerNext

\* The invariant of the reducer, which its promises rest on.
LEMMA ReducerInvariant == ReducerSpec => []ReducerInv
<1>1. ReducerInv /\ [ReducerNext]_reducervars => ReducerInv'
  <2> SUFFICES ASSUME ReducerInv, [ReducerNext]_reducervars PROVE ReducerInv' OBVIOUS
  <2>1. CASE ReducerNext BY <2>1, ReducerStep DEF EventKeeps, TickKeeps, ReducerInv
  <2>2. CASE UNCHANGED reducervars
    BY <2>2 DEF reducervars, ReducerInv, ReducerTyped, ReducerTypeOK, ClockIsSilence, ListedIsNoEvidence
  <2> QED BY <2>1, <2>2
<1> QED BY <1>1, ReducerInvInit, PTL DEF ReducerSpec

\* StallIsEarned (tick, and the promotion in observe): whatever the session does, and
\* whatever age, outcome or map the list says of it, no alarm is raised of a silence
\* that this process has not itself waited out.
THEOREM StallsAreEarned == ReducerSpec => StallIsEarned
<1> DEFINE Earned == (\E m \in said' : m.kind = "stall") => quiet > Threshold(row)
<1>1. ReducerInv /\ [ReducerNext]_reducervars => [Earned]_reducervars
  <2> SUFFICES ASSUME ReducerInv, ReducerNext PROVE Earned OBVIOUS
  <2> QED BY ReducerStep DEF EventKeeps, TickKeeps
<1> QED BY <1>1, ReducerInvariant, PTL DEF ReducerSpec, StallIsEarned

\* EverySilenceAnnounced (tick, touch): and none is passed over, however often the
\* session fell silent and was announced before.
THEOREM NoSilencePassedOver == ReducerSpec => EverySilenceAnnounced
<1> DEFINE Alarmed == Watched(row) /\ quiet > Threshold(row) /\ HostTick => alarmed'
<1>1. ReducerInv /\ [ReducerNext]_reducervars => [Alarmed]_reducervars
  <2> SUFFICES ASSUME ReducerInv, Watched(row), quiet > Threshold(row), HostTick
               PROVE  alarmed'
    OBVIOUS
  <2> QED BY HostTickKeeps DEF TickKeeps
<1> QED BY <1>1, ReducerInvariant, PTL DEF ReducerSpec, EverySilenceAnnounced

\* OverIsOver (observe, applyStoreOutcome, markActive, tick): a row that ended keeps its
\* outcome and its status, whatever late events, polls and ticks come after, and announces
\* nothing but a creation that is announced again; an archived one announces nothing.
THEOREM OutcomesAreFinal == ReducerSpec => OverIsOver
<1> DEFINE Final == row # None =>
                      /\ row.archived => said' = {}
                      /\ row.terminal # None =>
                            /\ row'.terminal = row.terminal /\ row'.status = row.status
                            /\ \A m \in said' : m.kind = "start"
<1>1. ReducerInv /\ [ReducerNext]_reducervars => [Final]_reducervars
  <2> SUFFICES ASSUME ReducerInv, ReducerNext PROVE Final OBVIOUS
  <2> QED BY ReducerStep DEF EventKeeps, TickKeeps
<1> QED BY <1>1, ReducerInvariant, PTL DEF ReducerSpec, OverIsOver

\* RunningNeedsEvidence (reconcileActive): what is known from the list alone is shown as
\* running on the word of the active map, and on nothing else.
THEOREM RunningIsEvident == ReducerSpec => RunningNeedsEvidence
<1> DEFINE Evident == Listening(row') /\ row'.provenance = "discovered"
                        /\ row'.status = "running" /\ HostTick => live' = TRUE
<1>1. ReducerInv /\ [ReducerNext]_reducervars => [Evident]_reducervars
  <2> SUFFICES ASSUME ReducerInv, HostTick PROVE Evident OBVIOUS
  <2> QED BY HostTickKeeps DEF TickKeeps
<1> QED BY <1>1, ReducerInvariant, PTL DEF ReducerSpec, RunningNeedsEvidence

---------------------------------------------------------------------------
(* The budget of attention wakes.  Only a record with the field is asked   *)
(* for, so that the handlers may be followed without their types.          *)

Wakeful(r) == "wakes" \in DOMAIN r

\* From r to s no milestone wakes, and nothing is spent.
Unwoken(r, s, news) == s.wakes = r.wakes /\ \A m \in news : ~m.wake

\* From r to s what wakes is spent: nothing, or one wake for one milestone.
Paid(r, s, news) ==
    \/ Unwoken(r, s, news)
    \/ s.wakes = r.wakes + 1 /\ \E m \in news : m.wake /\ \A x \in news : x.wake => x = m

\* What a handler returns has the field still, and is paid for.
Pays(r, o) == Wakeful(o.row) /\ Paid(r, o.row, o.said)

\* A milestone spends one wake if it wakes; only the kinds that ask for attention can.
LEMMA MilestonePays ==
    ASSUME NEW r, Wakeful(r), NEW kind, NEW about
    PROVE  LET o == Milestone(r, kind, about) IN
           Pays(r, o) /\ (kind \notin WakeKinds => Unwoken(r, o.row, o.said))
<1> DEFINE key == Key(kind, about)
           kept == [r EXCEPT !.emitted = IF kind = "resume" THEN @ ELSE @ \cup {key}]
           spaced == IF kind \in Routine THEN 0 ELSE kept.routineAge
           woken == IF WakeNow(r, kind) THEN kept.wakes + 1 ELSE kept.wakes
           full == [kept EXCEPT !.routineAge = spaced, !.wakes = woken]
           m == [kind |-> kind, about |-> IF about \in Requests THEN about ELSE None,
                 wake |-> WakeNow(r, kind)]
           o == Milestone(r, kind, about)
<1>1. /\ key \in r.emitted => o.row = r /\ o.said = {}
      /\ key \notin r.emitted /\ TooSoon(r, kind) => o.row = kept /\ o.said = {}
      /\ key \notin r.emitted /\ ~TooSoon(r, kind) => o.row = full /\ o.said = {m}
  BY DEF Milestone, Quietly
<1>2. Wakeful(kept) /\ kept.wakes = r.wakes BY DEF Wakeful
<1> HIDE DEF kept
<1>3. Wakeful(full) /\ full.wakes = woken BY <1>2 DEF Wakeful
<1>4. /\ WakeNow(r, kind) => m.wake /\ woken = r.wakes + 1
      /\ ~WakeNow(r, kind) => ~m.wake /\ woken = r.wakes
      /\ kind \notin WakeKinds => ~WakeNow(r, kind)
  BY <1>2 DEF WakeNow
<1> HIDE DEF full, m, woken, o, key
<1>5. Pays(r, o) /\ (kind \notin WakeKinds => Unwoken(r, o.row, o.said))
  <2>1. CASE key \in r.emitted BY <1>1, <2>1 DEF Pays, Paid, Unwoken
  <2>2. CASE key \notin r.emitted /\ TooSoon(r, kind)
    BY <1>1, <1>2, <2>2 DEF Pays, Paid, Unwoken
  <2>3. CASE key \notin r.emitted /\ ~TooSoon(r, kind)
    <3>1. o.row = full /\ o.said = {m} BY <1>1, <2>3
    <3>2. CASE WakeNow(r, kind)
      BY <1>3, <1>4, <3>1, <3>2 DEF Pays, Paid
    <3>3. CASE ~WakeNow(r, kind)
      BY <1>3, <1>4, <3>1, <3>3 DEF Pays, Paid, Unwoken
    <3> QED BY <3>2, <3>3
  <2> QED BY <2>1, <2>2, <2>3
<1> QED BY <1>5 DEF o

\* Activity and the first event spend nothing.
LEMMA TouchSpendsNothing ==
    ASSUME NEW r, Wakeful(r)
    PROVE  /\ Wakeful(Touch(r)) /\ Touch(r).wakes = r.wakes
           /\ Wakeful(Promoted(r)) /\ Promoted(r).wakes = r.wakes
<1>1. ASSUME NEW t, Wakeful(t) PROVE Wakeful(Touch(t)) /\ Touch(t).wakes = t.wakes
  BY <1>1 DEF Wakeful, Touch
<1> DEFINE p == [r EXCEPT !.provenance = "observed"]
<1>2. Wakeful(p) /\ p.wakes = r.wakes BY DEF Wakeful
<1>3. Promoted(r) = IF r.provenance = "observed" THEN r ELSE Touch(p) BY DEF Promoted
<1> HIDE DEF p
<1> QED BY <1>1, <1>2, <1>3

\* The handlers of the child's turns and steps, and of the end of a call.
LEMMA TurnsPay ==
    ASSUME NEW r, Wakeful(r)
    PROVE  /\ Pays(r, Quietly(r))
           /\ Pays(r, BusyTurn(r)) /\ Pays(r, IdleTurn(r)) /\ Pays(r, RetryTurn(r))
           /\ Pays(r, StepStarted(r)) /\ Pays(r, StepEnded(r)) /\ Pays(r, StepFailed(r))
           /\ Pays(r, ToolEnds(r))
<1>q. ASSUME NEW t, Wakeful(t), t.wakes = r.wakes PROVE Pays(r, Quietly(t))
  BY <1>q DEF Pays, Paid, Unwoken, Quietly
<1>1. Pays(r, BusyTurn(r))
  <2> DEFINE b == [r EXCEPT !.busy = TRUE,
                     !.status = IF r.needsInput # None THEN "waiting" ELSE "running",
                     !.phase = IF r.needsInput # None THEN r.phase ELSE "generating"]
  <2>1. BusyTurn(r) = Quietly(Touch(b)) BY DEF BusyTurn
  <2>2. Wakeful(b) /\ b.wakes = r.wakes BY DEF Wakeful
  <2> HIDE DEF b
  <2> QED BY <1>q, <2>1, <2>2, TouchSpendsNothing
<1>2. Pays(r, IdleTurn(r))
  <2> DEFINE b == [r EXCEPT !.busy = FALSE]
             t == Touch(b)
             i == [t EXCEPT !.status = IF t.status = "waiting" THEN t.status ELSE "running",
                            !.phase = "idle"]
  <2>1. IdleTurn(r) = Quietly(i) BY DEF IdleTurn
  <2>2. Wakeful(b) /\ b.wakes = r.wakes BY DEF Wakeful
  <2> HIDE DEF b
  <2>3. Wakeful(t) /\ t.wakes = r.wakes BY <2>2, TouchSpendsNothing
  <2> HIDE DEF t
  <2>4. Wakeful(i) /\ i.wakes = r.wakes BY <2>3 DEF Wakeful
  <2> HIDE DEF i
  <2> QED BY <1>q, <2>1, <2>4
<1>3. Pays(r, RetryTurn(r))
  <2> DEFINE b == [r EXCEPT !.busy = FALSE, !.status = "warning", !.phase = "retry"]
  <2>1. RetryTurn(r) = Milestone(b, "retry", None) BY DEF RetryTurn
  <2>2. Wakeful(b) /\ b.wakes = r.wakes BY DEF Wakeful
  <2> HIDE DEF b
  <2> QED BY <2>1, <2>2, MilestonePays DEF Pays, Paid, Unwoken
<1>4. Pays(r, StepStarted(r)) /\ Pays(r, StepEnded(r))
  <2>1. ASSUME NEW open \in BOOLEAN, NEW phase
        PROVE  Pays(r, Quietly(Touch([r EXCEPT !.openStep = open, !.phase = phase])))
    <3> DEFINE b == [r EXCEPT !.openStep = open, !.phase = phase]
    <3>1. Wakeful(b) /\ b.wakes = r.wakes BY DEF Wakeful
    <3> HIDE DEF b
    <3>2. Pays(r, Quietly(Touch(b))) BY <1>q, <3>1, TouchSpendsNothing
    <3> QED BY <3>2 DEF b
  <2> QED BY <2>1 DEF StepStarted, StepEnded
<1>5. Pays(r, StepFailed(r))
  <2> DEFINE b == [r EXCEPT !.openStep = FALSE]
             t == Touch(b)
             i == [t EXCEPT !.status = "warning", !.phase = "step failed"]
  <2>1. StepFailed(r) = Quietly(i) BY DEF StepFailed
  <2>2. Wakeful(b) /\ b.wakes = r.wakes BY DEF Wakeful
  <2> HIDE DEF b
  <2>3. Wakeful(t) /\ t.wakes = r.wakes BY <2>2, TouchSpendsNothing
  <2> HIDE DEF t
  <2>4. Wakeful(i) /\ i.wakes = r.wakes BY <2>3 DEF Wakeful
  <2> HIDE DEF i
  <2> QED BY <1>q, <2>1, <2>4
<1>6. Pays(r, ToolEnds(r))
  <2> DEFINE t == Touch(r)
             i == [t EXCEPT !.phase = "thinking", !.toolInFlight = FALSE, !.tool = None]
  <2>1. ToolEnds(r) = Quietly(i) BY DEF ToolEnds
  <2>2. Wakeful(t) /\ t.wakes = r.wakes BY TouchSpendsNothing
  <2> HIDE DEF t
  <2>3. Wakeful(i) /\ i.wakes = r.wakes BY <2>2 DEF Wakeful
  <2> HIDE DEF i
  <2> QED BY <1>q, <2>1, <2>3
<1> QED BY <1>q, <1>1, <1>2, <1>3, <1>4, <1>5, <1>6

\* The handlers of requests, and of the end of the execution.
LEMMA RequestsPay ==
    ASSUME NEW r, Wakeful(r), NEW q, NEW outcome
    PROVE  /\ Pays(r, Milestone([r EXCEPT !.needsInput = q, !.status = "waiting",
                                          !.phase = "waiting"], "needs-input", q))
           /\ Pays(r, Resumed(r)) /\ Pays(r, Denied(r)) /\ Pays(r, Terminated(r, outcome))
<1>m. ASSUME NEW b, Wakeful(b), b.wakes = r.wakes, NEW kind, NEW about
      PROVE  Pays(r, Milestone(b, kind, about))
  BY <1>m, MilestonePays DEF Pays, Paid, Unwoken
<1>q. r.needsInput = None => Pays(r, Quietly(r)) BY TurnsPay
<1>1. Pays(r, Milestone([r EXCEPT !.needsInput = q, !.status = "waiting",
                                  !.phase = "waiting"], "needs-input", q))
  <2> DEFINE b == [r EXCEPT !.needsInput = q, !.status = "waiting", !.phase = "waiting"]
  <2>1. Wakeful(b) /\ b.wakes = r.wakes BY DEF Wakeful
  <2> HIDE DEF b
  <2>2. Pays(r, Milestone(b, "needs-input", q)) BY <1>m, <2>1
  <2> QED BY <2>2 DEF b
<1>2. Pays(r, Resumed(r))
  <2> DEFINE b == [r EXCEPT !.needsInput = None, !.status = "running", !.phase = "resumed"]
  <2>1. Wakeful(b) /\ b.wakes = r.wakes BY DEF Wakeful
  <2>2. Resumed(r) = IF r.needsInput = None THEN Quietly(r)
                     ELSE Milestone(Touch(b), "resume", None)
    BY DEF Resumed
  <2> HIDE DEF b
  <2> QED BY <1>m, <1>q, <2>1, <2>2, TouchSpendsNothing
<1>3. Pays(r, Denied(r))
  <2> DEFINE b == [r EXCEPT !.needsInput = None]
             t == Touch(b)
             i == [t EXCEPT !.status = "warning", !.phase = "denied"]
  <2>1. Wakeful(b) /\ b.wakes = r.wakes BY DEF Wakeful
  <2>2. Denied(r) = IF r.needsInput = None THEN Quietly(r)
                    ELSE Milestone(i, "denied", r.needsInput)
    BY DEF Denied
  <2> HIDE DEF b
  <2>3. Wakeful(t) /\ t.wakes = r.wakes BY <2>1, TouchSpendsNothing
  <2> HIDE DEF t
  <2>4. Wakeful(i) /\ i.wakes = r.wakes BY <2>3 DEF Wakeful
  <2> HIDE DEF i
  <2> QED BY <1>m, <1>q, <2>2, <2>4
<1>4. Pays(r, Terminated(r, outcome))
  <2> DEFINE b == [r EXCEPT !.terminal = outcome, !.status = outcome, !.phase = outcome,
                            !.needsInput = None, !.toolInFlight = FALSE, !.age = Never]
  <2>1. Wakeful(b) /\ b.wakes = r.wakes BY DEF Wakeful
  <2>2. Terminated(r, outcome) = Milestone(b, "terminal", None) BY DEF Terminated
  <2> HIDE DEF b
  <2> QED BY <1>m, <2>1, <2>2
<1> QED BY <1>1, <1>2, <1>3, <1>4

\* A call that runs: the first-tool milestone wakes nobody, the thrash may.
LEMMA ToolRunsPay ==
    ASSUME NEW r, Wakeful(r), NEW c, NEW named
    PROVE  Pays(r, ToolRuns(r, c, named))
<1> DEFINE t == Touch(r)
           running == [t EXCEPT !.phase = "tool", !.toolInFlight = TRUE, !.tool = c]
           counted == Counted(running, c)
           first == Milestone(counted, "first-tool", None)
           thrash == Milestone(first.row, "thrash", TargetOf[c])
           last == [thrash.row EXCEPT
                      !.status = IF thrash.said # {} /\ thrash.row.status = "running"
                                 THEN "warning" ELSE thrash.row.status]
<1>1. ToolRuns(r, c, named) =
        IF c \in r.calls \/ ~named THEN Quietly(running)
        ELSE IF first.row.loop.count < LoopRepeats THEN first
        ELSE [row |-> last, said |-> first.said \cup thrash.said]
  BY DEF ToolRuns
<1>2. Wakeful(t) /\ t.wakes = r.wakes BY TouchSpendsNothing
<1> HIDE DEF t
<1>3. Wakeful(running) /\ running.wakes = r.wakes BY <1>2 DEF Wakeful
<1> HIDE DEF running
<1>4. Wakeful(counted) /\ counted.wakes = r.wakes BY <1>3 DEF Wakeful, Counted
<1> HIDE DEF counted
<1>5. Wakeful(first.row) /\ Unwoken(r, first.row, first.said)
  <2>1. "first-tool" \notin WakeKinds BY DEF WakeKinds
  <2>2. Pays(counted, first) /\ Unwoken(counted, first.row, first.said)
    BY <1>4, <2>1, MilestonePays
  <2> QED BY <1>4, <2>2 DEF Pays, Unwoken
<1> HIDE DEF first
<1>6. Wakeful(thrash.row) /\ Paid(first.row, thrash.row, thrash.said)
  BY <1>5, MilestonePays DEF Pays
<1> HIDE DEF thrash
<1>7. Wakeful(last) /\ last.wakes = thrash.row.wakes BY <1>6 DEF Wakeful
<1> HIDE DEF last
<1>8. Pays(r, Quietly(running)) BY <1>3 DEF Pays, Paid, Unwoken, Quietly
<1>9. Pays(r, first) BY <1>5 DEF Pays, Paid
<1>10. Paid(r, last, first.said \cup thrash.said)
  <2>1. first.row.wakes = r.wakes /\ \A m \in first.said : ~m.wake BY <1>5 DEF Unwoken
  <2>2. CASE Unwoken(first.row, thrash.row, thrash.said)
    BY <1>7, <2>1, <2>2 DEF Paid, Unwoken
  <2>3. CASE /\ thrash.row.wakes = first.row.wakes + 1
             /\ \E m \in thrash.said : m.wake /\ \A x \in thrash.said : x.wake => x = m
    <3>1. PICK m \in thrash.said : m.wake /\ \A x \in thrash.said : x.wake => x = m BY <2>3
    <3>2. \A x \in first.said \cup thrash.said : x.wake => x = m BY <2>1, <3>1
    <3>3. last.wakes = r.wakes + 1 BY <1>7, <2>1, <2>3
    <3> QED BY <3>1, <3>2, <3>3 DEF Paid
  <2> QED BY <1>6, <2>2, <2>3 DEF Paid
<1> QED BY <1>1, <1>7, <1>8, <1>9, <1>10 DEF Pays

\* What a step spends.
StepPays ==
    IF row = None THEN (\A m \in said' : ~m.wake) /\ (row' # None => row'.wakes = 0)
    ELSE Paid(row, row', said')

\* An event whose handler pays.
LEMMA ObservesPay ==
    ASSUME row # None => Wakeful(row), NEW o, NEW sign, Observes(o, sign),
           Listening(row) => Pays(Promoted(row), o)
    PROVE  StepPays
<1>1. CASE ~Listening(row)
  BY <1>1 DEF Observes, StepPays, Paid, Unwoken
<1>2. CASE Listening(row)
  <2>1. row' = o.row /\ said' = o.said /\ row # None BY <1>2 DEF Observes, Listening
  <2>2. Promoted(row).wakes = row.wakes BY <2>1, TouchSpendsNothing
  <2> QED BY <1>2, <2>1, <2>2 DEF StepPays, Pays, Paid, Unwoken
<1> QED BY <1>1, <1>2

\* The events of the session.
LEMMA EventsPay ==
    ASSUME row # None => Wakeful(row),
           \/ \E q \in Requests : Asked(q) \/ Answered(q) \/ Rejected(q)
           \/ ChildEvent
           \/ \E c \in Calls : ToolCalled(c)
           \/ ToolEnded \/ ExecutionEnded
           \/ row # None /\ Renamed
    PROVE  StepPays
<1> DEFINE p == Promoted(row)
<1>w. Listening(row) => Wakeful(p) BY TouchSpendsNothing DEF Listening
<1>o. ASSUME NEW o, NEW sign, Observes(o, sign), Wakeful(p) => Pays(p, o) PROVE StepPays
  BY <1>w, <1>o, ObservesPay
<1>1. ASSUME NEW q \in Requests, Asked(q) PROVE StepPays
  <2> DEFINE wait(r) == Milestone([r EXCEPT !.needsInput = q, !.status = "waiting",
                                            !.phase = "waiting"], "needs-input", q)
  <2>1. Observes(wait(p), FALSE) BY <1>1 DEF Asked, Observe, Observes
  <2>2. Wakeful(p) => Pays(p, wait(p)) BY RequestsPay
  <2> HIDE DEF wait, p
  <2> QED BY <1>o, <2>1, <2>2
<1>2. ASSUME NEW q \in Requests, Answered(q) PROVE StepPays
  <2>1. Observes(Resumed(p), row # None /\ row.needsInput # None)
    BY <1>2 DEF Answered, Observe, Observes
  <2>2. Wakeful(p) => Pays(p, Resumed(p)) BY RequestsPay
  <2> HIDE DEF p
  <2> QED BY <1>o, <2>1, <2>2
<1>3. ASSUME NEW q \in Requests, Rejected(q) PROVE StepPays
  <2>1. Observes(Denied(p), row # None /\ row.needsInput # None)
    BY <1>3 DEF Rejected, Observe, Observes
  <2>2. Wakeful(p) => Pays(p, Denied(p)) BY RequestsPay
  <2> HIDE DEF p
  <2> QED BY <1>o, <2>1, <2>2
<1>4. CASE ChildEvent \/ ToolEnded \/ (row # None /\ Renamed)
  <2>1. \/ Observes(Quietly(p), FALSE) \/ Observes(BusyTurn(p), TRUE)
        \/ Observes(IdleTurn(p), TRUE) \/ Observes(RetryTurn(p), FALSE)
        \/ Observes(StepStarted(p), TRUE) \/ Observes(StepEnded(p), TRUE)
        \/ Observes(StepFailed(p), TRUE) \/ Observes(ToolEnds(p), TRUE)
    BY <1>4 DEF ChildEvent, ToolEnded, Renamed, Observe, Observes
  <2> HIDE DEF p
  <2> QED BY <1>o, <2>1, TurnsPay
<1>5. ASSUME NEW c \in Calls, ToolCalled(c) PROVE StepPays
  <2>1. CASE Observe(Quietly, FALSE)
    <3>1. Observes(Quietly(p), FALSE) BY <2>1 DEF Observe, Observes
    <3> HIDE DEF p
    <3> QED BY <1>o, <3>1, TurnsPay
  <2>2. ASSUME NEW named \in BOOLEAN, Observe(LAMBDA r : ToolRuns(r, c, named), TRUE)
        PROVE  StepPays
    <3>1. Observes(ToolRuns(p, c, named), TRUE) BY <2>2 DEF Observe, Observes
    <3> HIDE DEF p
    <3> QED BY <1>o, <3>1, ToolRunsPay
  <2> QED BY <1>5, <2>1, <2>2 DEF ToolCalled
<1>6. CASE ExecutionEnded
  <2>1. PICK outcome \in RowOutcomes : Observe(LAMBDA r : Terminated(r, outcome), TRUE)
    BY <1>6 DEF ExecutionEnded
  <2>2. Observes(Terminated(p, outcome), TRUE) BY <2>1 DEF Observe, Observes
  <2> HIDE DEF p
  <2> QED BY <1>o, <2>2, RequestsPay
<1> QED BY <1>1, <1>2, <1>3, <1>4, <1>5, <1>6

\* The start of a session.
LEMMA CreationPays ==
    ASSUME row # None => Wakeful(row), Created \/ (row = None /\ Renamed)
    PROVE  StepPays
<1>u. "start" \notin WakeKinds BY DEF WakeKinds
<1>1. CASE row = None
  <2> DEFINE r == NewRow("observed", 0, FALSE)
             o == Milestone(r, "start", None)
  <2>1. Wakeful(r) /\ r.wakes = 0 BY DEF NewRow, Wakeful
  <2>2. (row' = o.row /\ said' = o.said) \/ (row' = r /\ said' = {})
    BY <1>1 DEF Created, Renamed
  <2> HIDE DEF r
  <2>3. Unwoken(r, o.row, o.said) BY <1>u, <2>1, MilestonePays
  <2> HIDE DEF o
  <2> QED BY <1>1, <2>1, <2>2, <2>3 DEF StepPays, Unwoken
<1>2. CASE row # None /\ Created
  <2> DEFINE o == Milestone(row, "start", None)
  <2>1. Wakeful(o.row) /\ Unwoken(row, o.row, o.said)
    BY <1>2, <1>u, MilestonePays DEF Pays
  <2>2. \/ said' = {} /\ row' = row
        \/ said' = o.said /\ (row' = o.row \/ row' = Promoted(o.row))
    BY <1>2 DEF Created
  <2> HIDE DEF o
  <2>3. Promoted(o.row).wakes = o.row.wakes BY <2>1, TouchSpendsNothing
  <2> QED BY <1>2, <2>1, <2>2, <2>3 DEF StepPays, Paid, Unwoken
<1> QED BY <1>1, <1>2

\* The ticks of the host.
LEMMA TicksPay ==
    ASSUME row # None => Wakeful(row), HostTick
    PROVE  StepPays
<1> DEFINE mapped == Host = "tui" /\ row # None /\ row.provenance = "discovered"
<1>1. PICK next \in BOOLEAN :
        LET o == IF mapped THEN Classified(Marked(row, next), next) ELSE Classified(row, live)
        IN  row' = o.row /\ said' = o.said
  BY DEF HostTick
<1>2. CASE row = None BY <1>1, <1>2 DEF Classified, Quietly, StepPays
<1>3. CASE row # None
  <2> DEFINE r == IF mapped THEN Marked(row, next) ELSE row
             map == IF mapped THEN next ELSE live
             d == [r EXCEPT !.stale = IsStale(r, map)]
             v == [d EXCEPT !.status = IF d.age > 2 * Threshold(d) THEN "failed"
                                       ELSE "warning"]
             w == [d EXCEPT !.status = "waiting"]
             s == Milestone(v, "stall", IF d.tool # None THEN d.tool ELSE d.phase)
  <2>1. Wakeful(r) /\ r.wakes = row.wakes
    <3>1. Wakeful(row) BY <1>3
    <3>2. Wakeful(Marked(row, next)) /\ Marked(row, next).wakes = row.wakes
      <4> DEFINE a == [row EXCEPT !.status = "running", !.phase = "active", !.stale = FALSE]
                 u == [row EXCEPT !.status = "unknown", !.phase = "no events observed"]
                 b == [u EXCEPT !.stale = IsStale(u, FALSE)]
      <4>1. Wakeful(a) /\ a.wakes = row.wakes BY <3>1 DEF Wakeful
      <4>2. Wakeful(u) /\ u.wakes = row.wakes BY <3>1 DEF Wakeful
      <4>3. Marked(row, next) = row \/ Marked(row, next) = a \/ Marked(row, next) = b
        BY DEF Marked
      <4> HIDE DEF a, u
      <4>4. Wakeful(b) /\ b.wakes = row.wakes BY <4>2 DEF Wakeful
      <4> HIDE DEF b
      <4> QED BY <3>1, <4>1, <4>3, <4>4
    <3> QED BY <3>1, <3>2
  <2>2. row' = Classified(r, map).row /\ said' = Classified(r, map).said BY <1>1
  <2>3. \/ r = None /\ Classified(r, map) = [row |-> r, said |-> {}]
        \/ Classified(r, map) = s
        \/ Classified(r, map) = [row |-> w, said |-> {}]
        \/ Classified(r, map) = [row |-> d, said |-> {}]
    <3> HIDE DEF r, map, mapped
    <3> QED BY DEF Classified, Quietly
  <2> HIDE DEF r, map
  <2>4. Wakeful(d) /\ d.wakes = row.wakes BY <2>1 DEF Wakeful
  <2> HIDE DEF d
  <2>5. Wakeful(v) /\ v.wakes = row.wakes /\ w.wakes = row.wakes BY <2>4 DEF Wakeful
  <2> HIDE DEF v, w
  <2>6. Paid(row, s.row, s.said)
    BY <2>5, MilestonePays DEF Pays, Paid, Unwoken
  <2> HIDE DEF s
  <2>7. ASSUME NEW t, t.wakes = row.wakes, row' = t, said' = {} PROVE StepPays
    BY <1>3, <2>7 DEF StepPays, Paid, Unwoken
  <2> QED BY <1>3, <2>1, <2>2, <2>3, <2>4, <2>5, <2>6, <2>7 DEF StepPays
<1> QED BY <1>2, <1>3

\* The archive, the time that passes and the session that goes on spend nothing.
LEMMA OthersPay ==
    ASSUME row # None => Wakeful(row), Archive \/ Unarchive \/ GoesOn \/ Time
    PROVE  StepPays
<1>1. said' = {} BY DEF Archive, Unarchive, GoesOn, Time
<1>2. CASE GoesOn BY <1>1, <1>2 DEF GoesOn, StepPays, Paid, Unwoken
<1>3. CASE Archive \/ Time
  <2>1. row # None /\ row'.wakes = row.wakes BY <1>3 DEF Archive, Time, Wakeful
  <2> QED BY <1>1, <2>1 DEF StepPays, Paid, Unwoken
<1>4. CASE Unarchive
  <2> DEFINE d == [row EXCEPT !.archived = FALSE]
             e == [d EXCEPT !.stale = IsStale(d, live)]
  <2>1. row # None /\ row' = e BY <1>4 DEF Unarchive
  <2>2. Wakeful(d) /\ d.wakes = row.wakes BY <2>1 DEF Wakeful
  <2> HIDE DEF d
  <2>3. e.wakes = row.wakes BY <2>2 DEF Wakeful
  <2> QED BY <1>1, <2>1, <2>3 DEF StepPays, Paid, Unwoken
<1> QED BY <1>2, <1>3, <1>4

\* WakesAreBudgeted (milestone, maxAttentionWakes): whatever comes after one another, a
\* step that wakes spends as much of the session's budget, and no step gives any back.
THEOREM WakesBudgeted == ReducerSpec => WakesAreBudgeted
<1> DEFINE spent == IF row = None THEN 0 ELSE row.wakes
           news == {m \in said' : m.wake}
           woken == Cardinality(news)
           Budgeted == IF row' = None THEN woken = 0
                       ELSE row'.wakes = spent + woken /\ row'.wakes <= MaxWakes
<1>1. ReducerInv /\ [ReducerNext]_reducervars => [Budgeted]_reducervars
  <2> SUFFICES ASSUME ReducerInv, ReducerNext PROVE Budgeted OBVIOUS
  <2>1. row \in RowType \cup {None} BY DEF ReducerInv, ReducerTyped, ReducerTypeOK
  <2>2. /\ row' \in RowType \cup {None}
        /\ row # None => row' # None
    BY ReducerStep DEF EventKeeps, TickKeeps, ReducerTyped, ReducerTypeOK
  <2>3. row # None => Wakeful(row) BY <2>1 DEF RowType, Wakeful
  <2>4. StepPays
    <3>1. CASE HostTick BY <2>3, <3>1, TicksPay
    <3>2. CASE Created \/ (row = None /\ Renamed) BY <2>3, <3>2, CreationPays
    <3>3. CASE Archive \/ Unarchive \/ GoesOn \/ Time BY <2>3, <3>3, OthersPay
    <3>4. CASE \/ \E q \in Requests : Asked(q) \/ Answered(q) \/ Rejected(q)
               \/ ChildEvent \/ (\E c \in Calls : ToolCalled(c))
               \/ ToolEnded \/ ExecutionEnded \/ (row # None /\ Renamed)
      BY <2>3, <3>4, EventsPay
    <3> QED BY <3>1, <3>2, <3>3, <3>4 DEF ReducerNext
  <2>5. /\ row # None => row.wakes \in Nat
        /\ row' # None => row'.wakes \in Nat /\ row'.wakes <= MaxWakes
    BY <2>1, <2>2, ReducerAssumption DEF RowType
  <2>6. (\A m \in said' : ~m.wake) => woken = 0
    <3>1. (\A m \in said' : ~m.wake) => news = {} OBVIOUS
    <3> HIDE DEF news
    <3> QED BY <3>1, FS_EmptySet
  <2>7. ASSUME NEW m \in said', m.wake, \A x \in said' : x.wake => x = m PROVE woken = 1
    <3>1. news = {m} BY <2>7
    <3> HIDE DEF news
    <3> QED BY <3>1, FS_Singleton
  <2> HIDE DEF woken, news
  <2>8. CASE row = None
    <3>1. woken = 0 /\ (row' # None => row'.wakes = 0) BY <2>4, <2>6, <2>8 DEF StepPays
    <3> QED BY <2>5, <2>8, <3>1
  <2>9. CASE row # None
    <3>1. row' # None BY <2>2, <2>9
    <3>2. Paid(row, row', said') BY <2>4, <2>9 DEF StepPays
    <3>3. CASE Unwoken(row, row', said')
      <4>1. woken = 0 /\ row'.wakes = row.wakes BY <2>6, <3>3 DEF Unwoken
      <4> QED BY <2>5, <2>9, <3>1, <4>1
    <3>4. CASE /\ row'.wakes = row.wakes + 1
               /\ \E m \in said' : m.wake /\ \A x \in said' : x.wake => x = m
      <4>1. woken = 1 BY <2>7, <3>4
      <4> QED BY <2>5, <2>9, <3>1, <3>4, <4>1
    <3> QED BY <3>2, <3>3, <3>4 DEF Paid
  <2> QED BY <2>8, <2>9
<1> QED BY <1>1, ReducerInvariant, PTL DEF ReducerSpec, WakesAreBudgeted
---------------------------------------------------------------------------
(* The types.                                                              *)

\* ReducerTypeOK: the types of the reducer, for any calls, requests and windows.
THEOREM ReducerIsTyped == ReducerSpec => []ReducerTypeOK
<1>1. ReducerInv => ReducerTypeOK BY DEF ReducerInv, ReducerTyped
<1> QED BY <1>1, ReducerInvariant, PTL

\* ServerTypeOK: the types of the server part, for any locations, sessions and tree.
THEOREM ServerIsTyped == ServerSpec => []ServerTypeOK
<1>1. ServerTyped => ServerTypeOK BY DEF ServerTyped
<1>2. ServerTyped /\ [ServerNext]_servervars => ServerTyped' BY ServerStepMoves
<1> QED BY <1>1, <1>2, ServerTypedInit, PTL DEF ServerSpec

=============================================================================
