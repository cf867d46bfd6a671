-------------------------- MODULE DelegationServer --------------------------
(***************************************************************************)
(* plugins/delegation-observer/server.ts: what becomes of a milestone once *)
(* the reducer (DelegationObserver) has announced it.  One plugin instance *)
(* runs per location and each sees the events of every session, so the     *)
(* same milestone is announced by all of them; each looks up the root of   *)
(* the delegate's chain, and the one at the root's location delivers.      *)
(*                                                                         *)
(* The event loop waits for its delivery, the timer's flush runs beside    *)
(* it, and both await the host at every look-up and every delivery.  One   *)
(* delegate is observed; of its milestones the loop announces the start    *)
(* and the end, the timer a stall in between.                              *)
(***************************************************************************)
EXTENDS Integers, FiniteSets, Sequences

CONSTANTS Locations,   \* the directories that have an instance
          Trees,       \* how the sessions may hang together, and what may go wrong
          MaxHops,     \* MAX_TREE_HOPS
          Nobody       \* no session, no location

ServerFaultKinds == {"list", "lookup", "synthetic", "stream", "healthFile", "stop"}

ASSUME ServerAssumption ==
    /\ MaxHops \in Nat \ {0}
    /\ Nobody \notin Locations

VARIABLES
    tree,     \* of each session its parent, the orchestrator its title names, its location;
              \* and the faults the host may have at each location
    delegate, \* the delegated session
    inst,     \* the instance at each location
    missed,   \* the instances that dropped a milestone or failed to deliver it
    told      \* the milestones each instance delivered, in order

servervars == <<tree, delegate, inst, missed, told>>

Sessions   == {"child", "mid", "root"}
Milestones == {"start", "stall", "terminal"}
Emitters   == {"loop", "timer"}

TreeType == [parent : [Sessions -> Sessions \cup {Nobody}],
             title  : [Sessions -> Sessions \cup {Nobody}],
             place  : [Sessions -> Locations \cup {Nobody}],
             faults : [Locations -> SUBSET ServerFaultKinds]]

\* A session with neither a parent nor a title that names its orchestrator has no
\* row: it is no delegate.
ASSUME TreesAssumption ==
    /\ Nobody \notin Sessions
    /\ Trees \subseteq TreeType
    /\ \A t \in Trees : t.parent["child"] # Nobody \/ t.title["child"] # Nobody

JobType == [ms : Milestones \cup {"none"}, step : {"idle", "resolve", "walk", "send"},
            at : Sessions \cup {Nobody}, hop : 0 .. MaxHops - 1,
            root : Sessions \cup {Nobody}, place : Locations \cup {Nobody}]
NoJob == [ms |-> "none", step |-> "idle", at |-> Nobody, hop |-> 0,
          root |-> Nobody, place |-> Nobody]

EntryType == [trusted : {"unknown", "yes", "no"}, root : Sessions \cup {Nobody},
              place : Locations \cup {Nobody}]
Unknown == [trusted |-> "unknown", root |-> Nobody, place |-> Nobody]

\* reasons counts what is written into the degradation text, which only grows.
Health == [connection : {"connected", "disconnected", "unavailable"}, reasons : Nat]
Healthy == [connection |-> "connected", reasons |-> 0]

InstanceType ==
    [boot    : {"list", "subscribe", "open", "closed"},
     stopped : BOOLEAN,
     row     : {"none", "listed", "observed", "over"},   \* the delegate's
     emitted : SUBSET {"start", "stall"},                \* ... and its keys
     inbox   : Seq({"created", "ended"}),                \* of the event stream
     job     : [Emitters -> JobType],
     trust   : EntryType,  \* what it knows of the delegate's orchestrator
     health  : Health,     \* state.connection and state.degradation
     signed  : Health,     \* lastHealth
     file    : Health]     \* the health record the TUI part reads

ServerTypeOK ==
    /\ tree \in TreeType
    /\ delegate \in {"unborn", "running", "ended"}
    /\ inst \in [Locations -> InstanceType]
    /\ missed \subseteq Locations
    /\ told \in [Locations -> Seq([ms : Milestones, to : Sessions])]

ServerInit ==
    /\ tree \in Trees
    /\ delegate = "unborn"
    /\ inst = [i \in Locations |->
         [boot |-> "list", stopped |-> FALSE, row |-> "none", emitted |-> {},
          inbox |-> <<>>, job |-> [j \in Emitters |-> NoJob], trust |-> Unknown,
          health |-> Healthy, signed |-> Healthy, file |-> Healthy]]
    /\ missed = {}
    /\ told = [i \in Locations |-> <<>>]

---------------------------------------------------------------------------
(* The delegate.  Its events reach the instances that have subscribed.     *)

Heard(event) ==
    inst' = [i \in Locations |->
               IF inst[i].boot = "open" /\ ~inst[i].stopped
               THEN [inst[i] EXCEPT !.inbox = Append(@, event)] ELSE inst[i]]

ChildBegins == /\ delegate = "unborn" /\ delegate' = "running" /\ Heard("created")
               /\ UNCHANGED <<tree, missed, told>>
ChildEnds   == /\ delegate = "running" /\ delegate' = "ended" /\ Heard("ended")
               /\ UNCHANGED <<tree, missed, told>>

---------------------------------------------------------------------------
(* An instance.                                                            *)

Turns(i, new) == inst' = [inst EXCEPT ![i] = new]

Degraded(h) == [connection |-> "unavailable", reasons |-> h.reasons + 1]
Disconnected(h) == [connection |-> "disconnected", reasons |-> h.reasons + 1]

\* Mutant: a health record that was written once is final.
Publish_Once(i, n) ==
    IF n.signed # Healthy THEN {n} ELSE {[n EXCEPT !.signed = n.health, !.file = n.health]}

\* writeHealth: only when something changed.  A record that could not be written
\* counts as written.
Publish(i, n) ==
    IF n.health = n.signed THEN {n}
    ELSE {[n EXCEPT !.signed = n.health, !.file = f] :
            f \in {n.health} \cup (IF "healthFile" \in tree.faults[i] THEN {n.file} ELSE {})}

\* The bootstrap: the sessions are listed, then the timer is set; then the event
\* stream is opened.
ListSessions(i) ==
    /\ inst[i].boot = "list"
    /\ \E listed \in BOOLEAN :
         /\ listed \/ "list" \in tree.faults[i]
         /\ Turns(i, [inst[i] EXCEPT !.boot = "subscribe",
                        !.row = IF ~listed \/ delegate = "unborn" THEN "none"
                                ELSE IF delegate = "ended" THEN "over" ELSE "listed"])
    /\ UNCHANGED <<tree, delegate, missed, told>>

Subscribe(i) ==
    /\ inst[i].boot = "subscribe"
    /\ \/ Turns(i, [inst[i] EXCEPT !.boot = IF inst[i].stopped THEN "closed" ELSE "open"])
       \/ /\ "stream" \in tree.faults[i]
          /\ \E n \in Publish(i, [inst[i] EXCEPT !.boot = "closed", !.health = Disconnected(@)]) :
               Turns(i, n)
    /\ UNCHANGED <<tree, delegate, missed, told>>

Announces(i, j, ms, n) ==
    /\ Turns(i, [n EXCEPT !.job[j] = [NoJob EXCEPT !.ms = ms, !.step = "resolve"]])
    /\ UNCHANGED <<tree, delegate, missed, told>>

\* Mutant: the loop does not wait for its deliveries.
LoopReady_NoWait(i) == inst[i].boot = "open" /\ inst[i].inbox # <<>> /\ ~inst[i].stopped

\* One event at a time, each with its deliveries.
LoopReady(i) == /\ inst[i].boot = "open" /\ inst[i].inbox # <<>> /\ ~inst[i].stopped
                /\ inst[i].job["loop"].step = "idle"

\* An event of a session the instance has no row of, or of one that is over, is
\* nothing to it.
Observed(i) ==
    /\ LoopReady(i)
    /\ LET event == Head(inst[i].inbox)
           n == [inst[i] EXCEPT !.inbox = Tail(@)]
       IN  CASE event = "created" /\ n.row = "none" ->
                  Announces(i, "loop", "start", [n EXCEPT !.row = "observed", !.emitted = @ \cup {"start"}])
             [] event = "ended" /\ n.row \in {"listed", "observed"} ->
                  Announces(i, "loop", "terminal", [n EXCEPT !.row = "over"])
             [] OTHER -> /\ \E p \in Publish(i, n) : Turns(i, p)
                         /\ UNCHANGED <<tree, delegate, missed, told>>

\* flush: the timer was set before the subscription, and goes on when the stream
\* has ended.
Flush(i) ==
    /\ inst[i].boot # "list" /\ ~inst[i].stopped
    /\ inst[i].row = "observed" /\ "stall" \notin inst[i].emitted
    /\ Announces(i, "timer", "stall", [inst[i] EXCEPT !.emitted = @ \cup {"stall"}])

\* The stream is closed by the server, or fails.  The events it still held
\* are lost.
StreamEnds(i) ==
    /\ "stream" \in tree.faults[i]
    /\ inst[i].boot = "open" /\ ~inst[i].stopped /\ inst[i].job["loop"].step = "idle"
    /\ \E n \in Publish(i, [inst[i] EXCEPT !.boot = "closed", !.inbox = <<>>,
                                       !.health = Disconnected(@)]) : Turns(i, n)
    /\ UNCHANGED <<tree, delegate, missed, told>>

\* stop: no timer and no events any more; what is being delivered goes on.
Stop(i) ==
    /\ "stop" \in tree.faults[i] /\ ~inst[i].stopped
    /\ Turns(i, [inst[i] EXCEPT !.stopped = TRUE, !.inbox = <<>>])
    /\ UNCHANGED <<tree, delegate, missed, told>>

---------------------------------------------------------------------------
(* resolveParent.                                                          *)

Job(i, j) == inst[i].job[j]
Works(i, j, job) == Turns(i, [inst[i] EXCEPT !.job[j] = job])

\* The end of a delivery, however it came about.
Settles(i, j, lost, n) ==
    /\ \E p \in Publish(i, [n EXCEPT !.job[j] = NoJob]) : Turns(i, p)
    /\ missed' = missed \cup (IF lost THEN {i} ELSE {})
    /\ UNCHANGED <<tree, delegate>>

\* Mutant: the location is not looked at.
Mine_Anyone(i, place) == TRUE

\* A root whose location is not known belongs to every instance.
Mine(i, place) == place \in {i, Nobody}

\* An instance that got an answer sends, leaves it to another, or drops.
Resolved(i, j, entry, n) ==
    CASE entry.trusted = "no" -> Settles(i, j, TRUE, n) /\ UNCHANGED told
          [] entry.trusted = "yes" /\ ~Mine(i, entry.place) ->
               Settles(i, j, FALSE, n) /\ UNCHANGED told
          [] OTHER ->
               /\ Turns(i, [n EXCEPT !.job[j] = [NoJob EXCEPT !.ms = Job(i, j).ms, !.step = "send",
                                                   !.root = entry.root, !.place = entry.place]])
               /\ UNCHANGED <<tree, delegate, missed, told>>

\* The first session to look up: the parent the row was associated with.
Named == IF tree.parent["child"] # Nobody THEN tree.parent["child"] ELSE tree.title["child"]

\* A trusted parent is never looked up again, a refused one after a while.
Resolve(i, j) ==
    /\ Job(i, j).step = "resolve"
    /\ \/ inst[i].trust.trusted # "unknown" /\ Resolved(i, j, inst[i].trust, inst[i])
       \/ /\ inst[i].trust.trusted # "yes"
          /\ Works(i, j, [Job(i, j) EXCEPT !.step = "walk", !.at = Named])
          /\ UNCHANGED <<tree, delegate, missed, told>>

\* Mutant: a chain is followed as long as it goes on.
LastHop_Never(hop) == FALSE

LastHop(hop) == hop + 1 >= MaxHops

\* The answer goes into the cache; a refusal is a degradation.
Found(i, j, root, place) ==
    LET entry == [trusted |-> IF root = Nobody THEN "no" ELSE "yes",
                  root |-> root, place |-> place]
    IN  Resolved(i, j, entry,
                 [inst[i] EXCEPT !.trust = entry,
                    !.health = IF root = Nobody THEN Degraded(@) ELSE @])

\* Mutant: the title of a worker is not followed.
Onward_ParentOnly(s) == tree.parent[s]

\* Where a look-up leads: to the parent, or to the orchestrator that the title
\* of a session without a parent names; a session without either is the root.
Onward(s) ==
    IF tree.parent[s] # Nobody THEN tree.parent[s]
    ELSE IF tree.title[s] # s THEN tree.title[s] ELSE Nobody

\* One look-up.  The location is that of the last session that has one.
Walk(i, j) ==
    /\ Job(i, j).step = "walk"
    /\ LET w     == Job(i, j)
           place == IF tree.place[w.at] # Nobody THEN tree.place[w.at] ELSE w.place
       IN  \/ "lookup" \in tree.faults[i] /\ Found(i, j, Nobody, w.place)
           \/ Onward(w.at) = Nobody /\ Found(i, j, w.at, place)
           \/ Onward(w.at) # Nobody /\ LastHop(w.hop) /\ Found(i, j, Nobody, place)
           \/ /\ Onward(w.at) # Nobody /\ ~LastHop(w.hop)
              /\ Works(i, j, [w EXCEPT !.at = Onward(w.at), !.place = place,
                                !.hop = IF @ < MaxHops THEN @ + 1 ELSE @])
              /\ UNCHANGED <<tree, delegate, missed, told>>

\* Mutant: a delivery that fails is only logged.
Failed_Logged(n) == n

Failed(n) == [n EXCEPT !.health = Degraded(@)]

\* ctx.session.synthetic: the message is a step of the root's session.
Send(i, j) ==
    /\ Job(i, j).step = "send"
    /\ \/ /\ Settles(i, j, FALSE, inst[i])
          /\ told' = [told EXCEPT ![i] = Append(@, [ms |-> Job(i, j).ms, to |-> Job(i, j).root])]
       \/ /\ "synthetic" \in tree.faults[i]
          /\ Settles(i, j, TRUE, Failed(inst[i])) /\ UNCHANGED told

EmitStep(i, j) == Resolve(i, j) \/ Walk(i, j) \/ Send(i, j)
InstanceStep(i) == ListSessions(i) \/ Subscribe(i) \/ Observed(i)
ServerStep == \E i \in Locations : InstanceStep(i) \/ \E j \in Emitters : EmitStep(i, j)
ServerNext ==
    \/ ChildBegins \/ ChildEnds
    \/ ServerStep
    \/ \E i \in Locations : Flush(i) \/ StreamEnds(i) \/ Stop(i)

\* The event loop runs and the host answers its calls; the delegate may live on,
\* and the timer need not find anything.
ServerFairness == WF_servervars(ServerStep)
ServerSpec == ServerInit /\ [][ServerNext]_servervars /\ ServerFairness
---------------------------------------------------------------------------
(* Properties.                                                             *)

Located == \A s \in Sessions : tree.place[s] # Nobody

Told(i) == DOMAIN told[i]

IsRoot(s) == tree.parent[s] = Nobody /\ tree.title[s] \in {Nobody, s}

\* One of the instances that all announce a milestone delivers it, and once, as
\* long as the host tells where the sessions are; and a title is a claim and not a
\* proof: only a session at the end of the chain is told anything, never a worker
\* or one whose chain does not end.
OneRootIsTold ==
    /\ Located =>
         \A i, k \in Locations : \A a \in Told(i), b \in Told(k) :
           told[i][a].ms = told[k][b].ms => i = k /\ a = b
    /\ \A i \in Locations : \A a \in Told(i) : IsRoot(told[i][a].to)

\* What the loop announces arrives in its order, although the timer's delivery
\* runs beside it: an orchestrator that hears of the end has heard of the start
\* before, if one was announced and none of the instance's milestones was lost.
StartThenEnd ==
    \A i \in Locations \ missed : \A b \in Told(i) :
      told[i][b].ms = "terminal" /\ "start" \in inst[i].emitted =>
        \E a \in Told(i) : a < b /\ told[i][a].ms = "start"

Quiet(i) == \A j \in Emitters : Job(i, j).step = "idle"

\* Degradation is never silent: an instance that dropped a milestone or could not
\* deliver it is degraded, and when its deliveries are over the TUI can read so.
DropIsVisible ==
    \A i \in missed :
      /\ inst[i].health.reasons > 0 /\ inst[i].health.connection # "connected"
      /\ Quiet(i) /\ "healthFile" \notin tree.faults[i] => inst[i].file = inst[i].health

\* Every delivery comes to its end, whatever the host refuses and however the
\* titles of the sessions refer to each other.
AnnouncementsSettle == []<>(\A i \in Locations : Quiet(i))
=============================================================================
