----------------------------- MODULE RunConfigs -----------------------------
(***************************************************************************)
(* scripts/scratch_cleanup.py as dispatch_agent.py uses it: each dispatch  *)
(* first prunes the configuration roots that others left in one directory, *)
(* then makes its own, claims it with a marker that holds its pid, works   *)
(* in it, and in the end drops it or, when it failed, leaves it for        *)
(* diagnosis.  Dispatches run concurrently, and die.                       *)
(***************************************************************************)
EXTENDS Integers, FiniteSets

CONSTANTS Dispatches,   \* processes, each with one root
          Keep,         \* roots a prune keeps: DEFAULT_KEEP but for the one to come
          MaxAge,       \* DEFAULT_MAX_AGE
          GraceAge,     \* DEFAULT_RUN_GRACE
          MaxNow        \* bound: the clock

ASSUME ConfigAssumption ==
    /\ IsFiniteSet(Dispatches)
    /\ Keep \in Nat /\ MaxAge \in Nat /\ GraceAge \in Nat \ {0} /\ MaxNow \in Nat

VARIABLES now,    \* the clock, which also dates the roots
          root,   \* the root of each dispatch
          disp,   \* the process of each dispatch
          crowded, unmarked   \* history, see the properties

prunehistory == <<crowded, unmarked>>
configvars == <<now, root, disp, prunehistory>>

Found == [of : Dispatches, mtime : 0 .. MaxNow]

ConfigTypeOK ==
    /\ now \in 0 .. MaxNow
    /\ root \in [Dispatches -> [there : BOOLEAN, mtime : 0 .. MaxNow, marked : BOOLEAN]]
    /\ disp \in [Dispatches -> [pc : {"new", "listing", "pruning", "made", "running",
                                      "ended", "failed", "died"},
                                current : 0 .. MaxNow, stale : SUBSET Found]]
    /\ crowded \in BOOLEAN /\ unmarked \subseteq Dispatches

ConfigInit ==
    /\ now = 0
    /\ root = [d \in Dispatches |-> [there |-> FALSE, mtime |-> 0, marked |-> FALSE]]
    /\ disp = [d \in Dispatches |-> [pc |-> "new", current |-> 0, stale |-> {}]]
    /\ crowded = FALSE /\ unmarked = {}

There    == {d \in Dispatches : root[d].there}
Alive(d) == disp[d].pc \in {"listing", "pruning", "made", "running"}
Becomes(d, p) == disp' = [disp EXCEPT ![d] = p]

\* prune_run_configs looks at the clock first, and lists the directory after it.
StartPrune(d) ==
    /\ disp[d].pc = "new"
    /\ Becomes(d, [disp[d] EXCEPT !.pc = "listing", !.current = now])
    /\ UNCHANGED <<now, root, prunehistory>>

\* The roots that were made since d looked at the clock.
NewerThanLook(d) == {r \in There : root[r].mtime > disp[d].current}

\* Stale are all but the Keep newest roots (of equals any), and the old ones.
ListRoots(d) ==
    /\ disp[d].pc = "listing"
    /\ \E newest \in SUBSET There :
         /\ Cardinality(newest) = IF Cardinality(There) < Keep THEN Cardinality(There) ELSE Keep
         /\ \A r \in newest, s \in There \ newest : root[r].mtime >= root[s].mtime
         /\ LET old == {r \in There : disp[d].current - root[r].mtime > MaxAge}
            IN  Becomes(d, [disp[d] EXCEPT !.pc = "pruning",
                           !.stale = {[of |-> r, mtime |-> root[r].mtime] :
                                        r \in (There \ newest) \cup old}])
    /\ crowded' = (crowded \/ Cardinality(NewerThanLook(d)) > Keep)
    /\ UNCHANGED <<now, root, unmarked>>

\* Mutant: only the grace window protects a root.
IsActive_Young(r, mtime, current) == 0 <= current - mtime /\ current - mtime < GraceAge

\* Mutant: only the marker protects a root.
IsActive_Owned(r, mtime, current) == root[r].marked /\ Alive(r)

\* A root that is young by its listed time, or whose marker names a live process.
\* One that is younger than the look at the clock is not young.
IsActive(r, mtime, current) ==
    \/ 0 <= current - mtime /\ current - mtime < GraceAge
    \/ root[r].marked /\ Alive(r)

PruneOne(d) ==
    /\ disp[d].pc = "pruning"
    /\ \E e \in disp[d].stale :
         /\ Becomes(d, [disp[d] EXCEPT !.stale = @ \ {e}])
         /\ root' = IF IsActive(e.of, e.mtime, disp[d].current) THEN root
                    ELSE [root EXCEPT ![e.of] = [@ EXCEPT !.there = FALSE, !.marked = FALSE]]
    /\ UNCHANGED <<now, prunehistory>>

\* mkdtemp, after the prune.
MakeRoot(d) ==
    /\ disp[d].pc = "pruning" /\ disp[d].stale = {}
    /\ Becomes(d, [disp[d] EXCEPT !.pc = "made"])
    /\ root' = [root EXCEPT ![d] = [there |-> TRUE, mtime |-> now, marked |-> FALSE]]
    /\ UNCHANGED <<now, prunehistory>>

\* mark_run_active, and the configuration written into the root.  A marker that
\* cannot be written, for want of the root or otherwise, is no error, and the
\* configuration makes the directory again.
ClaimRoot(d) ==
    /\ disp[d].pc = "made"
    /\ Becomes(d, [disp[d] EXCEPT !.pc = "running"])
    /\ \E written \in BOOLEAN :
         /\ written => root[d].there
         /\ root' = [root EXCEPT ![d] = [there |-> TRUE, mtime |-> now, marked |-> written]]
         /\ unmarked' = IF written THEN unmarked ELSE unmarked \cup {d}
    /\ UNCHANGED <<now, crowded>>

\* clear_run_active, then cleanup_run_config: a failure keeps the root.
EndRun(d) ==
    /\ disp[d].pc = "running"
    /\ \E end \in {"ended", "failed"} :
         /\ Becomes(d, [disp[d] EXCEPT !.pc = end])
         /\ root' = [root EXCEPT ![d].there = @ /\ end = "failed", ![d].marked = FALSE]
    /\ UNCHANGED <<now, prunehistory>>

\* The process dies; its marker stays.
RunDies(d) ==
    /\ Alive(d)
    /\ Becomes(d, [disp[d] EXCEPT !.pc = "died", !.stale = {}])
    /\ UNCHANGED <<now, root, prunehistory>>

\* A root is claimed well within the grace.
ConfigTick ==
    /\ now < MaxNow
    /\ \A d \in Dispatches : disp[d].pc = "made" => now + 1 - root[d].mtime < GraceAge
    /\ now' = now + 1
    /\ UNCHANGED <<root, disp, prunehistory>>

ConfigNext ==
    \/ \E d \in Dispatches : StartPrune(d) \/ ListRoots(d) \/ PruneOne(d) \/ MakeRoot(d)
                             \/ ClaimRoot(d) \/ EndRun(d) \/ RunDies(d)
    \/ ConfigTick

ConfigSpec == ConfigInit /\ [][ConfigNext]_configvars
---------------------------------------------------------------------------
(* Properties.                                                             *)

\* A concurrent dispatch is inviolable, however many newer roots there are and
\* however long it has been running: no prune takes the root of a dispatch that has
\* made it and not ended.  Once it runs, its marker protects it, if it could be
\* written (unmarked: it could not).  Before, only its youth does, which a prune
\* judges by a clock it looked at before it listed the roots: if more than Keep were
\* made in between (crowded), the count takes one that is newer than the look.
LiveConfigSurvives ==
    \A d \in Dispatches :
      /\ disp[d].pc = "made" /\ ~crowded => root[d].there
      /\ disp[d].pc = "running" /\ d \notin unmarked => root[d].there
=============================================================================
