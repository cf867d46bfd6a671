------------------------------- MODULE Upgrade -------------------------------
(***************************************************************************)
(* scripts/opencode_upgrade.py and the gates of                            *)
(* scripts/opencode_v2_canary.py: moving the repository's pinned OpenCode  *)
(* version, and then the installed one, through plan, canary, prepare and  *)
(* apply.  Each command is a process of its own, started by the owner; it  *)
(* can be killed between any two of its writes, and a later command goes   *)
(* by what the earlier ones left: the version seams of the repository, the *)
(* canary evidence, and the file that records the stages passed.           *)
(***************************************************************************)
EXTENDS Integers, Sequences

CONSTANTS MaxVersion,   \* bound: versions are 0 (pinned at first) .. MaxVersion
          MaxCommands,  \* bound: commands the owner starts
          GateOrder,    \* the canary's C gates, in the order they run
          Commands      \* the commands the owner uses, see CommandKinds

\* "bare" is `upgrade' without --to, which takes the newest published version.
CommandKinds == {"upgrade", "bare", "canary", "prepare", "prune"}

ASSUME UpgradeAssumption ==
    /\ MaxVersion \in Nat /\ MaxCommands \in Nat
    /\ GateOrder \in Seq(STRING) /\ Len(GateOrder) > 0
    /\ Commands \subseteq CommandKinds

VARIABLES
    seams,     \* the version each group of pinned files names
    amended,   \* the versions of the ADR's amendments, in file order
    evidence,  \* .scratch/v2-<version>-prefix and v2-canary-<version>
    progress,  \* upgrade-state.json
    artifact,  \* what upgrade-<version>-verify.json says, for every version
    install,   \* the installed version and the schema its database has
    backups,   \* the schemas of the databases under pre-upgrade-*
    proc,      \* the running command, see Idle
    started,   \* how many commands were started
    ready,     \* the version the last command told the owner to switch to
    clean,     \* history: versions a whole canary has passed for
    verified,  \* history: versions a post-upgrade smoke has passed for
    byHand,    \* history: versions the owner has taken around the pipeline
    served     \* history: schemas on which a post-upgrade smoke has passed

repo == <<seams, amended>>
vars == <<repo, evidence, progress, artifact, install, backups, proc, started,
          ready, clean, verified, byHand, served>>

Versions == 0 .. MaxVersion
None     == -1          \* no version; for a group of files: not all name the same
Gates    == {GateOrder[i] : i \in DOMAIN GateOrder}
MaxOf(a, b) == IF a > b THEN a ELSE b

-----------------------------------------------------------------------------
(* The stage file.                                                         *)

\* STAGE_ORDER; "rolled-back" has no place in it.
Rank    == [checked |-> 1, planned |-> 2, canaried |-> 3, prepared |-> 4, applied |-> 5]
Ordered == {"checked", "planned", "canaried", "prepared", "applied"}
Stages  == Ordered \union {"rolled-back"}

\* What read_state makes of a file that is missing or not valid JSON.
NoProgress == [target |-> None, stage |-> "none", stages |-> {}]

\* A recorded stage stands for the ones before it.
Completed_NextToo(p) ==
    p.stages \union {s \in Ordered : \E t \in p.stages \intersect Ordered :
                                         Rank[s] <= Rank[t] + 1}
Completed(p) ==
    p.stages \union {s \in Ordered : \E t \in p.stages \intersect Ordered :
                                         Rank[s] <= Rank[t]}

\* The content after write_state: another target starts afresh, and within a
\* target an earlier stage does not replace a later one.
Fresh_Inherits(p, target) == [p EXCEPT !.target = target]
Fresh(p, target) ==
    IF p.target = target THEN p
    ELSE [target |-> target, stage |-> "none", stages |-> {}]

Kept_Newest(p, stage) == stage
Kept(p, stage) ==
    IF p.stage \in Ordered /\ stage \in Ordered /\ Rank[stage] < Rank[p.stage]
    THEN p.stage ELSE stage

WriteState(target, stage) ==
    LET old  == Fresh(progress, target)
        kept == Kept(old, stage)
    IN  progress' = [old EXCEPT !.stage = kept, !.stages = @ \union {kept}]

-----------------------------------------------------------------------------
(* What the commands read.                                                 *)

\* VERSION_PIN, as a process that starts now imports it.
Pin == seams.adapter

\* The version canary and prepare take from the arguments: args.to or the pin.
Inner_Missing(to) == to
Inner(to) == IF to = None THEN Pin ELSE to

\* check_seams: every group of files names v and so does the last amendment.
SeamsAt(v) ==
    /\ \A group \in DOMAIN seams : seams[group] = v
    /\ amended # <<>> /\ amended[Len(amended)] = v

NoEvidence == [prefix |-> FALSE, dir |-> FALSE,
               gates |-> [g \in Gates |-> "MISSING"], residual |-> "unknown"]

\* canary_summary(...)["ok"].
SummaryOK(v) ==
    /\ evidence[v].dir
    /\ \A g \in Gates : evidence[v].gates[g] = "PASS"
    /\ evidence[v].residual = "zero"

-----------------------------------------------------------------------------
(* The command that runs.  `target' is the version `upgrade' settled on,   *)
(* `inner' the one its canary and prepare take from the arguments, `done'  *)
(* the stages it takes for passed.                                         *)

Idle == [pc |-> "idle", cmd |-> "none", target |-> None, inner |-> None,
         done |-> {}, apply |-> FALSE, skip |-> FALSE, pending |-> FALSE, gate |-> 0]

ProcType ==
    [pc : {"idle", "pinned", "plan", "install", "gate", "migration", "plugins",
           "adapter", "docs", "packages", "locks", "amend", "seams", "ready",
           "apply", "switch", "smoke", "passed", "failed", "reported"},
     cmd : CommandKinds \union {"none"}, target : Versions \union {None},
     inner : Versions \union {None}, done : SUBSET Stages,
     apply : BOOLEAN, skip : BOOLEAN, pending : BOOLEAN, gate : Nat]

Init ==
    /\ seams = [adapter |-> 0, docs |-> 0, packages |-> 0, locks |-> 0]
    /\ amended = <<0>>
    /\ evidence = [v \in Versions |->
           IF v = 0 THEN [prefix |-> TRUE, dir |-> TRUE,
                          gates |-> [g \in Gates |-> "PASS"], residual |-> "zero"]
           ELSE NoEvidence]
    /\ progress = NoProgress
    /\ artifact = [v \in Versions |-> "none"]
    /\ install = [live |-> 0, schema |-> 0]
    /\ backups = {}
    /\ proc = Idle
    /\ started = 0 /\ ready = None
    /\ clean = {0} /\ verified = {} /\ byHand = {}
    /\ served = {0}

Starts(p) ==
    /\ proc.pc = "idle" /\ started < MaxCommands
    /\ proc' = p /\ started' = started + 1 /\ ready' = None

\* Where `upgrade' goes on once the stages in `done' are behind it; a canary or
\* prepare command of its own ends there.
Onward(p, done) ==
    IF p.cmd \notin {"upgrade", "bare"} THEN Idle
    ELSE [p EXCEPT !.done = done, !.gate = 0,
                   !.pc = IF "canaried" \notin done THEN "install"
                          ELSE IF "prepared" \notin done THEN "adapter"
                          ELSE "ready"]

-----------------------------------------------------------------------------
(* `upgrade': what it decides before its first write.                      *)

\* `upgrade [--to v]' on the supported layout, when it does not find the version
\* both pinned and installed.  Without --to the canary and prepare it runs take
\* their version from the same missing argument, and that means the pin.
BeginUpgrade(to, apply, skip, pending, resume, force) ==
    LET cmd    == IF to = None THEN "bare" ELSE "upgrade"
        target == IF to = None THEN MaxVersion ELSE to
        pinned == target = Pin /\ ~force
        done   == IF progress.target = target THEN Completed(progress) ELSE {}
        p      == [Idle EXCEPT !.cmd = cmd, !.target = target, !.done = done,
                               !.inner = Inner(to),
                               !.apply = apply, !.skip = skip, !.pending = pending]
    IN  /\ cmd \in Commands
        /\ pinned => install.live # target
        /\ Starts(IF pinned THEN [p EXCEPT !.pc = "pinned"]
                  ELSE IF resume /\ "planned" \in done THEN Onward(p, done)
                  ELSE [p EXCEPT !.pc = "plan"])
        /\ byHand' = IF to = None THEN byHand \union {target} ELSE byHand
        /\ UNCHANGED <<repo, evidence, progress, artifact, install, backups, clean,
                       verified, served>>

\* The pin is already the target: taken as prepared.
Pinned ==
    /\ proc.pc = "pinned"
    /\ WriteState(proc.target, "prepared")
    /\ IF proc.apply THEN proc' = [proc EXCEPT !.pc = "apply"] /\ UNCHANGED ready
       ELSE proc' = Idle /\ ready' = proc.target
    /\ UNCHANGED <<repo, evidence, artifact, install, backups, started, clean, verified,
                   byHand, served>>

Plan ==
    /\ proc.pc = "plan"
    /\ WriteState(proc.target, "planned")
    /\ proc' = Onward(proc, proc.done \union {"planned"})
    /\ UNCHANGED <<repo, evidence, artifact, install, backups, started, ready, clean,
                   verified, byHand, served>>

\* Every stage is behind it.
Ready ==
    /\ proc.pc = "ready"
    /\ IF proc.apply THEN proc' = [proc EXCEPT !.pc = "apply"] /\ UNCHANGED ready
       ELSE proc' = Idle /\ ready' = proc.target
    /\ UNCHANGED <<repo, evidence, progress, artifact, install, backups, started, clean,
                   verified, byHand, served>>

-----------------------------------------------------------------------------
(* The canary.                                                             *)

BeginCanary(v) ==
    /\ "canary" \in Commands
    /\ Starts([Idle EXCEPT !.cmd = "canary", !.pc = "install", !.inner = v])
    /\ UNCHANGED <<repo, evidence, progress, artifact, install, backups, clean, verified,
                   byHand, served>>

\* npm installs the candidate into its prefix, and the gates' directory is made.
Install ==
    /\ proc.pc = "install"
    /\ \E ok \in BOOLEAN :
          /\ evidence' = [evidence EXCEPT ![proc.inner].prefix = TRUE,
                                          ![proc.inner].dir = @ \/ ok]
          /\ proc' = IF ok THEN [proc EXCEPT !.pc = "gate", !.gate = 1] ELSE Idle
    /\ UNCHANGED <<repo, progress, artifact, install, backups, started, ready, clean,
                   verified, byHand, served>>

\* C1 wants the installed version to be the pinned one.
DefaultIsPinned == install.live = Pin

\* One C gate writes its file; the first that fails ends the canary.
Gate ==
    /\ proc.pc = "gate"
    /\ \E ok \in BOOLEAN :
          /\ ok /\ GateOrder[proc.gate] = "C1" => DefaultIsPinned
          /\ evidence' = [evidence EXCEPT ![proc.inner].gates[GateOrder[proc.gate]] =
                              IF ok THEN "PASS" ELSE "FAIL"]
          /\ proc' = IF ~ok THEN Idle
                     ELSE IF proc.gate < Len(GateOrder)
                     THEN [proc EXCEPT !.gate = @ + 1]
                     ELSE [proc EXCEPT !.pc = "migration", !.gate = 0]
    /\ UNCHANGED <<repo, progress, artifact, install, backups, started, ready, clean,
                   verified, byHand, served>>

\* The migration rehearsal writes what it left behind, unless it timed out; its
\* verdict is about the rest of the rehearsal.
Migration ==
    /\ proc.pc = "migration"
    /\ \E residual \in {"zero", "some", "unknown"}, ok \in BOOLEAN :
          /\ ok => residual # "unknown"
          /\ evidence' = [evidence EXCEPT ![proc.inner].residual = residual]
          /\ proc' = IF ok THEN [proc EXCEPT !.pc = "plugins"] ELSE Idle
    /\ UNCHANGED <<repo, progress, artifact, install, backups, started, ready, clean,
                   verified, byHand, served>>

\* Plugin compatibility and the TUI smoke, whose files nothing reads again.
Plugins ==
    /\ proc.pc = "plugins"
    /\ \/ /\ clean' = clean \union {proc.inner}
          /\ WriteState(proc.inner, "canaried")
          /\ proc' = Onward(proc, proc.done \union {"canaried"})
       \/ /\ proc' = Idle
          /\ UNCHANGED <<progress, clean>>
    /\ UNCHANGED <<repo, evidence, artifact, install, backups, started, ready, verified,
                   byHand, served>>

-----------------------------------------------------------------------------
(* Prepare.  The adapter with VERSION_PIN is the first file it writes.     *)

BeginPrepare(v, pending) ==
    /\ "prepare" \in Commands
    /\ Starts([Idle EXCEPT !.cmd = "prepare", !.pc = "adapter", !.inner = v,
                           !.pending = pending])
    /\ byHand' = byHand \union {v}
    /\ UNCHANGED <<repo, evidence, progress, artifact, install, backups, clean, verified,
                   served>>

\* One group of files names the new version.
Writes(group, next) ==
    /\ proc.pc = group
    /\ seams' = [seams EXCEPT ![group] = proc.inner]
    /\ proc' = [proc EXCEPT !.pc = next]
    /\ UNCHANGED <<amended, evidence, progress, artifact, install, backups, started,
                   ready, clean, verified, byHand, served>>

PinAdapter   == Writes("adapter", "docs")
PinDocs      == Writes("docs", "packages")
PinPackages  == Writes("packages", "locks")
LockPackages == Writes("locks", "amend")

\* npm fails for one of the plugins: the lockfiles before it are written.
LockFails ==
    /\ proc.pc = "locks"
    /\ \E lock \in {seams.locks, None} : seams' = [seams EXCEPT !.locks = lock]
    /\ proc' = Idle
    /\ UNCHANGED <<amended, evidence, progress, artifact, install, backups, started,
                   ready, clean, verified, byHand, served>>

\* The amendments with one for v, unless the file has one already.
Amended(v) ==
    IF \E i \in DOMAIN amended : amended[i] = v THEN amended ELSE Append(amended, v)

\* Without a directory of evidence prepare goes no further, the seams being written.
Amend ==
    /\ proc.pc = "amend"
    /\ IF evidence[proc.inner].dir \/ proc.pending
       THEN /\ amended' = Amended(proc.inner)
            /\ proc' = [proc EXCEPT !.pc = "seams"]
       ELSE proc' = Idle /\ UNCHANGED amended
    /\ UNCHANGED <<seams, evidence, progress, artifact, install, backups, started,
                   ready, clean, verified, byHand, served>>

Prepared ==
    /\ proc.pc = "seams"
    /\ IF SeamsAt(proc.inner)
       THEN /\ WriteState(proc.inner, "prepared")
            /\ proc' = Onward(proc, proc.done \union {"canaried", "prepared"})
       ELSE proc' = Idle /\ UNCHANGED progress
    /\ UNCHANGED <<repo, evidence, artifact, install, backups, started, ready, clean,
                   verified, byHand, served>>

-----------------------------------------------------------------------------
(* Apply: back up, run the official upgrade, look at what came of it.      *)

\* --drain-acknowledged is given and nothing of OpenCode runs.
Apply_BackupWithGate ==
    /\ proc.pc = "apply"
    /\ IF proc.skip \/ SummaryOK(proc.target)
       THEN /\ backups' = IF proc.skip THEN backups ELSE backups \union {install.schema}
            /\ proc' = [proc EXCEPT !.pc = "switch"]
       ELSE proc' = Idle /\ UNCHANGED backups
    /\ UNCHANGED <<repo, evidence, progress, artifact, install, started, ready, clean,
                   verified, byHand, served>>

Apply ==
    /\ proc.pc = "apply"
    /\ IF proc.skip \/ SummaryOK(proc.target)
       THEN /\ backups' = backups \union {install.schema}
            /\ proc' = [proc EXCEPT !.pc = "switch"]
       ELSE proc' = Idle /\ UNCHANGED backups
    /\ UNCHANGED <<repo, evidence, progress, artifact, install, started, ready, clean,
                   verified, byHand, served>>

\* `opencode upgrade' may fail before or after it has replaced the binary.
Switch ==
    /\ proc.pc = "switch"
    /\ \E live \in {install.live, proc.target}, ok \in BOOLEAN :
          /\ install' = [install EXCEPT !.live = live]
          /\ proc' = IF ok THEN [proc EXCEPT !.pc = "smoke"] ELSE Idle
    /\ UNCHANGED <<repo, evidence, progress, artifact, backups, started, ready, clean,
                   verified, byHand, served>>

\* The smoke starts the installed version, which brings the database to its
\* schema, and passes only on the target version; its results go to the artifact.
Smoke ==
    /\ proc.pc = "smoke"
    /\ install' = [install EXCEPT !.schema = MaxOf(@, install.live)]
    /\ \E ok \in BOOLEAN :
          /\ ok => install.live = proc.target
          /\ artifact' = [artifact EXCEPT ![proc.target] = IF ok THEN "ok" ELSE "failed"]
          /\ verified' = IF ok THEN verified \union {proc.target} ELSE verified
          /\ served' = IF ok THEN served \union {install'.schema} ELSE served
          /\ proc' = [proc EXCEPT !.pc = IF ok THEN "passed" ELSE "failed"]
    /\ UNCHANGED <<repo, evidence, progress, backups, started, ready, clean, byHand>>

Passed ==
    /\ proc.pc = "passed"
    /\ WriteState(proc.target, "applied")
    /\ proc' = Idle
    /\ UNCHANGED <<repo, evidence, artifact, install, backups, started, ready, clean,
                   verified, byHand, served>>

\* A failed smoke is reported as rolled back; the rollback is left to the owner.
Failed ==
    /\ proc.pc = "failed"
    /\ artifact' = [artifact EXCEPT ![proc.target] = "rolledBack"]
    /\ proc' = [proc EXCEPT !.pc = "reported"]
    /\ UNCHANGED <<repo, evidence, progress, install, backups, started, ready, clean,
                   verified, byHand, served>>

RolledBack ==
    /\ proc.pc = "reported"
    /\ WriteState(proc.target, "rolled-back")
    /\ proc' = Idle
    /\ UNCHANGED <<repo, evidence, artifact, install, backups, started, ready, clean,
                   verified, byHand, served>>

-----------------------------------------------------------------------------
(* Prune, the owner, and what can befall a command.                        *)

\* `prune --keep 1': of the versions with scratch directories the newest stays,
\* and the pinned one.
Prune ==
    LET present == {v \in Versions : evidence[v].prefix \/ evidence[v].dir}
        newest  == {v \in present : \A w \in present : w <= v}
    IN  /\ "prune" \in Commands
        /\ proc.pc = "idle" /\ started < MaxCommands
        /\ started' = started + 1 /\ ready' = None
        /\ evidence' = [v \in Versions |->
               IF v \in newest \union {Pin} THEN evidence[v] ELSE NoEvidence]
        /\ UNCHANGED <<repo, progress, artifact, install, backups, proc, clean, verified,
                       byHand, served>>

\* Somebody starts the installed OpenCode.
Opens ==
    /\ install.schema < install.live
    /\ install' = [install EXCEPT !.schema = install.live]
    /\ UNCHANGED <<repo, evidence, progress, artifact, backups, proc, started, ready,
                   clean, verified, byHand, served>>

\* The rollback the documentation describes: an older version together with a
\* database from before the newer one.
RestorePrevious ==
    /\ proc.pc = "idle"
    /\ \E v \in {0} \union verified, schema \in backups :
          /\ v < install.live /\ schema <= v
          /\ install' = [live |-> v, schema |-> schema]
          /\ served' = {old \in served : old <= schema}
    /\ UNCHANGED <<repo, evidence, progress, artifact, backups, proc, started, ready,
                   clean, verified, byHand>>

\* The command is killed, or returns because something it asks of its environment
\* fails: a registry, npm, a process that still runs.  Killed while it writes the
\* stage file it leaves a file that is no longer JSON.
WritesProgress == {"pinned", "plan", "plugins", "seams", "passed", "reported"}

CrashCommand ==
    /\ proc.pc # "idle"
    /\ proc' = Idle
    /\ progress' \in {progress} \union
                     (IF proc.pc \in WritesProgress THEN {NoProgress} ELSE {})
    /\ UNCHANGED <<repo, evidence, artifact, install, backups, started, ready, clean,
                   verified, byHand, served>>

BeginCommand ==
    \/ \E to \in Versions \union {None}, apply, skip, pending, resume, force \in BOOLEAN :
          /\ skip => apply
          /\ BeginUpgrade(to, apply, skip, pending, resume, force)
    \/ \E v \in Versions : BeginCanary(v)
    \/ \E v \in Versions, pending \in BOOLEAN : BeginPrepare(v, pending)
    \/ Prune

Step ==
    \/ Pinned \/ Plan \/ Ready
    \/ Install \/ Gate \/ Migration \/ Plugins
    \/ PinAdapter \/ PinDocs \/ PinPackages \/ LockPackages \/ LockFails
    \/ Amend \/ Prepared
    \/ Apply \/ Switch \/ Smoke \/ Passed \/ Failed \/ RolledBack

Next == BeginCommand \/ Step \/ CrashCommand \/ Opens \/ RestorePrevious

Spec == Init /\ [][Next]_vars

-----------------------------------------------------------------------------
(* Properties.                                                             *)

EvidenceType == [prefix : BOOLEAN, dir : BOOLEAN,
                 gates : [Gates -> {"MISSING", "PASS", "FAIL"}],
                 residual : {"unknown", "zero", "some"}]

\* Every part of the state has its type; the files on disk name versions, and
\* only the lockfiles can be left naming several.
UpgradeTypeOK ==
    /\ seams \in [adapter : Versions, docs : Versions, packages : Versions,
                  locks : Versions \union {None}]
    /\ amended \in Seq(Versions)
    /\ evidence \in [Versions -> EvidenceType]
    /\ progress \in [target : Versions \union {None},
                     stage : Stages \union {"none"}, stages : SUBSET Stages]
    /\ artifact \in [Versions -> {"none", "ok", "failed", "rolledBack"}]
    /\ install \in [live : Versions, schema : Versions]
    /\ backups \subseteq Versions
    /\ proc \in ProcType
    /\ started \in 0 .. MaxCommands /\ ready \in Versions \union {None}
    /\ clean \subseteq Versions /\ verified \subseteq Versions
    /\ byHand \subseteq Versions /\ served \subseteq Versions

\* The stage file says of a version only what that version has been through:
\* "canaried" that one whole canary of it passed, "applied" that its post-upgrade
\* smoke did.  Stages are looked at by commands that did not record them, after
\* kills, torn writes and commands for other versions (write_state, upgrade).
StagesAreEarned ==
    /\ "canaried" \in progress.stages => progress.target \in clean
    /\ "applied" \in progress.stages => progress.target \in verified

\* However commands fail and are started again, only a version that a whole canary
\* has passed is ever pinned or installed, unless the owner has gone around the
\* pipeline for it with `prepare' or an `upgrade' without --to.
NothingUntested == {Pin, install.live} \subseteq clean \union byHand

\* The database can always be brought back to what it was when an upgrade was last
\* found good: a schema on which a smoke has passed and that has since been migrated
\* is in a backup (pre_upgrade_backup), even when upgrades were killed, failed half
\* way, were tried again, or somebody started OpenCode between two of their steps.
NeverWithoutWayBack == \A schema \in served : schema < install.schema => schema \in backups

\* A re-run never takes the recorded stage of a version back to an earlier one
\* (write_state: "never regress applied -> canaried on a re-run").
StageNeverRegresses ==
    [][/\ progress'.target = progress.target
       /\ {progress.stage, progress'.stage} \subseteq Ordered
       => Rank[progress.stage] <= Rank[progress'.stage]]_vars

\* The claim of completed_stages, "a later recorded stage implies every earlier
\* stage completed", for the last stage before the switch: when a version becomes
\* recorded as prepared, every seam of the repository names it.
PreparedIsTrue ==
    [][progress'.stage = "prepared" /\ progress' # progress
       => SeamsAt(progress'.target)]_vars

\* When `upgrade' tells the owner to switch to a version, the repository is
\* pinned to that version.
ReadyIsPinned == ready # None => Pin = ready
=============================================================================
