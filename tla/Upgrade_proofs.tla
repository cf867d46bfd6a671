---------------------------- MODULE Upgrade_proofs ----------------------------
(***************************************************************************)
(* Theorems about Upgrade, for any versions, gates, commands and number of *)
(* commands: what the stage file says is earned, nothing untested is       *)
(* pinned or installed, the database has a way back, and the recorded      *)
(* stage does not regress; about Canary, for any sessions and commands:    *)
(* passed gates have rehearsed the way back; and about Cutover, for any    *)
(* contents: what is merged was checked.                                   *)
(***************************************************************************)
EXTENDS Upgrade, Canary, Cutover, SequenceTheorems, TLAPS

ProgressType == [target : Versions \union {None}, stage : Stages \union {"none"},
                 stages : SUBSET Stages]

\* The steps of a command that only `upgrade' takes, the ones that prepare takes,
\* and the ones of the canary.
UpgradePcs == {"pinned", "plan", "ready", "apply", "switch", "smoke", "passed", "failed",
               "reported"}
PreparePcs == {"adapter", "docs", "packages", "locks", "amend", "seams"}
CanaryPcs  == {"install", "gate", "migration", "plugins"}
UpgradeCmd == {"upgrade", "bare"}

\* A running command knows the versions it works on, and takes only the steps
\* of its kind.
CommandOK ==
    /\ proc.pc # "idle" => proc.inner \in Versions
    /\ proc.cmd \in UpgradeCmd => proc.target \in Versions
    /\ proc.pc \in UpgradePcs => proc.cmd \in UpgradeCmd
    /\ proc.pc \in PreparePcs => proc.cmd \in UpgradeCmd \union {"prepare"}
    /\ proc.pc \in CanaryPcs => proc.cmd \in UpgradeCmd \union {"canary"}

TypeInv == UpgradeTypeOK /\ CommandOK

Vetted == clean \union byHand
Later  == {"canaried", "prepared", "applied"}

\* The stage file is honest: the stage is one of the stages, and a version past
\* its canary is vetted.
ProgressEarned ==
    /\ progress.stage \in progress.stages \union {"none"}
    /\ progress.stages \intersect Later # {} => progress.target \in Vetted
    /\ "canaried" \in progress.stages => progress.target \in clean
    /\ "applied" \in progress.stages => progress.target \in verified

\* So is what a running command goes by.
ProcEarned ==
    /\ proc.cmd = "bare" => {proc.target, proc.inner} \subseteq Vetted
    /\ proc.cmd = "prepare" => proc.inner \in Vetted
    /\ proc.cmd = "upgrade" =>
          /\ proc.inner = proc.target
          /\ \/ proc.done \intersect Later # {}
             \/ proc.pc \in PreparePcs \union (UpgradePcs \ {"plan"})
             => proc.target \in Vetted
    /\ proc.pc = "passed" => proc.target \in verified

EarnedInv ==
    /\ UpgradeTypeOK /\ CommandOK
    /\ ProgressEarned /\ ProcEarned
    /\ {Pin, install.live} \union verified \union {0} \subseteq Vetted

\* No smoke has passed on a schema above the database's; the installed version
\* migrates the database away only from a schema that is in a backup or that no
\* smoke has passed on, and so will the version about to be installed.
BackupInv ==
    /\ UpgradeTypeOK
    /\ NeverWithoutWayBack
    /\ \A schema \in served : schema <= install.schema
    /\ install.live > install.schema \/ proc.pc = "switch" =>
          install.schema \in backups \/ install.schema \notin served

-----------------------------------------------------------------------------
(* What the helpers return.                                                *)

\* The version everything starts at is a version, and "no version" is none.
LEMMA VersionFacts ==
    ASSUME UpgradeAssumption
    PROVE  /\ 0 \in Versions /\ None \notin Versions /\ MaxVersion \in Versions
           /\ \A v \in Versions : v \in Int /\ 0 <= v
  BY SMT DEF UpgradeAssumption, Versions, None

\* A process that does nothing is a typed process.
LEMMA IdleTyped == Idle \in ProcType
  BY DEF Idle, ProcType

\* Going on to another step keeps a process typed and what it works on.
LEMMA StepTyped ==
    ASSUME NEW p \in ProcType,
           NEW c \in {"idle"} \union UpgradePcs \union PreparePcs \union CanaryPcs
    PROVE  [p EXCEPT !.pc = c] \in ProcType
  BY DEF ProcType, UpgradePcs, PreparePcs, CanaryPcs

\* So does going on to the next stage, which leaves a command of another kind idle.
LEMMA OnwardTyped ==
    ASSUME NEW p \in ProcType, NEW d \in SUBSET Stages
    PROVE  /\ Onward(p, d) \in ProcType
           /\ p.cmd \notin UpgradeCmd => Onward(p, d) = Idle
           /\ p.cmd \in UpgradeCmd =>
                /\ Onward(p, d).pc \in {"install", "adapter", "ready"}
                /\ Onward(p, d).pc # "install" => "canaried" \in d
                /\ Onward(p, d).cmd = p.cmd /\ Onward(p, d).target = p.target
                /\ Onward(p, d).inner = p.inner /\ Onward(p, d).done = d
  <1>1. CASE p.cmd \notin UpgradeCmd
    BY <1>1, IdleTyped DEF Onward, UpgradeCmd
  <1>2. CASE p.cmd \in UpgradeCmd
    <2>1. PICK c \in {"install", "adapter", "ready"} :
              /\ Onward(p, d) = [p EXCEPT !.done = d, !.gate = 0, !.pc = c]
              /\ c # "install" => "canaried" \in d
      BY <1>2 DEF Onward, UpgradeCmd
    <2>. DEFINE q == [p EXCEPT !.done = d, !.gate = 0, !.pc = c]
    <2>2. /\ q \in ProcType /\ q.pc = c /\ q.cmd = p.cmd /\ q.target = p.target
          /\ q.inner = p.inner /\ q.done = d
      <3>1. /\ q.pc = c /\ q.cmd = p.cmd /\ q.target = p.target
            /\ q.inner = p.inner /\ q.done = d
        BY DEF ProcType
      <3>2. q \in ProcType
        BY DEF ProcType
      <3>. QED  BY <3>1, <3>2
    <2>. QED  BY <1>2, <2>1, <2>2
  <1>. QED  BY <1>1, <1>2

\* What a write of the stage file leaves in it: a typed record for that target,
\* the stage among its stages, and no stage that is not the one recorded or one
\* the target had already.
LEMMA WriteStateFacts ==
    ASSUME progress \in ProgressType, progress.stage \in progress.stages \union {"none"},
           NEW t \in Versions, NEW s \in Stages, WriteState(t, s), UpgradeAssumption
    PROVE  /\ progress' \in ProgressType
           /\ progress'.target = t
           /\ progress'.stage \in progress'.stages
           /\ \A x \in progress'.stages :
                 x = s \/ (progress.target = t /\ x \in progress.stages)
  <1>. DEFINE old == Fresh(progress, t)
              kept == Kept(old, s)
  <1>1. /\ old \in ProgressType /\ old.target = t
        /\ old.stage \in old.stages \union {"none"}
        /\ \A x \in old.stages : progress.target = t /\ x \in progress.stages
    <2>1. CASE progress.target = t
      BY <2>1 DEF Fresh
    <2>2. CASE progress.target # t
      <3>1. old = [target |-> t, stage |-> "none", stages |-> {}]
        BY <2>2 DEF Fresh
      <3>. QED  BY <3>1, SMT DEF ProgressType
    <2>. QED  BY <2>1, <2>2
  <1>2. kept \in Stages /\ (kept = s \/ kept \in old.stages)
    BY <1>1 DEF Kept, Ordered, Stages
  <1>3. progress' = [old EXCEPT !.stage = kept, !.stages = @ \union {kept}]
    BY DEF WriteState
  <1>. HIDE DEF old, kept
  <1>4. /\ progress'.target = t /\ progress'.stage = kept
        /\ progress'.stages = old.stages \union {kept}
        /\ progress' \in ProgressType
    <2>1. /\ progress'.target = t /\ progress'.stage = kept
          /\ progress'.stages = old.stages \union {kept}
      BY <1>1, <1>3 DEF ProgressType
    <2>2. progress' \in ProgressType
      BY <1>1, <1>2, <1>3 DEF ProgressType
    <2>. QED  BY <2>1, <2>2
  <1>. QED  BY <1>1, <1>2, <1>4

\* The stages a file stands for are stages.
LEMMA CompletedTyped ==
    ASSUME progress \in ProgressType
    PROVE  /\ Completed(progress) \in SUBSET Stages
           /\ Completed(progress) \intersect Later # {} => progress.stages \intersect Later # {}
  <1>1. Completed(progress) \in SUBSET Stages
    BY DEF Completed, ProgressType, Stages
  <1>2. ASSUME NEW x \in Completed(progress) \intersect Later
        PROVE  progress.stages \intersect Later # {}
    <2>1. CASE x \in progress.stages
      BY <2>1, <1>2
    <2>2. CASE x \notin progress.stages
      <3>1. PICK y \in progress.stages \intersect Ordered : Rank[x] <= Rank[y]
        BY <1>2, <2>2 DEF Completed
      <3>2. Rank[x] >= 3
        BY <1>2, SMT DEF Later, Rank
      <3>3. y \in Later
        BY <3>1, <3>2, SMT DEF Later, Rank, Ordered
      <3>. QED  BY <3>1, <3>3
    <2>. QED  BY <2>1, <2>2
  <1>. QED  BY <1>1, <1>2

-----------------------------------------------------------------------------
(* Type correctness.                                                       *)

\* A command that starts is typed when its process is.
LEMMA StartedTyped ==
    ASSUME NEW p \in ProcType, Starts(p), started \in 0 .. MaxCommands, UpgradeAssumption
    PROVE  /\ proc' = p /\ proc' \in ProcType
           /\ started' \in 0 .. MaxCommands /\ ready' \in Versions \union {None}
  BY SMT DEF Starts, UpgradeAssumption

\* The version `upgrade' settles on, and the stages the file says it has passed.
TargetOf(to)  == IF to = None THEN MaxVersion ELSE to
RecordedFor(v) == IF progress.target = v THEN Completed(progress) ELSE {}

\* `upgrade' starts with the stages that the file records for its target, and goes
\* past the canary only when they say so or when the pin is the target.
LEMMA BegunUpgrade ==
    ASSUME TypeInv, UpgradeAssumption,
           NEW to \in Versions \union {None}, NEW apply \in BOOLEAN, NEW skip \in BOOLEAN,
           NEW pending \in BOOLEAN, NEW resume \in BOOLEAN, NEW force \in BOOLEAN,
           BeginUpgrade(to, apply, skip, pending, resume, force)
    PROVE  /\ Starts(proc') /\ proc' \in ProcType
           /\ byHand' = IF to = None THEN byHand \union {TargetOf(to)} ELSE byHand
           /\ UNCHANGED <<repo, evidence, progress, artifact, install, backups, clean,
                          verified, served>>
           /\ TargetOf(to) \in Versions /\ Inner(to) \in Versions
           /\ RecordedFor(TargetOf(to)) \in SUBSET Stages
           /\ proc'.cmd = IF to = None THEN "bare" ELSE "upgrade"
           /\ proc'.target = TargetOf(to) /\ proc'.inner = Inner(to)
           /\ proc'.done = RecordedFor(TargetOf(to))
           /\ \/ proc'.pc = "pinned" /\ TargetOf(to) = Pin
              \/ proc'.pc \in {"plan", "install"}
              \/ proc'.pc \in {"adapter", "ready"} /\ "canaried" \in RecordedFor(TargetOf(to))
  <1>. USE VersionFacts DEF TypeInv
  <1>. DEFINE target == TargetOf(to)
              done   == RecordedFor(target)
              cmd    == IF to = None THEN "bare" ELSE "upgrade"
              pinned == target = Pin /\ ~force
              p      == [Idle EXCEPT !.cmd = cmd, !.target = target, !.done = done,
                                     !.inner = Inner(to),
                                     !.apply = apply, !.skip = skip, !.pending = pending]
              q      == IF pinned THEN [p EXCEPT !.pc = "pinned"]
                        ELSE IF resume /\ "planned" \in done THEN Onward(p, done)
                        ELSE [p EXCEPT !.pc = "plan"]
  <1>1. /\ cmd \in UpgradeCmd /\ target \in Versions /\ Inner(to) \in Versions
        /\ done \in SUBSET Stages
    <2>1. done \in SUBSET Stages
      BY CompletedTyped DEF RecordedFor, UpgradeTypeOK, ProgressType
    <2>2. Inner(to) \in Versions
      BY DEF Inner, Pin, UpgradeTypeOK
    <2>. QED  BY <2>1, <2>2 DEF UpgradeCmd, TargetOf
  <1>2. /\ Starts(q)
        /\ byHand' = IF to = None THEN byHand \union {target} ELSE byHand
        /\ UNCHANGED <<repo, evidence, progress, artifact, install, backups, clean,
                       verified, served>>
    BY DEF BeginUpgrade, TargetOf, RecordedFor
  <1>3. Starts(q) => Starts(proc') /\ proc' = q
    BY DEF Starts
  <1>4. pinned => target = Pin
    OBVIOUS
  <1>5. /\ p \in ProcType /\ p.cmd = cmd /\ p.target = target /\ p.inner = Inner(to)
        /\ p.done = done
    <2>. HIDE DEF cmd, target, done
    <2>1. cmd \in CommandKinds
      BY <1>1 DEF UpgradeCmd, CommandKinds
    <2>. QED  BY <1>1, <2>1 DEF Idle, ProcType
  <1>. HIDE DEF cmd, target, done, pinned, p
  <1>6. /\ q \in ProcType /\ q.cmd = cmd /\ q.target = target /\ q.inner = Inner(to)
        /\ q.done = done
        /\ \/ q.pc = "pinned" /\ pinned
           \/ q.pc \in {"plan", "install"}
           \/ q.pc \in {"adapter", "ready"} /\ "canaried" \in done
    <2>1. CASE (q = [p EXCEPT !.pc = "pinned"] /\ pinned) \/ q = [p EXCEPT !.pc = "plan"]
      BY <1>5, <2>1, StepTyped DEF ProcType, UpgradePcs
    <2>2. CASE q = Onward(p, done)
      BY <1>1, <1>5, <2>2, OnwardTyped
    <2>. QED  BY <2>1, <2>2
  <1>. HIDE DEF q
  <1>. QED  BY <1>1, <1>2, <1>3, <1>4, <1>6 DEF cmd, target, done

\* The stage file, the installation and its backups are not touched by a command
\* that starts, and none starts in the middle of the switch.
LEMMA BeginLeaves ==
    ASSUME TypeInv, BeginCommand, UpgradeAssumption
    PROVE  /\ UNCHANGED <<repo, progress, install, backups, served, clean, verified>>
           /\ byHand \subseteq byHand' /\ proc'.pc # "switch"
  <1>1. CASE \E v \in Versions : BeginCanary(v)
    BY <1>1 DEF BeginCanary, Starts, Idle
  <1>2. CASE \E v \in Versions, pending \in BOOLEAN : BeginPrepare(v, pending)
    BY <1>2 DEF BeginPrepare, Starts, Idle
  <1>3. CASE Prune
    BY <1>3 DEF Prune
  <1>4. ASSUME NEW to \in Versions \union {None}, NEW apply \in BOOLEAN, NEW skip \in BOOLEAN,
               NEW pending \in BOOLEAN, NEW resume \in BOOLEAN, NEW force \in BOOLEAN,
               BeginUpgrade(to, apply, skip, pending, resume, force)
        PROVE  /\ UNCHANGED <<repo, progress, install, backups, served, clean, verified>>
               /\ byHand \subseteq byHand' /\ proc'.pc # "switch"
    <2>. DEFINE target == TargetOf(to)
                done   == RecordedFor(target)
    <2>1. /\ UNCHANGED <<repo, progress, install, backups, served, clean, verified>>
          /\ byHand' = IF to = None THEN byHand \union {target} ELSE byHand
          /\ proc'.pc \in {"pinned", "plan", "install", "adapter", "ready"}
      <3>1. UNCHANGED <<repo, progress, install, backups, served, clean, verified>>
        BY <1>4, BegunUpgrade
      <3>2. byHand' = IF to = None THEN byHand \union {target} ELSE byHand
        BY <1>4, BegunUpgrade
      <3>3. proc'.pc \in {"pinned", "plan", "install", "adapter", "ready"}
        BY <1>4, BegunUpgrade
      <3>. QED  BY <3>1, <3>2, <3>3
    <2>. QED  BY <2>1
  <1>. QED  BY <1>1, <1>2, <1>3, <1>4 DEF BeginCommand

\* Starting a command, or pruning, keeps the types.
LEMMA BeginTyped ==
    ASSUME TypeInv, BeginCommand, UpgradeAssumption
    PROVE  TypeInv'
  <1>. USE VersionFacts DEF TypeInv
  <1>1. ASSUME NEW to \in Versions \union {None}, NEW apply \in BOOLEAN, NEW skip \in BOOLEAN,
               NEW pending \in BOOLEAN, NEW resume \in BOOLEAN, NEW force \in BOOLEAN,
               BeginUpgrade(to, apply, skip, pending, resume, force)
        PROVE  TypeInv'
    <2>. DEFINE target == TargetOf(to)
                done   == RecordedFor(target)
    <2>1. /\ Starts(proc') /\ proc' \in ProcType
          /\ byHand' = IF to = None THEN byHand \union {target} ELSE byHand
          /\ UNCHANGED <<repo, evidence, progress, artifact, install, backups, clean,
                         verified, served>>
          /\ target \in Versions /\ proc'.target = target /\ proc'.inner \in Versions
          /\ proc'.cmd \in UpgradeCmd
          /\ proc'.pc \in {"pinned", "plan", "install", "adapter", "ready"}
      <3>1. /\ proc'.cmd = IF to = None THEN "bare" ELSE "upgrade"
            /\ proc'.inner = Inner(to) /\ Inner(to) \in Versions
            /\ Starts(proc') /\ proc' \in ProcType
            /\ proc'.target = target /\ target \in Versions
            /\ \/ proc'.pc = "pinned" /\ target = Pin
               \/ proc'.pc \in {"plan", "install"}
               \/ proc'.pc \in {"adapter", "ready"} /\ "canaried" \in done
        BY <1>1, BegunUpgrade
      <3>2. /\ byHand' = IF to = None THEN byHand \union {target} ELSE byHand
            /\ UNCHANGED <<repo, evidence, progress, artifact, install, backups, clean,
                           verified, served>>
        BY <1>1 DEF BeginUpgrade, TargetOf
      <3>3. /\ proc'.cmd \in UpgradeCmd
            /\ proc'.pc \in {"pinned", "plan", "install", "adapter", "ready"}
        BY <3>1 DEF UpgradeCmd
      <3>. QED  BY <3>1, <3>2, <3>3
    <2>. HIDE DEF target, done
    <2>2. UpgradeTypeOK'
      BY <2>1, StartedTyped DEF UpgradeTypeOK, repo
    <2>3. CommandOK'
      BY <2>1 DEF CommandOK, UpgradePcs, PreparePcs, CanaryPcs, UpgradeCmd
    <2>. QED  BY <2>2, <2>3
  <1>2. ASSUME NEW v \in Versions, BeginCanary(v)
        PROVE  TypeInv'
    <2>. DEFINE p == [Idle EXCEPT !.cmd = "canary", !.pc = "install", !.inner = v]
    <2>1. p \in ProcType /\ p.cmd = "canary" /\ p.pc = "install" /\ p.inner = v
      BY DEF Idle, ProcType, CommandKinds
    <2>2. /\ Starts(p)
          /\ UNCHANGED <<repo, evidence, progress, artifact, install, backups, clean,
                         verified, byHand, served>>
      BY <1>2 DEF BeginCanary
    <2>. HIDE DEF p
    <2>. QED  BY <2>1, <2>2, StartedTyped
              DEF UpgradeTypeOK, CommandOK, repo, UpgradePcs, PreparePcs, CanaryPcs, UpgradeCmd
  <1>3. ASSUME NEW v \in Versions, NEW pending \in BOOLEAN, BeginPrepare(v, pending)
        PROVE  TypeInv'
    <2>. DEFINE p == [Idle EXCEPT !.cmd = "prepare", !.pc = "adapter", !.inner = v,
                                  !.pending = pending]
    <2>1. p \in ProcType /\ p.cmd = "prepare" /\ p.pc = "adapter" /\ p.inner = v
      BY DEF Idle, ProcType, CommandKinds
    <2>2. /\ Starts(p) /\ byHand' = byHand \union {v}
          /\ UNCHANGED <<repo, evidence, progress, artifact, install, backups, clean,
                         verified, served>>
      BY <1>3 DEF BeginPrepare
    <2>. HIDE DEF p
    <2>. QED  BY <2>1, <2>2, StartedTyped
              DEF UpgradeTypeOK, CommandOK, repo, UpgradePcs, PreparePcs, CanaryPcs, UpgradeCmd
  <1>4. ASSUME Prune
        PROVE  TypeInv'
    <2>1. evidence' \in [Versions -> EvidenceType]
      BY <1>4 DEF Prune, UpgradeTypeOK, EvidenceType, NoEvidence
    <2>2. started' \in 0 .. MaxCommands
      BY <1>4, SMT DEF Prune, UpgradeTypeOK, UpgradeAssumption
    <2>. QED  BY <1>4, <2>1, <2>2 DEF Prune, UpgradeTypeOK, CommandOK, repo
  <1>. QED  BY <1>1, <1>2, <1>3, <1>4 DEF BeginCommand

\* A command that ends leaves a typed process behind.
LEMMA EndedTyped ==
    ASSUME TypeInv, proc' = Idle
    PROVE  proc' \in ProcType /\ CommandOK'
  BY IdleTyped DEF Idle, CommandOK, UpgradePcs, PreparePcs, CanaryPcs, UpgradeCmd

\* A step of a command to another of the same kind keeps what it works on.
LEMMA MovedTyped ==
    ASSUME TypeInv, proc.pc # "idle",
           NEW c, proc' = [proc EXCEPT !.pc = c],
           \/ c \in UpgradePcs /\ proc.pc \in UpgradePcs
           \/ c \in PreparePcs /\ proc.pc \in PreparePcs
           \/ c \in CanaryPcs /\ proc.pc \in CanaryPcs
    PROVE  proc' \in ProcType /\ CommandOK'
  <1>1. proc \in ProcType
    BY DEF TypeInv, UpgradeTypeOK
  <1>2. /\ proc'.pc = c /\ proc'.cmd = proc.cmd /\ proc'.target = proc.target
        /\ proc'.inner = proc.inner
    BY <1>1 DEF ProcType
  <1>3. proc' \in ProcType
    BY <1>1, StepTyped
  <1>. QED  BY <1>2, <1>3
            DEF TypeInv, CommandOK, UpgradePcs, PreparePcs, CanaryPcs, UpgradeCmd

\* Going on to the next stage does, too.
LEMMA ContinuedTyped ==
    ASSUME TypeInv, proc.pc # "idle", NEW d \in SUBSET Stages, proc' = Onward(proc, d)
    PROVE  proc' \in ProcType /\ CommandOK'
  <1>1. proc \in ProcType
    BY DEF TypeInv, UpgradeTypeOK
  <1>2. CASE proc.cmd \notin UpgradeCmd
    BY <1>1, <1>2, OnwardTyped, EndedTyped
  <1>3. CASE proc.cmd \in UpgradeCmd
    BY <1>1, <1>3, OnwardTyped
       DEF TypeInv, CommandOK, UpgradePcs, PreparePcs, CanaryPcs, UpgradeCmd
  <1>. QED  BY <1>2, <1>3

\* The stages a command takes for passed stay stages when it passes one.
LEMMA DoneTyped ==
    ASSUME TypeInv, NEW d \in SUBSET Stages
    PROVE  proc.done \union d \in SUBSET Stages
  BY DEF TypeInv, UpgradeTypeOK, ProcType

\* A write of the stage file for the version a command works on keeps it typed.
LEMMA WrittenTyped ==
    ASSUME TypeInv, ProgressEarned, NEW t \in Versions, NEW s \in Stages, WriteState(t, s),
           UpgradeAssumption
    PROVE  progress' \in ProgressType
  BY WriteStateFacts DEF TypeInv, UpgradeTypeOK, ProgressType, ProgressEarned

\* Evidence stays evidence when one of its parts is written.
LEMMA EvidenceTyped ==
    ASSUME NEW e \in EvidenceType, NEW b \in BOOLEAN, NEW c \in BOOLEAN, NEW g,
           NEW x \in {"PASS", "FAIL"}, NEW r \in {"unknown", "zero", "some"}
    PROVE  /\ [e EXCEPT !.prefix = b, !.dir = c] \in EvidenceType
           /\ [e EXCEPT !.gates[g] = x] \in EvidenceType
           /\ [e EXCEPT !.residual = r] \in EvidenceType
  BY DEF EvidenceType

\* A step of a running command keeps the types.
LEMMA StepKeepsTypes ==
    ASSUME EarnedInv, Step, UpgradeAssumption
    PROVE  TypeInv'
  <1>. USE VersionFacts
  <1>0. TypeInv /\ ProgressEarned /\ proc \in ProcType
    BY DEF EarnedInv, TypeInv, UpgradeTypeOK
  <1>1. CASE Pinned
    <2>1. proc' \in ProcType /\ CommandOK'
      BY <1>0, <1>1, EndedTyped, MovedTyped DEF Pinned, UpgradePcs, PreparePcs, CanaryPcs, UpgradeCmd
    <2>2. (WriteState(proc.target, "prepared") /\ proc.target \in Versions) \/ UNCHANGED progress
      BY <1>0, <1>1 DEF Pinned, TypeInv, CommandOK, UpgradePcs, PreparePcs, CanaryPcs, UpgradeCmd
    <2>3. progress' \in ProgressType
      BY <1>0, <2>2, WrittenTyped DEF Stages, Ordered, TypeInv, UpgradeTypeOK, ProgressType
    <2>4. UpgradeTypeOK'
      BY <1>0, <1>1, <2>1, <2>3
         DEF Pinned, TypeInv, CommandOK, UpgradeTypeOK, ProgressType, repo, UpgradePcs, PreparePcs, CanaryPcs, UpgradeCmd
    <2>. QED  BY <2>1, <2>4 DEF TypeInv
  <1>2. CASE Plan
    <2>1. proc' \in ProcType /\ CommandOK'
      BY <1>0, <1>2, EndedTyped, ContinuedTyped, DoneTyped
         DEF Plan, Stages, Ordered
    <2>2. (WriteState(proc.target, "planned") /\ proc.target \in Versions) \/ UNCHANGED progress
      BY <1>0, <1>2 DEF Plan, TypeInv, CommandOK, UpgradePcs, PreparePcs, CanaryPcs, UpgradeCmd
    <2>3. progress' \in ProgressType
      BY <1>0, <2>2, WrittenTyped DEF Stages, Ordered, TypeInv, UpgradeTypeOK, ProgressType
    <2>4. UpgradeTypeOK'
      BY <1>0, <1>2, <2>1, <2>3
         DEF Plan, TypeInv, CommandOK, UpgradeTypeOK, ProgressType, repo, UpgradePcs, PreparePcs, CanaryPcs, UpgradeCmd
    <2>. QED  BY <2>1, <2>4 DEF TypeInv
  <1>3. CASE Ready
    <2>1. proc' \in ProcType /\ CommandOK'
      BY <1>0, <1>3, EndedTyped, MovedTyped
         DEF Ready, UpgradePcs, PreparePcs, CanaryPcs, UpgradeCmd
    <2>2. UpgradeTypeOK'
      BY <1>0, <1>3, <2>1
         DEF Ready, TypeInv, CommandOK, UpgradeTypeOK, repo, UpgradePcs, PreparePcs, CanaryPcs, UpgradeCmd
    <2>. QED  BY <2>1, <2>2 DEF TypeInv
  <1>4. CASE Install
    <2>1. PICK ok \in BOOLEAN :
              /\ evidence' = [evidence EXCEPT ![proc.inner].prefix = TRUE,
                                              ![proc.inner].dir = @ \/ ok]
              /\ proc' = IF ok THEN [proc EXCEPT !.pc = "gate", !.gate = 1] ELSE Idle
      BY <1>4 DEF Install
    <2>2. proc' \in ProcType /\ CommandOK'
      <3>1. CASE ok
        <4>1. proc.pc = "install" /\ proc' = [proc EXCEPT !.pc = "gate", !.gate = 1]
          BY <1>4, <2>1, <3>1 DEF Install
        <4>. QED  BY <1>0, <4>1 DEF ProcType, TypeInv, CommandOK, UpgradePcs, PreparePcs, CanaryPcs, UpgradeCmd
      <3>. QED  BY <1>0, <2>1, <3>1, EndedTyped
    <2>3. evidence' \in [Versions -> EvidenceType]
      <3>. DEFINE e(v) == [evidence[v] EXCEPT !.prefix = TRUE, !.dir = evidence[v].dir \/ ok]
      <3>1. \A v \in Versions : evidence[v] \in EvidenceType /\ evidence[v].dir \in BOOLEAN
        BY <1>0 DEF TypeInv, UpgradeTypeOK, EvidenceType
      <3>2. \A v \in Versions : e(v) \in EvidenceType
        BY <3>1, EvidenceTyped
      <3>3. proc.inner \in Versions
        BY <1>0, <1>4 DEF Install, TypeInv, CommandOK
      <3>4. evidence' = [evidence EXCEPT ![proc.inner] = e(proc.inner)]
        BY <1>0, <2>1, <3>1, <3>3 DEF TypeInv, UpgradeTypeOK, EvidenceType
      <3>. HIDE DEF e
      <3>. QED  BY <1>0, <3>2, <3>4 DEF TypeInv, UpgradeTypeOK
    <2>4. UpgradeTypeOK'
      BY <1>0, <1>4, <2>2, <2>3 DEF Install, TypeInv, UpgradeTypeOK, repo
    <2>. QED  BY <2>2, <2>4 DEF TypeInv
  <1>5. CASE Gate
    <2>1. PICK ok \in BOOLEAN :
              /\ evidence' = [evidence EXCEPT ![proc.inner].gates[GateOrder[proc.gate]] =
                                  IF ok THEN "PASS" ELSE "FAIL"]
              /\ proc' = IF ~ok THEN Idle
                         ELSE IF proc.gate < Len(GateOrder)
                         THEN [proc EXCEPT !.gate = @ + 1]
                         ELSE [proc EXCEPT !.pc = "migration", !.gate = 0]
      BY <1>5 DEF Gate
    <2>2. proc' \in ProcType /\ CommandOK'
      <3>1. CASE ok
        <4>1. proc.pc = "gate" /\ proc.gate + 1 \in Nat
          BY <1>0, <1>5, SMT DEF Gate, ProcType
        <4>2. CASE proc' = [proc EXCEPT !.gate = @ + 1]
          BY <1>0, <4>1, <4>2 DEF ProcType, TypeInv, CommandOK, UpgradePcs, PreparePcs, CanaryPcs, UpgradeCmd
        <4>3. CASE proc' = [proc EXCEPT !.pc = "migration", !.gate = 0]
          BY <1>0, <4>1, <4>3 DEF ProcType, TypeInv, CommandOK, UpgradePcs, PreparePcs, CanaryPcs, UpgradeCmd
        <4>. QED  BY <2>1, <3>1, <4>2, <4>3
      <3>. QED  BY <1>0, <2>1, <3>1, EndedTyped
    <2>3. evidence' \in [Versions -> EvidenceType]
      <3>. DEFINE e(v) == [evidence[v] EXCEPT !.gates[GateOrder[proc.gate]] =
                              IF ok THEN "PASS" ELSE "FAIL"]
      <3>1. \A v \in Versions : evidence[v] \in EvidenceType /\ e(v) \in EvidenceType
        BY <1>0, EvidenceTyped DEF TypeInv, UpgradeTypeOK
      <3>2. evidence' = [evidence EXCEPT ![proc.inner] = e(proc.inner)]
        BY <2>1
      <3>. HIDE DEF e
      <3>. QED  BY <1>0, <3>1, <3>2 DEF TypeInv, UpgradeTypeOK
    <2>4. UpgradeTypeOK'
      BY <1>0, <1>5, <2>2, <2>3 DEF Gate, TypeInv, UpgradeTypeOK, repo
    <2>. QED  BY <2>2, <2>4 DEF TypeInv
  <1>6. CASE Migration
    <2>1. proc' \in ProcType /\ CommandOK'
      BY <1>0, <1>6, EndedTyped, MovedTyped DEF Migration, UpgradePcs, PreparePcs, CanaryPcs, UpgradeCmd
    <2>2. evidence' \in [Versions -> EvidenceType]
      <3>1. PICK r \in {"zero", "some", "unknown"} :
                evidence' = [evidence EXCEPT ![proc.inner].residual = r]
        BY <1>6 DEF Migration
      <3>. DEFINE e(v) == [evidence[v] EXCEPT !.residual = r]
      <3>2. \A v \in Versions : e(v) \in EvidenceType
        BY <1>0, EvidenceTyped DEF TypeInv, UpgradeTypeOK
      <3>3. evidence' = [evidence EXCEPT ![proc.inner] = e(proc.inner)]
        BY <3>1
      <3>. HIDE DEF e
      <3>. QED  BY <1>0, <3>2, <3>3 DEF TypeInv, UpgradeTypeOK
    <2>3. UpgradeTypeOK'
      BY <1>0, <1>6, <2>1, <2>2 DEF Migration, TypeInv, UpgradeTypeOK, repo
    <2>. QED  BY <2>1, <2>3 DEF TypeInv
  <1>7. CASE Plugins
    <2>1. proc' \in ProcType /\ CommandOK'
      BY <1>0, <1>7, EndedTyped, ContinuedTyped, DoneTyped
         DEF Plugins, Stages, Ordered
    <2>2. (WriteState(proc.inner, "canaried") /\ proc.inner \in Versions) \/ UNCHANGED progress
      BY <1>0, <1>7 DEF Plugins, TypeInv, CommandOK, UpgradePcs, PreparePcs, CanaryPcs, UpgradeCmd
    <2>3. progress' \in ProgressType
      BY <1>0, <2>2, WrittenTyped DEF Stages, Ordered, TypeInv, UpgradeTypeOK, ProgressType
    <2>4. UpgradeTypeOK'
      BY <1>0, <1>7, <2>1, <2>3
         DEF Plugins, TypeInv, CommandOK, UpgradeTypeOK, ProgressType, repo, UpgradePcs, PreparePcs, CanaryPcs, UpgradeCmd
    <2>. QED  BY <2>1, <2>4 DEF TypeInv
  <1>8. CASE PinAdapter
    <2>1. proc' \in ProcType /\ CommandOK'
      BY <1>0, <1>8, MovedTyped DEF PinAdapter, Writes, UpgradePcs, PreparePcs, CanaryPcs, UpgradeCmd
    <2>2. UpgradeTypeOK'
      BY <1>0, <1>8, <2>1 DEF PinAdapter, Writes, TypeInv, CommandOK, UpgradeTypeOK
    <2>. QED  BY <2>1, <2>2 DEF TypeInv
  <1>9. CASE PinDocs
    <2>1. proc' \in ProcType /\ CommandOK'
      BY <1>0, <1>9, MovedTyped DEF PinDocs, Writes, UpgradePcs, PreparePcs, CanaryPcs, UpgradeCmd
    <2>2. UpgradeTypeOK'
      BY <1>0, <1>9, <2>1 DEF PinDocs, Writes, TypeInv, CommandOK, UpgradeTypeOK
    <2>. QED  BY <2>1, <2>2 DEF TypeInv
  <1>10. CASE PinPackages
    <2>1. proc' \in ProcType /\ CommandOK'
      BY <1>0, <1>10, MovedTyped DEF PinPackages, Writes, UpgradePcs, PreparePcs, CanaryPcs, UpgradeCmd
    <2>2. UpgradeTypeOK'
      BY <1>0, <1>10, <2>1 DEF PinPackages, Writes, TypeInv, CommandOK, UpgradeTypeOK
    <2>. QED  BY <2>1, <2>2 DEF TypeInv
  <1>11. CASE LockPackages
    <2>1. proc' \in ProcType /\ CommandOK'
      BY <1>0, <1>11, MovedTyped DEF LockPackages, Writes, UpgradePcs, PreparePcs, CanaryPcs, UpgradeCmd
    <2>2. UpgradeTypeOK'
      BY <1>0, <1>11, <2>1 DEF LockPackages, Writes, TypeInv, CommandOK, UpgradeTypeOK
    <2>. QED  BY <2>1, <2>2 DEF TypeInv
  <1>12. CASE LockFails
    <2>1. proc' \in ProcType /\ CommandOK'
      BY <1>0, <1>12, EndedTyped, MovedTyped
         DEF LockFails, UpgradePcs, PreparePcs, CanaryPcs, UpgradeCmd
    <2>2. UpgradeTypeOK'
      BY <1>0, <1>12, <2>1
         DEF LockFails, TypeInv, CommandOK, UpgradeTypeOK, repo, UpgradePcs, PreparePcs, CanaryPcs, UpgradeCmd
    <2>. QED  BY <2>1, <2>2 DEF TypeInv
  <1>13. CASE Amend
    <2>1. proc' \in ProcType /\ CommandOK'
      BY <1>0, <1>13, EndedTyped, MovedTyped DEF Amend, UpgradePcs, PreparePcs, CanaryPcs, UpgradeCmd
    <2>2. amended' \in Seq(Versions)
      <3>1. proc.inner \in Versions /\ amended \in Seq(Versions)
        BY <1>0, <1>13 DEF Amend, TypeInv, CommandOK, UpgradeTypeOK
      <3>2. Append(amended, proc.inner) \in Seq(Versions)
        BY <3>1, AppendProperties
      <3>. QED  BY <1>13, <3>1, <3>2 DEF Amend, Amended
    <2>3. UpgradeTypeOK'
      BY <1>0, <1>13, <2>1, <2>2 DEF Amend, TypeInv, UpgradeTypeOK
    <2>. QED  BY <2>1, <2>3 DEF TypeInv
  <1>14. CASE Prepared
    <2>1. proc' \in ProcType /\ CommandOK'
      BY <1>0, <1>14, EndedTyped, ContinuedTyped, DoneTyped
         DEF Prepared, Stages, Ordered
    <2>2. (WriteState(proc.inner, "prepared") /\ proc.inner \in Versions) \/ UNCHANGED progress
      BY <1>0, <1>14 DEF Prepared, TypeInv, CommandOK, UpgradePcs, PreparePcs, CanaryPcs, UpgradeCmd
    <2>3. progress' \in ProgressType
      BY <1>0, <2>2, WrittenTyped DEF Stages, Ordered, TypeInv, UpgradeTypeOK, ProgressType
    <2>4. UpgradeTypeOK'
      BY <1>0, <1>14, <2>1, <2>3
         DEF Prepared, TypeInv, CommandOK, UpgradeTypeOK, ProgressType, repo, UpgradePcs, PreparePcs, CanaryPcs, UpgradeCmd
    <2>. QED  BY <2>1, <2>4 DEF TypeInv
  <1>15. CASE Apply
    <2>1. proc' \in ProcType /\ CommandOK'
      BY <1>0, <1>15, EndedTyped, MovedTyped
         DEF Apply, UpgradePcs, PreparePcs, CanaryPcs, UpgradeCmd
    <2>2. UpgradeTypeOK'
      BY <1>0, <1>15, <2>1
         DEF Apply, TypeInv, CommandOK, UpgradeTypeOK, repo, UpgradePcs, PreparePcs, CanaryPcs, UpgradeCmd
    <2>. QED  BY <2>1, <2>2 DEF TypeInv
  <1>16. CASE Switch
    <2>1. proc' \in ProcType /\ CommandOK'
      BY <1>0, <1>16, EndedTyped, MovedTyped DEF Switch, UpgradePcs, PreparePcs, CanaryPcs, UpgradeCmd
    <2>2. proc.target \in Versions
      BY <1>0, <1>16 DEF Switch, TypeInv, CommandOK, UpgradePcs, PreparePcs, CanaryPcs, UpgradeCmd
    <2>3. UpgradeTypeOK'
      BY <1>0, <1>16, <2>1, <2>2 DEF Switch, TypeInv, UpgradeTypeOK, repo
    <2>. QED  BY <2>1, <2>3 DEF TypeInv
  <1>17. CASE Smoke
    <2>1. proc' \in ProcType /\ CommandOK'
      BY <1>0, <1>17, MovedTyped DEF Smoke, UpgradePcs, PreparePcs, CanaryPcs, UpgradeCmd
    <2>2. proc.target \in Versions
      BY <1>0, <1>17 DEF Smoke, TypeInv, CommandOK, UpgradePcs, PreparePcs, CanaryPcs, UpgradeCmd
    <2>3. install' \in [live : Versions, schema : Versions]
      BY <1>0, <1>17 DEF Smoke, MaxOf, TypeInv, UpgradeTypeOK
    <2>4. /\ artifact' \in [Versions -> {"none", "ok", "failed", "rolledBack"}]
          /\ verified' \subseteq Versions /\ served' \subseteq Versions
      BY <1>0, <1>17, <2>2, <2>3 DEF Smoke, TypeInv, UpgradeTypeOK
    <2>5. UpgradeTypeOK'
      BY <1>0, <1>17, <2>1, <2>3, <2>4 DEF Smoke, TypeInv, UpgradeTypeOK, repo
    <2>. QED  BY <2>1, <2>5 DEF TypeInv
  <1>18. CASE Passed
    <2>1. proc' \in ProcType /\ CommandOK'
      BY <1>0, <1>18, EndedTyped, MovedTyped DEF Passed, UpgradePcs, PreparePcs, CanaryPcs, UpgradeCmd
    <2>2. (WriteState(proc.target, "applied") /\ proc.target \in Versions) \/ UNCHANGED progress
      BY <1>0, <1>18 DEF Passed, TypeInv, CommandOK, UpgradePcs, PreparePcs, CanaryPcs, UpgradeCmd
    <2>3. progress' \in ProgressType
      BY <1>0, <2>2, WrittenTyped DEF Stages, Ordered, TypeInv, UpgradeTypeOK, ProgressType
    <2>4. UpgradeTypeOK'
      BY <1>0, <1>18, <2>1, <2>3
         DEF Passed, TypeInv, CommandOK, UpgradeTypeOK, ProgressType, repo, UpgradePcs, PreparePcs, CanaryPcs, UpgradeCmd
    <2>. QED  BY <2>1, <2>4 DEF TypeInv
  <1>19. CASE Failed
    <2>1. proc' \in ProcType /\ CommandOK'
      BY <1>0, <1>19, EndedTyped, MovedTyped
         DEF Failed, UpgradePcs, PreparePcs, CanaryPcs, UpgradeCmd
    <2>2. UpgradeTypeOK'
      BY <1>0, <1>19, <2>1
         DEF Failed, TypeInv, CommandOK, UpgradeTypeOK, repo, UpgradePcs, PreparePcs, CanaryPcs, UpgradeCmd
    <2>. QED  BY <2>1, <2>2 DEF TypeInv
  <1>20. CASE RolledBack
    <2>1. proc' \in ProcType /\ CommandOK'
      BY <1>0, <1>20, EndedTyped, MovedTyped DEF RolledBack, UpgradePcs, PreparePcs, CanaryPcs, UpgradeCmd
    <2>2. (WriteState(proc.target, "rolled-back") /\ proc.target \in Versions) \/ UNCHANGED progress
      BY <1>0, <1>20 DEF RolledBack, TypeInv, CommandOK, UpgradePcs, PreparePcs, CanaryPcs, UpgradeCmd
    <2>3. progress' \in ProgressType
      BY <1>0, <2>2, WrittenTyped DEF Stages, Ordered, TypeInv, UpgradeTypeOK, ProgressType
    <2>4. UpgradeTypeOK'
      BY <1>0, <1>20, <2>1, <2>3
         DEF RolledBack, TypeInv, CommandOK, UpgradeTypeOK, ProgressType, repo, UpgradePcs, PreparePcs, CanaryPcs, UpgradeCmd
    <2>. QED  BY <2>1, <2>4 DEF TypeInv
  <1>. QED  BY <1>1, <1>2, <1>3, <1>4, <1>5, <1>6, <1>7, <1>8, <1>9, <1>10, <1>11, <1>12,
               <1>13, <1>14, <1>15, <1>16, <1>17, <1>18, <1>19, <1>20 DEF Step

\* The first state is typed.
LEMMA InitTyped ==
    ASSUME Init, UpgradeAssumption
    PROVE  TypeInv
  <1>. USE VersionFacts
  <1>1. evidence \in [Versions -> EvidenceType]
    BY DEF Init, EvidenceType, NoEvidence
  <1>2. proc \in ProcType /\ CommandOK
    BY IdleTyped DEF Init, Idle, CommandOK, UpgradePcs, PreparePcs, CanaryPcs, UpgradeCmd
  <1>3. amended \in Seq(Versions)
    BY DEF Init
  <1>4. progress \in ProgressType
    BY DEF Init, NoProgress, ProgressType
  <1>5. started \in 0 .. MaxCommands
    BY SMT DEF Init, UpgradeAssumption
  <1>. QED  BY <1>1, <1>2, <1>3, <1>4, <1>5 DEF Init, TypeInv, UpgradeTypeOK, ProgressType

\* Whatever befalls a command, and what the owner does without one, keeps the types.
LEMMA OthersKeepTypes ==
    ASSUME TypeInv, CrashCommand \/ Opens \/ RestorePrevious, UpgradeAssumption
    PROVE  TypeInv'
  <1>1. CASE CrashCommand
    <2>1. progress' \in ProgressType
      BY <1>1 DEF CrashCommand, NoProgress, TypeInv, UpgradeTypeOK, ProgressType
    <2>2. proc' \in ProcType /\ CommandOK'
      BY <1>1, EndedTyped DEF CrashCommand
    <2>. QED  BY <1>1, <2>1, <2>2 DEF CrashCommand, TypeInv, UpgradeTypeOK, ProgressType, repo
  <1>2. CASE Opens
    BY <1>2 DEF Opens, TypeInv, UpgradeTypeOK, CommandOK, repo
  <1>3. CASE RestorePrevious
    <2>1. PICK v \in {0} \union verified, schema \in backups :
             /\ install' = [live |-> v, schema |-> schema]
             /\ served' = {old \in served : old <= schema}
      BY <1>3 DEF RestorePrevious
    <2>2. install' \in [live : Versions, schema : Versions] /\ served' \subseteq Versions
      BY <2>1, VersionFacts DEF TypeInv, UpgradeTypeOK
    <2>3. UNCHANGED <<repo, evidence, progress, artifact, backups, proc, started, ready,
                      clean, verified, byHand>>
      BY <1>3 DEF RestorePrevious
    <2>. QED  BY <2>2, <2>3 DEF TypeInv, UpgradeTypeOK, CommandOK, repo
  <1>. QED  BY <1>1, <1>2, <1>3

-----------------------------------------------------------------------------
(* What is recorded, pinned and installed is earned.                       *)

\* What a step may do to the histories: they grow.
Growth == clean \subseteq clean' /\ byHand \subseteq byHand' /\ verified \subseteq verified'

\* A write of the stage file keeps it honest if the stage written is.
LEMMA WrittenEarned ==
    ASSUME EarnedInv, Growth, UpgradeAssumption,
           NEW t \in Versions, NEW s \in Stages, WriteState(t, s),
           s \in Later => t \in Vetted',
           s = "canaried" => t \in clean', s = "applied" => t \in verified'
    PROVE  ProgressEarned'
  <1>1. /\ progress'.target = t /\ progress'.stage \in progress'.stages
        /\ \A x \in progress'.stages :
              x = s \/ (progress.target = t /\ x \in progress.stages)
    BY WriteStateFacts DEF EarnedInv, UpgradeTypeOK, ProgressType, ProgressEarned
  <1>. QED  BY <1>1 DEF EarnedInv, ProgressEarned, Growth, Vetted, Later

\* A step that leaves the stage file alone keeps it honest.
LEMMA UnwrittenEarned ==
    ASSUME EarnedInv, Growth, progress' = progress
    PROVE  ProgressEarned'
  BY DEF EarnedInv, ProgressEarned, Growth, Vetted

\* No command runs: nothing to be honest about.
LEMMA EndedEarned ==
    ASSUME proc' = Idle
    PROVE  ProcEarned'
  BY DEF Idle, ProcEarned, UpgradePcs, PreparePcs, Later

\* A step within the canary, within prepare, or among the steps of `upgrade' that
\* come after it.
LEMMA MovedEarned ==
    ASSUME EarnedInv, Growth, NEW c, NEW g, proc' = [proc EXCEPT !.pc = c, !.gate = g],
           \/ c \in CanaryPcs
           \/ c \in PreparePcs /\ proc.pc \in PreparePcs
           \/ c \in UpgradePcs \ {"plan"} /\ proc.pc \in UpgradePcs \ {"plan"},
           c = "passed" => proc.target \in verified'
    PROVE  ProcEarned'
  <1>1. /\ proc'.pc = c /\ proc'.cmd = proc.cmd /\ proc'.target = proc.target
        /\ proc'.inner = proc.inner /\ proc'.done = proc.done
    BY DEF EarnedInv, UpgradeTypeOK, ProcType
  <1>. QED  BY <1>1
            DEF EarnedInv, ProcEarned, Growth, Vetted, UpgradePcs, PreparePcs, CanaryPcs

\* The same for a step that leaves the count of gates alone.
LEMMA StayedEarned ==
    ASSUME EarnedInv, Growth, NEW c, proc' = [proc EXCEPT !.pc = c],
           \/ c \in CanaryPcs
           \/ c \in PreparePcs /\ proc.pc \in PreparePcs
           \/ c \in UpgradePcs \ {"plan"} /\ proc.pc \in UpgradePcs \ {"plan"},
           c = "passed" => proc.target \in verified'
    PROVE  ProcEarned'
  <1>1. proc' = [proc EXCEPT !.pc = c, !.gate = proc.gate]
    BY DEF EarnedInv, UpgradeTypeOK, ProcType
  <1>. QED  BY <1>1, MovedEarned

\* `upgrade' goes on with stages that it has passed or that it knows the version
\* to be vetted for.
LEMMA ContinuedEarned ==
    ASSUME EarnedInv, Growth, NEW d \in SUBSET Stages, proc' = Onward(proc, d),
           proc.cmd = "upgrade" /\ d \intersect Later # {} => proc.target \in Vetted'
    PROVE  ProcEarned'
  <1>1. CASE proc.cmd \notin UpgradeCmd
    BY <1>1, OnwardTyped, EndedEarned DEF EarnedInv, UpgradeTypeOK
  <1>2. CASE proc.cmd \in UpgradeCmd
    <2>1. /\ proc'.pc \in {"install", "adapter", "ready"}
          /\ proc'.pc # "install" => "canaried" \in d
          /\ proc'.cmd = proc.cmd /\ proc'.target = proc.target
          /\ proc'.inner = proc.inner /\ proc'.done = d
      BY <1>2, OnwardTyped DEF EarnedInv, UpgradeTypeOK
    <2>. QED  BY <1>2, <2>1
              DEF EarnedInv, ProcEarned, Growth, Vetted, UpgradeCmd, UpgradePcs, PreparePcs,
                  Later
  <1>. QED  BY <1>1, <1>2

\* Starting a command, or pruning, keeps everything earned: what `upgrade' takes
\* for passed is what the stage file says, and what it takes for prepared is the
\* pin; a `prepare' or an `upgrade' without --to is the owner's own doing.
LEMMA BeginEarned ==
    ASSUME EarnedInv, BeginCommand, UpgradeAssumption
    PROVE  EarnedInv'
  <1>. USE VersionFacts
  <1>0. TypeInv' /\ TypeInv
    BY BeginTyped DEF EarnedInv, TypeInv
  <1>1. Growth /\ progress' = progress /\ UNCHANGED <<seams, install, verified, clean>>
    BY <1>0, BeginLeaves DEF Growth, repo
  <1>2. ProgressEarned'
    BY <1>1, UnwrittenEarned
  <1>3. ({Pin, install.live} \union verified \union {0} \subseteq Vetted)'
    BY <1>1 DEF EarnedInv, Pin, Vetted, Growth
  <1>4. ASSUME NEW to \in Versions \union {None}, NEW apply \in BOOLEAN, NEW skip \in BOOLEAN,
               NEW pending \in BOOLEAN, NEW resume \in BOOLEAN, NEW force \in BOOLEAN,
               BeginUpgrade(to, apply, skip, pending, resume, force)
        PROVE  ProcEarned'
    <2>. DEFINE target == TargetOf(to)
                done   == RecordedFor(target)
    <2>1. /\ byHand' = IF to = None THEN byHand \union {target} ELSE byHand
          /\ proc'.cmd = IF to = None THEN "bare" ELSE "upgrade"
          /\ proc'.target = target /\ proc'.inner = Inner(to) /\ proc'.done = done
          /\ \/ proc'.pc = "pinned" /\ target = Pin
             \/ proc'.pc \in {"plan", "install"}
             \/ proc'.pc \in {"adapter", "ready"} /\ "canaried" \in done
      BY <1>0, <1>4, BegunUpgrade
    <2>2. done \intersect Later # {} => target \in Vetted
      BY CompletedTyped DEF RecordedFor, EarnedInv, UpgradeTypeOK, ProgressType, ProgressEarned
    <2>3. Inner(to) = IF to = None THEN Pin ELSE target
      BY DEF Inner, TargetOf
    <2>4. Pin \in Vetted /\ Vetted \subseteq Vetted'
      BY <1>1 DEF EarnedInv, Growth, Vetted
    <2>5. to = None => target \in Vetted'
      BY <2>1 DEF Vetted
    <2>. HIDE DEF target, done
    <2>. QED  BY <2>1, <2>2, <2>3, <2>4, <2>5
              DEF ProcEarned, UpgradePcs, PreparePcs, Later
  <1>5. ASSUME NEW v \in Versions, BeginCanary(v)
        PROVE  ProcEarned'
    <2>1. proc'.cmd = "canary" /\ proc'.pc = "install"
      BY <1>5 DEF BeginCanary, Starts, Idle
    <2>. QED  BY <2>1 DEF ProcEarned
  <1>6. ASSUME NEW v \in Versions, NEW pending \in BOOLEAN, BeginPrepare(v, pending)
        PROVE  ProcEarned'
    <2>1. proc'.cmd = "prepare" /\ proc'.pc = "adapter" /\ proc'.inner = v /\ v \in byHand'
      BY <1>6 DEF BeginPrepare, Starts, Idle
    <2>. QED  BY <2>1 DEF ProcEarned, Vetted
  <1>7. ASSUME Prune
        PROVE  ProcEarned'
    <2>1. UNCHANGED <<proc, clean, byHand, verified>>
      BY <1>7 DEF Prune
    <2>. QED  BY <2>1 DEF EarnedInv, ProcEarned, Vetted
  <1>8. ProcEarned'
    BY <1>4, <1>5, <1>6, <1>7 DEF BeginCommand
  <1>. QED  BY <1>0, <1>2, <1>3, <1>8 DEF EarnedInv, TypeInv

\* What a command pins, records or installs past its canary is vetted.
LEMMA ActorVetted ==
    ASSUME EarnedInv
    PROVE  /\ proc.pc \in PreparePcs => proc.inner \in Vetted /\ proc.inner \in Versions
           /\ proc.pc \in UpgradePcs \ {"plan"} => proc.target \in Vetted
           /\ proc.pc \in UpgradePcs => proc.target \in Versions
           /\ proc.pc \in CanaryPcs => proc.inner \in Versions
  BY DEF EarnedInv, CommandOK, ProcEarned, Vetted, UpgradeCmd, UpgradePcs, PreparePcs, CanaryPcs

\* The histories only grow.
LEMMA StepGrows ==
    ASSUME Step
    PROVE  Growth /\ byHand' = byHand
  <1>1. UNCHANGED <<clean, verified, byHand>> => Growth /\ byHand' = byHand
    BY DEF Growth
  <1>2. CASE Pinned \/ Plan \/ Ready
    BY <1>1, <1>2 DEF Pinned, Plan, Ready
  <1>3. CASE Install \/ Gate \/ Migration
    BY <1>1, <1>3 DEF Install, Gate, Migration
  <1>4. CASE Plugins
    BY <1>4 DEF Plugins, Growth
  <1>5. CASE PinAdapter \/ PinDocs \/ PinPackages \/ LockPackages
    BY <1>1, <1>5 DEF PinAdapter, PinDocs, PinPackages, LockPackages, Writes
  <1>6. CASE LockFails \/ Amend \/ Prepared
    BY <1>1, <1>6 DEF LockFails, Amend, Prepared
  <1>7. CASE Apply \/ Switch \/ Passed \/ Failed \/ RolledBack
    BY <1>1, <1>7 DEF Apply, Switch, Passed, Failed, RolledBack
  <1>8. CASE Smoke
    BY <1>8 DEF Smoke, Growth
  <1>. QED  BY <1>2, <1>3, <1>4, <1>5, <1>6, <1>7, <1>8 DEF Step

\* A step pins the version its command prepares, installs the one it upgrades to,
\* and holds verified only that: all of them vetted.
LEMMA StepKeepsVetted ==
    ASSUME EarnedInv, Step
    PROVE  ({Pin, install.live} \union verified \union {0} \subseteq Vetted)'
  <1>0. Vetted \subseteq Vetted' /\ {Pin, install.live} \union verified \union {0} \subseteq Vetted
    BY StepGrows DEF Growth, Vetted, EarnedInv
  <1>1. seams \in [adapter : Versions, docs : Versions, packages : Versions,
                   locks : Versions \union {None}]
        /\ install \in [live : Versions, schema : Versions]
    BY DEF EarnedInv, UpgradeTypeOK
  <1>2. UNCHANGED <<Pin, install, verified>> =>
            ({Pin, install.live} \union verified \union {0} \subseteq Vetted)'
    BY <1>0
  <1>3. CASE Pinned \/ Plan \/ Ready
    BY <1>2, <1>3 DEF Pinned, Plan, Ready, Pin, repo
  <1>4. CASE Install \/ Gate \/ Migration \/ Plugins
    BY <1>2, <1>4 DEF Install, Gate, Migration, Plugins, Pin, repo
  <1>5. CASE PinAdapter
    BY <1>0, <1>1, <1>5, ActorVetted DEF PinAdapter, Writes, Pin, PreparePcs
  <1>6. CASE PinDocs \/ PinPackages \/ LockPackages
    BY <1>1, <1>2, <1>6 DEF PinDocs, PinPackages, LockPackages, Writes, Pin
  <1>7. CASE LockFails \/ Amend \/ Prepared
    BY <1>1, <1>2, <1>7 DEF LockFails, Amend, Prepared, Pin, repo
  <1>8. CASE Apply \/ Passed \/ Failed \/ RolledBack
    BY <1>2, <1>8 DEF Apply, Passed, Failed, RolledBack, Pin, repo
  <1>9. CASE Switch
    <2>1. Pin' = Pin /\ verified' = verified /\ install'.live \in {install.live, proc.target}
      BY <1>1, <1>9 DEF Switch, Pin, repo
    <2>2. proc.target \in Vetted
      BY <1>9, ActorVetted DEF Switch, UpgradePcs
    <2>. QED  BY <1>0, <2>1, <2>2
  <1>10. CASE Smoke
    <2>1. /\ Pin' = Pin /\ verified' \subseteq verified \union {proc.target}
          /\ install'.live = install.live
      BY <1>1, <1>10 DEF Smoke, Pin, repo
    <2>2. proc.target \in Vetted
      BY <1>10, ActorVetted DEF Smoke, UpgradePcs
    <2>. QED  BY <1>0, <2>1, <2>2
  <1>. QED  BY <1>3, <1>4, <1>5, <1>6, <1>7, <1>8, <1>9, <1>10 DEF Step

\* A step keeps the stage file honest, and what its command goes by.
LEMMA StepKeepsRecords ==
    ASSUME EarnedInv, Step, UpgradeAssumption
    PROVE  ProgressEarned' /\ ProcEarned'
  <1>0. Growth /\ Vetted \subseteq Vetted' /\ proc \in ProcType
    BY StepGrows DEF Growth, Vetted, EarnedInv, UpgradeTypeOK
  <1>a. {"canaried", "prepared", "applied", "planned", "rolled-back"} \subseteq Stages
    BY DEF Stages, Ordered
  <1>1. CASE Pinned
    <2>1. proc.target \in Vetted' /\ proc.target \in Versions
      BY <1>0, <1>1, ActorVetted DEF Pinned, UpgradePcs
    <2>2. ProgressEarned'
      BY <1>0, <1>1, <1>a, <2>1, WrittenEarned DEF Pinned
    <2>3. ProcEarned'
      BY <1>0, <1>1, EndedEarned, StayedEarned DEF Pinned, UpgradePcs
    <2>. QED  BY <2>2, <2>3
  <1>2. CASE Plan
    <2>1. proc.target \in Versions
      BY <1>2, ActorVetted DEF Plan, UpgradePcs
    <2>2. ProgressEarned'
      BY <1>0, <1>2, <1>a, <2>1, WrittenEarned DEF Plan, Later
    <2>3. ProcEarned'
      <3>1. proc.done \union {"planned"} \in SUBSET Stages
        BY <1>0, <1>a DEF ProcType
      <3>2. (proc.done \union {"planned"}) \intersect Later = proc.done \intersect Later
        BY DEF Later
      <3>3. proc.cmd = "upgrade" /\ proc.done \intersect Later # {} => proc.target \in Vetted'
        BY <1>0 DEF EarnedInv, ProcEarned
      <3>. QED  BY <1>0, <1>2, <3>1, <3>2, <3>3, ContinuedEarned DEF Plan
    <2>. QED  BY <2>2, <2>3
  <1>3. CASE Ready
    <2>1. ProgressEarned'
      BY <1>0, <1>3, UnwrittenEarned DEF Ready
    <2>2. ProcEarned'
      BY <1>0, <1>3, EndedEarned, StayedEarned DEF Ready, UpgradePcs
    <2>. QED  BY <2>1, <2>2
  <1>4. CASE Install
    <2>1. ProgressEarned'
      BY <1>0, <1>4, UnwrittenEarned DEF Install
    <2>2. proc' = Idle \/ proc' = [proc EXCEPT !.pc = "gate", !.gate = 1]
      BY <1>4 DEF Install
    <2>3. proc' = Idle \/ \E c \in CanaryPcs, g \in Nat :
                              proc' = [proc EXCEPT !.pc = c, !.gate = g]
      BY <1>0, <2>2 DEF CanaryPcs, ProcType
    <2>4. ASSUME NEW c \in CanaryPcs, NEW g \in Nat,
                 proc' = [proc EXCEPT !.pc = c, !.gate = g]
          PROVE  ProcEarned'
      <3>1. c # "passed"
        BY DEF CanaryPcs
      <3>. QED  BY <1>0, <2>4, <3>1, MovedEarned
    <2>5. ProcEarned'
      BY <2>3, <2>4, EndedEarned
    <2>. QED  BY <2>1, <2>5
  <1>5. CASE Gate
    <2>1. ProgressEarned'
      BY <1>0, <1>5, UnwrittenEarned DEF Gate
    <2>2. \/ proc' = Idle
          \/ proc' = [proc EXCEPT !.pc = "gate", !.gate = proc.gate + 1]
          \/ proc' = [proc EXCEPT !.pc = "migration", !.gate = 0]
      <3>1. \/ proc' = Idle
            \/ proc' = [proc EXCEPT !.gate = @ + 1]
            \/ proc' = [proc EXCEPT !.pc = "migration", !.gate = 0]
        BY <1>5 DEF Gate
      <3>2. [proc EXCEPT !.gate = @ + 1] = [proc EXCEPT !.pc = "gate", !.gate = proc.gate + 1]
        BY <1>0, <1>5 DEF Gate, ProcType
      <3>. QED  BY <3>1, <3>2
    <2>3. proc' = Idle \/ \E c \in CanaryPcs, g \in Nat :
                              proc' = [proc EXCEPT !.pc = c, !.gate = g]
      <3>1. proc.gate + 1 \in Nat /\ 0 \in Nat
        BY <1>0, SMT DEF ProcType
      <3>2. "gate" \in CanaryPcs /\ "migration" \in CanaryPcs
        BY DEF CanaryPcs
      <3>. QED  BY <2>2, <3>1, <3>2
    <2>4. ASSUME NEW c \in CanaryPcs, NEW g \in Nat,
                 proc' = [proc EXCEPT !.pc = c, !.gate = g]
          PROVE  ProcEarned'
      <3>1. c # "passed"
        BY DEF CanaryPcs
      <3>. QED  BY <1>0, <2>4, <3>1, MovedEarned
    <2>5. ProcEarned'
      BY <2>3, <2>4, EndedEarned
    <2>. QED  BY <2>1, <2>5
  <1>6. CASE Migration
    <2>1. ProgressEarned'
      BY <1>0, <1>6, UnwrittenEarned DEF Migration
    <2>2. ProcEarned'
      BY <1>0, <1>6, EndedEarned, StayedEarned DEF Migration, CanaryPcs
    <2>. QED  BY <2>1, <2>2
  <1>7. CASE Plugins
    <2>1. CASE UNCHANGED progress /\ proc' = Idle
      BY <1>0, <2>1, UnwrittenEarned, EndedEarned
    <2>2. CASE /\ clean' = clean \union {proc.inner}
               /\ WriteState(proc.inner, "canaried")
               /\ proc' = Onward(proc, proc.done \union {"canaried"})
      <3>1. proc.inner \in Versions /\ proc.inner \in clean' /\ proc.inner \in Vetted'
        BY <1>7, <2>2, ActorVetted DEF Plugins, CanaryPcs, Vetted
      <3>2. ProgressEarned'
        BY <1>0, <1>a, <2>2, <3>1, WrittenEarned
      <3>3. proc.done \union {"canaried"} \in SUBSET Stages
        BY <1>0, <1>a DEF ProcType
      <3>4. proc.cmd = "upgrade" => proc.target \in Vetted'
        BY <3>1 DEF EarnedInv, ProcEarned
      <3>5. ProcEarned'
        BY <1>0, <2>2, <3>3, <3>4, ContinuedEarned
      <3>. QED  BY <3>2, <3>5
    <2>. QED  BY <1>7, <2>1, <2>2 DEF Plugins
  <1>8. CASE PinAdapter \/ PinDocs \/ PinPackages \/ LockPackages
    <2>1. ProgressEarned'
      BY <1>0, <1>8, UnwrittenEarned DEF PinAdapter, PinDocs, PinPackages, LockPackages, Writes
    <2>2. ProcEarned'
      BY <1>0, <1>8, StayedEarned
         DEF PinAdapter, PinDocs, PinPackages, LockPackages, Writes, PreparePcs
    <2>. QED  BY <2>1, <2>2
  <1>9. CASE LockFails \/ Amend
    <2>1. ProgressEarned'
      BY <1>0, <1>9, UnwrittenEarned DEF LockFails, Amend
    <2>2. proc' = Idle \/ (proc.pc = "amend" /\ proc' = [proc EXCEPT !.pc = "seams"])
      BY <1>9 DEF LockFails, Amend
    <2>3. ProcEarned'
      BY <1>0, <2>2, EndedEarned, StayedEarned DEF PreparePcs
    <2>. QED  BY <2>1, <2>3
  <1>10. CASE Prepared
    <2>1. CASE UNCHANGED progress /\ proc' = Idle
      BY <1>0, <2>1, UnwrittenEarned, EndedEarned
    <2>2. CASE /\ WriteState(proc.inner, "prepared")
               /\ proc' = Onward(proc, proc.done \union {"canaried", "prepared"})
      <3>1. proc.inner \in Versions /\ proc.inner \in Vetted'
        BY <1>0, <1>10, ActorVetted DEF Prepared, PreparePcs
      <3>2. ProgressEarned'
        BY <1>0, <1>a, <2>2, <3>1, WrittenEarned
      <3>3. proc.done \union {"canaried", "prepared"} \in SUBSET Stages
        BY <1>0, <1>a DEF ProcType
      <3>4. proc.cmd = "upgrade" => proc.target \in Vetted'
        BY <3>1 DEF EarnedInv, ProcEarned
      <3>5. ProcEarned'
        BY <1>0, <2>2, <3>3, <3>4, ContinuedEarned
      <3>. QED  BY <3>2, <3>5
    <2>. QED  BY <1>10, <2>1, <2>2 DEF Prepared
  <1>11. CASE Apply \/ Switch
    <2>1. ProgressEarned'
      BY <1>0, <1>11, UnwrittenEarned DEF Apply, Switch
    <2>2. \/ proc' = Idle
          \/ proc.pc \in {"apply", "switch"} /\ \E c \in {"switch", "smoke"} :
                 proc' = [proc EXCEPT !.pc = c]
      BY <1>11 DEF Apply, Switch
    <2>3. ProcEarned'
      BY <1>0, <2>2, EndedEarned, StayedEarned DEF UpgradePcs
    <2>. QED  BY <2>1, <2>3
  <1>12. CASE Smoke
    <2>1. ProgressEarned'
      BY <1>0, <1>12, UnwrittenEarned DEF Smoke
    <2>2. PICK ok \in BOOLEAN :
              /\ verified' = IF ok THEN verified \union {proc.target} ELSE verified
              /\ proc' = [proc EXCEPT !.pc = IF ok THEN "passed" ELSE "failed"]
      BY <1>12 DEF Smoke
    <2>3. proc.pc = "smoke"
      BY <1>12 DEF Smoke
    <2>4. CASE ok
      <3>1. proc' = [proc EXCEPT !.pc = "passed"] /\ proc.target \in verified'
        BY <2>2, <2>4
      <3>2. ProcEarned'
        BY <1>0, <2>3, <3>1, StayedEarned DEF UpgradePcs
      <3>. QED  BY <2>1, <3>2
    <2>5. CASE ~ok
      <3>1. proc' = [proc EXCEPT !.pc = "failed"]
        BY <2>2, <2>5
      <3>2. ProcEarned'
        BY <1>0, <2>3, <3>1, StayedEarned DEF UpgradePcs
      <3>. QED  BY <2>1, <3>2
    <2>. QED  BY <2>1, <2>4, <2>5
  <1>13. CASE Passed
    <2>1. /\ proc.target \in Versions /\ proc.target \in Vetted'
          /\ proc.target \in verified'
      BY <1>0, <1>13, ActorVetted DEF Passed, UpgradePcs, EarnedInv, ProcEarned
    <2>2. ProgressEarned'
      BY <1>0, <1>13, <1>a, <2>1, WrittenEarned DEF Passed
    <2>. QED  BY <1>13, <2>2, EndedEarned DEF Passed
  <1>14. CASE Failed
    <2>1. ProgressEarned'
      BY <1>0, <1>14, UnwrittenEarned DEF Failed
    <2>2. ProcEarned'
      BY <1>0, <1>14, StayedEarned DEF Failed, UpgradePcs
    <2>. QED  BY <2>1, <2>2
  <1>15. CASE RolledBack
    <2>1. proc.target \in Versions
      BY <1>15, ActorVetted DEF RolledBack, UpgradePcs
    <2>2. ProgressEarned'
      BY <1>0, <1>15, <1>a, <2>1, WrittenEarned DEF RolledBack, Later
    <2>. QED  BY <1>15, <2>2, EndedEarned DEF RolledBack
  <1>. QED  BY <1>1, <1>2, <1>3, <1>4, <1>5, <1>6, <1>7, <1>8, <1>9, <1>10, <1>11,
               <1>12, <1>13, <1>14, <1>15 DEF Step

\* A command that is killed, somebody who starts OpenCode, and an owner who goes
\* back to a version that was verified, keep everything earned.
LEMMA OthersKeepEarned ==
    ASSUME EarnedInv, CrashCommand \/ Opens \/ RestorePrevious, UpgradeAssumption
    PROVE  EarnedInv'
  <1>0. TypeInv'
    BY OthersKeepTypes DEF EarnedInv, TypeInv
  <1>1. Growth /\ UNCHANGED <<seams, clean, verified, byHand>>
    BY DEF CrashCommand, Opens, RestorePrevious, Growth, repo
  <1>2. ProgressEarned'
    <2>1. CASE progress' = progress
      BY <1>1, <2>1, UnwrittenEarned
    <2>2. CASE progress' = NoProgress
      BY <2>2 DEF NoProgress, ProgressEarned
    <2>. QED  BY <2>1, <2>2 DEF CrashCommand, Opens, RestorePrevious
  <1>3. ProcEarned'
    <2>1. CASE proc' = Idle
      BY <2>1, EndedEarned
    <2>2. CASE proc' = proc
      BY <1>1, <2>2 DEF EarnedInv, ProcEarned, Vetted
    <2>. QED  BY <2>1, <2>2 DEF CrashCommand, Opens, RestorePrevious
  <1>4. install'.live \in {install.live, 0} \union verified
    BY DEF CrashCommand, Opens, RestorePrevious, EarnedInv, UpgradeTypeOK
  <1>. QED  BY <1>0, <1>1, <1>2, <1>3, <1>4 DEF EarnedInv, TypeInv, Pin, Vetted

\* At first there is only the version everything starts at, and its canary is clean.
LEMMA InitEarned ==
    ASSUME Init, UpgradeAssumption
    PROVE  EarnedInv
  <1>1. TypeInv
    BY InitTyped
  <1>2. ProgressEarned /\ ProcEarned
    BY DEF Init, NoProgress, ProgressEarned, Idle, ProcEarned, UpgradePcs, PreparePcs, Later
  <1>3. {Pin, install.live} \union verified \union {0} \subseteq Vetted
    BY DEF Init, Pin, Vetted
  <1>. QED  BY <1>1, <1>2, <1>3 DEF EarnedInv, TypeInv

\* Everything stays earned in every step.
LEMMA EarnedStep ==
    ASSUME EarnedInv, [Next]_vars, UpgradeAssumption
    PROVE  EarnedInv'
  <1>1. CASE BeginCommand
    BY <1>1, BeginEarned
  <1>2. CASE Step
    BY <1>2, StepKeepsTypes, StepKeepsRecords, StepKeepsVetted DEF EarnedInv, TypeInv
  <1>3. CASE CrashCommand \/ Opens \/ RestorePrevious
    BY <1>3, OthersKeepEarned
  <1>4. CASE UNCHANGED vars
    BY <1>4 DEF vars, repo, EarnedInv, UpgradeTypeOK, CommandOK, ProgressEarned, ProcEarned,
                Pin, Vetted
  <1>. QED  BY <1>1, <1>2, <1>3, <1>4 DEF Next

\* The inductive invariant holds in every behaviour.
THEOREM EarnedAlways == Spec => []EarnedInv
  <1>1. Init => EarnedInv
    BY InitEarned, UpgradeAssumption
  <1>2. EarnedInv /\ [Next]_vars => EarnedInv'
    BY EarnedStep, UpgradeAssumption
  <1>. QED  BY <1>1, <1>2, PTL DEF Spec

-----------------------------------------------------------------------------
(* The way back.                                                           *)

\* The types of everything, for any versions, gates and number of commands.
THEOREM UpgradeTypeCorrect == Spec => []UpgradeTypeOK
  <1>1. EarnedInv => UpgradeTypeOK
    BY DEF EarnedInv
  <1>. QED  BY <1>1, EarnedAlways, PTL

\* The stage file says only what was earned, in every behaviour of any number of
\* commands over any number of versions.
THEOREM StageFileIsEarned == Spec => []StagesAreEarned
  <1>1. EarnedInv => StagesAreEarned
    BY DEF EarnedInv, ProgressEarned, StagesAreEarned
  <1>. QED  BY <1>1, EarnedAlways, PTL

\* No version is pinned or installed that no whole canary has passed, unless the
\* owner went around the pipeline for it.
THEOREM NothingUntestedIsUsed == Spec => []NothingUntested
  <1>1. EarnedInv => NothingUntested
    BY DEF EarnedInv, Vetted, NothingUntested
  <1>. QED  BY <1>1, EarnedAlways, PTL

-----------------------------------------------------------------------------
(* The way back.                                                           *)

\* Every step keeps a schema that a smoke has passed on in place or in a backup:
\* Apply puts the database's schema into one before Switch can raise the installed
\* version above it, and only then can Smoke or Opens migrate it.
LEMMA BackupStep ==
    ASSUME BackupInv, EarnedInv, EarnedInv', [Next]_vars, UpgradeAssumption
    PROVE  BackupInv'
  <1>0. /\ install \in [live : Versions, schema : Versions]
        /\ served \subseteq Versions /\ \A v \in Versions : v \in Int
        /\ backups \subseteq Versions
        /\ proc \in ProcType /\ UpgradeTypeOK' /\ TypeInv
    <2>1. UpgradeTypeOK /\ UpgradeTypeOK' /\ TypeInv
      BY DEF EarnedInv, TypeInv
    <2>2. \A v \in Versions : v \in Int
      BY VersionFacts
    <2>. QED  BY <2>1, <2>2 DEF UpgradeTypeOK
  <1>1. ASSUME UNCHANGED <<install, served, backups>>, proc'.pc # "switch"
        PROVE  BackupInv'
    BY <1>0, <1>1 DEF BackupInv, NeverWithoutWayBack
  <1>2. CASE BeginCommand
    BY <1>0, <1>1, <1>2, BeginLeaves
  <1>3. ASSUME NEW d \in SUBSET Stages, proc' = Onward(proc, d)
        PROVE  proc'.pc # "switch"
    <2>1. CASE proc.cmd \in UpgradeCmd
      BY <1>0, <1>3, <2>1, OnwardTyped
    <2>2. CASE proc.cmd \notin UpgradeCmd
      BY <1>0, <1>3, <2>2, OnwardTyped DEF Idle
    <2>. QED  BY <2>1, <2>2
  <1>4. ASSUME NEW d \in SUBSET {"planned", "canaried", "prepared"}
        PROVE  proc.done \union d \in SUBSET Stages
    BY <1>0, <1>4 DEF ProcType, Stages, Ordered
  <1>5. CASE Pinned \/ Ready
    <2>1. proc' = Idle \/ proc' = [proc EXCEPT !.pc = "apply"]
      BY <1>5 DEF Pinned, Ready
    <2>2. proc'.pc # "switch"
      BY <1>0, <2>1 DEF Idle, ProcType
    <2>. QED  BY <1>1, <1>5, <2>2 DEF Pinned, Ready
  <1>6. CASE Plan
    <2>1. proc'.pc # "switch"
      BY <1>3, <1>4, <1>6 DEF Plan
    <2>. QED  BY <1>1, <1>6, <2>1 DEF Plan
  <1>7. CASE Install \/ Gate \/ Migration
    <2>1. \/ proc' = Idle \/ proc' = [proc EXCEPT !.pc = "gate", !.gate = 1]
          \/ proc.pc = "gate" /\ proc' = [proc EXCEPT !.gate = @ + 1]
          \/ proc' = [proc EXCEPT !.pc = "migration", !.gate = 0]
          \/ proc' = [proc EXCEPT !.pc = "plugins"]
      BY <1>7 DEF Install, Gate, Migration
    <2>2. proc'.pc # "switch"
      <3>1. CASE proc.pc = "gate" /\ proc' = [proc EXCEPT !.gate = @ + 1]
        BY <1>0, <3>1 DEF ProcType
      <3>2. CASE proc' = [proc EXCEPT !.pc = "gate", !.gate = 1]
        BY <1>0, <3>2 DEF ProcType
      <3>3. CASE proc' = [proc EXCEPT !.pc = "migration", !.gate = 0]
        BY <1>0, <3>3 DEF ProcType
      <3>4. CASE proc' = Idle \/ proc' = [proc EXCEPT !.pc = "plugins"]
        BY <1>0, <3>4 DEF Idle, ProcType
      <3>. QED  BY <2>1, <3>1, <3>2, <3>3, <3>4
    <2>. QED  BY <1>1, <1>7, <2>2 DEF Install, Gate, Migration
  <1>8. CASE Plugins
    <2>1. proc' = Idle \/ proc' = Onward(proc, proc.done \union {"canaried"})
      BY <1>8 DEF Plugins
    <2>2. proc'.pc # "switch"
      <3>1. proc.done \union {"canaried"} \in SUBSET Stages
        BY <1>0 DEF ProcType, Stages, Ordered
      <3>2. Idle.pc # "switch"
        BY DEF Idle
      <3>. QED  BY <1>3, <2>1, <3>1, <3>2
    <2>3. UNCHANGED <<install, served, backups>>
      BY <1>8 DEF Plugins
    <2>. QED  BY <1>1, <2>2, <2>3
  <1>9. CASE PinAdapter \/ PinDocs \/ PinPackages \/ LockPackages
    BY <1>0, <1>1, <1>9 DEF PinAdapter, PinDocs, PinPackages, LockPackages, Writes, ProcType
  <1>10. CASE LockFails \/ Amend
    BY <1>0, <1>1, <1>10 DEF LockFails, Amend, Idle, ProcType
  <1>11. CASE Prepared
    <2>1. proc' = Idle \/ proc' = Onward(proc, proc.done \union {"canaried", "prepared"})
      BY <1>11 DEF Prepared
    <2>2. proc'.pc # "switch"
      <3>1. proc.done \union {"canaried", "prepared"} \in SUBSET Stages
        BY <1>0 DEF ProcType, Stages, Ordered
      <3>2. Idle.pc # "switch"
        BY DEF Idle
      <3>. QED  BY <1>3, <2>1, <3>1, <3>2
    <2>3. UNCHANGED <<install, served, backups>>
      BY <1>11 DEF Prepared
    <2>. QED  BY <1>1, <2>2, <2>3
  <1>12. CASE Apply
    <2>1. UNCHANGED <<install, served>> /\ backups \subseteq backups'
      BY <1>12 DEF Apply
    <2>2. proc'.pc = "switch" => install.schema \in backups'
      BY <1>0, <1>12 DEF Apply, Idle, ProcType
    <2>. QED  BY <1>0, <2>1, <2>2 DEF BackupInv, NeverWithoutWayBack
  <1>13. CASE Switch
    <2>1. /\ UNCHANGED <<backups, served>> /\ proc.pc = "switch"
          /\ install'.schema = install.schema
      BY <1>0, <1>13 DEF Switch
    <2>. QED  BY <1>0, <2>1 DEF BackupInv, NeverWithoutWayBack
  <1>14. CASE Smoke \/ Opens
    <2>1. /\ backups' = backups
          /\ install'.live = install.live
          /\ install'.schema = MaxOf(install.schema, install.live)
          /\ served' \subseteq served \union {install'.schema}
          /\ proc'.pc = "switch" => proc.pc = "switch"
      <3>1. CASE Smoke
        <4>1. proc'.pc # "switch"
          BY <1>0, <3>1 DEF Smoke, ProcType
        <4>2. install' = [install EXCEPT !.schema = MaxOf(@, install.live)]
          BY <3>1 DEF Smoke
        <4>3. backups' = backups /\ served' \subseteq served \union {install'.schema}
          BY <3>1 DEF Smoke
        <4>. QED  BY <1>0, <4>1, <4>2, <4>3
      <3>2. CASE Opens
        BY <1>0, <3>2 DEF Opens, MaxOf
      <3>. QED  BY <1>14, <3>1, <3>2
    <2>2. CASE install.live > install.schema
      <3>1. install'.schema = install.live
        BY <2>1, <2>2, <1>0 DEF MaxOf
      <3>2. \A s \in served : s < install.live /\ s \in backups
        BY <1>0, <2>2 DEF BackupInv, NeverWithoutWayBack
      <3>3. NeverWithoutWayBack' /\ \A s \in served' : s <= install'.schema
        BY <1>0, <2>1, <3>1, <3>2 DEF NeverWithoutWayBack
      <3>4. proc'.pc = "switch" =>
                install'.schema \in backups' \/ install'.schema \notin served'
        BY <1>0, <1>14, <2>1, <2>2, <3>1, <3>2 DEF Smoke, Opens, ProcType
      <3>. QED  BY <1>0, <2>1, <3>1, <3>3, <3>4 DEF BackupInv
    <2>3. CASE ~(install.live > install.schema)
      <3>1. install'.schema = install.schema
        BY <1>0, <2>1, <2>3 DEF MaxOf
      <3>2. proc'.pc = "switch" => Opens
        BY <1>0, <1>14 DEF Smoke, ProcType
      <3>3. NeverWithoutWayBack' /\ \A s \in served' : s <= install'.schema
        BY <1>0, <2>1, <3>1 DEF BackupInv, NeverWithoutWayBack
      <3>4. proc'.pc # "switch"
        BY <1>0, <2>3, <3>2 DEF Opens
      <3>. QED  BY <1>0, <2>1, <2>3, <3>1, <3>3, <3>4 DEF BackupInv
    <2>. QED  BY <2>2, <2>3
  <1>15. CASE Passed \/ Failed \/ RolledBack \/ CrashCommand
    BY <1>0, <1>1, <1>15 DEF Passed, Failed, RolledBack, CrashCommand, Idle, ProcType
  <1>16. CASE RestorePrevious
    <2>1. PICK v \in {0} \union verified, schema \in backups :
              /\ v < install.live /\ schema <= v
              /\ install' = [live |-> v, schema |-> schema]
              /\ served' = {old \in served : old <= schema}
      BY <1>16 DEF RestorePrevious
    <2>2. backups' = backups /\ proc' = proc /\ proc.pc = "idle" /\ v \in Versions
      BY <1>0, <1>16, VersionFacts DEF RestorePrevious, TypeInv, UpgradeTypeOK
    <2>3. \A old \in served : old < schema => old \in backups
      <3>1. /\ install.schema \in Int /\ install.live \in Int /\ schema \in Int /\ v \in Int
            /\ \A old \in served : old \in Int
        BY <1>0, <2>2
      <3>2. ASSUME NEW old \in served, old < schema
            PROVE  old \in backups
        <4>1. CASE old < install.schema
          BY <4>1 DEF BackupInv, NeverWithoutWayBack
        <4>2. CASE old >= install.schema
          <5>1. old = install.schema /\ install.live > install.schema
            BY <2>1, <3>1, <3>2, <4>2 DEF BackupInv
          <5>. QED  BY <5>1 DEF BackupInv
        <4>. QED  BY <3>1, <4>1, <4>2
      <3>. QED  BY <3>2
    <2>. QED  BY <1>0, <2>1, <2>2, <2>3 DEF BackupInv, NeverWithoutWayBack
  <1>17. CASE UNCHANGED vars
    BY <1>0, <1>17 DEF vars, BackupInv, NeverWithoutWayBack
  <1>. QED  BY <1>2, <1>5, <1>6, <1>7, <1>8, <1>9, <1>10, <1>11, <1>12, <1>13, <1>14,
               <1>15, <1>16, <1>17 DEF Next, Step

\* A database that a smoke has passed on can be restored, whatever commands are
\* killed, fail or are tried again.
THEOREM WayBackIsKept == Spec => []NeverWithoutWayBack
  <1>1. Init => BackupInv
    <2>1. Init => UpgradeTypeOK
      BY InitTyped, UpgradeAssumption DEF TypeInv
    <2>. QED  BY <2>1 DEF Init, Idle, BackupInv, NeverWithoutWayBack
  <1>2. BackupInv /\ EarnedInv /\ EarnedInv' /\ [Next]_vars => BackupInv'
    BY BackupStep, UpgradeAssumption
  <1>3. BackupInv => NeverWithoutWayBack
    BY DEF BackupInv
  <1>. QED  BY <1>1, <1>2, <1>3, EarnedAlways, PTL DEF Spec

-----------------------------------------------------------------------------
(* The recorded stage.                                                     *)

\* The stage file stays as it is, loses everything, or gets a stage written.
LEMMA ProgressMoves ==
    ASSUME TypeInv, [Next]_vars, UpgradeAssumption
    PROVE  progress' \in {progress, NoProgress} \/ \E t, s : WriteState(t, s)
  <1>1. CASE BeginCommand
    BY <1>1, BeginLeaves
  <1>2. CASE Pinned \/ Plan \/ Prepared \/ Passed \/ RolledBack
    BY <1>2 DEF Pinned, Plan, Prepared, Passed, RolledBack
  <1>3. CASE Plugins
    BY <1>3 DEF Plugins
  <1>4. CASE Ready \/ Install \/ Gate \/ Migration
    BY <1>4 DEF Ready, Install, Gate, Migration
  <1>5. CASE PinAdapter \/ PinDocs \/ PinPackages \/ LockPackages \/ LockFails \/ Amend
    BY <1>5 DEF PinAdapter, PinDocs, PinPackages, LockPackages, Writes, LockFails, Amend
  <1>6. CASE Apply \/ Switch \/ Smoke \/ Failed
    BY <1>6 DEF Apply, Switch, Smoke, Failed
  <1>7. CASE CrashCommand \/ Opens \/ RestorePrevious \/ UNCHANGED vars
    BY <1>7 DEF CrashCommand, Opens, RestorePrevious, vars
  <1>. QED  BY <1>1, <1>2, <1>3, <1>4, <1>5, <1>6, <1>7 DEF Next, Step

\* A re-run never takes the recorded stage of a version back to an earlier one,
\* which the rank of the stages decides in write_state alone.
THEOREM StagesOnlyAdvance == Spec => StageNeverRegresses
  <1>. DEFINE Advances == /\ progress'.target = progress.target
                          /\ {progress.stage, progress'.stage} \subseteq Ordered
                          => Rank[progress.stage] <= Rank[progress'.stage]
  <1>1. ASSUME EarnedInv, [Next]_vars
        PROVE  [Advances]_vars
    <2>. SUFFICES ASSUME progress'.target = progress.target,
                         progress.stage \in Ordered, progress'.stage \in Ordered
                  PROVE  Rank[progress.stage] <= Rank[progress'.stage]
      OBVIOUS
    <2>1. \A x \in Ordered : Rank[x] \in Int
      BY DEF Ordered, Rank
    <2>2. CASE progress' = progress
      BY <2>1, <2>2
    <2>3. CASE progress' = NoProgress
      BY <2>3 DEF NoProgress, Ordered
    <2>4. ASSUME NEW t, NEW s, WriteState(t, s)
          PROVE  Rank[progress.stage] <= Rank[progress'.stage]
      <3>1. progress \in ProgressType
        BY <1>1 DEF EarnedInv, UpgradeTypeOK, ProgressType
      <3>2. progress'.target = Fresh(progress, t).target
            /\ progress'.stage = Kept(Fresh(progress, t), s)
        BY <2>4, <3>1 DEF WriteState, Fresh, ProgressType
      <3>3. Fresh(progress, t) = progress
        BY <3>2 DEF Fresh
      <3>4. progress'.stage = Kept(progress, s)
        BY <3>2, <3>3
      <3>. QED  BY <2>1, <3>4 DEF Kept
    <2>. QED  BY <1>1, <2>2, <2>3, <2>4, ProgressMoves, UpgradeAssumption DEF EarnedInv, TypeInv
  <1>. QED  BY <1>1, EarnedAlways, PTL DEF Spec, StageNeverRegresses
---------------------------------------------------------------------------
(* Canary: a way back is rehearsed, and nothing is lost in silence.        *)

CanaryCmdType == [pc : {"off", "gate", "copied", "hashed", "listed", "migrated"},
                todo : Seq(CanaryGates), copy : SUBSET Sessions, hash : SUBSET Sessions,
                ids : SUBSET Sessions, exit : {"none", "0", "1", "raised", "killed"},
                runs : 0 .. MaxCanaries, all : BOOLEAN, found : SUBSET Sessions]
ScratchType == [proven : SUBSET CanaryGates, backup : Backup, migrated : SUBSET Sessions,
                residual : SUBSET Sessions]

CanaryTyped ==
    /\ source \in [sessions : SUBSET Sessions, logged : SUBSET Sessions]
    /\ scratch \in ScratchType
    /\ services \subseteq {"C2", "C7"}
    /\ canary \in CanaryCmdType

\* A command that runs has a gate before it, and the sessions it found are still
\* there; the rehearsal belongs to the last gate.
GateIsNext ==
    canary.pc # "off" =>
      /\ canary.todo # <<>> /\ canary.found \subseteq source.sessions
      /\ canary.pc # "gate" => GateNow = "migration"
      /\ ~canary.all => Len(canary.todo) = 1

\* A command for all gates goes down their order: the gates behind it are proven,
\* C5 has left its backup, and C6 has tried that one.
OrderIsKept ==
    canary.pc # "off" /\ canary.all =>
      LET behind == 9 - Len(canary.todo)
      IN  /\ behind \in 0 .. 8
          /\ \A i \in 1 .. Len(canary.todo) : canary.todo[i] = CanaryOrder[behind + i]
          /\ \A i \in 1 .. behind : CanaryOrder[i] \in scratch.proven
          /\ behind >= 1 => scratch.backup.whole /\ canary.found \subseteq scratch.backup.sessions
          /\ behind >= 6 => scratch.backup.tried

\* What the file held when it was hashed is among the sessions listed after it.
HashIsListed ==
    /\ canary.pc = "hashed" => canary.hash \subseteq source.sessions
    /\ canary.pc \in {"listed", "migrated"} => canary.hash \subseteq canary.ids

CanaryInv == CanaryTyped /\ GateIsNext /\ OrderIsKept /\ HashIsListed /\ BackupIsRehearsed

\* Where a gate stands in the order.
LEMMA CanaryOrderFacts ==
    /\ CanaryOrder \in Seq(CanaryGates) /\ Len(CanaryOrder) = 9
    /\ \A i \in 1 .. 9 : /\ CanaryOrder[i] \in CanaryGates
                         /\ CanaryOrder[i] = "C5" <=> i = 1
                         /\ CanaryOrder[i] = "C6" <=> i = 6
                         /\ CanaryOrder[i] = "migration" <=> i = 9
    /\ \A g \in CanaryGates : \E i \in 1 .. 9 : CanaryOrder[i] = g
<1>1. CanaryOrder \in Seq(CanaryGates) /\ Len(CanaryOrder) = 9
  BY DEF CanaryOrder, CanaryGates
<1>2. /\ CanaryOrder[1] = "C5" /\ CanaryOrder[2] = "C1" /\ CanaryOrder[3] = "C2"
      /\ CanaryOrder[4] = "C3" /\ CanaryOrder[5] = "C4" /\ CanaryOrder[6] = "C6"
      /\ CanaryOrder[7] = "C7" /\ CanaryOrder[8] = "C8" /\ CanaryOrder[9] = "migration"
  BY DEF CanaryOrder
<1>3. \A i \in 1 .. 9 : \/ i = 1 \/ i = 2 \/ i = 3 \/ i = 4 \/ i = 5 \/ i = 6 \/ i = 7
                        \/ i = 8 \/ i = 9
  OBVIOUS
<1>4. \A i \in 1 .. 9 : /\ CanaryOrder[i] \in CanaryGates
                        /\ CanaryOrder[i] = "C5" <=> i = 1
                        /\ CanaryOrder[i] = "C6" <=> i = 6
                        /\ CanaryOrder[i] = "migration" <=> i = 9
  BY <1>2, <1>3 DEF CanaryGates
<1>5. \A g \in CanaryGates : \E i \in 1 .. 9 : CanaryOrder[i] = g
  BY <1>2 DEF CanaryGates
<1> QED BY <1>1, <1>4, <1>5

\* The command off with an exit other than "0" promises nothing.
LEMMA FailureKeeps ==
    ASSUME CanaryInv, NEW exit \in {"1", "raised", "killed"}, canary' = Off(exit),
           scratch' \in ScratchType, source' = source, services' \subseteq {"C2", "C7"}
    PROVE  CanaryInv'
<1>1. canary' \in CanaryCmdType /\ canary'.pc = "off" /\ canary'.exit = exit
  <2>1. <<>> \in Seq(CanaryGates) OBVIOUS
  <2> QED BY <2>1 DEF CanaryInv, CanaryTyped, CanaryCmdType, Off
<1>2. CanaryTyped' BY <1>1 DEF CanaryInv, CanaryTyped
<1>3. GateIsNext' /\ OrderIsKept' /\ HashIsListed' BY <1>1 DEF GateIsNext, OrderIsKept, HashIsListed
<1>4. BackupIsRehearsed' BY <1>1 DEF BackupIsRehearsed, CanaryPassed
<1> QED BY <1>2, <1>3, <1>4 DEF CanaryInv

\* A gate's verdict: s is the scratch root with what the gate itself has left.
LEMMA VerdictKeeps ==
    ASSUME CanaryInv, canary.pc # "off", canary.pc # "gate" => GateNow = "migration",
           NEW ok \in BOOLEAN, NEW begun \in SUBSET {"C2", "C7"}, NEW s \in ScratchType,
           GateVerdict(ok, begun, s), s.proven = scratch.proven,
           GateNow # "C5" => /\ s.backup.whole = scratch.backup.whole
                             /\ s.backup.sessions = scratch.backup.sessions
                             /\ scratch.backup.tried => s.backup.tried,
           GateNow = "C5" /\ ok => s.backup.whole /\ canary.found \subseteq s.backup.sessions,
           GateNow = "C6" /\ ok => s.backup.tried
    PROVE  CanaryInv'
<1>t. /\ canary \in CanaryCmdType /\ canary.todo \in Seq(CanaryGates) /\ canary.todo # <<>>
      /\ services \subseteq {"C2", "C7"} /\ Len(canary.todo) \in Nat \ {0}
      /\ GateNow \in CanaryGates /\ GateNow = canary.todo[1]
  <2>1. /\ canary \in CanaryCmdType /\ canary.todo \in Seq(CanaryGates) /\ canary.todo # <<>>
        /\ services \subseteq {"C2", "C7"}
    BY DEF CanaryInv, CanaryTyped, GateIsNext, CanaryCmdType
  <2>2. Len(canary.todo) \in Nat \ {0} BY <2>1, EmptySeq, LenProperties
  <2>3. Head(canary.todo) \in CanaryGates /\ Head(canary.todo) = canary.todo[1]
    BY <2>1, <2>2, HeadTailProperties
  <2> QED BY <2>1, <2>2, <2>3 DEF GateNow
<1>1. /\ scratch' = [s EXCEPT !.proven = IF ok THEN @ \cup {GateNow} ELSE @ \ {GateNow}]
      /\ source' = source
      /\ IF ok THEN Passes(begun) ELSE CanaryEnds("1")
  BY DEF GateVerdict
<1>2. /\ scratch' \in ScratchType /\ scratch'.backup = s.backup
      /\ ok => scratch'.proven = scratch.proven \cup {GateNow}
  BY <1>1, <1>t DEF ScratchType
<1>3. CASE ~ok
  <2>1. canary' = Off("1") /\ services' = {} BY <1>1, <1>3 DEF CanaryEnds, StopsServices
  <2> QED BY <1>1, <1>2, <2>1, FailureKeeps
<1>o. canary.all =>
        /\ 9 - Len(canary.todo) \in 0 .. 8
        /\ \A i \in 1 .. Len(canary.todo) : canary.todo[i] = CanaryOrder[9 - Len(canary.todo) + i]
        /\ \A i \in 1 .. 9 - Len(canary.todo) : CanaryOrder[i] \in scratch.proven
        /\ 9 - Len(canary.todo) >= 1 => scratch.backup.whole /\ canary.found \subseteq scratch.backup.sessions
        /\ 9 - Len(canary.todo) >= 6 => scratch.backup.tried
  BY DEF CanaryInv, OrderIsKept
<1>g. canary.all => GateNow = CanaryOrder[10 - Len(canary.todo)] /\ 10 - Len(canary.todo) \in 1 .. 9
  <2>1. \A n \in Nat \ {0} : 9 - n \in 0 .. 8 =>
          1 \in 1 .. n /\ 9 - n + 1 = 10 - n /\ 10 - n \in 1 .. 9
    OBVIOUS
  <2> QED BY <1>t, <1>o, <2>1
\* What is behind the command once the gate is passed.
<1>4. ASSUME ok, canary.all
      PROVE  /\ \A i \in 1 .. 10 - Len(canary.todo) : CanaryOrder[i] \in scratch'.proven
             /\ scratch'.backup.whole /\ canary.found \subseteq scratch'.backup.sessions
             /\ 10 - Len(canary.todo) >= 6 => scratch'.backup.tried
  <2>1. \A i \in 1 .. 10 - Len(canary.todo) : i \in 1 .. 9 - Len(canary.todo) \/ i = 10 - Len(canary.todo)
    BY <1>t, <1>4, <1>o
  <2>2. \A i \in 1 .. 10 - Len(canary.todo) : CanaryOrder[i] \in scratch'.proven
    BY <2>1, <1>2, <1>4, <1>g, <1>o
  <2>3. scratch'.backup.whole /\ canary.found \subseteq scratch'.backup.sessions
    <3>1. CASE GateNow = "C5" BY <1>2, <1>4, <3>1
    <3>2. CASE GateNow # "C5"
      <4>1. 10 - Len(canary.todo) # 1 BY <1>4, <1>g, <3>2, CanaryOrderFacts
      <4>2. 9 - Len(canary.todo) >= 1 BY <1>t, <1>4, <1>g, <4>1
      <4> QED BY <1>2, <1>4, <1>o, <3>2, <4>2
    <3> QED BY <3>1, <3>2
  <2>4. ASSUME 10 - Len(canary.todo) >= 6 PROVE scratch'.backup.tried
    <3>1. CASE GateNow = "C6" BY <1>2, <1>4, <3>1
    <3>2. CASE GateNow # "C6"
      <4>1. 10 - Len(canary.todo) # 6 BY <1>4, <1>g, <3>2, CanaryOrderFacts
      <4>2. 9 - Len(canary.todo) >= 6 BY <1>t, <1>4, <1>g, <2>4, <4>1
      <4>3. 10 - Len(canary.todo) # 1 BY <1>t, <2>4
      <4>4. GateNow # "C5"
        <5>1. GateNow = CanaryOrder[10 - Len(canary.todo)] /\ 10 - Len(canary.todo) \in 1 .. 9
          BY <1>4, <1>g
        <5>2. \A i \in 1 .. 9 : CanaryOrder[i] = "C5" => i = 1 BY CanaryOrderFacts
        <5> QED BY <4>3, <5>1, <5>2
      <4> QED BY <1>2, <1>4, <1>o, <4>2, <4>4
    <3> QED BY <3>1, <3>2
  <2> QED BY <2>2, <2>3, <2>4
<1>5. CASE ok /\ Len(canary.todo) = 1
  <2>1. canary' = Off("0") /\ services' = {} BY <1>1, <1>5 DEF Passes, CanaryEnds, StopsServices
  <2>2. /\ canary' \in CanaryCmdType /\ canary'.pc = "off" /\ canary'.all = canary.all
        /\ canary'.found = canary.found
    <3>1. <<>> \in Seq(CanaryGates) OBVIOUS
    <3> QED BY <1>t, <2>1, <3>1 DEF CanaryCmdType, Off
  <2>3. CanaryTyped' BY <1>1, <1>2, <2>1, <2>2 DEF CanaryInv, CanaryTyped
  <2>4. GateIsNext' /\ OrderIsKept' /\ HashIsListed' BY <2>2 DEF GateIsNext, OrderIsKept, HashIsListed
  <2>5. canary.all => /\ scratch'.proven = CanaryGates
                      /\ scratch'.backup.whole /\ scratch'.backup.tried
                      /\ canary.found \subseteq scratch'.backup.sessions
    <3>1. SUFFICES ASSUME canary.all
                   PROVE  /\ scratch'.proven = CanaryGates
                          /\ scratch'.backup.whole /\ scratch'.backup.tried
                          /\ canary.found \subseteq scratch'.backup.sessions
      OBVIOUS
    <3>2. \A i \in 1 .. 9 : CanaryOrder[i] \in scratch'.proven BY <1>4, <1>5, <3>1
    <3>3. scratch'.proven \subseteq CanaryGates BY <1>2 DEF ScratchType
    <3>4. CanaryGates \subseteq scratch'.proven BY <3>2, CanaryOrderFacts
    <3>5. scratch'.backup.whole /\ canary.found \subseteq scratch'.backup.sessions
      BY <1>4, <1>5, <3>1
    <3>6. scratch'.backup.tried
      <4>1. 10 - Len(canary.todo) >= 6 BY <1>5
      <4> QED BY <1>4, <1>5, <3>1, <4>1
    <3> QED BY <3>3, <3>4, <3>5, <3>6
  <2>6. BackupIsRehearsed' BY <2>2, <2>5 DEF BackupIsRehearsed, CanaryPassed
  <2> QED BY <2>3, <2>4, <2>6 DEF CanaryInv
<1>6. CASE ok /\ Len(canary.todo) # 1
  <2>1. /\ canary' = [canary EXCEPT !.todo = Tail(canary.todo)]
        /\ services' = services \cup begun
    BY <1>1, <1>6 DEF Passes
  <2>2. /\ Tail(canary.todo) \in Seq(CanaryGates) /\ Len(Tail(canary.todo)) = Len(canary.todo) - 1
        /\ \A i \in 1 .. Len(canary.todo) - 1 : Tail(canary.todo)[i] = canary.todo[i + 1]
    BY <1>t, HeadTailProperties
  <2>3. Tail(canary.todo) # <<>> /\ Len(canary.todo) - 1 \in Nat \ {0}
    <3>1. \A n \in Nat \ {0} : n # 1 => n - 1 \in Nat \ {0} OBVIOUS
    <3>2. Len(canary.todo) - 1 \in Nat \ {0} BY <1>t, <1>6, <3>1
    <3>3. Len(<<>>) = 0 OBVIOUS
    <3> QED BY <2>2, <3>2, <3>3
  <2>4. /\ canary' \in CanaryCmdType /\ canary'.todo = Tail(canary.todo) /\ canary'.pc = canary.pc
        /\ canary'.all = canary.all /\ canary'.found = canary.found
        /\ canary'.exit = canary.exit
        /\ canary'.hash = canary.hash /\ canary'.ids = canary.ids
    BY <1>t, <2>1, <2>2 DEF CanaryCmdType
  <2>5. CanaryTyped' BY <1>1, <1>2, <2>1, <2>4, <1>t DEF CanaryInv, CanaryTyped
  <2>6. canary.pc = "gate" /\ canary.all
    <3>1. canary.all BY <1>6 DEF CanaryInv, GateIsNext
    <3>2. ASSUME GateNow = "migration" PROVE FALSE
      <4>1. 10 - Len(canary.todo) = 9 BY <1>g, <3>1, <3>2, CanaryOrderFacts
      <4>2. \A n \in Nat : 10 - n = 9 => n = 1 OBVIOUS
      <4>3. Len(canary.todo) = 1 BY <1>t, <4>1, <4>2
      <4> QED BY <1>6, <4>3
    <3> QED BY <3>1, <3>2
  <2>7. GateIsNext' BY <1>1, <2>2, <2>3, <2>4, <2>6 DEF CanaryInv, GateIsNext
  <2>8. OrderIsKept'
    <3> DEFINE n == Len(canary.todo)
    <3>1. /\ n \in Nat \ {0} /\ 9 - n \in 0 .. 8 /\ n # 1 BY <1>t, <1>o, <1>6, <2>6
    <3>2. /\ Len(canary'.todo) = n - 1
          /\ \A i \in 1 .. n - 1 : canary'.todo[i] = canary.todo[i + 1]
      BY <2>2, <2>4
    <3>3. \A i \in 1 .. n : canary.todo[i] = CanaryOrder[9 - n + i] BY <1>o, <2>6
    <3>4. /\ \A i \in 1 .. 10 - n : CanaryOrder[i] \in scratch'.proven
          /\ scratch'.backup.whole /\ canary.found \subseteq scratch'.backup.sessions
          /\ 10 - n >= 6 => scratch'.backup.tried
      BY <1>4, <1>6, <2>6
    <3> HIDE DEF n
    <3>5. 9 - (n - 1) = 10 - n /\ 10 - n \in 0 .. 8 BY <3>1
    <3>6. \A i \in 1 .. n - 1 : canary'.todo[i] = CanaryOrder[10 - n + i]
      <4> TAKE i \in 1 .. n - 1
      <4>1. i + 1 \in 1 .. n /\ 9 - n + (i + 1) = 10 - n + i BY <3>1
      <4> QED BY <3>2, <3>3, <4>1
    <3> QED BY <2>4, <3>2, <3>4, <3>5, <3>6 DEF OrderIsKept
  <2>9. HashIsListed' /\ BackupIsRehearsed'
    BY <2>4, <2>6 DEF HashIsListed, BackupIsRehearsed, CanaryPassed
  <2> QED BY <2>5, <2>7, <2>8, <2>9 DEF CanaryInv
<1> QED BY <1>3, <1>5, <1>6

\* The gates that keep the backup, and C5 and C6 themselves.
LEMMA GatesKeep ==
    ASSUME CanaryInv, InstallationGate \/ ConfigurationGate \/ GateC5 \/ GateC6
    PROVE  CanaryInv'
<1>t. /\ scratch \in ScratchType /\ source.sessions \subseteq Sessions
      /\ canary.found \subseteq source.sessions \/ canary.pc = "off"
  BY DEF CanaryInv, CanaryTyped, GateIsNext
<1>1. ASSUME NEW g \in CanaryGates \ {"C5", "C6"}, PlainGate(g) PROVE CanaryInv'
  <2>1. PICK ok \in BOOLEAN : GateVerdict(ok, {g} \cap {"C2", "C7"}, scratch)
    BY <1>1 DEF PlainGate
  <2>2. canary.pc = "gate" /\ GateNow = g BY <1>1 DEF PlainGate, AtGate
  <2>3. {g} \cap {"C2", "C7"} \in SUBSET {"C2", "C7"} OBVIOUS
  <2> QED BY <1>1, <1>t, <2>1, <2>2, <2>3, VerdictKeeps
<1>2. CASE InstallationGate \/ ConfigurationGate
  BY <1>1, <1>2 DEF InstallationGate, ConfigurationGate, CanaryGates
<1>3. CASE GateC5
  <2>1. canary.pc = "gate" /\ GateNow = "C5" BY <1>3 DEF GateC5, AtGate
  <2>2. PICK whole \in BOOLEAN : GateVerdict(whole, {}, [scratch EXCEPT !.backup =
          [exists |-> TRUE, whole |-> whole, tried |-> FALSE, sessions |-> source.sessions]])
    BY <1>3 DEF GateC5
  <2> DEFINE b == [exists |-> TRUE, whole |-> whole, tried |-> FALSE, sessions |-> source.sessions]
             s == [scratch EXCEPT !.backup = b]
  <2>3. b \in Backup /\ b.whole = whole /\ b.sessions = source.sessions BY <1>t DEF Backup
  <2> HIDE DEF b
  <2>4. s \in ScratchType /\ s.proven = scratch.proven /\ s.backup = b
    BY <1>t, <2>3 DEF ScratchType
  <2>5. GateVerdict(whole, {}, s) BY <2>2 DEF b
  <2> HIDE DEF s
  <2> QED BY <1>t, <2>1, <2>3, <2>4, <2>5, VerdictKeeps
<1>4. CASE GateC6
  <2>1. canary.pc = "gate" /\ GateNow = "C6" BY <1>4 DEF GateC6, AtGate
  <2>2. PICK reads \in BOOLEAN :
          LET ok == reads /\ scratch.backup.exists /\ scratch.backup.sessions # {}
          IN  GateVerdict(ok, {}, [scratch EXCEPT !.backup.tried = @ \/ ok])
    BY <1>4 DEF GateC6
  <2> DEFINE ok == reads /\ scratch.backup.exists /\ scratch.backup.sessions # {}
             s == [scratch EXCEPT !.backup.tried = @ \/ ok]
  <2>3. ok \in BOOLEAN /\ GateVerdict(ok, {}, s) BY <2>2, <1>t DEF ScratchType, Backup
  <2> HIDE DEF ok
  <2>4. /\ s \in ScratchType /\ s.proven = scratch.proven
        /\ s.backup.whole = scratch.backup.whole /\ s.backup.sessions = scratch.backup.sessions
        /\ scratch.backup.tried \/ ok => s.backup.tried
    BY <1>t, <2>3 DEF ScratchType, Backup
  <2> HIDE DEF s
  <2> QED BY <1>t, <2>1, <2>3, <2>4, VerdictKeeps
<1> QED BY <1>2, <1>3, <1>4

\* The rehearsal of the migration, up to its verdict.
LEMMA RehearsalKeeps ==
    ASSUME CanaryInv, RehearsalStep
    PROVE  CanaryInv'
<1>t. /\ canary \in CanaryCmdType /\ scratch \in ScratchType /\ source.sessions \subseteq Sessions
      /\ source.logged \subseteq Sessions
  BY DEF CanaryInv, CanaryTyped
<1>k. ASSUME NEW pc \in {"copied", "hashed", "listed", "migrated"}, canary.pc # "off",
             GateNow = "migration", source' = source, services' = services,
             scratch' \in ScratchType, scratch'.proven = scratch.proven,
             scratch'.backup = scratch.backup, canary' \in CanaryCmdType, canary'.pc = pc,
             canary'.todo = canary.todo, canary'.all = canary.all, canary'.found = canary.found,
             pc = "hashed" => canary'.hash = InFile,
             pc = "listed" => canary.pc = "hashed" /\ canary'.hash = canary.hash
                                /\ canary'.ids = source.sessions,
             pc = "migrated" => canary.pc = "listed" /\ canary'.hash = canary.hash
                                /\ canary'.ids = canary.ids
      PROVE  CanaryInv'
  <2>1. CanaryTyped' BY <1>k DEF CanaryInv, CanaryTyped
  <2>2. GateIsNext' BY <1>k DEF CanaryInv, GateIsNext, GateNow
  <2>3. OrderIsKept' BY <1>k DEF CanaryInv, OrderIsKept
  <2>4. HashIsListed' BY <1>k DEF CanaryInv, HashIsListed, InFile
  <2>5. BackupIsRehearsed' BY <1>k DEF BackupIsRehearsed, CanaryPassed
  <2> QED BY <2>1, <2>2, <2>3, <2>4, <2>5 DEF CanaryInv
<1>1. CASE CopySource
  <2> DEFINE c == [canary EXCEPT !.pc = "copied", !.copy = source.sessions]
  <2>1. /\ c \in CanaryCmdType /\ c.pc = "copied" /\ c.todo = canary.todo /\ c.all = canary.all
        /\ c.found = canary.found
    BY <1>t DEF CanaryCmdType
  <2>2. /\ canary' = c /\ canary.pc = "gate" /\ GateNow = "migration"
        /\ UNCHANGED <<source, scratch, services>>
    BY <1>1 DEF CopySource, AtGate
  <2> HIDE DEF c
  <2> QED BY <1>k, <1>t, <2>1, <2>2
<1>2. CASE HashSource
  <2> DEFINE c == [canary EXCEPT !.pc = "hashed", !.hash = InFile]
  <2>1. /\ c \in CanaryCmdType /\ c.pc = "hashed" /\ c.todo = canary.todo /\ c.all = canary.all
        /\ c.found = canary.found /\ c.hash = InFile
    BY <1>t DEF CanaryCmdType, InFile
  <2>2. /\ canary' = c /\ canary.pc = "copied" /\ UNCHANGED <<source, scratch, services>>
    BY <1>2 DEF HashSource
  <2>3. GateNow = "migration" BY <2>2 DEF CanaryInv, GateIsNext
  <2> HIDE DEF c
  <2> QED BY <1>k, <1>t, <2>1, <2>2, <2>3
<1>3. CASE ListSource
  <2> DEFINE c == [canary EXCEPT !.pc = "listed", !.ids = source.sessions]
  <2>1. /\ c \in CanaryCmdType /\ c.pc = "listed" /\ c.todo = canary.todo /\ c.all = canary.all
        /\ c.found = canary.found /\ c.hash = canary.hash /\ c.ids = source.sessions
    BY <1>t DEF CanaryCmdType
  <2>2. /\ canary' = c /\ canary.pc = "hashed" /\ UNCHANGED <<source, scratch, services>>
    BY <1>3 DEF ListSource
  <2>3. GateNow = "migration" BY <2>2 DEF CanaryInv, GateIsNext
  <2> HIDE DEF c
  <2> QED BY <1>k, <1>t, <2>1, <2>2, <2>3
<1>4. CASE Rehearse
  <2>1. canary.pc = "listed" /\ GateNow = "migration"
    BY <1>4 DEF Rehearse, CanaryInv, GateIsNext
  <2>2. CASE GateVerdict(FALSE, {}, scratch)
    BY <1>t, <2>1, <2>2, VerdictKeeps
  <2>3. CASE /\ \E S \in SUBSET canary.copy : scratch' = [scratch EXCEPT !.migrated = S]
             /\ canary' = [canary EXCEPT !.pc = "migrated"]
             /\ UNCHANGED <<source, services>>
    <3>1. PICK S \in SUBSET canary.copy : scratch' = [scratch EXCEPT !.migrated = S] BY <2>3
    <3>2. /\ scratch' \in ScratchType /\ scratch'.proven = scratch.proven
          /\ scratch'.backup = scratch.backup
      BY <1>t, <3>1 DEF ScratchType, CanaryCmdType
    <3> DEFINE c == [canary EXCEPT !.pc = "migrated"]
    <3>3. /\ c \in CanaryCmdType /\ c.pc = "migrated" /\ c.todo = canary.todo /\ c.all = canary.all
          /\ c.found = canary.found /\ c.hash = canary.hash /\ c.ids = canary.ids
      BY <1>t DEF CanaryCmdType
    <3>4. canary' = c /\ UNCHANGED <<source, services>> BY <2>3
    <3> HIDE DEF c
    <3> QED BY <1>k, <2>1, <3>2, <3>3, <3>4
  <2> QED BY <1>4, <2>2, <2>3 DEF Rehearse
<1>5. CASE JudgeRehearsal
  <2>1. canary.pc = "migrated" /\ GateNow = "migration"
    BY <1>5 DEF JudgeRehearsal, CanaryInv, GateIsNext
  <2> DEFINE s == [scratch EXCEPT !.residual = canary.ids \ scratch.migrated]
  <2>2. /\ s \in ScratchType /\ s.proven = scratch.proven /\ s.backup = scratch.backup
    BY <1>t DEF ScratchType, CanaryCmdType
  <2>3. PICK ran \in BOOLEAN :
          GateVerdict(ran /\ Untouched /\ scratch.migrated \cap canary.ids # {}, {}, s)
    BY <1>5 DEF JudgeRehearsal
  <2>4. (ran /\ Untouched /\ scratch.migrated \cap canary.ids # {}) \in BOOLEAN OBVIOUS
  <2> HIDE DEF s
  <2> QED BY <2>1, <2>2, <2>3, <2>4, VerdictKeeps
<1> QED BY <1>1, <1>2, <1>3, <1>4, <1>5 DEF RehearsalStep

\* A command begins; an exception or a kill ends it; the version in use goes on.
LEMMA OtherCanaryKeeps ==
    ASSUME CanaryInv, StartCanary \/ Raises \/ CanaryKilled \/ NewSession \/ Checkpoint
    PROVE  CanaryInv'
<1>t. /\ canary \in CanaryCmdType /\ scratch \in ScratchType /\ services \subseteq {"C2", "C7"}
      /\ source.sessions \subseteq Sessions /\ source.logged \subseteq Sessions
      /\ source \in [sessions : SUBSET Sessions, logged : SUBSET Sessions]
  BY DEF CanaryInv, CanaryTyped
<1>1. CASE StartCanary
  <2>1. PICK all \in BOOLEAN, g \in CanaryGates :
          canary' = [canary EXCEPT !.pc = "gate", !.runs = @ + 1, !.exit = "none", !.all = all,
                       !.found = source.sessions, !.todo = IF all THEN CanaryOrder ELSE <<g>>]
    BY <1>1 DEF StartCanary
  <2>2. /\ source' = source /\ scratch' = scratch /\ services' = services
        /\ canary.runs < MaxCanaries
    BY <1>1 DEF StartCanary
  <2>3. canary.runs + 1 \in 0 .. MaxCanaries
    <3>1. canary.runs \in 0 .. MaxCanaries BY <1>t DEF CanaryCmdType
    <3> QED BY <2>2, <3>1, CanaryAssumption
  <2> DEFINE todo == IF all THEN CanaryOrder ELSE <<g>>
  <2>4. /\ todo \in Seq(CanaryGates) /\ todo # <<>>
        /\ ~all => Len(todo) = 1
        /\ all => todo = CanaryOrder
    <3>1. CASE all
      <4>1. CanaryOrder \in Seq(CanaryGates) /\ Len(CanaryOrder) = 9 /\ Len(<<>>) = 0
        BY CanaryOrderFacts
      <4>2. CanaryOrder # <<>> BY <4>1
      <4>3. todo = CanaryOrder BY <3>1
      <4> HIDE DEF todo
      <4> QED BY <3>1, <4>1, <4>2, <4>3
    <3>2. CASE ~all BY <3>2
    <3> QED BY <3>1, <3>2
  <2>5. canary' = [canary EXCEPT !.pc = "gate", !.runs = @ + 1, !.exit = "none", !.all = all,
                       !.found = source.sessions, !.todo = todo]
    BY <2>1
  <2> HIDE DEF todo
  <2>6. /\ canary' \in CanaryCmdType /\ canary'.pc = "gate" /\ canary'.all = all
        /\ canary'.found = source.sessions /\ canary'.todo = todo
    <3> DEFINE c == [canary EXCEPT !.pc = "gate", !.runs = @ + 1, !.exit = "none", !.all = all]
    <3>1. c \in CanaryCmdType /\ c.pc = "gate" /\ c.all = all BY <1>t, <2>3 DEF CanaryCmdType
    <3>2. canary' = [c EXCEPT !.found = source.sessions, !.todo = todo] BY <2>5
    <3> HIDE DEF c
    <3> QED BY <1>t, <2>4, <3>1, <3>2 DEF CanaryCmdType
  <2>7. CanaryTyped' BY <2>2, <2>6 DEF CanaryInv, CanaryTyped
  <2>8. GateIsNext'
    <3>1. canary'.todo # <<>> /\ canary'.found \subseteq source'.sessions BY <2>2, <2>4, <2>6
    <3>2. ~canary'.all => Len(canary'.todo) = 1 BY <2>4, <2>6
    <3> QED BY <2>6, <3>1, <3>2 DEF GateIsNext
  <2>9. OrderIsKept'
    <3>1. SUFFICES ASSUME all PROVE OrderIsKept' BY <2>6 DEF OrderIsKept
    <3>2. canary'.todo = CanaryOrder /\ Len(CanaryOrder) = 9 BY <2>4, <2>6, <3>1, CanaryOrderFacts
    <3>3. 9 - 9 = 0 /\ \A i \in 1 .. 9 : 0 + i = i OBVIOUS
    <3> QED BY <3>2, <3>3 DEF OrderIsKept
  <2>10. HashIsListed' /\ BackupIsRehearsed' BY <2>6 DEF HashIsListed, BackupIsRehearsed, CanaryPassed
  <2> QED BY <2>7, <2>8, <2>9, <2>10 DEF CanaryInv
<1>i. ASSUME Interrupted PROVE scratch' \in ScratchType
  <2>1. TornBackup \in Backup /\ [TornBackup EXCEPT !.whole = TRUE, !.sessions = source.sessions] \in Backup
    BY <1>t DEF TornBackup, NoBackup, Backup
  <2>2. \/ scratch' = scratch
        \/ \E b \in Backup : scratch' = [scratch EXCEPT !.backup = b]
    BY <1>i, <2>1 DEF Interrupted
  <2> QED BY <1>t, <2>2 DEF ScratchType
<1>2. CASE Raises
  <2>1. canary' = Off("raised") /\ services' = {} /\ source' = source /\ Interrupted
    BY <1>2 DEF Raises, CanaryEnds, StopsServices
  <2> QED BY <1>i, <2>1, FailureKeeps
<1>3. CASE CanaryKilled
  <2>1. canary' = Off("killed") /\ services' = services /\ source' = source /\ Interrupted
    BY <1>3 DEF CanaryKilled
  <2> QED BY <1>i, <1>t, <2>1, FailureKeeps
<1>s. ASSUME source' \in [sessions : SUBSET Sessions, logged : SUBSET Sessions],
             source.sessions \subseteq source'.sessions, UNCHANGED <<scratch, services, canary>>
      PROVE  CanaryInv'
  <2>1. CanaryTyped' BY <1>s DEF CanaryInv, CanaryTyped
  <2>2. GateIsNext' BY <1>s DEF CanaryInv, GateIsNext, GateNow
  <2>3. OrderIsKept' /\ BackupIsRehearsed'
    BY <1>s DEF CanaryInv, OrderIsKept, BackupIsRehearsed, CanaryPassed
  <2>4. HashIsListed' BY <1>s DEF CanaryInv, HashIsListed
  <2> QED BY <2>1, <2>2, <2>3, <2>4 DEF CanaryInv
<1>4. CASE NewSession
  <2>1. PICK s \in Sessions \ source.sessions :
          source' \in [sessions : {source.sessions \cup {s}},
                       logged : {source.logged, source.logged \cup {s}}]
    BY <1>4 DEF NewSession
  <2>2. UNCHANGED <<scratch, services, canary>> BY <1>4 DEF NewSession
  <2> QED BY <1>s, <1>t, <2>1, <2>2
<1>5. CASE Checkpoint
  <2>1. /\ source' = [source EXCEPT !.logged = {}] /\ UNCHANGED <<scratch, services, canary>>
    BY <1>5 DEF Checkpoint
  <2>2. /\ source' \in [sessions : SUBSET Sessions, logged : SUBSET Sessions]
        /\ source'.sessions = source.sessions
    BY <1>t, <2>1
  <2> QED BY <1>s, <2>1, <2>2
<1> QED BY <1>1, <1>2, <1>3, <1>4, <1>5

\* Nothing is backed up and no command has run at first.
LEMMA CanaryInitInv ==
    ASSUME CanaryInit
    PROVE  CanaryInv
<1>1. source \in [sessions : SUBSET Sessions, logged : SUBSET Sessions] BY DEF CanaryInit
<1>2. scratch \in ScratchType BY DEF CanaryInit, ScratchType, Backup, NoBackup
<1>3. canary \in CanaryCmdType
  <2>1. <<>> \in Seq(CanaryGates) /\ 0 \in 0 .. MaxCanaries BY CanaryAssumption
  <2> QED BY <2>1 DEF CanaryInit, CanaryCmdType
<1>4. canary.pc = "off" /\ canary.exit = "none" /\ services = {} BY DEF CanaryInit
<1>5. CanaryTyped BY <1>1, <1>2, <1>3, <1>4 DEF CanaryTyped
<1> QED BY <1>4, <1>5 DEF CanaryInv, GateIsNext, OrderIsKept, HashIsListed, BackupIsRehearsed, CanaryPassed

\* Every step of the canary keeps its invariant.
LEMMA CanaryStep ==
    ASSUME CanaryInv, [CanaryNext]_canaryvars
    PROVE  CanaryInv'
<1>1. CASE UNCHANGED canaryvars
  BY <1>1 DEF canaryvars, CanaryInv, CanaryTyped, GateIsNext, OrderIsKept, HashIsListed,
              BackupIsRehearsed, CanaryPassed, GateNow
<1>2. CASE CanaryNext
  BY <1>2, GatesKeep, RehearsalKeeps, OtherCanaryKeeps DEF CanaryNext
<1> QED BY <1>1, <1>2

\* The invariant of the canary holds in every behaviour, whatever its commands do.
LEMMA CanaryInvariant == CanarySpec => []CanaryInv
<1> QED BY CanaryInitInv, CanaryStep, PTL DEF CanarySpec

\* BackupIsRehearsed (opencode_v2_canary.py): a command of which all gates have passed has
\* every gate's evidence, and a whole backup which V1 has read and which has all sessions
\* there were when it began, whatever commands went before and whatever is begun meanwhile.
THEOREM RollbackIsRehearsed == CanarySpec => []BackupIsRehearsed
<1>1. CanaryInv => BackupIsRehearsed BY DEF CanaryInv
<1> QED BY <1>1, CanaryInvariant, PTL

\* ResidualIsComplete (opencode_v2_canary.py): when a rehearsal is judged passed, each
\* session of the database file is migrated or named in the residual, although sessions are
\* begun while it copies, rewinds and migrates.
THEOREM NothingIsLostSilently == CanarySpec => ResidualIsComplete
<1>1. ASSUME CanaryInv, [CanaryNext]_canaryvars
      PROVE  [JudgeRehearsal /\ canary'.exit = "0" =>
                InFile \subseteq scratch'.migrated \cup scratch'.residual]_canaryvars
  <2>1. SUFFICES ASSUME JudgeRehearsal, canary'.exit = "0"
                 PROVE  InFile \subseteq scratch'.migrated \cup scratch'.residual
    OBVIOUS
  <2> DEFINE s == [scratch EXCEPT !.residual = canary.ids \ scratch.migrated]
  <2>2. /\ scratch \in ScratchType /\ canary \in CanaryCmdType BY <1>1 DEF CanaryInv, CanaryTyped
  <2>3. s \in ScratchType /\ s.migrated = scratch.migrated /\ s.residual = canary.ids \ scratch.migrated
    BY <2>2 DEF ScratchType, CanaryCmdType
  <2>4. PICK ran \in BOOLEAN :
          GateVerdict(ran /\ Untouched /\ scratch.migrated \cap canary.ids # {}, {}, s)
    BY <2>1 DEF JudgeRehearsal
  <2> HIDE DEF s
  <2>5. canary.hash \subseteq canary.ids
    BY <1>1, <2>1 DEF CanaryInv, HashIsListed, JudgeRehearsal
  <2>6. scratch'.migrated = s.migrated /\ scratch'.residual = s.residual
    BY <2>3, <2>4 DEF GateVerdict, ScratchType
  <2>7. Untouched
    <3>1. SUFFICES ASSUME ~Untouched PROVE FALSE OBVIOUS
    <3>2. CanaryEnds("1") BY <2>4, <3>1 DEF GateVerdict
    <3>3. canary'.exit = "1" BY <2>2, <3>2 DEF CanaryEnds, Off, CanaryCmdType
    <3> QED BY <2>1, <3>3
  <2> QED BY <2>3, <2>5, <2>6, <2>7 DEF Untouched
<1> QED BY <1>1, CanaryInvariant, PTL DEF CanarySpec, ResidualIsComplete
---------------------------------------------------------------------------
(* Cutover: what is merged was checked.                                    *)

\* The artifact of `ready' names commits that passed together, unless somebody
\* touched the trees while it came about.
ReadinessIsEarned == readiness.state = "written" /\ readiness.steady => readiness.sha \in vouched

\* A `ready' that nobody disturbed: the framework is as it was committed, the trees are
\* the ones that passed, and after the look at it the consumer is as committed too.
ReadyIsSteady ==
    cut.steady =>
      /\ cut.pc \in {"check", "clean", "ready"} => Clean("framework")
      /\ cut.pc \in {"clean", "ready"} => TreeNow \in vouched
      /\ cut.pc = "ready" => Clean("consumer")

\* A smoke that has compared the artifact and found no fault, undisturbed, is of commits
\* that passed together.
SmokeIsSteady ==
    cut.pc \in {"drills", "smoke"} /\ cut.steady /\ cut.required /\ ~cut.failed =>
      HeadNow \in vouched

CutoverInv == CutoverTypeOK /\ ReadinessIsEarned /\ ReadyIsSteady /\ SmokeIsSteady
                /\ MergeIsEarned

CutPcs == {"off", "check", "clean", "ready", "install", "consumer", "drills", "smoke"}
CutType == [pc : CutPcs, urls : BOOLEAN, required : BOOLEAN, failed : BOOLEAN,
            steady : BOOLEAN, runs : 0 .. MaxChecks,
            exit : {"none", "0", "1", "2", "killed"}]

\* Where it begins.
LEMMA CutoverInitInv == CutoverInit => CutoverInv
<1> SUFFICES ASSUME CutoverInit PROVE CutoverInv OBVIOUS
<1>1. 1 \in Contents /\ 0 \in 0 .. MaxChecks BY CutoverAssumption DEF Contents
<1>2. NoArtifact \in Artifact BY <1>1 DEF NoArtifact, Artifact, Pairs
<1>3. CutoverTypeOK BY <1>1, <1>2 DEF CutoverInit, CutoverTypeOK
<1> QED BY <1>3 DEF CutoverInit, CutoverInv, ReadinessIsEarned, ReadyIsSteady, SmokeIsSteady,
                    MergeIsEarned, NoArtifact

\* The developers take the steadiness from whatever runs.
LEMMA DevelopersKeep ==
    ASSUME CutoverInv, NEW r \in Repos, Edit(r) \/ Commit(r)
    PROVE  CutoverInv'
<1>1. cut' = [cut EXCEPT !.steady = cut.pc = "off"] /\ UNCHANGED <<readiness, smoke, vouched>>
  BY DEF Edit, Commit, Touched
<1>2. cut \in CutType BY DEF CutoverInv, CutoverTypeOK, CutType, CutPcs
<1>3. /\ cut' \in CutType /\ cut'.pc = cut.pc
      /\ cut'.steady => cut.pc = "off"
  BY <1>1, <1>2 DEF CutType
<1>4. trees' \in [Repos -> [tree : Contents, head : Contents]]
  BY DEF CutoverInv, CutoverTypeOK, Edit, Commit
<1>5. CutoverTypeOK' BY <1>1, <1>3, <1>4 DEF CutoverInv, CutoverTypeOK, CutType, CutPcs
<1> QED BY <1>1, <1>3, <1>5
    DEF CutoverInv, ReadinessIsEarned, ReadyIsSteady, SmokeIsSteady, MergeIsEarned

\* The commands: what `ready' and the smoke write is earned.
LEMMA CommandsKeep ==
    ASSUME CutoverInv, StartReady \/ ReadyStep \/ StartSmoke \/ SmokeStep \/ CutoverKilled
    PROVE  CutoverInv'
<1>c. cut \in CutType BY DEF CutoverInv, CutoverTypeOK, CutType, CutPcs
<1>t. /\ trees \in [Repos -> [tree : Contents, head : Contents]]
      /\ readiness \in Artifact /\ smoke \in Artifact /\ vouched \subseteq Pairs
  BY DEF CutoverInv, CutoverTypeOK
<1>n. TreeNow \in Pairs /\ HeadNow \in Pairs BY <1>t DEF TreeNow, HeadNow, Pairs
<1>u. trees' = trees
  BY DEF StartReady, ReadyStep, CheckConsumer, CheckClean, WriteReady, StartSmoke, SmokeStep,
         CheckInstall, CheckReady, CheckDrills, WriteSmoke, CutoverKilled
<1>k. /\ Clean("framework")' <=> Clean("framework")
      /\ Clean("consumer")' <=> Clean("consumer")
      /\ TreeNow' = TreeNow /\ HeadNow' = HeadNow
  BY <1>u DEF Clean, TreeNow, HeadNow
<1>l. \A code \in {"none", "0", "1", "2", "killed"} :
         Leaves(code) \in CutType /\ Leaves(code).pc = "off"
  BY <1>c DEF Leaves, CutType, CutPcs
<1>r. \A pc \in CutPcs : /\ Reaches(pc) \in CutType /\ Reaches(pc).pc = pc
                         /\ Reaches(pc).steady = cut.steady
                         /\ Reaches(pc).required = cut.required
                         /\ Reaches(pc).failed = cut.failed
  BY <1>c DEF Reaches, CutType, CutPcs
<1>q. ASSUME cut' \in CutType, readiness' \in Artifact, smoke' \in Artifact,
             vouched' \subseteq Pairs
      PROVE  CutoverTypeOK'
  BY <1>q, <1>t, <1>u DEF CutoverTypeOK, CutType, CutPcs
<1> USE DEF CutoverInv
<1>1. CASE StartReady
  <2>1. PICK urls \in BOOLEAN :
          cut' = [cut EXCEPT !.pc = "check", !.urls = urls, !.runs = @ + 1, !.exit = "none",
                             !.steady = Clean("framework")]
    BY <1>1 DEF StartReady
  <2>2. UNCHANGED <<readiness, smoke, vouched>> BY <1>1 DEF StartReady
  <2>3. cut.runs + 1 \in 0 .. MaxChecks /\ Clean("framework") \in BOOLEAN
    <3>1. cut.runs < MaxChecks BY <1>1 DEF StartReady
    <3>2. cut.runs \in 0 .. MaxChecks BY <1>c DEF CutType
    <3> HIDE DEF CutoverInv
    <3> QED BY <3>1, <3>2, CutoverAssumption DEF Clean
  <2>4. cut' \in CutType /\ cut'.pc = "check" /\ (cut'.steady => Clean("framework"))
    BY <1>c, <2>1, <2>3 DEF CutType, CutPcs
  <2>5. CutoverTypeOK' BY <1>q, <1>t, <2>2, <2>4
  <2> QED BY <1>k, <2>2, <2>4, <2>5
       DEF ReadinessIsEarned, ReadyIsSteady, SmokeIsSteady, MergeIsEarned
<1>2. CASE CheckConsumer
  <2>1. UNCHANGED <<readiness, smoke>> BY <1>2 DEF CheckConsumer
  <2>2. \/ /\ cut' = Leaves("1") \/ cut' = Leaves("2")
           /\ vouched' = vouched \/ vouched' = vouched \cup {TreeNow}
        \/ cut' = Reaches("clean") /\ vouched' = vouched \cup {TreeNow}
    BY <1>2 DEF CheckConsumer
  <2>3. cut.pc = "check" BY <1>2 DEF CheckConsumer
  <2>4. /\ cut' \in CutType /\ cut'.pc \in {"off", "clean"}
        /\ cut'.pc = "clean" => cut'.steady = cut.steady /\ TreeNow \in vouched'
        /\ vouched \subseteq vouched' /\ vouched' \subseteq Pairs
    BY <1>l, <1>n, <1>r, <1>t, <2>2 DEF CutPcs
  <2>5. CutoverTypeOK' BY <1>q, <1>t, <2>1, <2>4
  <2> QED BY <1>k, <2>1, <2>3, <2>4, <2>5
       DEF ReadinessIsEarned, ReadyIsSteady, SmokeIsSteady, MergeIsEarned
<1>3. CASE CheckClean
  <2>1. UNCHANGED <<readiness, smoke, vouched>> /\ cut.pc = "clean" BY <1>3 DEF CheckClean
  <2>2. cut' = IF Clean("consumer") THEN Reaches("ready") ELSE Leaves("2")
    BY <1>3 DEF CheckClean, ConsumerClean
  <2>3. /\ cut' \in CutType /\ cut'.pc \in {"off", "ready"}
        /\ cut'.pc = "ready" => cut'.steady = cut.steady /\ Clean("consumer")
    BY <1>l, <1>r, <2>2 DEF CutPcs
  <2>4. CutoverTypeOK' BY <1>q, <1>t, <2>1, <2>3
  <2> QED BY <1>k, <2>1, <2>3, <2>4
       DEF ReadinessIsEarned, ReadyIsSteady, SmokeIsSteady, MergeIsEarned
<1>4. CASE WriteReady
  <2> DEFINE a == [NoArtifact EXCEPT !.state = "written", !.sha = HeadNow,
                                     !.steady = cut.steady]
  <2>1. readiness' = a /\ cut' = Leaves("0") /\ UNCHANGED <<smoke, vouched>> /\ cut.pc = "ready"
    BY <1>4 DEF WriteReady
  <2>2. a \in Artifact /\ a.sha = HeadNow /\ a.steady = cut.steady
    BY <1>c, <1>n DEF NoArtifact, Artifact, CutType
  <2>3. cut.steady => HeadNow \in vouched
    <3> SUFFICES ASSUME cut.steady PROVE HeadNow \in vouched OBVIOUS
    <3>1. Clean("framework") /\ Clean("consumer") /\ TreeNow \in vouched
      BY <2>1 DEF ReadyIsSteady
    <3>2. HeadNow = TreeNow BY <3>1 DEF HeadNow, TreeNow, Clean, Repos
    <3> QED BY <3>1, <3>2
  <2>4. cut' \in CutType /\ cut'.pc = "off" BY <1>l, <2>1
  <2>5. CutoverTypeOK' BY <1>q, <1>t, <2>1, <2>2, <2>4
  <2> HIDE DEF a
  <2> QED BY <2>1, <2>2, <2>3, <2>4, <2>5
       DEF ReadinessIsEarned, ReadyIsSteady, SmokeIsSteady, MergeIsEarned
<1>5. CASE StartSmoke
  <2>1. PICK required \in BOOLEAN :
          cut' = [cut EXCEPT !.pc = "install", !.required = required, !.runs = @ + 1,
                             !.exit = "none"]
    BY <1>5 DEF StartSmoke
  <2>2. UNCHANGED <<readiness, smoke, vouched>> BY <1>5 DEF StartSmoke
  <2>3. cut.runs + 1 \in 0 .. MaxChecks
    <3>1. cut.runs < MaxChecks BY <1>5 DEF StartSmoke
    <3>2. cut.runs \in 0 .. MaxChecks BY <1>c DEF CutType
    <3> HIDE DEF CutoverInv
    <3> QED BY <3>1, <3>2, CutoverAssumption
  <2>4. cut' \in CutType /\ cut'.pc = "install"
    BY <1>c, <2>1, <2>3 DEF CutType, CutPcs
  <2>5. CutoverTypeOK' BY <1>q, <1>t, <2>2, <2>4
  <2> QED BY <2>2, <2>4, <2>5
       DEF ReadinessIsEarned, ReadyIsSteady, SmokeIsSteady, MergeIsEarned
<1>6. CASE CheckInstall
  <2>1. UNCHANGED <<readiness, smoke, vouched>> BY <1>6 DEF CheckInstall
  <2>2. PICK f \in BOOLEAN :
          cut' = [Reaches(IF cut.required THEN "consumer" ELSE "drills") EXCEPT !.failed = f]
    BY <1>6 DEF CheckInstall
  <2>3. /\ cut' \in CutType /\ cut'.pc \in {"consumer", "drills"}
        /\ cut'.pc = "drills" => ~cut'.required
    BY <1>c, <2>2 DEF Reaches, CutType, CutPcs
  <2>4. CutoverTypeOK' BY <1>q, <1>t, <2>1, <2>3
  <2> QED BY <2>1, <2>3, <2>4
       DEF ReadinessIsEarned, ReadyIsSteady, SmokeIsSteady, MergeIsEarned
<1>7. CASE CheckReady
  <2>1. UNCHANGED <<readiness, smoke, vouched>> BY <1>7 DEF CheckReady
  <2>2. cut' = [Reaches("drills") EXCEPT !.failed = @ \/ ~VerifyArtifact(HeadNow),
                                         !.steady = @ /\ readiness.steady]
    BY <1>7 DEF CheckReady
  <2>3. readiness.steady \in BOOLEAN /\ VerifyArtifact(HeadNow) \in BOOLEAN
    BY <1>t DEF Artifact, VerifyArtifact
  <2>4. /\ cut' \in CutType /\ cut'.pc = "drills"
        /\ ~cut'.failed => VerifyArtifact(HeadNow)
        /\ cut'.steady => readiness.steady
    BY <1>c, <2>2, <2>3 DEF Reaches, CutType, CutPcs
  <2>5. cut'.steady /\ ~cut'.failed => HeadNow \in vouched
    BY <2>4 DEF VerifyArtifact, ReadinessIsEarned
  <2>6. CutoverTypeOK' BY <1>q, <1>t, <2>1, <2>4
  <2> QED BY <1>k, <2>1, <2>4, <2>5, <2>6
       DEF ReadinessIsEarned, ReadyIsSteady, SmokeIsSteady, MergeIsEarned
<1>8. CASE CheckDrills
  <2>1. UNCHANGED <<readiness, smoke, vouched>> /\ cut.pc = "drills" BY <1>8 DEF CheckDrills
  <2>2. PICK f \in BOOLEAN : cut' = [Reaches("smoke") EXCEPT !.failed = @ \/ f]
    BY <1>8 DEF CheckDrills
  <2>3. /\ cut' \in CutType /\ cut'.pc = "smoke" /\ cut'.steady = cut.steady
        /\ cut'.required = cut.required /\ (~cut'.failed => ~cut.failed)
    BY <1>c, <2>2 DEF Reaches, CutType, CutPcs
  <2>4. CutoverTypeOK' BY <1>q, <1>t, <2>1, <2>3
  <2> QED BY <1>k, <2>1, <2>3, <2>4
       DEF ReadinessIsEarned, ReadyIsSteady, SmokeIsSteady, MergeIsEarned
<1>9. CASE WriteSmoke
  <2> DEFINE a == [NoArtifact EXCEPT !.state = "written", !.sha = HeadNow,
                     !.passed = ~cut.failed, !.required = cut.required, !.steady = cut.steady]
  <2>1. /\ smoke' = a /\ cut' = Leaves(IF cut.failed THEN "1" ELSE "0")
        /\ UNCHANGED <<readiness, vouched>> /\ cut.pc = "smoke"
    BY <1>9 DEF WriteSmoke
  <2>2. /\ a \in Artifact /\ a.sha = HeadNow /\ a.steady = cut.steady
        /\ a.passed = ~cut.failed /\ a.required = cut.required
    BY <1>c, <1>n DEF NoArtifact, Artifact, CutType
  <2>3. cut' \in CutType /\ cut'.pc = "off" BY <1>l, <2>1
  <2>4. CutoverTypeOK' BY <1>q, <1>t, <2>1, <2>2, <2>3
  <2> HIDE DEF a
  <2> QED BY <2>1, <2>2, <2>3, <2>4
       DEF ReadinessIsEarned, ReadyIsSteady, SmokeIsSteady, MergeIsEarned
<1>10. CASE CutoverKilled
  <2>1. cut' \in CutType /\ cut'.pc = "off" BY <1>10, <1>l DEF CutoverKilled
  <2>2. /\ vouched' = vouched
        /\ readiness' = readiness \/ readiness' = Torn
        /\ smoke' = smoke \/ smoke' = Torn
    BY <1>10 DEF CutoverKilled
  <2>3. Torn \in Artifact /\ Torn.state = "torn" /\ ~Torn.passed
    <3>1. 1 \in Contents BY CutoverAssumption DEF Contents
    <3>2. NoArtifact \in Artifact /\ ~NoArtifact.passed
      BY <3>1 DEF NoArtifact, Artifact, Pairs
    <3> QED BY <3>2 DEF Torn, Artifact
  <2>4. CutoverTypeOK' BY <1>q, <1>t, <2>1, <2>2, <2>3
  <2> QED BY <2>1, <2>2, <2>3, <2>4
       DEF ReadinessIsEarned, ReadyIsSteady, SmokeIsSteady, MergeIsEarned
<1> QED BY <1>1, <1>2, <1>3, <1>4, <1>5, <1>6, <1>7, <1>8, <1>9, <1>10 DEF ReadyStep, SmokeStep

\* A step of the cutover, and none.
LEMMA CutoverStepInv == CutoverInv /\ [CutoverNext]_cutovervars => CutoverInv'
<1> SUFFICES ASSUME CutoverInv, [CutoverNext]_cutovervars PROVE CutoverInv' OBVIOUS
<1>1. CASE UNCHANGED cutovervars
  BY <1>1 DEF cutovervars, CutoverInv, CutoverTypeOK, ReadinessIsEarned, ReadyIsSteady,
              SmokeIsSteady, MergeIsEarned, Clean, TreeNow, HeadNow
<1> QED BY <1>1, DevelopersKeep, CommandsKeep DEF CutoverNext

\* MergeIsEarned (opencode_v2_consumer.py, opencode_v2_post_smoke.py): for any number of
\* commands and contents, whoever edits and commits between them, and whatever artifacts
\* of other commits, or half of one, lie about.
THEOREM MergesAreEarned == CutoverSpec => []MergeIsEarned
<1>1. CutoverInv => MergeIsEarned BY DEF CutoverInv
<1> QED BY <1>1, CutoverInitInv, CutoverStepInv, PTL DEF CutoverSpec
=============================================================================
