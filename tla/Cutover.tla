------------------------------ MODULE Cutover -------------------------------
(***************************************************************************)
(* scripts/opencode_v2_consumer.py and scripts/opencode_v2_post_smoke.py:  *)
(* before the framework and its consumer are merged, `ready` leaves an     *)
(* artifact that names the two commits it checked, and the smoke, after    *)
(* its own checks, compares it with the commits that are there.            *)
(*                                                                         *)
(* Both read the working trees over minutes, and ask git for the commits   *)
(* at their end; all the while somebody may edit and commit.               *)
(***************************************************************************)
EXTENDS Integers

CONSTANTS MaxContent,     \* bound: contents a tree may come to have
          MaxChecks       \* bound: commands

ASSUME CutoverAssumption == MaxContent \in Nat \ {0} /\ MaxChecks \in Nat

VARIABLES
    trees,     \* of each repository the content, and that of its HEAD
    readiness,     \* consumer-readiness.json
    smoke,     \* post-smoke.json
    cut,       \* the command
    vouched    \* history: the pairs of contents that passed `check`

cutovervars == <<trees, readiness, smoke, cut, vouched>>

Repos    == {"framework", "consumer"}
Contents == 1 .. MaxContent
Pairs    == [Repos -> Contents]
TreeNow  == [r \in Repos |-> trees[r].tree]
HeadNow  == [r \in Repos |-> trees[r].head]
Clean(r) == trees[r].tree = trees[r].head

\* steady is history: nobody touched the trees while the artifact came about, and
\* what was checked was what the commits hold.
Artifact == [state : {"missing", "torn", "written"}, sha : Pairs, passed : BOOLEAN,
             required : BOOLEAN, steady : BOOLEAN]
NoArtifact == [state |-> "missing", sha |-> [r \in Repos |-> 1], passed |-> FALSE,
               required |-> FALSE, steady |-> FALSE]
Torn == [NoArtifact EXCEPT !.state = "torn"]

CutoverTypeOK ==
    /\ trees \in [Repos -> [tree : Contents, head : Contents]]
    /\ readiness \in Artifact /\ smoke \in Artifact
    /\ cut \in [pc : {"off", "check", "clean", "ready", "install", "consumer", "drills", "smoke"},
                urls : BOOLEAN, required : BOOLEAN, failed : BOOLEAN, steady : BOOLEAN,
                runs : 0 .. MaxChecks, exit : {"none", "0", "1", "2", "killed"}]
    /\ vouched \subseteq Pairs

CutoverInit ==
    /\ trees = [r \in Repos |-> [tree |-> 1, head |-> 1]]
    /\ readiness = NoArtifact /\ smoke = NoArtifact
    /\ cut = [pc |-> "off", urls |-> FALSE, required |-> FALSE,
              failed |-> FALSE, steady |-> TRUE, runs |-> 0, exit |-> "none"]
    /\ vouched = {}

---------------------------------------------------------------------------
(* The developers.                                                         *)

Touched == cut' = [cut EXCEPT !.steady = cut.pc = "off"]

Edit(r) ==
    /\ \E c \in Contents \ {trees[r].tree} : trees' = [trees EXCEPT ![r].tree = c]
    /\ Touched
    /\ UNCHANGED <<readiness, smoke, vouched>>

Commit(r) ==
    /\ ~Clean(r) /\ trees' = [trees EXCEPT ![r].head = trees[r].tree]
    /\ Touched
    /\ UNCHANGED <<readiness, smoke, vouched>>

---------------------------------------------------------------------------
(* ready.                                                                  *)

Leaves(code) == [cut EXCEPT !.pc = "off", !.exit = code, !.urls = FALSE,
                           !.required = FALSE, !.failed = FALSE, !.steady = TRUE]
Reaches(pc) == [cut EXCEPT !.pc = pc]

StartReady ==
    /\ cut.pc = "off" /\ cut.runs < MaxChecks
    /\ \E urls \in BOOLEAN :
         cut' = [cut EXCEPT !.pc = "check", !.urls = urls, !.runs = @ + 1, !.exit = "none",
                            !.steady = Clean("framework")]
    /\ UNCHANGED <<trees, readiness, smoke, vouched>>

\* check: the consumer's files, the framework's binding checker, and with no
\* error so far an isolated run of V2.
CheckConsumer ==
    /\ cut.pc = "check"
    /\ \/ cut' = Leaves("1") /\ UNCHANGED vouched
       \/ /\ vouched' = vouched \cup {TreeNow}
          /\ cut' = IF cut.urls THEN Reaches("clean") ELSE Leaves("2")
    /\ UNCHANGED <<trees, readiness, smoke>>

\* Mutant: a tree that is not committed is as good.
ConsumerClean_Any == TRUE

\* worktree_clean: of the consumer; nobody asks after the framework.
ConsumerClean == Clean("consumer")

CheckClean ==
    /\ cut.pc = "clean"
    /\ cut' = IF ConsumerClean THEN Reaches("ready") ELSE Leaves("2")
    /\ UNCHANGED <<trees, readiness, smoke, vouched>>

\* head_sha of both, now.
WriteReady ==
    /\ cut.pc = "ready"
    /\ readiness' = [NoArtifact EXCEPT !.state = "written", !.sha = HeadNow, !.steady = cut.steady]
    /\ cut' = Leaves("0")
    /\ UNCHANGED <<trees, smoke, vouched>>

---------------------------------------------------------------------------
(* The smoke before the merge.                                             *)

StartSmoke ==
    /\ cut.pc = "off" /\ cut.runs < MaxChecks
    /\ \E required \in BOOLEAN :
         cut' = [cut EXCEPT !.pc = "install", !.required = required, !.runs = @ + 1, !.exit = "none"]
    /\ UNCHANGED <<trees, readiness, smoke, vouched>>

\* The version, the agents, the configuration, the plugin and its loader, the
\* database: no check that fails keeps the next from being made.
CheckInstall ==
    /\ cut.pc = "install"
    /\ cut' \in {[Reaches(IF cut.required THEN "consumer" ELSE "drills") EXCEPT !.failed = f] :
                   f \in BOOLEAN}
    /\ UNCHANGED <<trees, readiness, smoke, vouched>>

\* Mutant: the framework may have moved on.
VerifyArtifact_Consumer(sha) ==
    readiness.state = "written" /\ readiness.sha["consumer"] = sha["consumer"]

\* verify_artifact: missing, torn, or of other commits is no evidence.  None is
\* written without the two addresses that are asked for as well.
VerifyArtifact(sha) == readiness.state = "written" /\ readiness.sha = sha

CheckReady ==
    /\ cut.pc = "consumer"
    /\ cut' = [Reaches("drills") EXCEPT !.failed = @ \/ ~VerifyArtifact(HeadNow),
                                     !.steady = @ /\ readiness.steady]
    /\ UNCHANGED <<trees, readiness, smoke, vouched>>

\* D1-D6 are what the owner recorded, D7 is looked at now.
CheckDrills ==
    /\ cut.pc = "drills"
    /\ cut' \in {[Reaches("smoke") EXCEPT !.failed = @ \/ f] : f \in BOOLEAN}
    /\ UNCHANGED <<trees, readiness, smoke, vouched>>

\* The artifact is written either way, with the commits that are there now.
WriteSmoke ==
    /\ cut.pc = "smoke"
    /\ smoke' = [NoArtifact EXCEPT !.state = "written", !.sha = HeadNow, !.passed = ~cut.failed,
                                   !.required = cut.required, !.steady = cut.steady]
    /\ cut' = Leaves(IF cut.failed THEN "1" ELSE "0")
    /\ UNCHANGED <<trees, readiness, vouched>>

\* A write that is cut off leaves a file that cannot be read.
CutoverKilled ==
    /\ cut.pc # "off" /\ cut' = Leaves("killed")
    /\ \/ readiness' = readiness /\ smoke' = smoke
       \/ cut.pc = "ready" /\ readiness' = Torn /\ smoke' = smoke
       \/ cut.pc = "smoke" /\ smoke' = Torn /\ readiness' = readiness
    /\ UNCHANGED <<trees, vouched>>

ReadyStep == CheckConsumer \/ CheckClean \/ WriteReady
SmokeStep == CheckInstall \/ CheckReady \/ CheckDrills \/ WriteSmoke
CutoverNext == StartReady \/ ReadyStep \/ StartSmoke \/ SmokeStep \/ CutoverKilled
               \/ \E r \in Repos : Edit(r) \/ Commit(r)
CutoverSpec == CutoverInit /\ [][CutoverNext]_cutovervars
---------------------------------------------------------------------------
(* Properties.                                                             *)

\* Merges are gated on evidence of what is merged: the commits that a passed smoke
\* names were checked together, however often somebody edited and committed
\* between the commands and although artifacts of other commits lie about --
\* unless somebody did so while a command ran, or the framework had changes that
\* no commit has, which `ready` does not look for.
MergeIsEarned ==
    smoke.passed /\ smoke.required /\ smoke.steady => smoke.sha \in vouched
=============================================================================
