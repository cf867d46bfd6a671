------------------------------- MODULE Canary -------------------------------
(***************************************************************************)
(* scripts/opencode_v2_canary.py: the gates a new version has to pass on a *)
(* scratch root before anything else is done with it.  Each gate leaves a  *)
(* file of evidence; C5 leaves the backup that C6 tries a rollback with;   *)
(* C2 and C7 start services; the last gate rehearses the migration on a    *)
(* copy.  All the while the version in use writes its database.            *)
(***************************************************************************)
EXTENDS Integers, Sequences, FiniteSets

CONSTANTS Sessions,       \* the sessions the version in use may come to have
          MaxCanaries     \* bound: commands

ASSUME CanaryAssumption == MaxCanaries \in Nat /\ IsFiniteSet(Sessions)

VARIABLES
    source,      \* the database in use
    scratch,     \* the scratch root
    services,    \* the gates whose service still runs
    canary       \* the command

canaryvars == <<source, scratch, services, canary>>

CanaryGates == {"C1", "C2", "C3", "C4", "C5", "C6", "C7", "C8", "migration"}

\* Mutant: the rollback is tried before there is a new backup.
CanaryOrder_C6First == <<"C6", "C5", "C1", "C2", "C3", "C4", "C7", "C8", "migration">>

CanaryOrder == <<"C5", "C1", "C2", "C3", "C4", "C6", "C7", "C8", "migration">>

\* What is said of the backup: is there one, is it whole, did V1 read it back.
Backup == [exists : BOOLEAN, whole : BOOLEAN, tried : BOOLEAN, sessions : SUBSET Sessions]
NoBackup == [exists |-> FALSE, whole |-> FALSE, tried |-> FALSE, sessions |-> {}]

CanaryTypeOK ==
    /\ source \in [sessions : SUBSET Sessions, logged : SUBSET Sessions]
    /\ scratch \in [proven : SUBSET CanaryGates, backup : Backup, migrated : SUBSET Sessions,
                    residual : SUBSET Sessions]
    /\ services \subseteq {"C2", "C7"}
    /\ canary.pc \in {"off", "gate", "copied", "hashed", "listed", "migrated"}
    /\ canary.todo \in Seq(CanaryGates)
    /\ canary.exit \in {"none", "0", "1", "raised", "killed"}
    /\ canary.runs \in 0 .. MaxCanaries /\ canary.all \in BOOLEAN
    /\ \A r \in {canary.found, canary.copy, canary.hash, canary.ids} : r \subseteq Sessions

CanaryInit ==
    /\ source = [sessions |-> {}, logged |-> {}]
    /\ scratch = [proven |-> {}, backup |-> NoBackup, migrated |-> {}, residual |-> {}]
    /\ services = {}
    /\ canary = [pc |-> "off", todo |-> <<>>, copy |-> {}, hash |-> {}, ids |-> {},
                 exit |-> "none", runs |-> 0, all |-> FALSE, found |-> {}]

---------------------------------------------------------------------------
(* The version in use.  Its database may keep a log: what is written there *)
(* is read by every connection, and not yet part of the file.              *)

InFile == source.sessions \ source.logged

NewSession ==
    /\ \E s \in Sessions \ source.sessions :
         source' \in [sessions : {source.sessions \cup {s}},
                     logged : {source.logged, source.logged \cup {s}}]
    /\ UNCHANGED <<scratch, services, canary>>

Checkpoint ==
    /\ source.logged # {} /\ source' = [source EXCEPT !.logged = {}]
    /\ UNCHANGED <<scratch, services, canary>>

---------------------------------------------------------------------------
(* The command.                                                            *)

\* main: all gates in their order, or one of them.
StartCanary ==
    /\ canary.pc = "off" /\ canary.runs < MaxCanaries
    /\ \E all \in BOOLEAN, g \in CanaryGates :
         canary' = [canary EXCEPT !.pc = "gate", !.runs = @ + 1, !.exit = "none", !.all = all,
                      !.found = source.sessions, !.todo = IF all THEN CanaryOrder ELSE <<g>>]
    /\ UNCHANGED <<source, scratch, services>>

\* stop_scratch_services: whichever way main returns, every service with its
\* configuration under the scratch root, those of earlier commands too.
StopsServices(exit) == services' = {}

Off(exit) == [canary EXCEPT !.pc = "off", !.todo = <<>>, !.copy = {}, !.hash = {}, !.ids = {},
                            !.exit = exit]
CanaryEnds(exit) == canary' = Off(exit) /\ StopsServices(exit)

\* The next gate, or the end.
Passes(started) ==
    IF Len(canary.todo) = 1 THEN CanaryEnds("0")
    ELSE /\ canary' = [canary EXCEPT !.todo = Tail(@)]
         /\ services' = services \cup started

GateNow == Head(canary.todo)
AtGate(g) == canary.pc = "gate" /\ GateNow = g

\* A verdict and its evidence: the first gate that fails ends the command.
GateVerdict(ok, started, s) ==
    /\ scratch' = [s EXCEPT !.proven = IF ok THEN @ \cup {GateNow} ELSE @ \ {GateNow}]
    /\ IF ok THEN Passes(started) ELSE CanaryEnds("1")
    /\ UNCHANGED source

PlainGate(g) ==
    /\ AtGate(g)
    /\ \E ok \in BOOLEAN : GateVerdict(ok, {g} \cap {"C2", "C7"}, scratch)

\* Gates that look and leave nothing but, some of them, a service: C1 the
\* installation, C2 the service, C3 the models, C4 ten runs.
InstallationGate == \E g \in {"C1", "C2", "C3", "C4"} : PlainGate(g)

\* C7 the agents, commands and tools of the configuration, C8 the tool names.
ConfigurationGate == \E g \in {"C7", "C8"} : PlainGate(g)

\* A consistent copy of the database, checked, over the one of an earlier command.
GateC5 ==
    /\ AtGate("C5")
    /\ \E whole \in BOOLEAN :
         GateVerdict(whole, {}, [scratch EXCEPT !.backup =
           [exists |-> TRUE, whole |-> whole, tried |-> FALSE, sessions |-> source.sessions]])

\* V1 lists sessions of the backup, put in a place of its own; without its binary
\* or a backup the gate fails.
GateC6 ==
    /\ AtGate("C6")
    /\ \E reads \in BOOLEAN :
         LET ok == reads /\ scratch.backup.exists /\ scratch.backup.sessions # {}
         IN  GateVerdict(ok, {}, [scratch EXCEPT !.backup.tried = @ \/ ok])

\* gate_migration: the copy, the source's hash, its sessions; then the candidate
\* migrates the copy.
CopySource ==
    /\ AtGate("migration")
    /\ canary' = [canary EXCEPT !.pc = "copied", !.copy = source.sessions]
    /\ UNCHANGED <<source, scratch, services>>

HashSource ==
    /\ canary.pc = "copied"
    /\ canary' = [canary EXCEPT !.pc = "hashed", !.hash = InFile]
    /\ UNCHANGED <<source, scratch, services>>

ListSource ==
    /\ canary.pc = "hashed"
    /\ canary' = [canary EXCEPT !.pc = "listed", !.ids = source.sessions]
    /\ UNCHANGED <<source, scratch, services>>

\* The migration reaches some of the sessions, or not its end.
Rehearse ==
    /\ canary.pc = "listed"
    /\ \/ /\ \E S \in SUBSET canary.copy : scratch' = [scratch EXCEPT !.migrated = S]
          /\ canary' = [canary EXCEPT !.pc = "migrated"]
          /\ UNCHANGED <<source, services>>
       \/ GateVerdict(FALSE, {}, scratch)

\* Mutant: the source is compared with the copy's list of sessions.
Untouched_Listed == canary.ids \subseteq source.sessions

Untouched == InFile = canary.hash

\* What did not arrive is written down, and is no failure.
JudgeRehearsal ==
    /\ canary.pc = "migrated"
    /\ \E ran \in BOOLEAN :
         GateVerdict(ran /\ Untouched /\ scratch.migrated \cap canary.ids # {}, {},
                 [scratch EXCEPT !.residual = canary.ids \ scratch.migrated])

\* In C5 an interruption comes before the copy, in the middle of it, or after it.
TornBackup == [NoBackup EXCEPT !.exists = TRUE]
Interrupted ==
    scratch' \in {scratch} \cup
      (IF GateNow # "C5" THEN {}
       ELSE {[scratch EXCEPT !.backup = b] :
               b \in {TornBackup, [TornBackup EXCEPT !.whole = TRUE, !.sessions = source.sessions]}})

\* An exception that a gate does not catch, a limit of time above all: the
\* evidence of an earlier command stays as it was.
Raises ==
    /\ canary.pc # "off"
    /\ CanaryEnds("raised") /\ Interrupted
    /\ UNCHANGED source

CanaryKilled ==
    /\ canary.pc # "off"
    /\ canary' = Off("killed") /\ Interrupted
    /\ UNCHANGED <<source, services>>

RehearsalStep == CopySource \/ HashSource \/ ListSource \/ Rehearse \/ JudgeRehearsal
CanaryNext == StartCanary \/ InstallationGate \/ ConfigurationGate \/ GateC5 \/ GateC6 \/ RehearsalStep
              \/ Raises \/ CanaryKilled \/ NewSession \/ Checkpoint
CanarySpec == CanaryInit /\ [][CanaryNext]_canaryvars
---------------------------------------------------------------------------
(* Properties.                                                             *)

CanaryPassed == canary.pc = "off" /\ canary.exit = "0"

\* The way back is rehearsed: when all gates have passed, all evidence says so and
\* the backup that is there is whole, V1 has read this very one and not that of an earlier command,
\* and it has every session there was when the command began.
BackupIsRehearsed ==
    CanaryPassed /\ canary.all =>
      /\ scratch.proven = CanaryGates
      /\ scratch.backup.whole /\ scratch.backup.tried
      /\ canary.found \subseteq scratch.backup.sessions

\* A session that a passed rehearsal did not bring along is named in its
\* residual, although sessions are begun while it runs -- but for one that the
\* database still keeps in its log.
ResidualIsComplete ==
    [][JudgeRehearsal /\ canary'.exit = "0" =>
         InFile \subseteq scratch'.migrated \cup scratch'.residual]_canaryvars

=============================================================================
