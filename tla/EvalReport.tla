----------------------------- MODULE EvalReport -----------------------------
(***************************************************************************)
(* What scripts/eval-report.py makes of the log of a suite after it ended: *)
(* which evals came to a verdict, which died and stayed dead, which were   *)
(* recovered, and the share of the run that the degraded lane took with it *)
(* (the cover that asks for a review of the routing).  The log is one day's *)
(* file; here it has one suite.                                            *)
(***************************************************************************)
EXTENDS EvalSuite

CONSTANT ReviewCover    \* percent of a run's evals

ASSUME ReviewAssumption == ReviewCover \in Nat \ {0}

FinalKeys == {e \in Evals : log.final[e] # <<>>}

\* Mutant: an eval is classified by its first verdict.
TerminalInfra_First == {e \in FinalKeys : Head(log.final[e]).outcome = "error"}

\* The latest verdict is a death; or it is not, and an attempt before it died.
TerminalInfra  == {e \in FinalKeys : Latest(e).outcome = "error"}
RecoveredInfra == {e \in FinalKeys \ TerminalInfra : e \in log.notes}

\* The evals that the switch is blamed on are those of the marked records.
EvidenceKeys == IF log.switch = {} THEN {} ELSE log.marks

Cover == IF FinalKeys = {} THEN 0
         ELSE (100 * Cardinality(EvidenceKeys)) \div Cardinality(FinalKeys)

ReviewNeeded == Cover >= ReviewCover

\* The selected evals without a verdict, which turn a suite red.
MissingKeys == {suite.list[i] : i \in DOMAIN suite.list} \ FinalKeys
---------------------------------------------------------------------------
Reported == suite.pc = "idle" /\ suite.exit \notin {"none", "killed"}

\* The report agrees with the run: a green suite has no eval that stayed dead and
\* none missing, the lane is never blamed for more evals than were judged, and
\* every eval that died on it shows as dead or as recovered (an eval has at least
\* one fresh session, whose record tells of the death).
ReportIsTrue ==
    Reported =>
      /\ suite.exit = "0" => TerminalInfra = {} /\ MissingKeys = {}
      /\ Cover <= 100
      /\ MaxFresh > 0 => log.marks \subseteq TerminalInfra \cup RecoveredInfra
      /\ ReviewNeeded => log.switch # {}

\* What a suite says at its exit, and what is made of it later.
VerdictIsTrue == VerdictIsComplete /\ ReattemptsEarned /\ ReportIsTrue
=============================================================================
