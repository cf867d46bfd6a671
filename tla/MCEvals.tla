------------------------------ MODULE MCEvals -------------------------------
(* Suites of one eval that include the quarantined, with a history of what the   *)
(* verdicts of each eval were in a row.                                          *)
EXTENDS EvalSuite

VARIABLE inARow    \* history: passes of each eval since its last failure

OneTrait == [e \in Evals |-> [skill |-> "a", deferred |-> FALSE, paid |-> FALSE,
                              core |-> TRUE, default |-> TRUE]]
AskAll == [skills |-> {"a"}, deferred |-> FALSE, ci |-> FALSE, quarantined |-> TRUE,
              mode |-> "all", limit |-> 1]
OneCommand == {AskAll}
NoFallback == {[enabled |-> FALSE, key |-> FALSE]}

Verdicted(e) == Len(log'.final[e]) > Len(log.final[e])

Counted(e) ==
    IF ~Verdicted(e) THEN inARow[e]
    ELSE CASE Last(log'.final[e]).outcome = "success" -> Upto(inARow[e] + 1, RehabRuns)
           [] Last(log'.final[e]).outcome = "failure" -> 0
           [] Last(log'.final[e]).outcome = "error"   -> inARow[e]

RowsInit == EvalInit /\ inARow = [e \in Evals |-> 0]
RowsNext == EvalNext /\ inARow' = [e \in Evals |-> Counted(e)]
RowsSpec == RowsInit /\ [][RowsNext]_<<evalvars, inARow>>
---------------------------------------------------------------------------
\* A quarantined eval is rehabilitated by RehabRuns passes in a row, so that one
\* lucky pass cannot reinstate it (REHAB_RUNS, record_success).
RehabIsConsecutive ==
    [][\A e \in Evals :
         book[e].status = "quarantined" /\ book'[e].status = "rehabilitated"
           => inARow'[e] >= RehabRuns]_<<evalvars, inARow>>
=============================================================================
