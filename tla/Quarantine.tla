----------------------------- MODULE Quarantine -----------------------------
(***************************************************************************)
(* scripts/quarantine.py: the book of evals that keep failing, one JSON    *)
(* file that every verdict of a suite loads, changes and saves.  An entry  *)
(* keeps its count of failures, its status and, once quarantined, the      *)
(* passes since; the dates are left out.                                   *)
(***************************************************************************)
EXTENDS Integers, FiniteSets, SequencesExt

CONSTANTS Evals,       \* the evals the skills define
          Threshold,   \* failures that quarantine an eval
          RehabRuns    \* passes that rehabilitate one

ASSUME QuarantineAssumption ==
    /\ Threshold \in Nat \ {0}
    /\ RehabRuns \in Nat \ {0}

VARIABLE book    \* logs/quarantine.json

Statuses == {"watching", "quarantined", "rehabilitated"}
Entry    == [count : Nat, status : Statuses, streak : Nat]
NoEntry  == [count |-> 0, status |-> "absent", streak |-> 0]

BookTypeOK == book \in [Evals -> Entry \cup {NoEntry}]
BookInit   == book = [e \in Evals |-> NoEntry]

StatusFor(count) == IF count >= Threshold THEN "quarantined" ELSE "watching"

\* Another failure; the passes since the quarantine are left as they are.
RecordFailure(e) ==
    book' = [book EXCEPT ![e] =
               [count |-> @.count + 1, status |-> StatusFor(@.count + 1), streak |-> @.streak]]

\* Mutant: one pass ends a quarantine.
RecordSuccess_AtOnce(e) == book' = [book EXCEPT ![e] = NoEntry]

\* Mutant: a pass is counted without a look at the status.
RecordSuccess_Uncleared(e) ==
    book' = [book EXCEPT ![e] =
      IF @.streak + 1 >= RehabRuns THEN [count |-> 0, status |-> "rehabilitated", streak |-> 0]
      ELSE [count |-> @.count, status |-> @.status, streak |-> @.streak + 1]]

\* A pass takes an eval off the book, unless it is quarantined: then it is
\* rehabilitated by the last of RehabRuns passes.
RecordSuccess(e) ==
    book' = [book EXCEPT ![e] =
      IF @.status # "quarantined" THEN NoEntry
      ELSE IF @.streak + 1 >= RehabRuns
      THEN [count |-> 0, status |-> "rehabilitated", streak |-> 0]
      ELSE [count |-> @.count, status |-> @.status, streak |-> @.streak + 1]]

\* Opened for writing, the file is empty until its content is flushed; what a
\* reader finds after a kill in between it takes for an empty book.
LoseBook == book' = [e \in Evals |-> NoEntry]

Quarantined == {e \in Evals : book[e].status = "quarantined"}
=============================================================================
