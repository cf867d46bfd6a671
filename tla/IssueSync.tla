----------------------------- MODULE IssueSync ------------------------------
(***************************************************************************)
(* skills/managing-github-issues/scripts/sync-issues.mjs: a command, run   *)
(* again and again by hand, that files one GitHub issue for each open row  *)
(* of ROADMAP.md, writes its number back into the row's Sources cell and,  *)
(* once every row has one, archives the documents the rows came from.      *)
(*                                                                         *)
(* A run may be killed between any two calls.  Two things keep the next    *)
(* one from filing a row again: the number in the cell, and the label      *)
(* roadmap-id:<id> of an issue that its listing shows.                     *)
(***************************************************************************)
EXTENDS Integers, FiniteSets, FiniteSetsExt, Sequences

CONSTANTS Rows,        \* the rows, in the order of the roadmap
          Page,        \* --limit of the listing
          MaxIssues,   \* bound: issues of the repository
          MaxSyncs      \* bound: commands

ASSUME SyncAssumption ==
    /\ Rows \subseteq Nat \ {0} /\ IsFiniteSet(Rows)
    /\ Page \in Nat /\ MaxIssues \in Nat /\ MaxSyncs \in Nat

VARIABLES
    issues,     \* the repository's issues; the index of one is its number
    labels,     \* the rows whose label the repository has
    refs,       \* of each row the issue numbers its Sources cell names
    archived,   \* have the source documents been moved
    sync,       \* the command that is running
    blind       \* history: did a command file issues without seeing all there were

syncvars == <<issues, labels, refs, archived, sync, blind>>

\* Row 0 is that of an issue somebody else filed.
IssueType == [row : Rows \cup {0}, open : BOOLEAN]

SyncTypeOK ==
    /\ issues \in Seq(IssueType) /\ Len(issues) <= MaxIssues
    /\ labels \subseteq Rows
    /\ refs \in [Rows -> SUBSET (1 .. MaxIssues)]
    /\ archived \in BOOLEAN /\ blind \in BOOLEAN
    /\ sync \in [pc : {"off", "list", "labels", "create", "write"}, runs : 0 .. MaxSyncs,
                 todo : SUBSET Rows, number : 0 .. MaxIssues]

SyncInit ==
    /\ issues = <<>> /\ labels = {} /\ archived = FALSE /\ blind = FALSE
    /\ refs = [r \in Rows |-> {}]
    /\ sync = [pc |-> "off", runs |-> 0, todo |-> {}, number |-> 0]

Of(r) == {n \in DOMAIN issues : issues[n].row = r}
IsBacked(r) == refs[r] # {}

---------------------------------------------------------------------------
(* The repository and the roadmap, when no command touches them.           *)

\* Somebody files an issue of their own.
ForeignIssue ==
    /\ Len(issues) < MaxIssues
    /\ issues' = Append(issues, [row |-> 0, open |-> TRUE])
    /\ UNCHANGED <<labels, refs, archived, sync, blind>>

\* The work is done, and the row not yet taken out of its table.
CloseIssue ==
    /\ \E n \in DOMAIN issues : issues[n].open /\ issues' = [issues EXCEPT ![n].open = FALSE]
    /\ UNCHANGED <<labels, refs, archived, sync, blind>>

\* A write-back that was never committed is lost.
RefsLost ==
    /\ \E r \in Rows : IsBacked(r) /\ refs' = [refs EXCEPT ![r] = {}]
    /\ UNCHANGED <<issues, labels, archived, sync, blind>>

---------------------------------------------------------------------------
(* The command.                                                            *)

SyncEnds == [sync EXCEPT !.pc = "off", !.todo = {}, !.number = 0]

\* The roadmap is read once.
StartSync ==
    /\ sync.pc = "off" /\ sync.runs < MaxSyncs
    /\ sync' = [sync EXCEPT !.pc = "list", !.runs = @ + 1, !.todo = {r \in Rows : ~IsBacked(r)}]
    /\ UNCHANGED <<issues, labels, refs, archived, blind>>

\* Mutant: closed issues are not listed.
Listed_Open(n) == n > Len(issues) - Page /\ issues[n].open

\* The listing has one page, of issues in every state, the newest first.
Listed(n) == n > Len(issues) - Page

\* existingIssueMap: the rows an issue of the listing carries the label of.  No
\* listing, for an error of any kind or because it was not asked for, is read as
\* one without such an issue.
ListIssues ==
    /\ sync.pc = "list"
    /\ \E answered \in BOOLEAN :
         LET Shown(n) == answered /\ Listed(n)
             todo == {r \in sync.todo : \A n \in Of(r) : ~Shown(n)}
         IN  /\ sync' = IF todo = {} THEN SyncEnds ELSE [sync EXCEPT !.pc = "labels", !.todo = todo]
             /\ blind' = (blind \/ ~answered
                            \/ \E r \in sync.todo : \E n \in Of(r) : n <= Len(issues) - Page)
    /\ UNCHANGED <<issues, labels, refs, archived>>

\* A label that cannot be created is a warning.
EnsureAllLabels ==
    /\ sync.pc = "labels"
    /\ \E S \in SUBSET sync.todo : labels' = labels \cup S
    /\ sync' = [sync EXCEPT !.pc = "create"]
    /\ UNCHANGED <<issues, refs, archived, blind>>

Item == Min(sync.todo)
NextItem == IF sync.todo = {Item} THEN SyncEnds
            ELSE [sync EXCEPT !.pc = "create", !.todo = @ \ {Item}, !.number = 0]

\* gh issue create: an issue, its number in the answer; or no issue, and always
\* none without the label; or an issue and an answer that is an error.
CreateIssue ==
    /\ sync.pc = "create"
    /\ \/ /\ Item \in labels /\ Len(issues) < MaxIssues
          /\ issues' = Append(issues, [row |-> Item, open |-> TRUE])
          /\ sync' \in {[sync EXCEPT !.pc = "write", !.number = Len(issues) + 1], NextItem}
       \/ sync' = NextItem /\ UNCHANGED issues
    /\ UNCHANGED <<labels, refs, archived, blind>>

\* The roadmap is read again, so that nothing written meanwhile is lost; if it
\* has no such table any more the number is not written.
WriteBackRef ==
    /\ sync.pc = "write"
    /\ refs' \in {refs, [refs EXCEPT ![Item] = @ \cup {sync.number}]}
    /\ sync' = NextItem
    /\ UNCHANGED <<issues, labels, archived, blind>>

\* --apply-cleanup: only the cells count here.
ApplyCleanup ==
    /\ sync.pc = "off" /\ sync.runs < MaxSyncs
    /\ sync' = [sync EXCEPT !.runs = @ + 1]
    /\ archived' = (archived \/ \A r \in Rows : IsBacked(r))
    /\ UNCHANGED <<issues, labels, refs, blind>>

SyncCrash ==
    /\ sync.pc # "off"
    /\ sync' = SyncEnds
    /\ UNCHANGED <<issues, labels, refs, archived, blind>>

SyncNext ==
    \/ StartSync \/ ListIssues \/ EnsureAllLabels \/ CreateIssue \/ WriteBackRef
    \/ ApplyCleanup \/ SyncCrash
    \/ ForeignIssue \/ CloseIssue \/ RefsLost

SyncSpec == SyncInit /\ [][SyncNext]_syncvars
---------------------------------------------------------------------------
(* Properties.                                                             *)

\* "Two-way, idempotent sync": a row never gets a second issue, whichever
\* commands were killed after filing one, which numbers were lost and which
\* issues closed -- as long as every listing came, and had room for the issues
\* of the rows without a number.  A cell names only issues of its own row, and
\* the documents go only when each row has had its issue.
NoSecondIssue ==
    /\ ~blind => \A r \in Rows : \A m, n \in Of(r) : m = n
    /\ \A r \in Rows : refs[r] \subseteq Of(r)
    /\ archived => \A r \in Rows : Of(r) # {}
=============================================================================
