----------------------------- MODULE Tools_proofs -----------------------------
(***************************************************************************)
(* Theorems about the command-line tools, for any rows, evals, dispatches, *)
(* sessions and budgets: no row of the roadmap gets a second issue; the    *)
(* root of a dispatch that works in it is not pruned; the session guard    *)
(* spares what had finished; and of the behavioural evaluation the switch  *)
(* of the lane is proven, the verdicts and the report are true, and the    *)
(* quarantine is earned.                                                   *)
(***************************************************************************)
EXTENDS MCTools, Dispatcher_proofs, Upgrade_proofs, SequenceTheorems, FiniteSetTheorems, WellFoundedInduction, TLAPS
---------------------------------------------------------------------------
(* IssueSync: a row is filed once.                                         *)

Filing == {"labels", "create", "write"}

\* A command that files issues has rows to file, and between a creation and its
\* write-back it holds the number of an issue of the row it is at.
AtARow ==
    /\ sync.pc \in Filing => sync.todo # {}
    /\ sync.pc = "write" => sync.number \in Of(Item)

\* What a command that saw everything has still to file has no issue, but for the
\* row whose number it is about to write.
StillUnfiled ==
    ~blind /\ sync.pc \in Filing =>
      \A r \in sync.todo : Of(r) = {} \/ (sync.pc = "write" /\ r = Item)

SyncInv == SyncTypeOK /\ AtARow /\ StillUnfiled /\ NoSecondIssue
---------------------------------------------------------------------------
(* Lemmas about the two operators the steps go by.                         *)

\* A non-empty set of numbers has a least one, which the row at hand is.
LEMMA LeastIsMember ==
  ASSUME NEW T, T \subseteq Nat, T # {}
  PROVE  Min(T) \in T /\ \A y \in T : Min(T) <= y
<1> DEFINE R == {ss \in Nat \X Nat : ss[1] < ss[2]}
<1>1. IsWellFoundedOn(R, Nat)
  BY NatLessThanWellFounded DEF OpToRel
<1>2. PICK x \in T : \A y \in T : ~(<<y, x>> \in R)
  <2> HIDE DEF R
  <2> QED  BY <1>1, WFMin
<1>3. ASSUME NEW y \in T PROVE x =< y
  <2>1. y \in Nat /\ x \in Nat
    OBVIOUS
  <2>2. y < x => <<y, x>> \in R
    BY <2>1
  <2> HIDE DEF R
  <2> QED  BY <1>2, <2>1, <2>2
<1>4. \E z \in T : \A y \in T : z <= y BY <1>3
<1> QED  BY <1>4 DEF Min

\* A new issue is one more of its row, and none of any other.
LEMMA OneMoreIssue ==
  ASSUME issues \in Seq(IssueType), NEW e \in IssueType, issues' = Append(issues, e)
  PROVE  \A r : Of(r)' = Of(r) \cup (IF e.row = r THEN {Len(issues) + 1} ELSE {})
<1>1. /\ Len(issues) \in Nat
      /\ DOMAIN issues = 1 .. Len(issues)
      /\ DOMAIN issues' = 1 .. (Len(issues) + 1)
      /\ \A i \in 1 .. Len(issues) : issues'[i] = issues[i]
      /\ issues'[Len(issues) + 1] = e
  BY AppendProperties
<1> QED  BY <1>1 DEF Of

\* The row at hand is one of those to do.
LEMMA ItemIsToDo ==
  ASSUME SyncTypeOK, AtARow, sync.pc \in Filing
  PROVE  Item \in sync.todo /\ Item \in Rows
BY LeastIsMember, SyncAssumption DEF Item, SyncTypeOK, AtARow

---------------------------------------------------------------------------
(* The invariant.                                                          *)

\* Before the first command nothing is filed.
LEMMA SyncStarts == SyncInit => SyncInv
<1> SUFFICES ASSUME SyncInit PROVE SyncInv
  OBVIOUS
<1>1. \A r : Of(r) = {}
  BY DEF SyncInit, Of
<1>2. SyncTypeOK
  <2>1. <<>> \in Seq(IssueType) /\ Len(<<>>) <= MaxIssues
    BY SyncAssumption
  <2>2. 0 \in 0 .. MaxIssues /\ 0 \in 0 .. MaxSyncs
    BY SyncAssumption
  <2> QED  BY <2>1, <2>2 DEF SyncInit, SyncTypeOK
<1>3. AtARow /\ StillUnfiled /\ NoSecondIssue
  BY <1>1 DEF SyncInit, AtARow, StillUnfiled, Filing, NoSecondIssue
<1> QED  BY <1>2, <1>3 DEF SyncInv

\* The types, in three parts: the repository and the roadmap, the command, the flags.
WorldTyped ==
    /\ issues \in Seq(IssueType) /\ Len(issues) <= MaxIssues
    /\ labels \subseteq Rows
    /\ refs \in [Rows -> SUBSET (1 .. MaxIssues)]
SyncRecord == [pc : {"off", "list", "labels", "create", "write"}, runs : 0 .. MaxSyncs,
               todo : SUBSET Rows, number : 0 .. MaxIssues]
CommandTyped == sync \in SyncRecord
FlagsTyped == archived \in BOOLEAN /\ blind \in BOOLEAN

\* Together they are the types.
LEMMA TypesInParts == SyncTypeOK <=> WorldTyped /\ CommandTyped /\ FlagsTyped
BY DEF SyncTypeOK, WorldTyped, CommandTyped, SyncRecord, FlagsTyped

\* A command that ends, or goes on to the next row, is one.
LEMMA NextItemTyped ==
  ASSUME CommandTyped
  PROVE  SyncEnds \in SyncRecord /\ NextItem \in SyncRecord
<1>1. SyncEnds \in SyncRecord
  <2>1. 0 \in 0 .. MaxIssues
    BY SyncAssumption
  <2> QED  BY <2>1 DEF SyncEnds, CommandTyped, SyncRecord
<1>2. [sync EXCEPT !.pc = "create", !.todo = @ \ {Item}, !.number = 0] \in SyncRecord
  <2>1. 0 \in 0 .. MaxIssues
    BY SyncAssumption
  <2> QED  BY <2>1 DEF CommandTyped, SyncRecord
<1> QED  BY <1>1, <1>2 DEF NextItem

\* Steps of the command keep its type.
LEMMA CommandKept ==
  ASSUME SyncInv, [SyncNext]_syncvars
  PROVE  CommandTyped'
<1>0. CommandTyped /\ WorldTyped
  BY TypesInParts DEF SyncInv
<1>1. SyncEnds \in SyncRecord /\ NextItem \in SyncRecord
  BY <1>0, NextItemTyped
<1>2. sync.runs < MaxSyncs => sync.runs + 1 \in 0 .. MaxSyncs
  BY <1>0, SyncAssumption DEF CommandTyped, SyncRecord
<1>3. CASE StartSync
  <2>1. {r \in Rows : ~IsBacked(r)} \in SUBSET Rows
    OBVIOUS
  <2> QED  BY <1>0, <1>2, <1>3, <2>1 DEF StartSync, CommandTyped, SyncRecord
<1>4. CASE ListIssues
  <2>1. PICK answered \in BOOLEAN :
          LET Shown(n) == answered /\ Listed(n)
              todo == {r \in sync.todo : \A n \in Of(r) : ~Shown(n)}
          IN  sync' = IF todo = {} THEN SyncEnds
                      ELSE [sync EXCEPT !.pc = "labels", !.todo = todo]
    BY <1>4 DEF ListIssues
  <2> DEFINE todo == {r \in sync.todo : \A n \in Of(r) : ~(answered /\ Listed(n))}
  <2>2. sync' = IF todo = {} THEN SyncEnds ELSE [sync EXCEPT !.pc = "labels", !.todo = todo]
    BY <2>1
  <2>3. todo \in SUBSET Rows
    BY <1>0 DEF CommandTyped, SyncRecord
  <2> HIDE DEF todo
  <2> QED  BY <1>0, <1>1, <2>2, <2>3 DEF CommandTyped, SyncRecord
<1>5. CASE EnsureAllLabels
  BY <1>0, <1>5 DEF EnsureAllLabels, CommandTyped, SyncRecord
<1>6. CASE CreateIssue
  <2>1. Len(issues) < MaxIssues => Len(issues) + 1 \in 0 .. MaxIssues
    BY <1>0, SyncAssumption, LenProperties DEF WorldTyped
  <2> QED  BY <1>0, <1>1, <1>6, <2>1 DEF CreateIssue, CommandTyped, SyncRecord
<1>7. CASE WriteBackRef
  BY <1>1, <1>7 DEF WriteBackRef, CommandTyped
<1>8. CASE ApplyCleanup
  BY <1>0, <1>2, <1>8 DEF ApplyCleanup, CommandTyped, SyncRecord
<1>9. CASE SyncCrash
  BY <1>1, <1>9 DEF SyncCrash, CommandTyped
<1>10. CASE ForeignIssue \/ CloseIssue \/ RefsLost \/ UNCHANGED syncvars
  BY <1>0, <1>10 DEF ForeignIssue, CloseIssue, RefsLost, syncvars, CommandTyped
<1> QED  BY <1>3, <1>4, <1>5, <1>6, <1>7, <1>8, <1>9, <1>10 DEF SyncNext

\* Steps keep the types of what the commands work on.
LEMMA WorldKept ==
  ASSUME SyncInv, [SyncNext]_syncvars
  PROVE  WorldTyped'
<1>0. WorldTyped /\ CommandTyped /\ SyncTypeOK /\ AtARow
  BY TypesInParts DEF SyncInv
<1>1. CASE StartSync \/ ListIssues \/ ApplyCleanup \/ SyncCrash \/ UNCHANGED syncvars
  BY <1>0, <1>1 DEF StartSync, ListIssues, ApplyCleanup, SyncCrash, syncvars, WorldTyped
<1>2. CASE EnsureAllLabels
  <2>1. sync.todo \subseteq Rows
    BY <1>0 DEF CommandTyped, SyncRecord
  <2> QED  BY <1>0, <1>2, <2>1 DEF EnsureAllLabels, WorldTyped
<1>3. ASSUME NEW e \in IssueType, Len(issues) < MaxIssues, issues' = Append(issues, e)
      PROVE  issues' \in Seq(IssueType) /\ Len(issues') <= MaxIssues
  BY <1>0, <1>3, AppendProperties, LenProperties, SyncAssumption DEF WorldTyped
<1>4. CASE CreateIssue
  <2>1. Item \in Rows
    BY <1>0, <1>4, ItemIsToDo DEF CreateIssue, Filing
  <2>2. [row |-> Item, open |-> TRUE] \in IssueType
    BY <2>1 DEF IssueType
  <2> QED  BY <1>0, <1>3, <1>4, <2>2 DEF CreateIssue, WorldTyped
<1>5. CASE ForeignIssue
  <2>1. [row |-> 0, open |-> TRUE] \in IssueType
    BY DEF IssueType
  <2> QED  BY <1>0, <1>3, <1>5, <2>1 DEF ForeignIssue, WorldTyped
<1>6. CASE CloseIssue
  <2>1. PICK n \in DOMAIN issues : issues' = [issues EXCEPT ![n].open = FALSE]
    BY <1>6 DEF CloseIssue
  <2>2. issues[n] \in IssueType
    BY <1>0, <2>1, ElementOfSeq, LenProperties DEF WorldTyped
  <2>3. [issues[n] EXCEPT !.open = FALSE] \in IssueType
    BY <2>2 DEF IssueType
  <2>4. issues' = [issues EXCEPT ![n] = [issues[n] EXCEPT !.open = FALSE]]
    BY <2>1
  <2>5. issues' \in Seq(IssueType) /\ Len(issues') = Len(issues)
    BY <1>0, <2>1, <2>3, <2>4, ExceptSeq, LenProperties DEF WorldTyped
  <2> QED  BY <1>0, <1>6, <2>5 DEF CloseIssue, WorldTyped
<1>7. CASE RefsLost
  BY <1>0, <1>7 DEF RefsLost, WorldTyped
<1>8. CASE WriteBackRef
  <2>1. Item \in Rows
    BY <1>0, <1>8, ItemIsToDo DEF WriteBackRef, Filing
  <2>2. sync.number \in 1 .. MaxIssues
    <3>1. sync.number \in DOMAIN issues
      BY <1>0, <1>8 DEF WriteBackRef, AtARow, Of
    <3> QED  BY <1>0, <3>1, LenProperties, SyncAssumption DEF WorldTyped
  <2> QED  BY <1>0, <1>8, <2>1, <2>2 DEF WriteBackRef, WorldTyped
<1> QED  BY <1>1, <1>2, <1>4, <1>5, <1>6, <1>7, <1>8 DEF SyncNext

\* Every step keeps the types.
LEMMA SyncTypesKept ==
  ASSUME SyncInv, [SyncNext]_syncvars
  PROVE  SyncTypeOK'
<1>1. FlagsTyped'
  <2>1. FlagsTyped
    BY TypesInParts DEF SyncInv
  <2> QED  BY <2>1, Zenon DEF SyncNext, StartSync, ListIssues, EnsureAllLabels, CreateIssue,
             WriteBackRef, ApplyCleanup, SyncCrash, ForeignIssue, CloseIssue, RefsLost,
             syncvars, FlagsTyped
<1> QED  BY <1>1, CommandKept, WorldKept
         DEF SyncTypeOK, WorldTyped, CommandTyped, SyncRecord, FlagsTyped

\* What a creation adds is an issue of the row at hand, and it is the number that
\* is kept for the write-back.
LEMMA CreationIsOfItem ==
  ASSUME SyncInv, CreateIssue, issues' # issues
  PROVE  /\ \A r : Of(r)' = Of(r) \cup (IF r = Item THEN {Len(issues) + 1} ELSE {})
         /\ sync'.pc = "write" => sync'.todo = sync.todo /\ sync'.number = Len(issues) + 1
         /\ sync' \in {[sync EXCEPT !.pc = "write", !.number = Len(issues) + 1], NextItem}
<1>1. Item \in Rows
  BY ItemIsToDo DEF SyncInv, CreateIssue, Filing
<1>2. [row |-> Item, open |-> TRUE] \in IssueType
  BY <1>1 DEF IssueType
<1>3. /\ issues' = Append(issues, [row |-> Item, open |-> TRUE])
      /\ sync' \in {[sync EXCEPT !.pc = "write", !.number = Len(issues) + 1], NextItem}
  BY DEF CreateIssue
<1>4. NextItem.pc # "write"
  BY DEF NextItem, SyncEnds, SyncInv, SyncTypeOK
<1>5. \A r : Of(r)' = Of(r) \cup (IF r = Item THEN {Len(issues) + 1} ELSE {})
  BY <1>2, <1>3, OneMoreIssue DEF SyncInv, SyncTypeOK
<1> QED  BY <1>3, <1>4, <1>5 DEF SyncInv, SyncTypeOK

\* A command that files nothing goes on to the next row.
LEMMA CreationIsSeen ==
  ASSUME SyncInv, CreateIssue, issues' = issues
  PROVE  sync' = NextItem
<1>1. issues \in Seq(IssueType) /\ [row |-> Item, open |-> TRUE] \in IssueType
  BY ItemIsToDo DEF SyncInv, CreateIssue, Filing, IssueType, SyncTypeOK
<1>2. issues' # Append(issues, [row |-> Item, open |-> TRUE])
  BY <1>1, AppendProperties, LenProperties
<1> QED  BY <1>2 DEF CreateIssue

\* The issues of a row of the roadmap change with a creation only.
LEMMA OnlyCreationFiles ==
  ASSUME SyncInv, [SyncNext]_syncvars
  PROVE  \/ \A r \in Rows : Of(r)' = Of(r)
         \/ CreateIssue /\ issues' # issues
<1>1. CASE ForeignIssue
  <2>1. [row |-> 0, open |-> TRUE] \in IssueType
    BY DEF IssueType
  <2>2. \A r : Of(r)' = Of(r) \cup (IF 0 = r THEN {Len(issues) + 1} ELSE {})
    BY <1>1, <2>1, OneMoreIssue DEF ForeignIssue, SyncInv, SyncTypeOK
  <2> QED  BY <2>2, SyncAssumption
<1>2. CASE CloseIssue
  <2>1. PICK n \in DOMAIN issues : issues' = [issues EXCEPT ![n].open = FALSE]
    BY <1>2 DEF CloseIssue
  <2>2. issues \in [1 .. Len(issues) -> IssueType]
    BY LenProperties DEF SyncInv, SyncTypeOK
  <2>3. DOMAIN issues' = DOMAIN issues /\ \A m \in DOMAIN issues : issues'[m].row = issues[m].row
    BY <2>1, <2>2 DEF IssueType
  <2> QED  BY <2>3 DEF Of
<1>3. CASE issues' = issues
  BY <1>3 DEF Of
<1> QED  BY <1>1, <1>2, <1>3 DEF SyncNext, StartSync, ListIssues, EnsureAllLabels, CreateIssue,
            WriteBackRef, ApplyCleanup, SyncCrash, RefsLost, syncvars

\* A command that has ended has nothing to file.
LEMMA EndedIsIdle ==
  ASSUME SyncTypeOK
  PROVE  SyncEnds.pc = "off"
BY DEF SyncEnds, SyncTypeOK

\* The command that goes on has a row less to do, and the one that ends none.
LEMMA NextItemDoesLess ==
  ASSUME SyncTypeOK, NextItem.pc # "off"
  PROVE  NextItem.pc = "create" /\ NextItem.todo = sync.todo \ {Item} /\ sync.todo # {Item}
BY DEF NextItem, SyncEnds, SyncTypeOK

\* Every step leaves a command that files at a row, with that row's number.
LEMMA AtARowKept ==
  ASSUME SyncInv, [SyncNext]_syncvars
  PROVE  AtARow'
<1>0. SyncTypeOK /\ AtARow
  BY DEF SyncInv
<1>1. CASE StartSync
  BY <1>0, <1>1 DEF StartSync, AtARow, Filing, SyncTypeOK
<1>2. CASE ListIssues
  BY <1>0, <1>2, EndedIsIdle DEF ListIssues, AtARow, Filing, SyncTypeOK
<1>3. CASE EnsureAllLabels
  BY <1>0, <1>3 DEF EnsureAllLabels, AtARow, Filing, SyncTypeOK
<1>4. CASE sync' = NextItem /\ sync.pc \in Filing
  <2>1. CASE NextItem.pc = "off"
    BY <1>4, <2>1 DEF AtARow, Filing
  <2>2. CASE NextItem.pc # "off"
    BY <1>0, <1>4, <2>2, NextItemDoesLess DEF AtARow, Filing
  <2> QED  BY <2>1, <2>2
<1>5. CASE CreateIssue /\ sync' # NextItem
  <2>1. issues' # issues /\ sync' = [sync EXCEPT !.pc = "write", !.number = Len(issues) + 1]
    BY <1>5, CreationIsSeen DEF CreateIssue
  <2>2. Item' = Item
    BY <1>0, <2>1 DEF Item, SyncTypeOK
  <2>3. \A r : r = Item => Len(issues) + 1 \in Of(r)'
    BY <1>5, <2>1, CreationIsOfItem
  <2> QED  BY <1>0, <1>5, <2>1, <2>2, <2>3 DEF AtARow, Filing, CreateIssue, SyncTypeOK, Of
<1>6. CASE ApplyCleanup
  BY <1>0, <1>6 DEF ApplyCleanup, AtARow, Filing, SyncTypeOK
<1>7. CASE SyncCrash
  BY <1>0, <1>7, EndedIsIdle DEF SyncCrash, AtARow, Filing
<1>8. CASE UNCHANGED sync
  <2>1. Item' = Item
    BY <1>8 DEF Item
  <2>2. sync.pc = "write" => Item \in Rows
    BY <1>0, ItemIsToDo DEF Filing
  <2>3. sync.pc = "write" => Of(Item)' = Of(Item)
    BY <1>8, <2>1, <2>2, OnlyCreationFiles, CreationIsOfItem, <1>0 DEF CreateIssue
  <2> QED  BY <1>0, <1>8, <2>1, <2>3 DEF AtARow, Filing, Of
<1> QED  BY <1>1, <1>2, <1>3, <1>4, <1>5, <1>6, <1>7, <1>8
         DEF SyncNext, CreateIssue, WriteBackRef, ForeignIssue, CloseIssue, RefsLost, syncvars, Filing

\* A command that saw every issue there was still has only rows without one to file.
LEMMA StillUnfiledKept ==
  ASSUME SyncInv, [SyncNext]_syncvars
  PROVE  StillUnfiled'
<1>0. SyncTypeOK /\ AtARow /\ StillUnfiled
  BY DEF SyncInv
<1> SUFFICES ASSUME ~blind', sync'.pc \in Filing, NEW r \in sync'.todo
             PROVE  Of(r)' = {} \/ (sync'.pc = "write" /\ r = Item')
  BY DEF StillUnfiled, Filing
<1>1. ~blind
  BY DEF SyncNext, StartSync, ListIssues, EnsureAllLabels, CreateIssue, WriteBackRef,
         ApplyCleanup, SyncCrash, ForeignIssue, CloseIssue, RefsLost, syncvars
<1>2. r \in Rows
  BY SyncTypesKept DEF SyncTypeOK
<1>3. CASE StartSync \/ ApplyCleanup \/ SyncCrash
  BY <1>0, <1>3, EndedIsIdle DEF StartSync, ApplyCleanup, SyncCrash, Filing, SyncTypeOK
<1>4. CASE ListIssues
  <2>1. PICK answered \in BOOLEAN :
          LET todo == {q \in sync.todo : \A n \in Of(q) : ~(answered /\ Listed(n))}
          IN  /\ sync' = IF todo = {} THEN SyncEnds
                         ELSE [sync EXCEPT !.pc = "labels", !.todo = todo]
              /\ blind' = (blind \/ ~answered
                             \/ \E q \in sync.todo : \E n \in Of(q) : n <= Len(issues) - Page)
    BY <1>4 DEF ListIssues
  <2> DEFINE todo == {q \in sync.todo : \A n \in Of(q) : ~(answered /\ Listed(n))}
  <2>2. answered /\ \A q \in sync.todo : \A n \in Of(q) : ~(n <= Len(issues) - Page)
    BY <2>1
  <2>3. sync'.todo = todo
    <3>1. sync' = IF todo = {} THEN SyncEnds ELSE [sync EXCEPT !.pc = "labels", !.todo = todo]
      BY <2>1
    <3> HIDE DEF todo
    <3> QED  BY <1>0, <3>1, EndedIsIdle DEF Filing, SyncTypeOK
  <2>4. r \in sync.todo /\ \A n \in Of(r) : ~Listed(n)
    BY <2>2, <2>3
  <2>5. \A n \in Of(r) : n \in Int /\ Len(issues) \in Int
    BY <1>0, LenProperties DEF Of, SyncTypeOK
  <2>6. Of(r) = {}
    BY <2>2, <2>4, <2>5, SyncAssumption DEF Listed
  <2> QED  BY <1>4, <2>6 DEF ListIssues, Of
<1>5. CASE EnsureAllLabels
  <2>1. sync'.todo = sync.todo /\ sync.pc = "labels"
    BY <1>0, <1>5 DEF EnsureAllLabels, SyncTypeOK
  <2> QED  BY <1>0, <1>1, <1>5, <2>1 DEF EnsureAllLabels, StillUnfiled, Filing, Of
<1>6. CASE CreateIssue /\ issues' # issues
  <2>1. \A q : Of(q)' = Of(q) \cup (IF q = Item THEN {Len(issues) + 1} ELSE {})
    BY <1>6, CreationIsOfItem DEF SyncInv
  <2>2. \A q \in sync.todo : Of(q) = {}
    BY <1>0, <1>1, <1>6 DEF CreateIssue, StillUnfiled, Filing
  <2>3. CASE sync' = [sync EXCEPT !.pc = "write", !.number = Len(issues) + 1]
    <3>1. Item' = Item /\ sync'.pc = "write" /\ sync'.todo = sync.todo
      BY <1>0, <2>3 DEF Item, SyncTypeOK
    <3> QED  BY <2>1, <2>2, <3>1
  <2>4. CASE sync' = NextItem
    <3>1. r \in sync.todo /\ r # Item
      BY <1>0, <2>4, NextItemDoesLess DEF Filing
    <3> QED  BY <2>1, <2>2, <3>1
  <2> QED  BY <1>6, <2>3, <2>4, CreationIsOfItem DEF SyncInv
<1>7. CASE sync' = NextItem /\ sync.pc \in Filing /\ issues' = issues
  <2>1. r \in sync.todo /\ r # Item
    BY <1>0, <1>7, NextItemDoesLess DEF Filing
  <2> QED  BY <1>0, <1>1, <1>7, <2>1 DEF StillUnfiled, Of
<1>8. CASE UNCHANGED sync /\ ~CreateIssue
  <2>1. Item' = Item
    BY <1>8 DEF Item
  <2>2. Of(r)' = Of(r)
    BY <1>2, <1>8, OnlyCreationFiles
  <2> QED  BY <1>0, <1>1, <1>8, <2>1, <2>2 DEF StillUnfiled, Filing
<1>9. CASE CreateIssue /\ issues' = issues
  BY <1>7, <1>9, CreationIsSeen DEF CreateIssue, Filing
<1> QED  BY <1>3, <1>4, <1>5, <1>6, <1>7, <1>8, <1>9
         DEF SyncNext, WriteBackRef, ForeignIssue, CloseIssue, RefsLost, syncvars, Filing

\* A row that had an issue keeps it, and numbers in cells are of issues of the row.
LEMMA NoSecondIssueKept ==
  ASSUME SyncInv, [SyncNext]_syncvars
  PROVE  NoSecondIssue'
<1>0. SyncTypeOK /\ AtARow /\ StillUnfiled /\ NoSecondIssue
  BY DEF SyncInv
<1>1. ASSUME NEW r \in Rows PROVE Of(r) \subseteq Of(r)'
  BY OnlyCreationFiles, CreationIsOfItem DEF SyncInv
<1>2. ASSUME ~blind', NEW r \in Rows, NEW m \in Of(r)', NEW n \in Of(r)' PROVE m = n
  <2>1. ~blind
    BY <1>2 DEF SyncNext, StartSync, ListIssues, EnsureAllLabels, CreateIssue, WriteBackRef,
           ApplyCleanup, SyncCrash, ForeignIssue, CloseIssue, RefsLost, syncvars
  <2>2. CASE Of(r)' = Of(r)
    BY <1>0, <1>2, <2>1, <2>2 DEF NoSecondIssue
  <2>3. CASE CreateIssue /\ issues' # issues
    <3>1. Of(r)' = Of(r) \cup (IF r = Item THEN {Len(issues) + 1} ELSE {})
      BY <2>3, CreationIsOfItem
    <3>2. Of(Item) = {}
      BY <1>0, <2>1, <2>3, ItemIsToDo DEF CreateIssue, StillUnfiled, Filing
    <3> QED  BY <1>0, <1>2, <2>1, <3>1, <3>2 DEF NoSecondIssue
  <2> QED  BY <2>2, <2>3, OnlyCreationFiles
<1>3. ASSUME NEW r \in Rows PROVE refs'[r] \subseteq Of(r)'
  <2>1. CASE refs' = refs
    BY <1>0, <1>1, <2>1 DEF NoSecondIssue
  <2>2. CASE RefsLost
    BY <1>0, <1>1, <2>2 DEF RefsLost, NoSecondIssue, SyncTypeOK
  <2>3. CASE WriteBackRef
    BY <1>0, <1>1, <2>3 DEF WriteBackRef, NoSecondIssue, SyncTypeOK, AtARow
  <2> QED  BY <2>1, <2>2, <2>3 DEF SyncNext, StartSync, ListIssues, EnsureAllLabels,
              CreateIssue, ApplyCleanup, SyncCrash, ForeignIssue, CloseIssue, syncvars
<1>4. ASSUME archived', NEW r \in Rows PROVE Of(r)' # {}
  <2>1. CASE archived
    BY <1>0, <1>1, <2>1 DEF NoSecondIssue
  <2>2. CASE ApplyCleanup
    <3>1. archived \/ refs[r] # {}
      BY <1>4, <2>2, Zenon DEF ApplyCleanup, IsBacked
    <3>2. CASE refs[r] # {}
      BY <1>0, <1>1, <3>2 DEF NoSecondIssue
    <3> QED  BY <2>1, <3>1, <3>2
  <2> QED  BY <1>4, <2>1, <2>2 DEF SyncNext, StartSync, ListIssues, EnsureAllLabels, CreateIssue,
              WriteBackRef, SyncCrash, ForeignIssue, CloseIssue, RefsLost, syncvars
<1> QED  BY <1>2, <1>3, <1>4 DEF NoSecondIssue
---------------------------------------------------------------------------
(* The theorem.                                                            *)

\* sync-issues is idempotent: whichever commands were killed between filing an
\* issue and noting its number, which answers and write-backs were lost and which
\* issues closed, a row has one issue as long as every listing came and had room
\* for the issues of the rows without a number; cells name issues of their own
\* row, and documents are archived only when each row has had its issue.
THEOREM OneIssuePerRow == SyncSpec => []NoSecondIssue
<1>1. SyncInit => SyncInv
  BY SyncStarts
<1>2. SyncInv /\ [SyncNext]_syncvars => SyncInv'
  BY SyncTypesKept, AtARowKept, StillUnfiledKept, NoSecondIssueKept DEF SyncInv
<1>3. SyncInv => NoSecondIssue
  BY DEF SyncInv
<1> QED  BY <1>1, <1>2, <1>3, PTL DEF SyncSpec
---------------------------------------------------------------------------
(* RunConfigs: no prune takes the root of a dispatch that works in it.     *)

NotYet == {"new", "listing", "pruning"}

\* A dispatch has no root before it makes it; made, it is young, and there unless a
\* prune found a crowd; claimed, it is there with its marker if that could be written.
RootsAreKept ==
    \A d \in Dispatches :
      /\ disp[d].pc \in NotYet => ~root[d].there
      /\ disp[d].pc = "made" => root[d].mtime <= now /\ now - root[d].mtime < GraceAge
      /\ disp[d].pc = "made" /\ ~crowded => root[d].there
      /\ disp[d].pc = "running" /\ d \notin unmarked => root[d].there /\ root[d].marked

\* A prune looks at the clock before it lists, and what it lists is the root of a
\* dispatch that had made it, by the time it made it; without a crowd, no later than
\* the look.
OnlyOldIsStale ==
    \A d \in Dispatches :
      /\ disp[d].current <= now
      /\ disp[d].pc \in {"new", "listing"} => disp[d].stale = {}
      /\ \A e \in disp[d].stale :
           /\ ~crowded => e.mtime <= disp[d].current
           /\ disp[e.of].pc \notin NotYet
           /\ disp[e.of].pc = "made" => e.mtime = root[e.of].mtime

ConfigInv == ConfigTypeOK /\ RootsAreKept /\ OnlyOldIsStale

RootType == [there : BOOLEAN, mtime : 0 .. MaxNow, marked : BOOLEAN]
DispType == [pc : {"new", "listing", "pruning", "made", "running", "ended", "failed", "died"},
             current : 0 .. MaxNow, stale : SUBSET Found]

\* Before the first dispatch there is no root.
LEMMA ConfigInitInv == ConfigInit => ConfigInv
<1> SUFFICES ASSUME ConfigInit PROVE ConfigInv OBVIOUS
<1>1. 0 \in 0 .. MaxNow BY ConfigAssumption
<1>2. ConfigTypeOK BY <1>1 DEF ConfigInit, ConfigTypeOK
<1> QED BY <1>2 DEF ConfigInit, ConfigInv, RootsAreKept, OnlyOldIsStale, NotYet

\* A dispatch alone moves: what it may become.
LEMMA ConfigTypes ==
    ASSUME ConfigTypeOK
    PROVE  /\ now \in 0 .. MaxNow /\ root \in [Dispatches -> RootType]
           /\ disp \in [Dispatches -> DispType]
           /\ crowded \in BOOLEAN /\ unmarked \subseteq Dispatches
           /\ \A d \in Dispatches : root[d] \in RootType /\ disp[d] \in DispType
BY DEF ConfigTypeOK, RootType, DispType

\* The counting: if no more than Keep roots are newer than a prune's look at the
\* clock, one that is not among the Keep newest is not newer than it.
LEMMA UncountedIsOld ==
    ASSUME ConfigTypeOK, NEW d \in Dispatches, NEW newest \in SUBSET There,
           Cardinality(newest) = IF Cardinality(There) < Keep THEN Cardinality(There) ELSE Keep,
           \A r \in newest, s \in There \ newest : root[r].mtime >= root[s].mtime,
           ~(Cardinality(NewerThanLook(d)) > Keep), NEW s \in There \ newest
    PROVE  root[s].mtime <= disp[d].current
<1>t. \A k \in There : root[k].mtime \in Int
  BY ConfigTypes, ConfigAssumption DEF There, RootType
<1>c. disp[d].current \in Int BY ConfigTypes DEF DispType
<1>f. IsFiniteSet(There) BY ConfigAssumption, FS_Subset DEF There
<1>n. IsFiniteSet(newest) /\ IsFiniteSet(NewerThanLook(d))
  BY <1>f, FS_Subset DEF NewerThanLook
<1>k. /\ Cardinality(newest) \in Nat /\ Cardinality(There) \in Nat /\ Keep \in Nat
      /\ Cardinality(NewerThanLook(d)) \in Nat
  BY <1>f, <1>n, FS_CardinalityType, ConfigAssumption
<1>1. Cardinality(newest) = Keep
  <2>1. Cardinality(newest) # Cardinality(There) BY <1>f, FS_Subset
  <2> QED BY <1>k, <2>1
<1> SUFFICES ASSUME root[s].mtime > disp[d].current PROVE FALSE BY <1>t, <1>c
<1>2. newest \cup {s} \in SUBSET NewerThanLook(d)
  <2>1. \A r \in newest : root[r].mtime > disp[d].current BY <1>t, <1>c
  <2> QED BY <2>1 DEF NewerThanLook
<1>3. Cardinality(newest \cup {s}) = Keep + 1 BY <1>1, <1>n, FS_AddElement
<1>4. Cardinality(newest \cup {s}) <= Cardinality(NewerThanLook(d)) BY <1>2, <1>n, FS_Subset
<1> QED BY <1>k, <1>3, <1>4

\* A prune looks, lists and takes away.
LEMMA PruneKeeps ==
    ASSUME ConfigInv, NEW d \in Dispatches,
           StartPrune(d) \/ ListRoots(d) \/ PruneOne(d) \/ RunDies(d)
    PROVE  ConfigInv'
<1>t. /\ now \in 0 .. MaxNow /\ root \in [Dispatches -> RootType]
      /\ disp \in [Dispatches -> DispType]
      /\ crowded \in BOOLEAN /\ unmarked \subseteq Dispatches
      /\ \A k \in Dispatches : root[k] \in RootType /\ disp[k] \in DispType
  BY ConfigTypes DEF ConfigInv
<1>n. UNCHANGED <<now, unmarked>>
  BY DEF StartPrune, ListRoots, PruneOne, RunDies, prunehistory
<1>h. crowded' \in BOOLEAN /\ (crowded => crowded')
  BY <1>t DEF StartPrune, ListRoots, PruneOne, RunDies, prunehistory
<1>q. ASSUME NEW p \in DispType, disp' = [disp EXCEPT ![d] = p],
             root' \in [Dispatches -> RootType]
      PROVE  /\ ConfigTypeOK'
             /\ disp'[d] = p /\ \A k \in Dispatches \ {d} : disp'[k] = disp[k]
  BY <1>n, <1>h, <1>q, <1>t DEF ConfigTypeOK, RootType, DispType
<1>k. ASSUME NEW p \in DispType, disp' = [disp EXCEPT ![d] = p], root' = root,
             p.pc \in NotYet => disp[d].pc \in NotYet,
             p.pc \in {"made", "running"} => p.pc = disp[d].pc,
             p.current <= now, p.pc \in {"new", "listing"} => p.stale = {},
             \A e \in p.stale : /\ ~crowded' => e.mtime <= p.current
                                /\ disp[e.of].pc \notin NotYet
                                /\ disp[e.of].pc = "made" => e.mtime = root[e.of].mtime
      PROVE  ConfigInv'
  <2>1. /\ ConfigTypeOK'
        /\ disp'[d] = p /\ \A k \in Dispatches \ {d} : disp'[k] = disp[k]
    BY <1>k, <1>q, <1>t
  <2>2. RootsAreKept' BY <1>k, <1>n, <1>h, <2>1 DEF ConfigInv, RootsAreKept
  <2>3. \A k \in Dispatches : /\ disp'[k].pc \in NotYet => disp[k].pc \in NotYet
                              /\ disp'[k].pc = "made" => disp[k].pc = "made"
    BY <1>k, <2>1
  <2>4. \A k \in Dispatches : disp'[k].stale \subseteq Found
    BY <2>1 DEF ConfigTypeOK
  <2>5. OnlyOldIsStale'
    <3> SUFFICES ASSUME NEW k \in Dispatches
                 PROVE  /\ disp'[k].current <= now
                        /\ disp'[k].pc \in {"new", "listing"} => disp'[k].stale = {}
                        /\ \A e \in disp'[k].stale :
                             /\ ~crowded' => e.mtime <= disp'[k].current
                             /\ disp'[e.of].pc \notin NotYet
                             /\ disp'[e.of].pc = "made" => e.mtime = root[e.of].mtime
      BY <1>k, <1>n DEF OnlyOldIsStale
    <3>1. /\ disp'[k].current <= now
          /\ disp'[k].pc \in {"new", "listing"} => disp'[k].stale = {}
          /\ \A e \in disp'[k].stale :
                /\ ~crowded' => e.mtime <= disp'[k].current
                /\ disp[e.of].pc \notin NotYet
                /\ disp[e.of].pc = "made" => e.mtime = root[e.of].mtime
      BY <1>k, <1>h, <2>1 DEF ConfigInv, OnlyOldIsStale
    <3>2. \A e \in disp'[k].stale : e.of \in Dispatches BY <2>4 DEF Found
    <3> QED BY <2>3, <3>1, <3>2
  <2> QED BY <2>1, <2>2, <2>5 DEF ConfigInv
<1>1. CASE StartPrune(d)
  <2> DEFINE p == [disp[d] EXCEPT !.pc = "listing", !.current = now]
  <2>1. disp[d].pc = "new" /\ disp' = [disp EXCEPT ![d] = p] /\ root' = root
    BY <1>1 DEF StartPrune, Becomes
  <2>2. p \in DispType /\ p.pc = "listing" /\ p.current = now /\ p.stale = disp[d].stale
    BY <1>t DEF DispType
  <2>3. disp[d].stale = {} BY <2>1 DEF ConfigInv, OnlyOldIsStale
  <2> HIDE DEF p
  <2>4. p.current <= now BY <1>t, <2>2
  <2> QED BY <1>k, <2>1, <2>2, <2>3, <2>4 DEF NotYet
<1>2. CASE ListRoots(d)
  <2>1. PICK newest \in SUBSET There :
          /\ Cardinality(newest) = IF Cardinality(There) < Keep THEN Cardinality(There) ELSE Keep
          /\ \A r \in newest, s \in There \ newest : root[r].mtime >= root[s].mtime
          /\ LET old == {r \in There : disp[d].current - root[r].mtime > MaxAge}
             IN  Becomes(d, [disp[d] EXCEPT !.pc = "pruning",
                           !.stale = {[of |-> r, mtime |-> root[r].mtime] :
                                        r \in (There \ newest) \cup old}])
    BY <1>2 DEF ListRoots
  <2> DEFINE old == {r \in There : disp[d].current - root[r].mtime > MaxAge}
             stale == {[of |-> r, mtime |-> root[r].mtime] : r \in (There \ newest) \cup old}
             p == [disp[d] EXCEPT !.pc = "pruning", !.stale = stale]
  <2>2. disp' = [disp EXCEPT ![d] = p] BY <2>1 DEF Becomes
  <2>3. ~crowded' => \A r \in (There \ newest) \cup old : root[r].mtime <= disp[d].current
    <3> SUFFICES ASSUME ~crowded', NEW r \in (There \ newest) \cup old
                 PROVE  root[r].mtime <= disp[d].current
      OBVIOUS
    <3>1. CASE r \in There \ newest
      <4>1. ~(Cardinality(NewerThanLook(d)) > Keep) BY <1>2 DEF ListRoots
      <4> QED BY <2>1, <3>1, <4>1, UncountedIsOld DEF ConfigInv
    <3>2. CASE r \in old
      <4>1. disp[d].current - root[r].mtime > MaxAge /\ r \in Dispatches BY <3>2 DEF There
      <4>2. root[r].mtime \in Int /\ disp[d].current \in Int /\ MaxAge \in Nat
        BY <1>t, <4>1, ConfigAssumption DEF RootType, DispType
      <4> HIDE DEF old
      <4> QED BY <4>1, <4>2
    <3> QED BY <3>1, <3>2
  <2>4. stale \in SUBSET Found BY <1>t DEF Found, There, RootType
  <2>5. \A e \in stale : /\ ~crowded' => e.mtime <= disp[d].current
                         /\ disp[e.of].pc \notin NotYet
                         /\ disp[e.of].pc = "made" => e.mtime = root[e.of].mtime
    BY <2>3 DEF ConfigInv, RootsAreKept, There
  <2> HIDE DEF stale
  <2>6. p \in DispType /\ p.pc = "pruning" /\ p.current = disp[d].current /\ p.stale = stale
    BY <1>t, <2>4 DEF DispType
  <2>7. disp[d].pc = "listing" /\ root' = root BY <1>2 DEF ListRoots
  <2>8. disp[d].current <= now BY DEF ConfigInv, OnlyOldIsStale
  <2> HIDE DEF p
  <2> QED BY <1>k, <2>2, <2>5, <2>6, <2>7, <2>8 DEF NotYet
<1>3. CASE RunDies(d)
  <2> DEFINE p == [disp[d] EXCEPT !.pc = "died", !.stale = {}]
  <2>1. disp' = [disp EXCEPT ![d] = p] /\ root' = root BY <1>3 DEF RunDies, Becomes
  <2>2. p \in DispType /\ p.pc = "died" /\ p.current = disp[d].current /\ p.stale = {}
    BY <1>t DEF DispType
  <2>3. disp[d].current <= now BY DEF ConfigInv, OnlyOldIsStale
  <2> HIDE DEF p
  <2> QED BY <1>k, <2>1, <2>2, <2>3 DEF NotYet
<1>4. CASE PruneOne(d)
  <2>1. PICK e \in disp[d].stale :
          /\ Becomes(d, [disp[d] EXCEPT !.stale = @ \ {e}])
          /\ root' = IF IsActive(e.of, e.mtime, disp[d].current) THEN root
                     ELSE [root EXCEPT ![e.of] = [@ EXCEPT !.there = FALSE, !.marked = FALSE]]
    BY <1>4 DEF PruneOne
  <2>h. crowded' = crowded BY <1>4 DEF PruneOne, prunehistory
  <2> DEFINE p == [disp[d] EXCEPT !.stale = @ \ {e}]
  <2>2. disp' = [disp EXCEPT ![d] = p] BY <2>1 DEF Becomes
  <2>3. /\ p \in DispType /\ p.pc = disp[d].pc /\ p.current = disp[d].current
        /\ p.stale \subseteq disp[d].stale
    BY <1>t DEF DispType
  <2>4. e \in Found /\ e.of \in Dispatches /\ e.mtime \in 0 .. MaxNow
    BY <1>t DEF DispType, Found
  <2>5. root' \in [Dispatches -> RootType]
    BY <1>t, <2>1, <2>4 DEF RootType
  <2>6. /\ ~crowded => e.mtime <= disp[d].current
        /\ disp[d].current <= now /\ disp[e.of].pc \notin NotYet
        /\ disp[e.of].pc = "made" => e.mtime = root[e.of].mtime
    BY DEF ConfigInv, OnlyOldIsStale
  <2>7. /\ disp[e.of].pc = "made" /\ ~crowded => IsActive(e.of, e.mtime, disp[d].current)
        /\ disp[e.of].pc = "running" /\ e.of \notin unmarked
             => IsActive(e.of, e.mtime, disp[d].current)
    <3>1. disp[d].current \in Nat BY <1>t DEF DispType
    <3>2. ASSUME disp[e.of].pc = "made", ~crowded PROVE IsActive(e.of, e.mtime, disp[d].current)
      <4>1. /\ e.mtime = root[e.of].mtime /\ now - root[e.of].mtime < GraceAge
        BY <2>4, <2>6, <3>2 DEF ConfigInv, RootsAreKept
      <4>2. 0 <= disp[d].current - e.mtime /\ disp[d].current - e.mtime < GraceAge
        BY <1>t, <2>4, <2>6, <3>1, <3>2, <4>1, ConfigAssumption
      <4> QED BY <4>2 DEF IsActive
    <3>3. ASSUME disp[e.of].pc = "running", e.of \notin unmarked
          PROVE  IsActive(e.of, e.mtime, disp[d].current)
      BY <2>4, <3>3 DEF ConfigInv, RootsAreKept, IsActive, Alive
    <3> QED BY <3>2, <3>3
  <2>8. CASE IsActive(e.of, e.mtime, disp[d].current)
    <3>1. root' = root BY <2>1, <2>8
    <3>2. \A f \in p.stale : /\ ~crowded' => f.mtime <= p.current
                             /\ disp[f.of].pc \notin NotYet
                             /\ disp[f.of].pc = "made" => f.mtime = root[f.of].mtime
      BY <2>h, <2>3 DEF ConfigInv, OnlyOldIsStale
    <3>3. p.pc = "pruning" BY <1>4, <2>3 DEF PruneOne
    <3> HIDE DEF p
    <3> QED BY <1>k, <2>2, <2>3, <2>6, <3>1, <3>2, <3>3
  <2>9. CASE ~IsActive(e.of, e.mtime, disp[d].current)
    <3>1. /\ ~root'[e.of].there /\ root'[e.of].mtime = root[e.of].mtime
          /\ \A k \in Dispatches \ {e.of} : root'[k] = root[k]
          /\ ~(disp[e.of].pc = "made" /\ ~crowded)
          /\ ~(disp[e.of].pc = "running" /\ e.of \notin unmarked)
      BY <1>t, <2>1, <2>4, <2>7, <2>9 DEF RootType
    <3>2. /\ ConfigTypeOK'
          /\ disp'[d] = p /\ \A k \in Dispatches \ {d} : disp'[k] = disp[k]
      BY <1>q, <2>2, <2>3, <2>5
    <3> HIDE DEF p
    <3>3. \A k \in Dispatches : disp'[k].pc = disp[k].pc /\ disp'[k].current = disp[k].current
                                /\ disp'[k].stale \subseteq disp[k].stale
      BY <2>3, <3>2
    <3>p. disp[d].pc = "pruning" BY <1>4 DEF PruneOne
    <3>6. \A k \in Dispatches : root'[k].mtime = root[k].mtime BY <3>1
    <3>4. RootsAreKept'
      BY <1>n, <2>h, <3>1, <3>3, <3>6 DEF ConfigInv, RootsAreKept
    <3>5. \A k \in Dispatches : \A f \in disp[k].stale : f.of \in Dispatches
      BY <1>t DEF DispType, Found
    <3>7. OnlyOldIsStale'
      <4> SUFFICES ASSUME NEW k \in Dispatches
                   PROVE  /\ disp'[k].current <= now
                          /\ disp'[k].pc \in {"new", "listing"} => disp'[k].stale = {}
                          /\ \A f \in disp'[k].stale :
                               /\ ~crowded => f.mtime <= disp'[k].current
                               /\ disp'[f.of].pc \notin NotYet
                               /\ disp'[f.of].pc = "made" => f.mtime = root'[f.of].mtime
        BY <1>n, <2>h, ZenonT(30) DEF OnlyOldIsStale
      <4> QED BY <3>2, <3>3, <3>5, <3>6, <3>p DEF ConfigInv, OnlyOldIsStale
    <3> QED BY <3>2, <3>4, <3>7 DEF ConfigInv
  <2> QED BY <2>8, <2>9
<1> QED BY <1>1, <1>2, <1>3, <1>4

\* A dispatch makes its root, claims it and leaves it.
LEMMA RunKeeps ==
    ASSUME ConfigInv, NEW d \in Dispatches, MakeRoot(d) \/ ClaimRoot(d) \/ EndRun(d)
    PROVE  ConfigInv'
<1>t. /\ now \in 0 .. MaxNow /\ root \in [Dispatches -> RootType]
      /\ disp \in [Dispatches -> DispType]
      /\ crowded \in BOOLEAN /\ unmarked \subseteq Dispatches
      /\ \A k \in Dispatches : root[k] \in RootType /\ disp[k] \in DispType
  BY ConfigTypes DEF ConfigInv
<1>n. UNCHANGED <<now, crowded>> BY DEF MakeRoot, ClaimRoot, EndRun, prunehistory
<1>u. unmarked' \subseteq Dispatches /\ unmarked \subseteq unmarked'
  BY <1>t DEF MakeRoot, ClaimRoot, EndRun, prunehistory
<1>k. ASSUME NEW pc \in {"made", "running", "ended", "failed"}, NEW r \in RootType,
             disp' = [disp EXCEPT ![d] = [disp[d] EXCEPT !.pc = pc]],
             root' = [root EXCEPT ![d] = r],
             pc = "made" => r.there /\ r.mtime = now /\ disp[d].pc \in NotYet,
             pc = "running" /\ d \notin unmarked' => r.there /\ r.marked
      PROVE  ConfigInv'
  <2> DEFINE p == [disp[d] EXCEPT !.pc = pc]
  <2>1. p \in DispType /\ p.pc = pc /\ p.current = disp[d].current /\ p.stale = disp[d].stale
    BY <1>t DEF DispType
  <2>2. disp' = [disp EXCEPT ![d] = p] BY <1>k
  <2> HIDE DEF p
  <2>3. /\ disp'[d] = p /\ \A k \in Dispatches \ {d} : disp'[k] = disp[k]
        /\ root'[d] = r /\ \A k \in Dispatches \ {d} : root'[k] = root[k]
        /\ disp' \in [Dispatches -> DispType] /\ root' \in [Dispatches -> RootType]
    BY <1>k, <1>t, <2>1, <2>2
  <2>4. ConfigTypeOK' BY <1>n, <1>t, <1>u, <2>3 DEF ConfigTypeOK, RootType, DispType
  <2>5. RootsAreKept'
    <3>1. pc = "made" => now - r.mtime < GraceAge /\ r.mtime <= now
      BY <1>k, <1>t, ConfigAssumption
    <3> QED BY <1>k, <1>n, <1>u, <2>1, <2>3, <3>1 DEF ConfigInv, RootsAreKept, NotYet
  <2>6. \A k \in Dispatches : \A f \in disp[k].stale : f.of \in Dispatches
    BY <1>t DEF DispType, Found
  <2>7. \A k \in Dispatches : disp'[k].current = disp[k].current /\ disp'[k].stale = disp[k].stale
    BY <2>1, <2>3
  <2>8. \A k \in Dispatches : disp'[k].pc \in NotYet => disp'[k].pc = disp[k].pc
    BY <2>1, <2>3 DEF NotYet
  <2>9. \A k \in Dispatches : disp[k].pc \notin NotYet =>
          /\ disp'[k].pc \notin NotYet
          /\ disp'[k].pc = "made" => disp[k].pc = "made" /\ root'[k].mtime = root[k].mtime
    BY <1>k, <2>1, <2>3 DEF NotYet
  <2>10. OnlyOldIsStale'
    <3> SUFFICES ASSUME NEW k \in Dispatches
                 PROVE  /\ disp'[k].current <= now
                        /\ disp'[k].pc \in {"new", "listing"} => disp'[k].stale = {}
                        /\ \A f \in disp'[k].stale :
                             /\ ~crowded => f.mtime <= disp'[k].current
                             /\ disp'[f.of].pc \notin NotYet
                             /\ disp'[f.of].pc = "made" => f.mtime = root'[f.of].mtime
      BY <1>n, ZenonT(30) DEF OnlyOldIsStale
    <3>1. disp'[k].pc \in {"new", "listing"} => disp'[k].stale = {}
      BY <2>7, <2>8 DEF ConfigInv, OnlyOldIsStale, NotYet
    <3>2. /\ disp[k].current <= now
          /\ \A f \in disp[k].stale :
               /\ ~crowded => f.mtime <= disp[k].current
               /\ disp[f.of].pc \notin NotYet
               /\ disp[f.of].pc = "made" => f.mtime = root[f.of].mtime
      BY DEF ConfigInv, OnlyOldIsStale
    <3> QED BY <2>6, <2>7, <2>9, <3>1, <3>2
  <2> QED BY <2>4, <2>5, <2>10 DEF ConfigInv
<1>1. CASE MakeRoot(d)
  <2> DEFINE r == [there |-> TRUE, mtime |-> now, marked |-> FALSE]
  <2>1. /\ disp' = [disp EXCEPT ![d] = [disp[d] EXCEPT !.pc = "made"]]
        /\ root' = [root EXCEPT ![d] = r] /\ disp[d].pc = "pruning"
    BY <1>1 DEF MakeRoot, Becomes
  <2>2. r \in RootType /\ r.there /\ r.mtime = now BY <1>t DEF RootType
  <2> HIDE DEF r
  <2> QED BY <1>k, <2>1, <2>2 DEF NotYet
<1>2. CASE ClaimRoot(d)
  <2>1. PICK written \in BOOLEAN :
          /\ root' = [root EXCEPT ![d] = [there |-> TRUE, mtime |-> now, marked |-> written]]
          /\ unmarked' = IF written THEN unmarked ELSE unmarked \cup {d}
    BY <1>2 DEF ClaimRoot
  <2>2. disp' = [disp EXCEPT ![d] = [disp[d] EXCEPT !.pc = "running"]]
    BY <1>2 DEF ClaimRoot, Becomes
  <2> DEFINE r == [there |-> TRUE, mtime |-> now, marked |-> written]
  <2>3. /\ r \in RootType /\ r.there
        /\ d \notin unmarked' => r.marked
    BY <1>t, <2>1 DEF RootType
  <2>4. root' = [root EXCEPT ![d] = r] BY <2>1
  <2> HIDE DEF r
  <2> QED BY <1>k, <2>2, <2>3, <2>4
<1>3. CASE EndRun(d)
  <2>1. PICK end \in {"ended", "failed"} :
          /\ Becomes(d, [disp[d] EXCEPT !.pc = end])
          /\ root' = [root EXCEPT ![d].there = @ /\ end = "failed", ![d].marked = FALSE]
    BY <1>3 DEF EndRun
  <2> DEFINE r == [root[d] EXCEPT !.there = @ /\ end = "failed", !.marked = FALSE]
  <2>2. r \in RootType BY <1>t DEF RootType
  <2>3. root' = [root EXCEPT ![d] = r]
    <3>1. [root EXCEPT ![d].there = @ /\ end = "failed", ![d].marked = FALSE] = [root EXCEPT ![d] = r]
      BY <1>t DEF RootType
    <3> QED BY <2>1, <3>1
  <2> HIDE DEF r
  <2> QED BY <1>k, <2>1, <2>2, <2>3 DEF Becomes
<1> QED BY <1>1, <1>2, <1>3

\* The clock does not pass the grace of a root that is not claimed yet.
LEMMA ConfigTickKeeps ==
    ASSUME ConfigInv, ConfigTick
    PROVE  ConfigInv'
<1>1. /\ now < MaxNow /\ now' = now + 1 /\ root' = root /\ disp' = disp
      /\ crowded' = crowded /\ unmarked' = unmarked
      /\ \A d \in Dispatches : disp[d].pc = "made" => now + 1 - root[d].mtime < GraceAge
  BY DEF ConfigTick, prunehistory
<1>2. /\ now \in 0 .. MaxNow /\ MaxNow \in Nat
      /\ \A k \in Dispatches : root[k] \in RootType /\ disp[k] \in DispType
  BY ConfigTypes, ConfigAssumption DEF ConfigInv
<1>3. now' \in 0 .. MaxNow BY <1>1, <1>2
<1>4. ConfigTypeOK' BY <1>1, <1>3 DEF ConfigInv, ConfigTypeOK
<1>5. RootsAreKept' BY <1>1, <1>2 DEF ConfigInv, RootsAreKept, RootType
<1>6. OnlyOldIsStale' BY <1>1, <1>2 DEF ConfigInv, OnlyOldIsStale, DispType
<1> QED BY <1>4, <1>5, <1>6 DEF ConfigInv

\* Every step keeps it.
LEMMA ConfigInvKept == ConfigInv /\ [ConfigNext]_configvars => ConfigInv'
<1> SUFFICES ASSUME ConfigInv, [ConfigNext]_configvars PROVE ConfigInv' OBVIOUS
<1>1. CASE UNCHANGED configvars
  BY <1>1 DEF configvars, prunehistory, ConfigInv, ConfigTypeOK, RootsAreKept, OnlyOldIsStale
<1> QED BY <1>1, PruneKeeps, RunKeeps, ConfigTickKeeps DEF ConfigNext

\* LiveConfigSurvives (scratch_cleanup.py): for any number of dispatches, of roots that
\* are kept and of newer roots, and for any ages and grace, the root of each dispatch
\* that has made one and not ended is there, whoever of the others prunes, fails or
\* dies: by its marker when it runs, if that could be written, and by its youth before,
\* unless a prune counted more than Keep roots that are newer than its look at the clock.
THEOREM LiveConfigsSurvive == ConfigSpec => []LiveConfigSurvives
<1>1. ConfigInv => LiveConfigSurvives
  BY DEF ConfigInv, RootsAreKept, LiveConfigSurvives
<1> QED BY <1>1, ConfigInitInv, ConfigInvKept, PTL DEF ConfigSpec
---------------------------------------------------------------------------
(* SessionGuard: what had finished is spared.                              *)

GuardPcs  == {"off", "start", "read", "decide", "sentinel", "record", "kill", "grace", "sleep", "exited"}
GuardCodes == {"none", "0", "2", "4", "5", "raised"}
GuardType == [pc : GuardPcs, mode : {"wrap", "kill-root", "observe"}, watch : BOOLEAN, last : BOOLEAN,
              nodes : SUBSET Kids, read : [Kids -> Classes], named : SUBSET Kids, exit : GuardCodes,
              spared : SUBSET Kids]

\* A final text is of a session that had begun, and no tool of it runs.
FinishedIsWhole ==
    \A k \in Kids : Finished(kids[k]) => kids[k].begun /\ kids[k].tool # "running"

\* While a pass reads, a child that had succeeded when it began still has, and was
\* read as such or not yet.
SparedIsDone ==
    guard.pc \in {"read", "decide"} =>
      \A k \in guard.spared : /\ k \in Born /\ Succeeded(kids[k])
                              /\ guard.read[k] \in {"unread", "done"}

GuardInv == GuardTypeOK /\ FinishedIsWhole /\ SparedIsDone /\ CompletedIsSpared

\* The types by name.
LEMMA GuardTypes ==
    GuardTypeOK <=> /\ kids \in [Kids -> KidType]
                    /\ clock \in 0 .. MaxClock
                    /\ group \subseteq {"leader", "workers"}
                    /\ guard \in GuardType
                    /\ aborts \in [sentinels : Nat, records : Nat]
BY Zenon DEF GuardTypeOK, GuardType, GuardPcs, GuardCodes

\* The first child, and nobody reads yet.
LEMMA GuardInitInv ==
    ASSUME GuardInit
    PROVE  GuardInv
<1>1. NoKid \in KidType BY GuardAssumption DEF NoKid, KidType, Unborn
<1>2. kids \in [Kids -> KidType] BY <1>1 DEF GuardInit
<1>3. clock \in 0 .. MaxClock BY GuardAssumption DEF GuardInit
<1>4. guard \in GuardType
  BY DEF GuardInit, GuardType, GuardPcs, GuardCodes, Unread, Classes
<1>5. aborts \in [sentinels : Nat, records : Nat] BY DEF GuardInit
<1>6. group \subseteq {"leader", "workers"} BY DEF GuardInit
<1>7. GuardTypeOK BY <1>2, <1>3, <1>4, <1>5, <1>6, GuardTypes
<1>8. FinishedIsWhole BY DEF GuardInit, FinishedIsWhole, Finished, NoKid
<1>9. SparedIsDone /\ CompletedIsSpared BY DEF GuardInit, SparedIsDone, CompletedIsSpared
<1> QED BY <1>7, <1>8, <1>9 DEF GuardInv

\* One child changes, and a child that has succeeded does not.
LEMMA ChildKeeps ==
    ASSUME GuardInv, NEW k \in Kids, NEW n \in KidType, Change(k, n),
           UNCHANGED <<clock, group, guard, aborts>>,
           k \notin Born \/ ~Finished(kids[k]),
           Finished(n) => n.begun /\ n.tool # "running"
    PROVE  GuardInv'
<1>t. /\ kids \in [Kids -> KidType] /\ clock \in 0 .. MaxClock /\ group \subseteq {"leader", "workers"}
      /\ guard \in GuardType /\ aborts \in [sentinels : Nat, records : Nat]
  BY GuardTypes DEF GuardInv
<1>1. /\ kids' \in [Kids -> KidType] /\ kids'[k] = n
      /\ \A j \in Kids \ {k} : kids'[j] = kids[j]
  BY <1>t DEF Change
<1>2. GuardTypeOK' BY <1>t, <1>1 DEF GuardTypeOK, GuardType, GuardPcs, GuardCodes
<1>3. FinishedIsWhole'
  <2>1. \A j \in Kids : Finished(kids'[j]) => kids'[j].begun /\ kids'[j].tool # "running"
    BY <1>1 DEF GuardInv, FinishedIsWhole
  <2> QED BY <2>1 DEF FinishedIsWhole
<1>4. SparedIsDone'
  <2>1. ASSUME guard.pc \in {"read", "decide"}, NEW j \in guard.spared
        PROVE  /\ j \in Born' /\ Succeeded(kids'[j])
               /\ guard.read[j] \in {"unread", "done"}
    <3>1. j \in Born /\ Succeeded(kids[j]) /\ guard.read[j] \in {"unread", "done"}
      BY <2>1 DEF GuardInv, SparedIsDone
    <3>2. j # k BY <3>1 DEF Succeeded
    <3>3. j \in Kids /\ kids'[j] = kids[j] BY <1>1, <3>1, <3>2 DEF Born
    <3> QED BY <3>1, <3>3 DEF Born
  <2> QED BY <2>1 DEF SparedIsDone
<1>5. CompletedIsSpared' BY DEF GuardInv, CompletedIsSpared
<1> QED BY <1>2, <1>3, <1>4, <1>5 DEF GuardInv

\* The sessions go on, and the orchestrator ends.
LEMMA SessionsKeep ==
    ASSUME GuardInv, Dispatch \/ (\E k \in Kids : Session(k)) \/ LeaderEnds
    PROVE  GuardInv'
<1>t. /\ kids \in [Kids -> KidType] /\ clock \in 0 .. MaxClock /\ group \subseteq {"leader", "workers"}
      /\ guard \in GuardType /\ aborts \in [sentinels : Nat, records : Nat]
  BY GuardTypes DEF GuardInv
<1>1. CASE Dispatch
  <2>1. PICK k \in Kids \ Born, t \in Titles : Change(k, [NoKid EXCEPT !.born = clock, !.title = t])
    BY <1>1 DEF Dispatch
  <2> DEFINE n == [NoKid EXCEPT !.born = clock, !.title = t]
  <2>2. NoKid \in KidType BY GuardAssumption DEF NoKid, KidType, Unborn
  <2>3. clock \in Unborn .. MaxClock BY <1>t, GuardAssumption DEF Unborn
  <2>4. n \in KidType /\ n.text = "none" BY <2>2, <2>3 DEF NoKid, KidType
  <2>5. UNCHANGED <<clock, group, guard, aborts>> BY <1>1 DEF Dispatch
  <2> HIDE DEF n
  <2> QED BY <2>1, <2>4, <2>5, ChildKeeps DEF n, Finished
<1>2. ASSUME NEW k \in Kids, Session(k) PROVE GuardInv'
  <2>1. k \in Born /\ ~Finished(kids[k]) /\ UNCHANGED <<clock, group, guard, aborts>>
    BY <1>2 DEF Session
  <2> DEFINE n == [kids[k] EXCEPT !.begun = TRUE, !.quiet = 0]
  <2>2. kids[k] \in KidType /\ 0 \in 0 .. Stall + 1 BY <1>t, GuardAssumption
  <2>3. n \in KidType /\ n.begun /\ n.text = kids[k].text /\ n.tool = kids[k].tool
    BY <2>2 DEF KidType
  <2>4. \/ Change(k, n)
        \/ \E t \in {"running", "none", "denied"} : Change(k, [n EXCEPT !.tool = t])
        \/ Change(k, [n EXCEPT !.tool = "none", !.text = "interim"])
        \/ Change(k, [n EXCEPT !.text = "earlier"])
        \/ \E t \in {"result", "malformed"} : Change(k, [n EXCEPT !.tool = "none", !.text = t])
    BY <1>2 DEF Session
  <2> HIDE DEF n
  <2>5. CASE Change(k, n) BY <2>1, <2>3, <2>5, ChildKeeps DEF Finished
  <2>6. CASE \E t \in {"running", "none", "denied"} : Change(k, [n EXCEPT !.tool = t])
    <3>1. PICK t \in {"running", "none", "denied"} : Change(k, [n EXCEPT !.tool = t]) BY <2>6
    <3>2. [n EXCEPT !.tool = t] \in KidType /\ [n EXCEPT !.tool = t].text = kids[k].text
      BY <2>3 DEF KidType
    <3> QED BY <2>1, <3>1, <3>2, ChildKeeps DEF Finished
  <2>7. CASE Change(k, [n EXCEPT !.tool = "none", !.text = "interim"])
    <3>1. /\ [n EXCEPT !.tool = "none", !.text = "interim"] \in KidType
          /\ [n EXCEPT !.tool = "none", !.text = "interim"].text = "interim"
      BY <2>3 DEF KidType
    <3> QED BY <2>1, <2>7, <3>1, ChildKeeps DEF Finished
  <2>8. CASE Change(k, [n EXCEPT !.text = "earlier"])
    <3>1. [n EXCEPT !.text = "earlier"] \in KidType /\ [n EXCEPT !.text = "earlier"].text = "earlier"
      BY <2>3 DEF KidType
    <3> QED BY <2>1, <2>8, <3>1, ChildKeeps DEF Finished
  <2>9. CASE \E t \in {"result", "malformed"} : Change(k, [n EXCEPT !.tool = "none", !.text = t])
    <3>1. PICK t \in {"result", "malformed"} : Change(k, [n EXCEPT !.tool = "none", !.text = t])
      BY <2>9
    <3>2. /\ [n EXCEPT !.tool = "none", !.text = t] \in KidType
          /\ [n EXCEPT !.tool = "none", !.text = t].begun
          /\ [n EXCEPT !.tool = "none", !.text = t].tool = "none"
      BY <2>3 DEF KidType
    <3> QED BY <2>1, <3>1, <3>2, ChildKeeps
  <2> QED BY <2>4, <2>5, <2>6, <2>7, <2>8, <2>9
<1>3. CASE LeaderEnds
  <2>1. group' \subseteq group /\ UNCHANGED <<kids, clock, guard, aborts>> BY <1>3 DEF LeaderEnds
  <2>2. GuardTypeOK' BY <1>t, <2>1 DEF GuardTypeOK, GuardType, GuardPcs, GuardCodes
  <2>3. FinishedIsWhole' /\ SparedIsDone' /\ CompletedIsSpared'
    BY <2>1 DEF GuardInv, FinishedIsWhole, SparedIsDone, CompletedIsSpared, Born
  <2> QED BY <2>2, <2>3 DEF GuardInv
<1> QED BY <1>1, <1>2, <1>3

\* The guard changes, and it does not read, or reads and keeps what it knew; what it
\* names did not succeed.
LEMMA ProcessKeeps ==
    ASSUME GuardInv, guard' \in GuardType, UNCHANGED kids, clock' \in 0 .. MaxClock,
           group' \subseteq {"leader", "workers"},
           aborts' \in [sentinels : Nat, records : Nat],
           guard'.pc \in {"read", "decide"} =>
             \A k \in guard'.spared : /\ k \in Born /\ Succeeded(kids[k])
                                      /\ guard'.read[k] \in {"unread", "done"},
           guard'.pc \in {"sentinel", "record", "kill"} => guard'.named \cap guard'.spared = {}
    PROVE  GuardInv'
<1>1. GuardTypeOK' BY GuardTypes DEF GuardInv, GuardTypeOK, GuardType, GuardPcs, GuardCodes
<1>2. FinishedIsWhole' BY DEF GuardInv, FinishedIsWhole
<1>3. SparedIsDone' BY DEF SparedIsDone, Born
<1>4. CompletedIsSpared' BY DEF CompletedIsSpared
<1> QED BY <1>1, <1>2, <1>3, <1>4 DEF GuardInv

\* What a child is classified as; one that succeeded is done.
LEMMA ClassesOfKids ==
    ASSUME NEW n \in KidType
    PROVE  /\ ClassifyKid(n) \in Classes
           /\ n.begun /\ n.tool # "running" /\ Succeeded(n) => ClassifyKid(n) = "done"
<1>1. n.begun \in BOOLEAN /\ n.tool \in {"none", "running", "denied"} BY DEF KidType
<1>2. CASE ~n.begun BY <1>2 DEF ClassifyKid, Classes, Failures
<1>3. CASE n.begun /\ HasTerminalResult(n)
  <2>1. ClassifyKid(n) = IF Malformed(n) THEN "empty-result" ELSE "done" BY <1>3 DEF ClassifyKid
  <2>2. Succeeded(n) => ~Malformed(n) BY DEF Succeeded, Malformed
  <2> QED BY <2>1, <2>2 DEF Classes, Failures
<1>4. CASE n.begun /\ ~HasTerminalResult(n)
  <2>1. n.tool # "running" => ~Succeeded(n) BY <1>4 DEF HasTerminalResult, Succeeded, Finished
  <2>2. CASE n.tool = "denied" BY <1>4, <2>1, <2>2 DEF ClassifyKid, Classes, Failures
  <2>3. CASE n.tool # "denied"
    <3>1. ClassifyKid(n) = IF n.tool = "running" \/ RecentEvent(n) \/ n.text = "interim"
                           THEN "going on" ELSE "empty-result"
      BY <1>4, <2>3 DEF ClassifyKid
    <3> QED BY <2>1, <3>1 DEF Classes, Failures
  <2> QED BY <2>2, <2>3
<1> QED BY <1>1, <1>2, <1>3, <1>4

\* What is recorded as the reason of an abort has failed.
LEMMA PrimaryHasFailed == Primary \subseteq Failing
<1>1. CASE RetryLoops # {}
  <2>1. (CHOOSE S \in RetryLoops : TRUE) \in RetryLoops BY <1>1
  <2>2. Primary \in RetryLoops BY <1>1, <2>1 DEF Primary
  <2> QED BY <2>2 DEF RetryLoops
<1>2. CASE RetryLoops = {} /\ FailedWaves # {}
  <2>1. (CHOOSE S \in FailedWaves : TRUE) \in FailedWaves BY <1>2
  <2>2. Primary \in FailedWaves BY <1>2, <2>1 DEF Primary
  <2> QED BY <2>2 DEF FailedWaves
<1>3. CASE RetryLoops = {} /\ FailedWaves = {} BY <1>3 DEF Primary
<1> QED BY <1>1, <1>2, <1>3

\* A pass is over.
LEMMA PassEndsTyped ==
    ASSUME guard \in GuardType, NEW code \in GuardCodes
    PROVE  PassEnds(code) \in GuardType /\ PassEnds(code).pc \in {"start", "sleep", "exited"}
<1> DEFINE g == Forget(guard)
<1>1. g \in GuardType
  <2>1. Unread \in [Kids -> Classes] BY DEF Unread, Classes
  <2> QED BY <2>1 DEF Forget, GuardType
<1>2. /\ g.mode = "wrap" \/ g.mode # "wrap"
      /\ g.last \in BOOLEAN /\ g.watch \in BOOLEAN
  BY <1>1 DEF GuardType
<1> HIDE DEF g
<1> DEFINE a == [g EXCEPT !.pc = "exited", !.exit = code]
           b == [g EXCEPT !.pc = "start", !.last = TRUE]
           c == [g EXCEPT !.pc = "sleep"]
<1>3. a \in GuardType /\ a.pc = "exited" BY <1>1 DEF GuardType, GuardPcs
<1>4. b \in GuardType /\ b.pc = "start" BY <1>1 DEF GuardType, GuardPcs
<1>5. c \in GuardType /\ c.pc = "sleep" BY <1>1 DEF GuardType, GuardPcs
<1>6. PassEnds(code) = CASE g.mode = "wrap" /\ g.last                           -> a
                         [] g.mode = "wrap" /\ ~g.last /\ "leader" \notin group -> b
                         [] g.mode = "wrap" /\ ~g.last /\ "leader" \in group    -> c
                         [] g.mode # "wrap" /\ ~g.watch                         -> a
                         [] g.mode # "wrap" /\ g.watch                          -> c
  BY DEF PassEnds, g
<1> HIDE DEF a, b, c
<1>7. PassEnds(code) \in {a, b, c} BY <1>2, <1>6
<1> QED BY <1>3, <1>4, <1>5, <1>7

\* The steps of a pass.
LEMMA PassKeeps ==
    ASSUME GuardInv, LaunchGuard \/ Enumerate \/ NothingToRead \/ ReadKid \/ Decide
    PROVE  GuardInv'
<1>t. /\ kids \in [Kids -> KidType] /\ clock \in 0 .. MaxClock /\ group \subseteq {"leader", "workers"}
      /\ guard \in GuardType /\ aborts \in [sentinels : Nat, records : Nat]
  BY GuardTypes DEF GuardInv
<1>u. Unread \in [Kids -> Classes] /\ \A k \in Kids : Unread[k] = "unread" BY DEF Unread, Classes
<1>1. CASE LaunchGuard
  <2>1. PICK l \in Launches :
          guard' = [guard EXCEPT !.pc = "start", !.mode = l.mode, !.watch = l.watch]
    BY <1>1 DEF LaunchGuard
  <2>2. l.mode \in {"wrap", "kill-root", "observe"} /\ l.watch \in BOOLEAN BY GuardAssumption
  <2>3. guard' \in GuardType /\ guard'.pc = "start" BY <1>t, <2>1, <2>2 DEF GuardType, GuardPcs
  <2> QED BY <1>1, <1>t, <2>3, ProcessKeeps DEF LaunchGuard
<1>2. CASE Enumerate
  <2> DEFINE S == {k \in Born : Succeeded(kids[k])}
             g == [guard EXCEPT !.pc = "read", !.nodes = Born, !.read = Unread, !.spared = S]
  <2>1. Born \subseteq Kids BY DEF Born
  <2>2. S \subseteq Kids /\ \A k \in S : k \in Born /\ Succeeded(kids[k]) BY <2>1
  <2>3. guard' = g /\ UNCHANGED <<kids, clock, group, aborts>> BY <1>2 DEF Enumerate
  <2> HIDE DEF S
  <2>4. g \in GuardType /\ g.pc = "read" /\ g.spared = S /\ g.read = Unread
    BY <1>t, <1>u, <2>1, <2>2 DEF GuardType, GuardPcs
  <2> HIDE DEF g
  <2> QED BY <1>t, <1>u, <2>2, <2>3, <2>4, ProcessKeeps
<1>3. CASE NothingToRead
  <2>1. guard' = PassEnds("4") /\ UNCHANGED <<kids, clock, group, aborts>> BY <1>3 DEF NothingToRead
  <2>2. "4" \in GuardCodes BY DEF GuardCodes
  <2> QED BY <1>t, <2>1, <2>2, PassEndsTyped, ProcessKeeps
<1>4. CASE ReadKid
  <2> DEFINE todo == {k \in guard.nodes : guard.read[k] = "unread"}
             m == Min(todo)
             c == ClassifyKid(kids[m])
  <2>1. /\ guard.pc = "read" /\ UNCHANGED <<kids, clock, group, aborts>>
        /\ IF todo = {} THEN guard' = Goes("decide") ELSE guard' = [guard EXCEPT !.read[m] = c]
    BY <1>4 DEF ReadKid
  <2>2. \A k \in guard.spared : /\ k \in Born /\ Succeeded(kids[k])
                                /\ guard.read[k] \in {"unread", "done"}
    BY <2>1 DEF GuardInv, SparedIsDone
  <2>3. m \in Kids => c \in Classes /\ (m \in guard.spared => c = "done")
    <3>1. SUFFICES ASSUME m \in Kids PROVE c \in Classes /\ (m \in guard.spared => c = "done") OBVIOUS
    <3>2. kids[m] \in KidType BY <1>t, <3>1
    <3>3. m \in guard.spared => kids[m].begun /\ kids[m].tool # "running" /\ Succeeded(kids[m])
      BY <2>2, <3>1 DEF GuardInv, FinishedIsWhole, Succeeded
    <3> HIDE DEF m
    <3> QED BY <3>2, <3>3, ClassesOfKids
  <2> HIDE DEF m, c
  <2>4. CASE todo = {}
    <3>1. /\ guard' \in GuardType /\ guard'.read = guard.read /\ guard'.spared = guard.spared
          /\ guard'.pc = "decide"
      BY <1>t, <2>1, <2>4 DEF Goes, GuardType, GuardPcs
    <3> QED BY <1>t, <2>1, <2>2, <3>1, ProcessKeeps
  <2>5. CASE todo # {}
    <3> DEFINE r == [guard.read EXCEPT ![m] = c]
    <3>1. guard.read \in [Kids -> Classes] BY <1>t DEF GuardType
    <3>2. r \in [Kids -> Classes] /\ \A k \in Kids : r[k] = IF k = m THEN c ELSE guard.read[k]
      BY <2>3, <3>1
    <3>3. guard' = [guard EXCEPT !.read = r] BY <2>1, <2>5
    <3> HIDE DEF r
    <3>4. /\ guard' \in GuardType /\ guard'.read = r /\ guard'.spared = guard.spared
          /\ guard'.pc = "read"
      BY <1>t, <2>1, <3>2, <3>3 DEF GuardType
    <3>5. \A k \in guard.spared : k \in Kids /\ r[k] \in {"unread", "done"}
      BY <2>2, <2>3, <3>2 DEF Born
    <3> QED BY <1>t, <2>1, <2>2, <3>4, <3>5, ProcessKeeps
  <2> QED BY <2>4, <2>5
<1>5. CASE Decide
  <2>1. guard.pc = "decide" /\ UNCHANGED <<kids, clock, group, aborts>> BY <1>5 DEF Decide
  <2>2. CASE AbortClass
    <3> DEFINE g == [Forget(guard) EXCEPT !.pc = "sentinel", !.named = Primary, !.spared = guard.spared]
    <3>1. guard' = g BY <1>5, <2>2 DEF Decide
    <3>2. Primary \subseteq Kids /\ Primary \subseteq Failing
      BY <1>t, PrimaryHasFailed DEF Failing, GuardType
    <3>3. Forget(guard) \in GuardType BY <1>t, <1>u DEF Forget, GuardType
    <3>4. /\ g \in GuardType /\ g.pc = "sentinel" /\ g.named = Primary
          /\ g.spared = guard.spared
      BY <1>t, <3>2, <3>3 DEF GuardType, GuardPcs
    <3>5. Failing \cap guard.spared = {}
      BY <2>1 DEF GuardInv, SparedIsDone, Failing, Failures
    <3> HIDE DEF g
    <3> QED BY <1>t, <2>1, <3>1, <3>2, <3>4, <3>5, ProcessKeeps
  <2>3. CASE ~AbortClass
    <3>1. PICK code \in Warnings : guard' = PassEnds(code) BY <1>5, <2>3 DEF Decide
    <3>2. code \in GuardCodes BY DEF Warnings, GuardCodes
    <3> QED BY <1>t, <2>1, <3>1, <3>2, PassEndsTyped, ProcessKeeps
  <2> QED BY <2>2, <2>3
<1> QED BY <1>1, <1>2, <1>3, <1>4, <1>5

\* The steps of an abort, and the sleep between two passes.
LEMMA AbortKeeps ==
    ASSUME GuardInv, Sentinel \/ RecordAbort \/ Kill \/ Grace \/ Raise \/ GuardWakes
    PROVE  GuardInv'
<1>t. /\ kids \in [Kids -> KidType] /\ clock \in 0 .. MaxClock /\ group \subseteq {"leader", "workers"}
      /\ guard \in GuardType /\ aborts \in [sentinels : Nat, records : Nat]
  BY GuardTypes DEF GuardInv
<1>e. \A code \in GuardCodes : Exits(code) \in GuardType /\ Exits(code).pc = "exited"
  <2>1. Unread \in [Kids -> Classes] BY DEF Unread, Classes
  <2>2. Forget(guard) \in GuardType BY <1>t, <2>1 DEF Forget, GuardType
  <2> QED BY <2>2 DEF Exits, GuardType, GuardPcs
<1>g. \A pc \in GuardPcs : /\ Goes(pc) \in GuardType /\ Goes(pc).pc = pc
                            /\ Goes(pc).named = guard.named /\ Goes(pc).spared = guard.spared
  BY <1>t DEF Goes, GuardType
<1>p. {"record", "kill", "grace", "start"} \subseteq GuardPcs /\ {"2", "5", "raised"} \subseteq GuardCodes
  BY DEF GuardPcs, GuardCodes
<1>n. guard.pc \in {"sentinel", "record", "kill"} => guard.named \cap guard.spared = {}
  BY DEF GuardInv, CompletedIsSpared
<1>1. CASE Sentinel
  <2>1. /\ guard.pc = "sentinel" /\ guard' = Goes("record") /\ UNCHANGED <<kids, clock, group>>
        /\ aborts' = [aborts EXCEPT !.sentinels = @ + 1]
    BY <1>1 DEF Sentinel
  <2>2. aborts' \in [sentinels : Nat, records : Nat] BY <1>t, <2>1
  <2> QED BY <1>t, <1>g, <1>n, <1>p, <2>1, <2>2, ProcessKeeps
<1>2. CASE RecordAbort
  <2>1. /\ guard.pc = "record" /\ guard' = Goes("kill") /\ UNCHANGED <<kids, clock, group>>
        /\ aborts' = [aborts EXCEPT !.records = @ + 1] \/ UNCHANGED aborts
    BY <1>2 DEF RecordAbort
  <2>2. aborts' \in [sentinels : Nat, records : Nat] BY <1>t, <2>1
  <2> QED BY <1>t, <1>g, <1>n, <1>p, <2>1, <2>2, ProcessKeeps
<1>3. CASE Kill
  <2>1. UNCHANGED <<kids, clock, aborts>> BY <1>3 DEF Kill
  <2>2. CASE guard.mode = "observe"
    <3>1. guard' = Exits("2") /\ UNCHANGED group BY <1>3, <2>2 DEF Kill
    <3> QED BY <1>t, <1>e, <1>p, <2>1, <3>1, ProcessKeeps
  <2>3. CASE guard.mode # "observe"
    <3>1. /\ guard' = [Goes("grace") EXCEPT !.named = {}, !.spared = {}] /\ group' \subseteq group
      BY <1>3, <2>3 DEF Kill
    <3>2. Goes("grace") \in GuardType /\ Goes("grace").pc = "grace" BY <1>g, <1>p
    <3>3. guard' \in GuardType /\ guard'.pc = "grace" BY <3>1, <3>2 DEF GuardType
    <3> QED BY <1>t, <2>1, <3>1, <3>3, ProcessKeeps
  <2> QED BY <2>2, <2>3
<1>4. CASE Grace
  <2>1. guard' = Exits("5") /\ group' = {} /\ UNCHANGED <<kids, clock, aborts>> BY <1>4 DEF Grace
  <2> QED BY <1>t, <1>e, <1>p, <2>1, ProcessKeeps
<1>5. CASE Raise
  <2>1. guard' = Exits("raised") /\ group' \subseteq group /\ UNCHANGED <<kids, clock, aborts>>
    BY <1>5 DEF Raise
  <2> QED BY <1>t, <1>e, <1>p, <2>1, ProcessKeeps
<1>6. CASE GuardWakes
  <2>1. guard' = Goes("start") /\ UNCHANGED <<kids, clock, group, aborts>> BY <1>6 DEF GuardWakes
  <2> QED BY <1>t, <1>g, <1>p, <2>1, ProcessKeeps
<1> QED BY <1>1, <1>2, <1>3, <1>4, <1>5, <1>6

\* Time passes, and the children that have begun are the more quiet.
LEMMA GuardTickKeeps ==
    ASSUME GuardInv, GuardTick
    PROVE  GuardInv'
<1>t. /\ kids \in [Kids -> KidType] /\ clock \in 0 .. MaxClock /\ group \subseteq {"leader", "workers"}
      /\ guard \in GuardType /\ aborts \in [sentinels : Nat, records : Nat]
  BY GuardTypes DEF GuardInv
<1>1. /\ clock < MaxClock /\ clock' = clock + 1 /\ UNCHANGED <<group, aborts>>
      /\ kids' = [k \in Kids |-> IF k \in Born /\ kids[k].begun /\ kids[k].quiet <= Stall
                                 THEN [kids[k] EXCEPT !.quiet = @ + 1] ELSE kids[k]]
      /\ guard' = Goes("start")
  BY DEF GuardTick
<1>2. clock' \in 0 .. MaxClock BY <1>t, <1>1, GuardAssumption
<1>3. guard' \in GuardType /\ guard'.pc = "start" BY <1>t, <1>1 DEF Goes, GuardType, GuardPcs
<1>4. \A k \in Kids : /\ kids'[k] \in KidType /\ kids'[k].text = kids[k].text
                      /\ kids'[k].begun = kids[k].begun /\ kids'[k].tool = kids[k].tool
  <2> TAKE k \in Kids
  <2>1. kids[k] \in KidType BY <1>t
  <2>2. ASSUME kids[k].quiet <= Stall PROVE kids[k].quiet + 1 \in 0 .. Stall + 1
    <3>1. kids[k].quiet \in 0 .. Stall + 1 BY <2>1 DEF KidType
    <3> QED BY <2>2, <3>1, GuardAssumption
  <2> QED BY <1>1, <2>1, <2>2 DEF KidType
<1>5. kids' \in [Kids -> KidType] BY <1>1, <1>4
<1>6. GuardTypeOK' BY <1>t, <1>1, <1>2, <1>3, <1>5 DEF GuardTypeOK, GuardType, GuardPcs, GuardCodes
<1>7. FinishedIsWhole' BY <1>4 DEF GuardInv, FinishedIsWhole, Finished
<1>8. SparedIsDone' /\ CompletedIsSpared' BY <1>3 DEF SparedIsDone, CompletedIsSpared
<1> QED BY <1>6, <1>7, <1>8 DEF GuardInv

\* Every step of the guard and its sessions keeps the invariant.
LEMMA GuardStepInv ==
    ASSUME GuardInv, [GuardNext]_guardvars
    PROVE  GuardInv'
<1>1. CASE UNCHANGED guardvars
  BY <1>1 DEF guardvars, GuardInv, GuardTypeOK, FinishedIsWhole, SparedIsDone, CompletedIsSpared, Born
<1>2. CASE GuardNext
  BY <1>2, SessionsKeep, PassKeeps, AbortKeeps, GuardTickKeeps DEF GuardNext, GuardStep
<1> QED BY <1>1, <1>2

\* CompletedIsSpared (session_guard.py): for any sessions and however they change while a
\* pass reads them one after the other, a child that had its final result when the pass
\* began is not named in an abort.
THEOREM FinishedIsNotBlamed == GuardSpec => []CompletedIsSpared
<1>1. GuardInv => CompletedIsSpared BY DEF GuardInv
<1> QED BY <1>1, GuardInitInv, GuardStepInv, PTL DEF GuardSpec
---------------------------------------------------------------------------
(* EvalReport, with its suites and their book.                             *)

EntryType == Entry \cup {NoEntry}
ExitCodes == {"none", "killed", "0", "1", "3", "4"}
SuiteType == [pc : {"idle", "loop", "eval", "judge"}, command : CommandLines \cup {NoCommand},
              list : Seq(Evals), pos : Nat, setting : Settings \cup {NotLooked}, lost : Nat,
              again : BOOLEAN, exit : ExitCodes]
LaneType == [active : BOOLEAN, deaths : Nat, degraded : SUBSET Evals, trigger : BOOLEAN, spend : Nat]
TurnType == [step : {"none", "retry", "nudge", "fresh"}, last : Kinds, passed : BOOLEAN,
             retries : Nat, nudges : Nat, fresh : Nat, mute : Nat, dead : Nat,
             foreign : BOOLEAN, cost : Nat]
LogType == [final : [Evals -> Seq(Verdict)], notes : SUBSET Evals, marks : SUBSET Evals,
            open : [Evals -> Int], switch : SUBSET Evals]

---------------------------------------------------------------------------
(* The invariant, in parts that speak of a suite s, a turn t, a log l and  *)
(* a lane n, so that they can be stated half-way through a step.           *)

At(s) == s.list[s.pos]

\* Each eval is on the list once, and the position is on it.
PlaceOK(s, t) ==
    /\ \A i, j \in 1 .. Len(s.list) : i < j => s.list[i] < s.list[j]
    /\ s.pos <= Len(s.list)
    /\ s.pc \in {"eval", "judge"} => s.pos >= 1
    /\ t.step # "none" <=> s.pc = "eval"
    /\ s.pc # "idle" => s.exit = "none"

\* A turn that passed was the last one; a fresh session left a note; and turns that
\* died of the provider alone left a mark, unless the last one did.
TurnOK(s, t, l, n) ==
    s.pc = "eval" =>
      /\ t.passed => t.last = "pass"
      /\ t.fresh > 0 => At(s) \in l.notes
      /\ ~t.foreign /\ t.dead > 0 /\ ~n.active => t.last \in Classed \/ l.marks # {}

\* The deaths without a mark.
OpenOK(s, t, l, n) ==
    \A e \in Evals :
      l.open[e] = IF t.step # "none" /\ e = At(s) /\ t.last \in Classed /\ ~n.active THEN 1 ELSE 0

\* What the lane holds against the primary lane stands in the log.
EvidenceOK(s, l, n) ==
    /\ l.marks = n.degraded
    /\ n.active \/ s.exit = "3" => l.marks # {}
    /\ l.switch = IF n.active THEN l.marks ELSE {}
    /\ n.deaths > 0 \/ n.trigger => l.marks # {}
    /\ s.lost > 0 /\ s.exit # "killed" => l.marks # {}
    /\ MaxFresh > 0 => l.marks \subseteq l.notes
    /\ s.pc = "judge" /\ ~n.active /\ Last(l.final[At(s)]).classed => l.marks # {}

IsJudged(s, i) == i < s.pos \/ (i = s.pos /\ s.pc # "eval")

\* How many verdicts each eval has: the first loop gives one to each, the second one
\* more to those that are to be attempted again.
TalliesOK(s, l, n) ==
    s.exit # "killed" =>
      /\ \A e \in Evals : l.final[e] # <<>> => \E i \in 1 .. Len(s.list) : s.list[i] = e
      /\ ~s.again => \A i \in 1 .. Len(s.list) :
                       Len(l.final[s.list[i]]) = IF IsJudged(s, i) THEN 1 ELSE 0
      /\ s.again =>
           /\ n.active
           /\ \A i \in 1 .. Len(s.list) :
                /\ Len(l.final[s.list[i]]) \in {1, 2}
                /\ ~IsJudged(s, i) => Len(l.final[s.list[i]]) = 1
                /\ IsJudged(s, i) /\ Len(l.final[s.list[i]]) = 1 /\ s.list[i] \in n.degraded
                     /\ MaxReruns > 0 => Last(l.final[s.list[i]]).outcome = "success"

\* Whose death is marked: it was judged on the primary lane, or is about to be.
MarksOK(s, l, n) ==
    /\ \A e \in l.marks : /\ l.final[e] # <<>> \/ (s.pc = "eval" /\ e = At(s))
                          /\ l.final[e] # <<>> => ~l.final[e][1].fallback
    /\ s.pc = "eval" /\ n.active /\ ~s.again => At(s) \notin l.marks
    /\ s.pc = "eval" /\ s.again => /\ At(s) \in l.marks /\ MaxReruns > 0
                                   /\ Last(l.final[At(s)]).outcome # "success"

ReOK(l) ==
    \A e \in Evals :
      /\ Len(l.final[e]) <= 2
      /\ Len(l.final[e]) = 2 =>
           /\ l.final[e][1].outcome # "success" /\ ~l.final[e][1].fallback
           /\ l.final[e][2].fallback /\ e \in l.switch

Typed(s, t, l, n) == s \in SuiteType /\ t \in TurnType /\ l \in LogType /\ n \in LaneType

SuiteOK(s, t, l, n) ==
    /\ Typed(s, t, l, n)
    /\ PlaceOK(s, t) /\ TurnOK(s, t, l, n) /\ OpenOK(s, t, l, n)
    /\ EvidenceOK(s, l, n) /\ TalliesOK(s, l, n) /\ MarksOK(s, l, n)

SuiteInv == SuiteOK(suite, turn, log, lane)

\* The book and the counts of the two histories.
BookOK ==
    /\ book \in [Evals -> EntryType] /\ ran \in Nat
    /\ misses \in [Evals -> Nat] /\ passes \in [Evals -> Nat]
    /\ \A e \in Evals :
         /\ book[e].status = "quarantined" =>
              book[e].count >= Threshold /\ book[e].streak <= passes[e]
         /\ book[e].status # "quarantined" =>
              book[e].count < Threshold /\ book[e].count <= misses[e] /\ book[e].streak = 0

EvalInv == SuiteInv /\ BookOK /\ ReattemptsEarned /\ VerdictIsComplete
---------------------------------------------------------------------------
(* The selection.                                                          *)

\* A finite set of numbers can be put in order: else there is a least size of a
\* set that cannot, and without its least element that one can.
LEMMA OrderExists ==
    ASSUME NEW S, S \subseteq Nat, IsFiniteSet(S)
    PROVE  \E q \in [1 .. Cardinality(S) -> S] :
             \A i, j \in 1 .. Cardinality(S) : i < j => q[i] < q[j]
<1> DEFINE InRow(T) == \E q \in [1 .. Cardinality(T) -> T] :
                           \A i, j \in 1 .. Cardinality(T) : i < j => q[i] < q[j]
           Bad == {n \in Nat : \E T \in SUBSET S : Cardinality(T) = n /\ ~InRow(T)}
<1>1. SUFFICES ASSUME ~InRow(S) PROVE FALSE OBVIOUS
<1>2. \A T \in SUBSET S : IsFiniteSet(T) /\ Cardinality(T) \in Nat
  BY FS_Subset, FS_CardinalityType
<1>3. Bad \subseteq Nat /\ Cardinality(S) \in Bad
  <2> HIDE DEF InRow
  <2> QED BY <1>1, <1>2
<1>4. Min(Bad) \in Bad /\ \A y \in Bad : Min(Bad) <= y
  <2> HIDE DEF Bad
  <2> QED BY <1>3, LeastIsMember
<1> DEFINE n == Min(Bad)
<1>5. PICK T \in SUBSET S : Cardinality(T) = n /\ ~InRow(T)
  <2> HIDE DEF InRow
  <2> QED BY <1>4
<1>6. n \in Nat BY <1>4
<1>7. n # 0
  <2>1. SUFFICES ASSUME n = 0 PROVE FALSE OBVIOUS
  <2>2. T = {} BY <1>2, <1>5, <2>1, FS_EmptySet
  <2>3. [i \in 1 .. 0 |-> 0] \in [1 .. 0 -> {}] OBVIOUS
  <2>4. InRow(T)
    <3>1. \A i \in 1 .. 0 : FALSE OBVIOUS
    <3> HIDE DEF n
    <3> QED BY <1>5, <2>1, <2>2, <2>3, <3>1
  <2> QED BY <1>5, <2>4
<1> DEFINE m == Min(T)
           U == T \ {m}
<1>8. T # {} /\ T \subseteq Nat BY <1>5, <1>7, FS_EmptySet
<1>9. m \in T /\ \A y \in T : m <= y
  BY <1>8, LeastIsMember
<1>10. Cardinality(U) = n - 1 /\ U \in SUBSET S
  BY <1>2, <1>5, <1>9, FS_RemoveElement
<1>11. n - 1 \in Nat /\ n - 1 < n
  <2> HIDE DEF n
  <2> QED BY <1>6, <1>7
<1>12. InRow(U)
  <2>1. SUFFICES ASSUME ~InRow(U) PROVE FALSE OBVIOUS
  <2>2. n - 1 \in Bad
    <3> HIDE DEF InRow, n, U
    <3> QED BY <1>10, <1>11, <2>1
  <2>3. n <= n - 1
    <3> HIDE DEF Bad
    <3> QED BY <1>4, <2>2
  <2> HIDE DEF n
  <2> QED BY <1>6, <2>3
<1> HIDE DEF Bad, n, m
<1>13. PICK q \in [1 .. n - 1 -> U] : \A i, j \in 1 .. n - 1 : i < j => q[i] < q[j]
  BY <1>10, <1>12
<1> DEFINE r == [i \in 1 .. n |-> IF i = 1 THEN m ELSE q[i - 1]]
<1>14. \A i \in 1 .. n : i # 1 => i - 1 \in 1 .. n - 1 BY <1>6
<1>15. r \in [1 .. n -> T]
  <2>1. \A i \in 1 .. n : i # 1 => q[i - 1] \in T BY <1>13, <1>14
  <2> QED BY <1>9, <2>1
<1>16. \A i, j \in 1 .. n : i < j => r[i] < r[j]
  <2>1. SUFFICES ASSUME NEW i \in 1 .. n, NEW j \in 1 .. n, i < j PROVE r[i] < r[j] OBVIOUS
  <2>2. j # 1 /\ j - 1 \in 1 .. n - 1 /\ r[j] = q[j - 1] BY <1>6, <1>14, <2>1
  <2>3. q[j - 1] \in T /\ q[j - 1] # m BY <1>13, <2>2
  <2>4. CASE i = 1
    <3>1. r[i] = m /\ m <= q[j - 1] BY <1>9, <2>3, <2>4
    <3>2. m \in Nat /\ q[j - 1] \in Nat BY <1>8, <1>9, <2>3
    <3> QED BY <2>2, <2>3, <3>1, <3>2
  <2>5. CASE i # 1
    <3>1. i - 1 \in 1 .. n - 1 /\ r[i] = q[i - 1] /\ i - 1 < j - 1 BY <1>6, <1>14, <2>1, <2>5
    <3> QED BY <1>13, <2>2, <3>1
  <2> QED BY <2>4, <2>5
<1> HIDE DEF r
<1>17. InRow(T) BY <1>5, <1>15, <1>16
<1> QED BY <1>5, <1>17

\* The evals in order.
LEMMA InOrderSorts ==
    ASSUME NEW S \in SUBSET Evals
    PROVE  /\ InOrder(S) \in Seq(Evals) /\ Len(InOrder(S)) = Cardinality(S)
           /\ Cardinality(S) \in Nat
           /\ \A i, j \in 1 .. Cardinality(S) : i < j => InOrder(S)[i] < InOrder(S)[j]
<1>1. S \subseteq Nat /\ IsFiniteSet(S) BY EvalAssumption, FS_Subset
<1>2. Cardinality(S) \in Nat BY <1>1, FS_CardinalityType
<1>3. /\ InOrder(S) \in [1 .. Cardinality(S) -> S]
      /\ \A i, j \in 1 .. Cardinality(S) : i < j => InOrder(S)[i] < InOrder(S)[j]
  BY <1>1, OrderExists DEF InOrder
<1>4. InOrder(S) \in [1 .. Cardinality(S) -> Evals] BY <1>3
<1>5. InOrder(S) \in Seq(Evals) /\ Len(InOrder(S)) = Cardinality(S) BY <1>2, <1>4, SeqDef, LenProperties
<1> QED BY <1>2, <1>3, <1>5

\* A selection is a sequence of evals, each of them once.
LEMMA SelectionIsOrdered ==
    ASSUME NEW c \in CommandLines
    PROVE  /\ FilterEvals(c) \in Seq(Evals)
           /\ \A i, j \in 1 .. Len(FilterEvals(c)) : i < j => FilterEvals(c)[i] < FilterEvals(c)[j]
<1> DEFINE S == Included(c)
<1>1. S \in SUBSET Evals BY DEF Included
<1>2. {e \in S : Traits[e].core} \in SUBSET Evals /\ DefaultOf(S) \in SUBSET Evals
  BY <1>1 DEF DefaultOf
<1> HIDE DEF S
<1>3. \A T \in SUBSET Evals : /\ InOrder(T) \in Seq(Evals)
                               /\ \A i, j \in 1 .. Len(InOrder(T)) : i < j => InOrder(T)[i] < InOrder(T)[j]
  BY InOrderSorts
<1> DEFINE k == Upto(Cardinality(S), c.limit)
           q == InOrder(S)
<1>4. /\ q \in Seq(Evals) /\ k \in 0 .. Len(q)
      /\ \A i, j \in 1 .. Len(q) : i < j => q[i] < q[j]
  <2>1. c.limit \in Nat BY EvalAssumption
  <2> QED BY <1>1, <1>3, <2>1, InOrderSorts DEF Upto
<1> HIDE DEF k, q
<1>5. /\ SubSeq(q, 1, k) \in Seq(Evals) /\ Len(SubSeq(q, 1, k)) = k
      /\ \A i \in 1 .. k : SubSeq(q, 1, k)[i] = q[i]
  <2>1. Len(q) \in Nat BY <1>4
  <2>2. 1 \in 1 .. Len(q) + 1 /\ k \in 1 - 1 .. Len(q) /\ k - 1 + 1 = k BY <1>4, <2>1
  <2>3. \A i \in 1 .. k : 1 + i - 1 = i BY <1>4, <2>1
  <2> QED BY <1>4, <2>1, <2>2, <2>3, SubSeqProperties
<1>6. \A i, j \in 1 .. k : i < j => SubSeq(q, 1, k)[i] < SubSeq(q, 1, k)[j]
  <2>1. \A i \in 1 .. k : i \in 1 .. Len(q) BY <1>4
  <2> QED BY <1>4, <1>5, <2>1
<1>7. FilterEvals(c) \in {InOrder({e \in S : Traits[e].core}), InOrder(DefaultOf(S)), SubSeq(q, 1, k)}
  <2>1. CASE c.mode = "core" BY <2>1 DEF FilterEvals, S
  <2>2. CASE c.mode = "default" BY <2>2 DEF FilterEvals, S
  <2>3. CASE c.mode \notin {"core", "default"} BY <2>3 DEF FilterEvals, S, q, k
  <2> QED BY <2>1, <2>2, <2>3
<1> QED BY <1>2, <1>3, <1>5, <1>6, <1>7
---------------------------------------------------------------------------
(* The verdict of an eval.                                                 *)

\* A sequence with one element more.
LEMMA OneMore ==
    ASSUME NEW S, NEW f \in Seq(S), NEW v \in S
    PROVE  /\ Append(f, v) \in Seq(S) /\ Len(Append(f, v)) = Len(f) + 1 /\ Len(f) \in Nat
           /\ Append(f, v) # <<>> /\ Last(Append(f, v)) = v
           /\ Append(f, v)[Len(f) + 1] = v
           /\ \A i \in 1 .. Len(f) : Append(f, v)[i] = f[i]
           /\ f = <<>> <=> Len(f) = 0
<1>1. /\ Append(f, v) \in Seq(S) /\ Len(Append(f, v)) = Len(f) + 1 /\ Len(f) \in Nat
      /\ Append(f, v)[Len(f) + 1] = v
      /\ \A i \in 1 .. Len(f) : Append(f, v)[i] = f[i]
  BY AppendProperties, LenProperties
<1>2. Append(f, v) # <<>> BY <1>1, EmptySeq
<1>3. Last(Append(f, v)) = v BY <1>1 DEF Last
<1>4. f = <<>> <=> Len(f) = 0 BY EmptySeq
<1> QED BY <1>1, <1>2, <1>3, <1>4

\* The verdict of the eval at hand is written: all that is said of the log holds
\* again, for a suite that judges it.
LEMMA VerdictAdded ==
    ASSUME NEW s \in SuiteType, NEW l \in LogType, NEW n \in LaneType, NEW v \in Verdict,
           NEW s2, s2 = [s EXCEPT !.pc = "judge"],
           NEW l2, l2 = [l EXCEPT !.final[At(s)] = Append(@, v)],
           s.pc = "eval", s.pos \in 1 .. Len(s.list), s.exit = "none",
           \A i, j \in 1 .. Len(s.list) : i < j => s.list[i] < s.list[j],
           EvidenceOK(s, l, n), TalliesOK(s, l, n), MarksOK(s, l, n), ReOK(l),
           v.fallback = n.active, ~n.active /\ v.classed => l.marks # {}
    PROVE  /\ s2 \in SuiteType /\ l2 \in LogType /\ l2.open = l.open
           /\ s2.pc = "judge" /\ s2.list = s.list /\ s2.pos = s.pos /\ s2.exit = s.exit
           /\ EvidenceOK(s2, l2, n) /\ TalliesOK(s2, l2, n) /\ MarksOK(s2, l2, n) /\ ReOK(l2)
<1> DEFINE e == At(s)
           f == l.final[e]
           g == Append(f, v)
<1>1. /\ s.list \in Seq(Evals) /\ Len(s.list) \in Nat /\ s.pos \in Nat
      /\ \A i \in 1 .. Len(s.list) : s.list[i] \in Evals
  BY LenProperties DEF SuiteType
<1>2. e \in Evals BY <1>1 DEF At
<1>3. /\ s2 \in SuiteType /\ s2.pc = "judge" /\ s2.list = s.list /\ s2.pos = s.pos
      /\ s2.again = s.again /\ s2.exit = s.exit /\ s2.lost = s.lost
  BY DEF SuiteType
<1>4. l.final \in [Evals -> Seq(Verdict)] BY DEF LogType
<1>5. f \in Seq(Verdict) BY <1>2, <1>4
<1>6. /\ g \in Seq(Verdict) /\ Len(g) = Len(f) + 1 /\ Len(f) \in Nat
      /\ g # <<>> /\ Last(g) = v /\ g[Len(f) + 1] = v
      /\ \A i \in 1 .. Len(f) : g[i] = f[i]
      /\ f = <<>> <=> Len(f) = 0
  BY <1>5, OneMore
<1>7. /\ l2 \in LogType /\ l2.final[e] = g
      /\ \A x \in Evals \ {e} : l2.final[x] = l.final[x]
      /\ l2.marks = l.marks /\ l2.notes = l.notes /\ l2.switch = l.switch /\ l2.open = l.open
  <2> DEFINE h == [l.final EXCEPT ![e] = g]
  <2>1. l2 = [l EXCEPT !.final = h] OBVIOUS
  <2> HIDE DEF g, e
  <2>2. h \in [Evals -> Seq(Verdict)] /\ h[e] = g /\ \A x \in Evals \ {e} : h[x] = l.final[x]
    BY <1>2, <1>4, <1>6
  <2> HIDE DEF h
  <2> QED BY <2>1, <2>2 DEF LogType
<1>8. e = s.list[s.pos] /\ \A i \in 1 .. Len(s.list) : s.list[i] = e => i = s.pos
  <2>1. \A i \in 1 .. Len(s.list) : s.list[i] \in Nat BY <1>1, EvalAssumption
  <2>2. ASSUME NEW i \in 1 .. Len(s.list), i # s.pos PROVE s.list[i] # s.list[s.pos]
    <3>1. i < s.pos \/ s.pos < i BY <1>1, <2>2
    <3>2. s.list[i] < s.list[s.pos] \/ s.list[s.pos] < s.list[i] BY <2>2, <3>1
    <3> QED BY <2>1, <3>2
  <2> QED BY <2>2 DEF At
<1>9. At(s2) = e BY <1>3 DEF At
<1>10. /\ ~s.again => Len(f) = 0
       /\ s.again => Len(f) = 1
       /\ s.again => n.active
  BY <1>8 DEF TalliesOK, IsJudged
<1>11. /\ s.again => e \in l.marks /\ Last(f).outcome # "success"
       /\ n.active /\ ~s.again => e \notin l.marks
  BY DEF MarksOK
<1> HIDE DEF e, f, g
<1>12. Len(f) = 1 => g[1] = f[1] /\ g[2] = v /\ Last(f) = f[1] BY <1>6 DEF Last
<1>13. Len(f) = 0 => g[1] = v BY <1>6
<1>e. f = l.final[e] BY DEF f
<1>14. EvidenceOK(s2, l2, n) BY <1>3, <1>6, <1>7, <1>9 DEF EvidenceOK
<1>15. TalliesOK(s2, l2, n)
  <2>1. \A i \in 1 .. Len(s.list) : i # s.pos => /\ IsJudged(s2, i) <=> IsJudged(s, i)
                                                /\ l2.final[s.list[i]] = l.final[s.list[i]]
    BY <1>1, <1>3, <1>7, <1>8 DEF IsJudged
  <2>2. IsJudged(s2, s.pos) BY <1>3 DEF IsJudged
  <2>3. \A x \in Evals : l2.final[x] # <<>> => \E i \in 1 .. Len(s.list) : s.list[i] = x
    BY <1>7, <1>8 DEF TalliesOK
  <2>4. ASSUME ~s.again
        PROVE  \A i \in 1 .. Len(s.list) : Len(l2.final[s.list[i]]) = IF IsJudged(s2, i) THEN 1 ELSE 0
    <3>1. Len(g) = 1 BY <1>6, <1>10, <2>4
    <3>2. \A i \in 1 .. Len(s.list) : i # s.pos => Len(l.final[s.list[i]]) = IF IsJudged(s, i) THEN 1 ELSE 0
      BY <2>4 DEF TalliesOK
    <3>3. l2.final[s.list[s.pos]] = g BY <1>7, <1>8
    <3>4. \A i \in 1 .. Len(s.list) : i # s.pos =>
            Len(l2.final[s.list[i]]) = IF IsJudged(s2, i) THEN 1 ELSE 0
      <4> TAKE i \in 1 .. Len(s.list)
      <4>1. SUFFICES ASSUME i # s.pos PROVE Len(l2.final[s.list[i]]) = IF IsJudged(s2, i) THEN 1 ELSE 0
        OBVIOUS
      <4>2. (IsJudged(s2, i) <=> IsJudged(s, i)) /\ l2.final[s.list[i]] = l.final[s.list[i]] BY <2>1, <4>1
      <4>3. Len(l.final[s.list[i]]) = IF IsJudged(s, i) THEN 1 ELSE 0 BY <3>2, <4>1
      <4> QED BY <4>2, <4>3
    <3> QED BY <2>2, <3>1, <3>3, <3>4
  <2>5. ASSUME s.again
        PROVE  \A i \in 1 .. Len(s.list) :
                /\ Len(l2.final[s.list[i]]) \in {1, 2}
                /\ ~IsJudged(s2, i) => Len(l2.final[s.list[i]]) = 1
                /\ IsJudged(s2, i) /\ Len(l2.final[s.list[i]]) = 1 /\ s.list[i] \in n.degraded
                     /\ MaxReruns > 0 => Last(l2.final[s.list[i]]).outcome = "success"
    <3>0. Len(f) = 1 BY <1>10, <2>5, Zenon
    <3>1. Len(g) = 2
      <4>1. 1 + 1 = 2 OBVIOUS
      <4> QED BY <1>6, <3>0, <4>1
    <3>2. \A i \in 1 .. Len(s.list) :
                /\ Len(l.final[s.list[i]]) \in {1, 2}
                /\ ~IsJudged(s, i) => Len(l.final[s.list[i]]) = 1
                /\ IsJudged(s, i) /\ Len(l.final[s.list[i]]) = 1 /\ s.list[i] \in n.degraded
                     /\ MaxReruns > 0 => Last(l.final[s.list[i]]).outcome = "success"
      BY <2>5 DEF TalliesOK
    <3>3. ASSUME NEW i \in 1 .. Len(s.list), i # s.pos
          PROVE  /\ Len(l2.final[s.list[i]]) \in {1, 2}
                 /\ ~IsJudged(s2, i) => Len(l2.final[s.list[i]]) = 1
                 /\ IsJudged(s2, i) /\ Len(l2.final[s.list[i]]) = 1 /\ s.list[i] \in n.degraded
                     /\ MaxReruns > 0 => Last(l2.final[s.list[i]]).outcome = "success"
      BY <2>1, <3>2, <3>3
    <3>4. l2.final[s.list[s.pos]] = g BY <1>7, <1>8
    <3>5. Len(l2.final[s.list[s.pos]]) = 2 BY <3>1, <3>4
    <3>6. ASSUME NEW i \in 1 .. Len(s.list), i = s.pos
          PROVE  /\ Len(l2.final[s.list[i]]) \in {1, 2}
                 /\ ~IsJudged(s2, i) => Len(l2.final[s.list[i]]) = 1
                 /\ IsJudged(s2, i) /\ Len(l2.final[s.list[i]]) = 1 /\ s.list[i] \in n.degraded
                     /\ MaxReruns > 0 => Last(l2.final[s.list[i]]).outcome = "success"
      <4>1. IsJudged(s2, i) /\ Len(l2.final[s.list[i]]) = 2 BY <2>2, <3>5, <3>6
      <4>2. 2 \in {1, 2} /\ 2 # 1 OBVIOUS
      <4> QED BY <4>1, <4>2, Zenon
    <3> QED BY <3>3, <3>6
  <2> QED BY <1>3, <1>10, <2>3, <2>4, <2>5 DEF TalliesOK
<1>16. MarksOK(s2, l2, n)
  <2>1. ASSUME NEW x \in l.marks PROVE l2.final[x] # <<>> /\ ~l2.final[x][1].fallback
    <3>1. x \in Evals BY DEF LogType
    <3>2. CASE x # e
      <4>1. l.final[x] # <<>> /\ ~l.final[x][1].fallback BY <3>2 DEF MarksOK, e
      <4> QED BY <1>7, <3>1, <3>2, <4>1
    <3>3. CASE x = e
      <4>1. CASE s.again
        <5>0. Len(f) = 1 BY <1>10, <4>1, Zenon
        <5>1. f # <<>> BY <1>6, <5>0
        <5>2. ~f[1].fallback BY <3>3, <5>1, <1>e DEF MarksOK
        <5> QED BY <1>6, <1>7, <1>10, <1>12, <3>3, <4>1, <5>2
      <4>2. CASE ~s.again
        <5>1. ~n.active BY <1>11, <3>3, <4>2
        <5> QED BY <1>6, <1>7, <1>10, <1>13, <3>3, <4>2, <5>1
      <4> QED BY <4>1, <4>2
    <3> QED BY <3>2, <3>3
  <2> QED BY <1>3, <1>7, <2>1 DEF MarksOK
<1>17. ReOK(l2)
  <2>1. ASSUME NEW x \in Evals
        PROVE /\ Len(l2.final[x]) <= 2
              /\ Len(l2.final[x]) = 2 =>
                   /\ l2.final[x][1].outcome # "success" /\ ~l2.final[x][1].fallback
                   /\ l2.final[x][2].fallback /\ x \in l2.switch
    <3>1. CASE x # e BY <1>7, <3>1 DEF ReOK
    <3>2. CASE x = e
      <4>1. Len(g) <= 2 BY <1>6, <1>10
      <4>2. ASSUME Len(g) = 2
            PROVE  g[1].outcome # "success" /\ ~g[1].fallback /\ g[2].fallback /\ e \in l.switch
        <5>1. s.again /\ Len(f) = 1 BY <1>6, <1>10, <4>2
        <5>2. f # <<>> BY <1>6, <5>1
        <5>3. ~f[1].fallback BY <1>11, <1>e, <5>1, <5>2 DEF MarksOK
        <5>4. n.active /\ l.switch = l.marks BY <1>10, <5>1 DEF EvidenceOK
        <5> QED BY <1>11, <1>12, <5>1, <5>3, <5>4
      <4> QED BY <1>7, <3>2, <4>1, <4>2
    <3> QED BY <3>1, <3>2
  <2> QED BY <2>1 DEF ReOK
<1> QED BY <1>3, <1>7, <1>14, <1>15, <1>16, <1>17
---------------------------------------------------------------------------
(* A turn.                                                                 *)

\* The turn ends, or the runner does; a state is as it should be either way.
LEMMA InvokeKeeps ==
    ASSUME NEW s \in SuiteType, NEW t \in TurnType, NEW l \in LogType, Invoke(s, t, l),
           lane' \in LaneType, lane'.active = lane.active,
           s.pc = "eval", s.pos \in 1 .. Len(s.list), s.exit = "none",
           \A i, j \in 1 .. Len(s.list) : i < j => s.list[i] < s.list[j],
           t.step # "none", ~t.passed, \A e \in Evals : l.open[e] = 0,
           EvidenceOK(s, l, lane'), TalliesOK(s, l, lane'), MarksOK(s, l, lane'), ReOK(l),
           t.fresh > 0 => At(s) \in l.notes,
           ~t.foreign /\ t.dead > 0 /\ ~lane'.active => l.marks # {}
    PROVE  SuiteOK(suite', turn', log', lane') /\ ReOK(log')
<1> DEFINE e == At(s)
<1>1. /\ lane'.active \in BOOLEAN /\ e \in Evals /\ Len(s.list) \in Nat /\ s.pos \in Nat
  BY LenProperties DEF SuiteType, LaneType, At
<1>2. ASSUME NEW k \in TurnEnds, turn' = Answered(t, k), suite' = s,
             log' = IF k \in Classed /\ ~lane.active THEN [l EXCEPT !.open[e] = @ + 1] ELSE l
      PROVE  SuiteOK(suite', turn', log', lane') /\ ReOK(log')
  <2>k. k \in Kinds BY EvalAssumption
  <2>1. /\ turn' \in TurnType /\ turn'.step = t.step /\ turn'.fresh = t.fresh /\ turn'.last = k
        /\ turn'.passed => k = "pass"
        /\ turn'.dead > 0 => t.dead > 0 \/ k \in Dead
        /\ ~turn'.foreign => ~t.foreign /\ k \notin Dead \ Classed
    <3> DEFINE p == t.passed \/ k = "pass"
               m == IF k \in Mute \cup {"unlaunched"} THEN Upto(t.mute + 1, 2) ELSE t.mute
               d == IF k \in Dead THEN Upto(t.dead + 1, EvalDeaths) ELSE t.dead
               f == t.foreign \/ k \in Dead \ Classed
               c == IF k \in Billed /\ lane.active THEN t.cost + 1 ELSE t.cost
    <3>1. p \in BOOLEAN /\ f \in BOOLEAN BY DEF TurnType
    <3>2. m \in Nat /\ d \in Nat /\ c \in Nat
      <4>1. t.mute \in Nat /\ t.dead \in Nat /\ t.cost \in Nat BY DEF TurnType
      <4>2. EvalDeaths \in Nat BY EvalAssumption
      <4> QED BY <4>1, <4>2 DEF Upto
    <3>3. turn' = [t EXCEPT !.last = k, !.passed = p, !.mute = m, !.dead = d, !.foreign = f, !.cost = c]
      BY <1>2 DEF Answered
    <3>4. (p => k = "pass") /\ (d > 0 => t.dead > 0 \/ k \in Dead)
          /\ (~f => ~t.foreign /\ k \notin Dead \ Classed)
      OBVIOUS
    <3> HIDE DEF p, m, d, f, c
    <3>5. turn' \in TurnType BY <2>k, <3>1, <3>2, <3>3, ZenonT(60) DEF TurnType
    <3>6. /\ turn'.step = t.step /\ turn'.fresh = t.fresh /\ turn'.last = k
          /\ turn'.passed = p /\ turn'.dead = d /\ turn'.foreign = f
      BY <3>3 DEF TurnType
    <3> QED BY <3>4, <3>5, <3>6
  <2> DEFINE b == k \in Classed /\ ~lane.active
  <2>2. /\ log' \in LogType /\ log'.marks = l.marks /\ log'.switch = l.switch
        /\ log'.notes = l.notes /\ log'.final = l.final
        /\ \A x \in Evals : log'.open[x] = IF x = e /\ b THEN 1 ELSE 0
    <3>1. CASE ~b BY <1>2, <3>1
    <3>2. CASE b
      <4> DEFINE o == [l.open EXCEPT ![e] = @ + 1]
      <4>1. log' = [l EXCEPT !.open = o] BY <1>2, <3>2
      <4>2. o \in [Evals -> Int] /\ \A x \in Evals : o[x] = IF x = e THEN 1 ELSE 0
        <5> HIDE DEF e
        <5> QED BY <1>1 DEF LogType
      <4> HIDE DEF o
      <4> QED BY <3>2, <4>1, <4>2 DEF LogType
    <3> QED BY <3>1, <3>2
  <2>3. Typed(suite', turn', log', lane') BY <1>2, <2>1, <2>2 DEF Typed
  <2>4. PlaceOK(suite', turn') BY <1>1, <1>2, <2>1 DEF PlaceOK
  <2>5. TurnOK(suite', turn', log', lane') BY <1>2, <2>1, <2>2 DEF TurnOK
  <2>6. OpenOK(suite', turn', log', lane')
    BY <1>2, <2>1, <2>2 DEF OpenOK
  <2>7. EvidenceOK(suite', log', lane') BY <1>2, <2>2 DEF EvidenceOK
  <2>8. TalliesOK(suite', log', lane') BY <1>2, <2>2 DEF TalliesOK
  <2>9. MarksOK(suite', log', lane') BY <1>2, <2>2 DEF MarksOK
  <2>10. ReOK(log') BY <2>2 DEF ReOK
  <2> QED BY <2>3, <2>4, <2>5, <2>6, <2>7, <2>8, <2>9, <2>10 DEF SuiteOK
<1>3. ASSUME turn' = NoTurn, suite' = [s EXCEPT !.pc = "judge"],
             log' = [l EXCEPT !.final[e] = Append(@, CrashVerdict)]
      PROVE  SuiteOK(suite', turn', log', lane') /\ ReOK(log')
  <2>1. /\ CrashVerdict \in Verdict /\ CrashVerdict.fallback = lane'.active /\ ~CrashVerdict.classed
    BY <1>1 DEF CrashVerdict, Verdict
  <2>2. /\ suite' \in SuiteType /\ log' \in LogType /\ log'.open = l.open
        /\ suite'.pc = "judge" /\ suite'.list = s.list /\ suite'.pos = s.pos /\ suite'.exit = s.exit
        /\ EvidenceOK(suite', log', lane') /\ TalliesOK(suite', log', lane')
        /\ MarksOK(suite', log', lane') /\ ReOK(log')
    BY <1>3, <2>1, VerdictAdded
  <2>3. NoTurn \in TurnType /\ NoTurn.step = "none" BY DEF NoTurn, TurnType, Kinds
  <2>4. Typed(suite', turn', log', lane') BY <1>3, <2>2, <2>3 DEF Typed
  <2>5. PlaceOK(suite', turn') BY <1>1, <1>3, <2>2, <2>3 DEF PlaceOK
  <2>6. TurnOK(suite', turn', log', lane') /\ OpenOK(suite', turn', log', lane')
    BY <1>3, <2>2, <2>3 DEF TurnOK, OpenOK
  <2> QED BY <2>2, <2>4, <2>5, <2>6 DEF SuiteOK
<1> QED BY <1>2, <1>3 DEF Invoke, At

\* A death is marked, on the lane and in the log, or not.
LEMMA MarkAdded ==
    ASSUME SuiteInv, suite.pc = "eval", NEW b \in BOOLEAN, b => ~lane.active,
           NEW l \in LogType, NEW n \in LaneType,
           l.marks = log.marks \cup (IF b THEN {At(suite)} ELSE {}),
           n.degraded = lane.degraded \cup (IF b THEN {At(suite)} ELSE {}),
           l.final = log.final, l.switch = log.switch, log.notes \subseteq l.notes,
           b /\ MaxFresh > 0 => At(suite) \in l.notes,
           n.active = lane.active, n.deaths > 0 \/ n.trigger => l.marks # {}
    PROVE  EvidenceOK(suite, l, n) /\ TalliesOK(suite, l, n) /\ MarksOK(suite, l, n)
<1>1. /\ EvidenceOK(suite, log, lane) /\ TalliesOK(suite, log, lane) /\ MarksOK(suite, log, lane)
      /\ PlaceOK(suite, turn) /\ suite \in SuiteType /\ log \in LogType
  BY DEF SuiteInv, SuiteOK, Typed
<1>2. suite.exit = "none" /\ suite.pos \in 1 .. Len(suite.list)
  <2>1. suite.pos \in Nat /\ suite.list \in Seq(Evals) BY <1>1 DEF SuiteType
  <2>2. Len(suite.list) \in Nat BY <2>1, LenProperties
  <2> QED BY <1>1, <2>1, <2>2 DEF PlaceOK
<1>3. suite.again => lane.active BY <1>1, <1>2 DEF TalliesOK
<1>4. b => log.final[At(suite)] = <<>>
  <2>1. SUFFICES ASSUME b PROVE log.final[At(suite)] = <<>> OBVIOUS
  <2>2. ~IsJudged(suite, suite.pos) BY <1>1, <1>2 DEF IsJudged, SuiteType
  <2>3. Len(log.final[At(suite)]) = 0 BY <1>1, <1>2, <1>3, <2>1, <2>2 DEF TalliesOK, At
  <2>4. At(suite) \in Evals /\ log.final \in [Evals -> Seq(Verdict)]
    BY <1>1, <1>2, LenProperties DEF At, SuiteType, LogType
  <2> QED BY <2>3, <2>4, EmptySeq
<1>5. EvidenceOK(suite, l, n)
  <2>1. l.marks = n.degraded /\ log.marks \subseteq l.marks BY <1>1 DEF EvidenceOK
  <2>2. n.active \/ suite.exit = "3" => l.marks # {} BY <1>1, <1>2, <2>1 DEF EvidenceOK
  <2>3. l.switch = IF n.active THEN l.marks ELSE {} BY <1>1 DEF EvidenceOK
  <2>4. suite.lost > 0 => l.marks # {} BY <1>1, <1>2, <2>1 DEF EvidenceOK
  <2>5. MaxFresh > 0 => l.marks \subseteq l.notes BY <1>1 DEF EvidenceOK
  <2> QED BY <2>1, <2>2, <2>3, <2>4, <2>5 DEF EvidenceOK
<1>6. TalliesOK(suite, l, n)
  <2>1. suite.again => n.degraded = lane.degraded BY <1>3
  <2> QED BY <1>1, <1>3, <2>1 DEF TalliesOK
<1>7. MarksOK(suite, l, n)
  <2>1. \A e \in l.marks : \/ e \in log.marks
                           \/ b /\ e = At(suite)
    OBVIOUS
  <2>2. \A e \in l.marks : /\ l.final[e] # <<>> \/ (suite.pc = "eval" /\ e = At(suite))
                           /\ l.final[e] # <<>> => ~l.final[e][1].fallback
    BY <1>1, <1>4, <2>1 DEF MarksOK
  <2>3. n.active /\ ~suite.again => At(suite) \notin l.marks BY <1>1 DEF MarksOK
  <2>4. suite.again => /\ At(suite) \in l.marks /\ MaxReruns > 0
                       /\ Last(l.final[At(suite)]).outcome # "success"
    BY <1>1 DEF MarksOK
  <2> QED BY <2>2, <2>3, <2>4 DEF MarksOK
<1> QED BY <1>5, <1>6, <1>7

\* What the lane and the log note of a death.
LEMMA DeathIsNoted ==
    ASSUME lane \in LaneType, log \in LogType, turn \in TurnType, NEW e \in Evals
    PROVE  LET b == ~lane.active /\ turn.last \in Classed
           IN  /\ NoteDeath(e) \in LaneType /\ NoteDeath(e).active = lane.active
               /\ NoteDeath(e).trigger = lane.trigger
               /\ NoteDeath(e).degraded = lane.degraded \cup (IF b THEN {e} ELSE {})
               /\ NoteDeath(e).deaths > 0 => lane.deaths > 0 \/ b
               /\ Marked(e) \in LogType /\ Marked(e).final = log.final
               /\ Marked(e).switch = log.switch /\ Marked(e).notes = log.notes
               /\ Marked(e).marks = log.marks \cup (IF b THEN {e} ELSE {})
               /\ \A x \in Evals : Marked(e).open[x] = log.open[x] - (IF x = e /\ b THEN 1 ELSE 0)
<1> DEFINE b == ~lane.active /\ turn.last \in Classed
           N == NoteDeath(e)
           M == Marked(e)
<1>1. /\ N \in LaneType /\ N.active = lane.active /\ N.trigger = lane.trigger
      /\ N.degraded = lane.degraded \cup (IF b THEN {e} ELSE {})
      /\ N.deaths > 0 => lane.deaths > 0 \/ b
  <2>1. CASE lane.active
    <3>1. N = lane BY <2>1 DEF NoteDeath
    <3> QED BY <2>1, <3>1
  <2>2. CASE ~lane.active /\ turn.last \notin Classed
    <3>1. N = [lane EXCEPT !.deaths = 0] BY <2>2 DEF NoteDeath
    <3> QED BY <2>2, <3>1 DEF LaneType
  <2>3. CASE b
    <3> DEFINE d == IF turn.last = "unresolved" THEN Upto(lane.deaths + 1, Deaths) ELSE 0
    <3>1. N = [lane EXCEPT !.degraded = @ \cup {e}, !.deaths = d] BY <2>3 DEF NoteDeath
    <3>2. lane.deaths \in Nat BY DEF LaneType
    <3>3. d \in Nat BY <3>2, EvalAssumption DEF Upto
    <3> HIDE DEF d
    <3> QED BY <2>3, <3>1, <3>3 DEF LaneType
  <2> QED BY <2>1, <2>2, <2>3
<1>2. /\ M \in LogType /\ M.final = log.final /\ M.switch = log.switch /\ M.notes = log.notes
      /\ M.marks = log.marks \cup (IF b THEN {e} ELSE {})
      /\ \A x \in Evals : M.open[x] = log.open[x] - (IF x = e /\ b THEN 1 ELSE 0)
  <2>0. log.open \in [Evals -> Int] BY DEF LogType
  <2>1. CASE b
    <3> DEFINE o == [log.open EXCEPT ![e] = @ - 1]
    <3>1. M = [log EXCEPT !.marks = @ \cup {e}, !.open = o] BY <2>1 DEF Marked
    <3>2. o \in [Evals -> Int] /\ o[e] = log.open[e] - 1
      BY <2>0
    <3>3. \A x \in Evals : x # e => o[x] = log.open[x] - 0
      BY <2>0
    <3> HIDE DEF o, b
    <3>4. M.open = o /\ M.final = log.final /\ M.switch = log.switch /\ M.notes = log.notes
      BY <3>1 DEF LogType
    <3>5. M.marks = log.marks \cup {e} BY <3>1 DEF LogType
    <3>6. M \in LogType BY <3>1, <3>2 DEF LogType
    <3>7. \A x \in Evals : M.open[x] = log.open[x] - (IF x = e /\ b THEN 1 ELSE 0)
      BY <2>1, <3>2, <3>3, <3>4
    <3> HIDE DEF M
    <3> QED BY <2>1, <3>4, <3>5, <3>6, <3>7
  <2>2. CASE ~b
    <3>1. M = log BY <2>2 DEF Marked
    <3>2. \A x \in Evals : log.open[x] = log.open[x] - 0 BY <2>0
    <3> QED BY <2>2, <3>1, <3>2
  <2> QED BY <2>1, <2>2
<1> QED BY <1>1, <1>2

\* Where a running eval is.
LEMMA EvalIsPlaced ==
    ASSUME SuiteInv, suite.pc \in {"eval", "judge"}
    PROVE  /\ suite \in SuiteType /\ turn \in TurnType /\ log \in LogType /\ lane \in LaneType
           /\ suite.pos \in 1 .. Len(suite.list) /\ suite.exit = "none"
           /\ Current \in Evals /\ Current = At(suite) /\ Len(suite.list) \in Nat
           /\ \A i, j \in 1 .. Len(suite.list) : i < j => suite.list[i] < suite.list[j]
           /\ turn.step # "none" <=> suite.pc = "eval"
<1>1. suite \in SuiteType /\ turn \in TurnType /\ log \in LogType /\ lane \in LaneType /\ PlaceOK(suite, turn)
  BY DEF SuiteInv, SuiteOK, Typed
<1>2. suite.list \in Seq(Evals) /\ suite.pos \in Nat BY <1>1 DEF SuiteType
<1>3. Len(suite.list) \in Nat /\ suite.pos \in 1 .. Len(suite.list)
  BY <1>1, <1>2, LenProperties DEF PlaceOK
<1> QED BY <1>1, <1>2, <1>3, LenProperties DEF PlaceOK, Current, At

\* Another turn after a dead one.
LEMMA TryKeeps ==
    ASSUME SuiteInv, ReOK(log), turn.step # "none", ~turn.passed, turn.last \in Dead,
           NEW t \in TurnType, t.step # "none", t.passed = turn.passed,
           t.foreign = turn.foreign, t.dead = turn.dead, TryAgain(t)
    PROVE  SuiteOK(suite', turn', log', lane') /\ ReOK(log')
<1>0. suite.pc = "eval" BY DEF SuiteInv, SuiteOK, PlaceOK
<1>1. /\ suite \in SuiteType /\ turn \in TurnType /\ log \in LogType /\ lane \in LaneType
      /\ suite.pos \in 1 .. Len(suite.list) /\ suite.exit = "none"
      /\ Current \in Evals /\ Current = At(suite)
      /\ \A i, j \in 1 .. Len(suite.list) : i < j => suite.list[i] < suite.list[j]
  BY <1>0, EvalIsPlaced
<1> DEFINE e == Current
           b == ~lane.active /\ turn.last \in Classed
           M == Marked(e)
           l == [M EXCEPT !.notes = @ \cup {e}]
<1>2. lane' = NoteDeath(e) /\ Invoke(suite, t, l) BY DEF TryAgain
<1>3. /\ lane' \in LaneType /\ lane'.active = lane.active /\ lane'.trigger = lane.trigger
      /\ lane'.degraded = lane.degraded \cup (IF b THEN {e} ELSE {})
      /\ lane'.deaths > 0 => lane.deaths > 0 \/ b
  BY <1>1, <1>2, DeathIsNoted
<1>4. /\ M \in LogType /\ M.final = log.final
      /\ M.switch = log.switch /\ M.notes = log.notes
      /\ M.marks = log.marks \cup (IF b THEN {e} ELSE {})
      /\ \A x \in Evals : M.open[x] = log.open[x] - (IF x = e /\ b THEN 1 ELSE 0)
  BY <1>1, DeathIsNoted
<1> HIDE DEF M
<1>5. /\ l \in LogType /\ l.final = log.final /\ l.switch = log.switch
      /\ l.notes = log.notes \cup {e} /\ l.open = M.open
      /\ l.marks = log.marks \cup (IF b THEN {e} ELSE {})
  <2> HIDE DEF e
  <2> QED BY <1>1, <1>4 DEF LogType, e
<1>6. \A x \in Evals : l.open[x] = 0
  <2>1. \A x \in Evals : log.open[x] = IF x = e /\ b THEN 1 ELSE 0
    BY <1>1 DEF SuiteInv, SuiteOK, OpenOK
  <2>2. 1 - 1 = 0 /\ 0 - 0 = 0 OBVIOUS
  <2> HIDE DEF l, b, e
  <2> QED BY <1>4, <1>5, <2>1, <2>2
<1> HIDE DEF l
<1>7. /\ EvidenceOK(suite, log, lane) /\ TurnOK(suite, turn, log, lane)
  BY DEF SuiteInv, SuiteOK
<1>8. /\ b \in BOOLEAN /\ b => ~lane.active
      /\ b => l.marks # {}
      /\ log.marks \subseteq l.marks
  BY <1>5
<1>9. lane'.deaths > 0 \/ lane'.trigger => l.marks # {}
  BY <1>3, <1>7, <1>8 DEF EvidenceOK
<1>10. ~t.foreign /\ t.dead > 0 /\ ~lane'.active => l.marks # {}
  BY <1>0, <1>3, <1>7, <1>8 DEF TurnOK
<1>11. At(suite) \in l.notes /\ log.notes \subseteq l.notes BY <1>1, <1>5
<1>12. /\ l.marks = log.marks \cup (IF b THEN {At(suite)} ELSE {})
       /\ lane'.degraded = lane.degraded \cup (IF b THEN {At(suite)} ELSE {})
  BY <1>1, <1>3, <1>5
<1> HIDE DEF b, e
<1>13. EvidenceOK(suite, l, lane') /\ TalliesOK(suite, l, lane') /\ MarksOK(suite, l, lane')
  BY <1>0, <1>3, <1>5, <1>8, <1>9, <1>11, <1>12, MarkAdded
<1>14. ReOK(l) BY <1>5 DEF ReOK
<1> QED BY <1>0, <1>1, <1>2, <1>3, <1>5, <1>6, <1>10, <1>11, <1>13, <1>14, InvokeKeeps
---------------------------------------------------------------------------
(* The steps of an eval.                                                   *)

\* A stall is tried again.
LEMMA RetryKeeps ==
    ASSUME SuiteInv, ReOK(log), RetryTurn
    PROVE  SuiteInv' /\ ReOK(log')
<1> DEFINE t == [turn EXCEPT !.retries = @ + 1]
<1>1. turn \in TurnType BY DEF SuiteInv, SuiteOK, Typed
<1>2. /\ t \in TurnType /\ t.step = turn.step /\ t.passed = turn.passed
      /\ t.foreign = turn.foreign /\ t.dead = turn.dead
  BY <1>1 DEF TurnType
<1>3. turn.step # "none" /\ ~turn.passed /\ turn.last \in Dead /\ TryAgain(t)
  BY DEF RetryTurn, MayRetry, Dead
<1> HIDE DEF t
<1>4. SuiteOK(suite', turn', log', lane') /\ ReOK(log') BY <1>2, <1>3, TryKeeps
<1> QED BY <1>4 DEF SuiteInv

\* A session that died is replaced by a fresh one.
LEMMA FreshKeeps ==
    ASSUME SuiteInv, ReOK(log), FreshTurn
    PROVE  SuiteInv' /\ ReOK(log')
<1> DEFINE n == turn.fresh + 1
           t == [turn EXCEPT !.step = "nudge", !.fresh = n, !.nudges = 0]
<1>1. turn \in TurnType BY DEF SuiteInv, SuiteOK, Typed
<1>2. /\ t \in TurnType /\ t.step = "nudge" /\ t.passed = turn.passed
      /\ t.foreign = turn.foreign /\ t.dead = turn.dead
  <2>1. n \in Nat BY <1>1 DEF TurnType
  <2>2. 0 \in Nat OBVIOUS
  <2> HIDE DEF n
  <2>3. t \in TurnType BY <1>1, <2>1, <2>2, ZenonT(60) DEF TurnType
  <2>4. t.step = "nudge" /\ t.passed = turn.passed BY <1>1 DEF TurnType
  <2>5. t.foreign = turn.foreign /\ t.dead = turn.dead BY <1>1 DEF TurnType
  <2> QED BY <2>3, <2>4, <2>5
<1>3. turn.step # "none" /\ ~turn.passed /\ turn.last \in Dead /\ TryAgain(t)
  BY DEF FreshTurn, MayRestart
<1> HIDE DEF t
<1>4. SuiteOK(suite', turn', log', lane') /\ ReOK(log') BY <1>2, <1>3, TryKeeps
<1> QED BY <1>4 DEF SuiteInv

\* A session that only talked is told to go on.
LEMMA NudgeKeeps ==
    ASSUME SuiteInv, ReOK(log), Nudge
    PROVE  SuiteInv' /\ ReOK(log')
<1> DEFINE t == [turn EXCEPT !.nudges = @ + 1]
<1>0. suite.pc = "eval" BY DEF SuiteInv, SuiteOK, PlaceOK, Nudge
<1>1. /\ suite \in SuiteType /\ turn \in TurnType /\ log \in LogType /\ lane \in LaneType
      /\ suite.pos \in 1 .. Len(suite.list) /\ suite.exit = "none"
      /\ \A i, j \in 1 .. Len(suite.list) : i < j => suite.list[i] < suite.list[j]
  BY <1>0, EvalIsPlaced
<1>2. /\ t \in TurnType /\ t.step = "nudge" /\ t.passed = turn.passed
      /\ t.foreign = turn.foreign /\ t.dead = turn.dead /\ t.fresh = turn.fresh
  BY <1>1 DEF TurnType, Nudge
<1>3. ~turn.passed /\ turn.last \notin Classed /\ lane' = lane /\ Invoke(suite, t, log)
  BY DEF Nudge, MayNudge, Classed
<1> HIDE DEF t
<1>4. /\ EvidenceOK(suite, log, lane) /\ TalliesOK(suite, log, lane) /\ MarksOK(suite, log, lane)
      /\ TurnOK(suite, turn, log, lane) /\ OpenOK(suite, turn, log, lane)
  BY DEF SuiteInv, SuiteOK
<1>5. \A e \in Evals : log.open[e] = 0 BY <1>3, <1>4 DEF OpenOK
<1>6. /\ t.fresh > 0 => At(suite) \in log.notes
      /\ ~t.foreign /\ t.dead > 0 /\ ~lane.active => log.marks # {}
  BY <1>0, <1>2, <1>3, <1>4 DEF TurnOK
<1>7. SuiteOK(suite', turn', log', lane') /\ ReOK(log')
  <2>1. t.step # "none" /\ ~t.passed BY <1>2, <1>3
  <2> QED BY <1>0, <1>1, <1>2, <1>3, <1>4, <1>5, <1>6, <2>1, InvokeKeeps
<1> QED BY <1>7 DEF SuiteInv

\* One loop is over and the next begins.
LEMMA NextLoopKeeps ==
    ASSUME SuiteInv, ReOK(log), NextLoop
    PROVE  SuiteInv' /\ ReOK(log')
<1>1. /\ suite' = suite /\ lane' = lane /\ log' = log /\ turn.step # "none"
      /\ turn' = [turn EXCEPT !.step = "nudge"] \/ turn' = [turn EXCEPT !.step = "fresh"]
  BY DEF NextLoop
<1>2. turn \in TurnType BY DEF SuiteInv, SuiteOK, Typed
<1>3. /\ turn' \in TurnType /\ turn'.step # "none" /\ turn'.passed = turn.passed
      /\ turn'.last = turn.last /\ turn'.fresh = turn.fresh /\ turn'.foreign = turn.foreign
      /\ turn'.dead = turn.dead
  BY <1>1, <1>2 DEF TurnType
<1>4. SuiteOK(suite, turn, log, lane) BY DEF SuiteInv
<1>5. Typed(suite, turn', log, lane) BY <1>3, <1>4 DEF Typed, SuiteOK
<1>6. PlaceOK(suite, turn') BY <1>1, <1>3, <1>4 DEF SuiteOK, PlaceOK
<1>7. TurnOK(suite, turn', log, lane) BY <1>3, <1>4 DEF SuiteOK, TurnOK
<1>8. OpenOK(suite, turn', log, lane) BY <1>1, <1>3, <1>4 DEF SuiteOK, OpenOK
<1>9. SuiteOK(suite', turn', log', lane') BY <1>1, <1>4, <1>5, <1>6, <1>7, <1>8 DEF SuiteOK
<1> QED BY <1>1, <1>9 DEF SuiteInv

\* The next eval of the list, or the next one that is to be attempted again.
LEMMA NextEvalKeeps ==
    ASSUME SuiteInv, ReOK(log), NextEval
    PROVE  SuiteInv' /\ ReOK(log')
<1> DEFINE I == IF suite.again THEN ToReattempt(suite.pos + 1)
                               ELSE suite.pos + 1 .. Len(suite.list)
           k == Min(I)
           s == [suite EXCEPT !.pc = "eval", !.pos = k]
           t == [NoTurn EXCEPT !.step = "retry"]
<1>0. suite.pc = "loop" /\ I # {} /\ Invoke(s, t, log) /\ lane' = lane
  BY DEF NextEval
<1>1. /\ suite \in SuiteType /\ log \in LogType /\ lane \in LaneType
      /\ PlaceOK(suite, turn) /\ OpenOK(suite, turn, log, lane)
      /\ EvidenceOK(suite, log, lane) /\ TalliesOK(suite, log, lane) /\ MarksOK(suite, log, lane)
  BY DEF SuiteInv, SuiteOK, Typed
<1>2. suite.list \in Seq(Evals) /\ suite.pos \in Nat BY <1>1 DEF SuiteType
<1>3. Len(suite.list) \in Nat /\ \A i \in 1 .. Len(suite.list) : suite.list[i] \in Evals
  BY <1>2, LenProperties
<1>4. I \subseteq suite.pos + 1 .. Len(suite.list) BY DEF ToReattempt
<1>5. k \in I /\ \A i \in I : k <= i
  <2>1. I \subseteq Nat BY <1>2, <1>3, <1>4
  <2> HIDE DEF I
  <2> QED BY <1>0, <2>1, LeastIsMember
<1>6. ~suite.again => k = suite.pos + 1
  <2>1. SUFFICES ASSUME ~suite.again PROVE k = suite.pos + 1 OBVIOUS
  <2>2. k \in suite.pos + 1 .. Len(suite.list) /\ I = suite.pos + 1 .. Len(suite.list) BY <1>5, <2>1
  <2>3. suite.pos + 1 \in I BY <1>2, <1>3, <2>2
  <2>4. k <= suite.pos + 1 BY <1>5, <2>3
  <2> HIDE DEF k
  <2> QED BY <1>2, <1>3, <2>2, <2>4
<1>7. suite.again =>
        /\ k \in ToReattempt(suite.pos + 1)
        /\ \A i \in suite.pos + 1 .. Len(suite.list) : i < k => i \notin ToReattempt(suite.pos + 1)
  <2>1. SUFFICES ASSUME suite.again
                 PROVE  /\ k \in ToReattempt(suite.pos + 1)
                        /\ \A i \in suite.pos + 1 .. Len(suite.list) :
                             i < k => i \notin ToReattempt(suite.pos + 1)
    OBVIOUS
  <2>2. I = ToReattempt(suite.pos + 1) BY <2>1
  <2>3. k \in Nat BY <1>2, <1>3, <1>4, <1>5
  <2>4. \A i \in suite.pos + 1 .. Len(suite.list) : i \in Int BY <1>2, <1>3
  <2>5. \A i \in Int : i < k => ~(k <= i) BY <2>3
  <2> HIDE DEF I, k
  <2> QED BY <1>5, <2>2, <2>4, <2>5
<1>8. k \in suite.pos + 1 .. Len(suite.list) /\ k \in 1 .. Len(suite.list) /\ k \in Nat
  <2>1. k \in suite.pos + 1 .. Len(suite.list) BY <1>4, <1>5
  <2> HIDE DEF I, k
  <2> QED BY <1>2, <1>3, <2>1
<1> HIDE DEF I, k
<1>9. /\ s \in SuiteType /\ s.pc = "eval" /\ s.pos = k /\ s.list = suite.list
      /\ s.again = suite.again /\ s.exit = suite.exit /\ s.lost = suite.lost
  BY <1>1, <1>8 DEF SuiteType
<1>10. /\ t \in TurnType /\ t.step = "retry" /\ ~t.passed /\ t.fresh = 0 /\ t.dead = 0
  BY DEF NoTurn, TurnType, Kinds
<1> HIDE DEF s, t
<1>11. suite.exit = "none" /\ turn.step = "none"
       /\ \A i, j \in 1 .. Len(suite.list) : i < j => suite.list[i] < suite.list[j]
  BY <1>0, <1>1 DEF PlaceOK
<1>12. \A e \in Evals : log.open[e] = 0 BY <1>1, <1>11 DEF OpenOK
<1>13. EvidenceOK(s, log, lane) BY <1>1, <1>9 DEF EvidenceOK
<1>14. \A i \in 1 .. Len(suite.list) : /\ i <= suite.pos <=> IsJudged(suite, i)
                                       /\ i < k <=> IsJudged(s, i)
  BY <1>0, <1>2, <1>8, <1>9 DEF IsJudged
<1>15. \A i \in 1 .. Len(suite.list) : i <= suite.pos => i < k
  BY <1>2, <1>3, <1>8
<1>16. TalliesOK(s, log, lane)
  <2>1. ASSUME ~suite.again, NEW i \in 1 .. Len(suite.list)
        PROVE  Len(log.final[suite.list[i]]) = IF IsJudged(s, i) THEN 1 ELSE 0
    <3>1. IsJudged(s, i) <=> IsJudged(suite, i)
      <4>1. i < suite.pos + 1 <=> i <= suite.pos BY <1>2, <1>3
      <4> QED BY <1>6, <1>14, <2>1, <4>1
    <3> QED BY <1>1, <1>11, <2>1, <3>1 DEF TalliesOK
  <2>2. ASSUME suite.again, NEW i \in 1 .. Len(suite.list)
        PROVE  /\ Len(log.final[suite.list[i]]) \in {1, 2}
               /\ ~IsJudged(s, i) => Len(log.final[suite.list[i]]) = 1
               /\ IsJudged(s, i) /\ Len(log.final[suite.list[i]]) = 1 /\ suite.list[i] \in lane.degraded
                    /\ MaxReruns > 0 => Last(log.final[suite.list[i]]).outcome = "success"
    <3>1. /\ Len(log.final[suite.list[i]]) \in {1, 2}
          /\ ~IsJudged(suite, i) => Len(log.final[suite.list[i]]) = 1
          /\ IsJudged(suite, i) /\ Len(log.final[suite.list[i]]) = 1 /\ suite.list[i] \in lane.degraded
                    /\ MaxReruns > 0 => Last(log.final[suite.list[i]]).outcome = "success"
      BY <1>1, <1>11, <2>2 DEF TalliesOK
    <3>2. ~IsJudged(s, i) => ~IsJudged(suite, i) BY <1>14, <1>15
    <3>3. ASSUME IsJudged(s, i), ~IsJudged(suite, i), suite.list[i] \in lane.degraded, MaxReruns > 0
          PROVE  Last(log.final[suite.list[i]]).outcome = "success"
      <4>1. i \in suite.pos + 1 .. Len(suite.list) /\ i < k BY <1>2, <1>3, <1>14, <3>3
      <4>2. i \notin ToReattempt(suite.pos + 1) BY <1>7, <2>2, <4>1
      <4> QED BY <3>3, <4>1, <4>2 DEF ToReattempt, Latest
    <3> QED BY <3>1, <3>2, <3>3
  <2> QED BY <1>1, <1>9, <1>11, <2>1, <2>2 DEF TalliesOK
<1>17. MarksOK(s, log, lane)
  <2>1. \A e \in log.marks : log.final[e] # <<>> /\ ~log.final[e][1].fallback
    BY <1>0, <1>1 DEF MarksOK
  <2>2. At(s) = suite.list[k] /\ ~IsJudged(suite, k) BY <1>2, <1>8, <1>9, <1>14 DEF At
  <2>3. ASSUME ~suite.again PROVE At(s) \notin log.marks
    <3>1. Len(log.final[At(s)]) = 0 BY <1>1, <1>8, <1>11, <2>2, <2>3 DEF TalliesOK
    <3>2. At(s) \in Evals /\ log.final \in [Evals -> Seq(Verdict)] BY <1>1, <1>3, <1>8, <2>2 DEF LogType
    <3>3. log.final[At(s)] = <<>> BY <3>1, <3>2, EmptySeq
    <3> QED BY <2>1, <3>3
  <2>4. ASSUME suite.again
        PROVE  At(s) \in log.marks /\ MaxReruns > 0 /\ Last(log.final[At(s)]).outcome # "success"
    <3>1. MaxReruns > 0 /\ At(s) \in lane.degraded /\ Last(log.final[At(s)]).outcome # "success"
      BY <1>7, <2>2, <2>4 DEF ToReattempt, Latest
    <3> QED BY <1>1, <3>1 DEF EvidenceOK
  <2> QED BY <1>9, <2>1, <2>3, <2>4 DEF MarksOK
<1>18. SuiteOK(suite', turn', log', lane') /\ ReOK(log')
  <2>1. /\ lane' \in LaneType /\ lane'.active = lane.active /\ t.step # "none"
        /\ t.fresh > 0 => At(s) \in log.notes
        /\ ~t.foreign /\ t.dead > 0 /\ ~lane'.active => log.marks # {}
    BY <1>0, <1>1, <1>10
  <2>2. EvidenceOK(s, log, lane') /\ TalliesOK(s, log, lane') /\ MarksOK(s, log, lane')
    BY <1>0, <1>13, <1>16, <1>17
  <2>3. s.pos \in 1 .. Len(s.list) /\ s.exit = "none"
        /\ \A i, j \in 1 .. Len(s.list) : i < j => s.list[i] < s.list[j]
    BY <1>8, <1>9, <1>11
  <2> QED BY <1>0, <1>1, <1>9, <1>10, <1>12, <2>1, <2>2, <2>3, InvokeKeeps
<1> QED BY <1>18 DEF SuiteInv

\* The budgets of an eval are spent and it is given its verdict.
LEMMA GradeKeeps ==
    ASSUME SuiteInv, ReOK(log), Grade
    PROVE  SuiteInv' /\ ReOK(log')
<1> DEFINE e == Current
           err == Outcome = "error"
           d == ~lane.active /\ turn.last \in Classed
           b == err /\ d
           l == IF err THEN Marked(Current) ELSE log
           N == IF err THEN NoteDeath(e)
                ELSE IF lane.active THEN lane ELSE [lane EXCEPT !.deaths = 0]
           v == VerdictOf
<1>0. suite.pc = "eval" BY DEF SuiteInv, SuiteOK, PlaceOK, Grade
<1>1. /\ suite \in SuiteType /\ turn \in TurnType /\ log \in LogType /\ lane \in LaneType
      /\ suite.pos \in 1 .. Len(suite.list) /\ suite.exit = "none"
      /\ e \in Evals /\ e = At(suite)
      /\ \A i, j \in 1 .. Len(suite.list) : i < j => suite.list[i] < suite.list[j]
  BY <1>0, EvalIsPlaced
<1>2. /\ EvidenceOK(suite, log, lane) /\ TalliesOK(suite, log, lane) /\ MarksOK(suite, log, lane)
      /\ TurnOK(suite, turn, log, lane) /\ OpenOK(suite, turn, log, lane) /\ PlaceOK(suite, turn)
  BY DEF SuiteInv, SuiteOK
<1>3. /\ ~MayRestart /\ lane' = [N EXCEPT !.trigger = EvalTrigger]
      /\ log' = [l EXCEPT !.final[e] = Append(@, v)]
      /\ turn' = NoTurn /\ suite' = [suite EXCEPT !.pc = "judge"] /\ turn.step = "fresh"
  BY DEF Grade, Graded
<1>4. /\ turn.passed => turn.last = "pass"
      /\ turn.fresh > 0 => At(suite) \in log.notes
      /\ ~turn.foreign /\ turn.dead > 0 /\ ~lane.active => turn.last \in Classed \/ log.marks # {}
  BY <1>0, <1>2 DEF TurnOK
<1>5. /\ err <=> ~turn.passed /\ turn.last \in Dead
      /\ Outcome \in {"success", "failure", "error"}
      /\ turn.last \in Classed => err
  <2>1. CASE turn.passed BY <1>4, <2>1 DEF Outcome, Dead, Classed, Mute
  <2>2. CASE ~turn.passed /\ turn.last \in Dead BY <2>2 DEF Outcome
  <2>3. CASE ~turn.passed /\ turn.last \notin Dead BY <2>3 DEF Outcome, Dead, Classed, Mute
  <2> QED BY <2>1, <2>2, <2>3
<1> HIDE DEF err
<1>6. b <=> d BY <1>5
<1>7. /\ NoteDeath(e) \in LaneType /\ NoteDeath(e).active = lane.active
      /\ NoteDeath(e).degraded = lane.degraded \cup (IF d THEN {e} ELSE {})
      /\ NoteDeath(e).deaths > 0 => lane.deaths > 0 \/ d
      /\ Marked(e) \in LogType /\ Marked(e).final = log.final
      /\ Marked(e).switch = log.switch /\ Marked(e).notes = log.notes
      /\ Marked(e).marks = log.marks \cup (IF d THEN {e} ELSE {})
      /\ \A x \in Evals : Marked(e).open[x] = log.open[x] - (IF x = e /\ d THEN 1 ELSE 0)
  BY <1>1, DeathIsNoted
<1>8. /\ N \in LaneType /\ N.active = lane.active
      /\ N.degraded = lane.degraded \cup (IF b THEN {e} ELSE {})
      /\ N.deaths > 0 => lane.deaths > 0 \/ b
  <2>1. CASE err BY <1>6, <1>7, <2>1
  <2>2. CASE ~err /\ lane.active BY <1>1, <2>2
  <2>3. CASE ~err /\ ~lane.active
    <3>1. N = [lane EXCEPT !.deaths = 0] BY <2>3
    <3>2. /\ N \in LaneType /\ N.active = lane.active /\ N.degraded = lane.degraded /\ N.deaths = 0
      BY <1>1, <3>1 DEF LaneType
    <3>3. ~(0 > 0) OBVIOUS
    <3> HIDE DEF N
    <3> QED BY <2>3, <3>2, <3>3
  <2> QED BY <2>1, <2>2, <2>3
<1>9. /\ l \in LogType /\ l.final = log.final /\ l.switch = log.switch /\ l.notes = log.notes
      /\ l.marks = log.marks \cup (IF b THEN {e} ELSE {})
  <2>1. CASE err BY <1>6, <1>7, <2>1
  <2>2. CASE ~err BY <1>1, <2>2
  <2> QED BY <2>1, <2>2
<1>10. \A x \in Evals : l.open[x] = 0
  <2>1. \A x \in Evals : log.open[x] = IF x = e /\ d THEN 1 ELSE 0
    BY <1>1, <1>2, <1>3 DEF OpenOK
  <2>2. 1 - 1 = 0 /\ 0 - 0 = 0 OBVIOUS
  <2>3. CASE err
    <3>1. l = Marked(e) BY <2>3
    <3>2. ASSUME NEW x \in Evals PROVE Marked(e).open[x] = 0
      <4>1. Marked(e).open[x] = log.open[x] - (IF x = e /\ d THEN 1 ELSE 0) BY <1>7
      <4>2. log.open[x] = IF x = e /\ d THEN 1 ELSE 0 BY <2>1
      <4> HIDE DEF e, d
      <4> QED BY <2>2, <4>1, <4>2
    <3> QED BY <3>1, <3>2
  <2>4. CASE ~err
    <3>1. l = log /\ ~d BY <1>5, <2>4
    <3> QED BY <2>1, <3>1
  <2> QED BY <2>3, <2>4
<1>11. b => ~lane.active /\ l.marks # {}
  <2>1. b => e \in l.marks BY <1>9
  <2> QED BY <2>1
<1>12. /\ lane' \in LaneType /\ lane'.active = lane.active
       /\ lane'.degraded = N.degraded /\ lane'.deaths = N.deaths /\ lane'.trigger = EvalTrigger
  <2>1. EvalTrigger \in BOOLEAN BY DEF EvalTrigger
  <2> HIDE DEF N
  <2> QED BY <1>3, <1>8, <2>1 DEF LaneType
<1>13. EvalTrigger => l.marks # {}
  <2>1. SUFFICES ASSUME EvalTrigger PROVE l.marks # {} OBVIOUS
  <2>2. ~lane.active /\ ~turn.foreign /\ turn.dead >= EvalDeaths BY <2>1 DEF EvalTrigger
  <2>3. turn.dead > 0
    <3>1. EvalDeaths \in Nat \ {0} /\ turn.dead \in Nat BY <1>1, EvalAssumption DEF TurnType
    <3>2. \A x \in Nat, y \in Nat \ {0} : x >= y => x > 0 OBVIOUS
    <3> QED BY <2>2, <3>1, <3>2
  <2>4. CASE turn.last \in Classed BY <1>5, <1>11, <2>2, <2>4
  <2>5. CASE log.marks # {}
    <3>1. log.marks \subseteq l.marks BY <1>9
    <3> QED BY <2>5, <3>1
  <2> QED BY <1>4, <2>2, <2>3, <2>4, <2>5
<1>14. lane.deaths > 0 => l.marks # {}
  <2>1. lane.deaths > 0 => log.marks # {} BY <1>2 DEF EvidenceOK
  <2>2. log.marks \subseteq l.marks BY <1>9
  <2> HIDE DEF l
  <2> QED BY <2>1, <2>2
<1>15. lane'.deaths > 0 \/ lane'.trigger => l.marks # {}
  BY <1>8, <1>11, <1>12, <1>13, <1>14
<1>16. b /\ MaxFresh > 0 => At(suite) \in l.notes
  <2>1. SUFFICES ASSUME b, MaxFresh > 0 PROVE At(suite) \in l.notes OBVIOUS
  <2>2. ~turn.passed /\ turn.last \in Dead BY <1>5, <2>1
  <2>3. ~(turn.fresh < MaxFresh) \/ turn.fresh > 0 BY <1>3, <2>2 DEF MayRestart
  <2>4. turn.fresh \in Nat /\ MaxFresh \in Nat BY <1>1, EvalAssumption DEF TurnType
  <2>5. \A x, y \in Nat : y > 0 /\ ~(x < y) => x > 0 OBVIOUS
  <2>6. turn.fresh > 0 BY <2>1, <2>3, <2>4, <2>5
  <2> QED BY <1>4, <1>9, <2>6
<1> HIDE DEF N, l
<1>17. EvidenceOK(suite, l, lane') /\ TalliesOK(suite, l, lane') /\ MarksOK(suite, l, lane')
  <2>1. /\ l.marks = log.marks \cup (IF b THEN {At(suite)} ELSE {})
        /\ lane'.degraded = lane.degraded \cup (IF b THEN {At(suite)} ELSE {})
        /\ log.notes \subseteq l.notes /\ b => ~lane.active
    BY <1>1, <1>8, <1>9, <1>11, <1>12
  <2>2. b \in BOOLEAN BY DEF err
  <2> HIDE DEF b, e
  <2> QED BY <1>0, <1>9, <1>12, <1>15, <1>16, <2>1, <2>2, MarkAdded
<1>18. ReOK(l) BY <1>9 DEF ReOK
<1>19. v \in Verdict /\ v.fallback = lane'.active /\ (~lane'.active /\ v.classed => l.marks # {})
  <2>1. lane.active \in BOOLEAN /\ turn.cost \in Nat BY <1>1 DEF LaneType, TurnType
  <2>2. (Outcome = "error" /\ turn.last \in Classed) \in BOOLEAN OBVIOUS
  <2>3. v \in Verdict BY <1>5, <2>1, <2>2 DEF VerdictOf, Verdict
  <2>4. v.fallback = lane.active /\ v.classed = (Outcome = "error" /\ turn.last \in Classed)
    BY DEF VerdictOf
  <2> QED BY <1>11, <1>12, <2>3, <2>4 DEF err
<1>20. /\ suite' \in SuiteType /\ log' \in LogType /\ log'.open = l.open
       /\ suite'.pc = "judge" /\ suite'.list = suite.list /\ suite'.pos = suite.pos
       /\ suite'.exit = suite.exit
       /\ EvidenceOK(suite', log', lane') /\ TalliesOK(suite', log', lane')
       /\ MarksOK(suite', log', lane') /\ ReOK(log')
  <2>1. log' = [l EXCEPT !.final[At(suite)] = Append(@, v)] BY <1>1, <1>3
  <2>2. suite' = [suite EXCEPT !.pc = "judge"] BY <1>3
  <2>3. l \in LogType /\ lane' \in LaneType /\ v \in Verdict BY <1>9, <1>12, <1>19
  <2>4. v.fallback = lane'.active /\ (~lane'.active /\ v.classed => l.marks # {}) BY <1>19
  <2>5. /\ suite \in SuiteType /\ suite.pos \in 1 .. Len(suite.list) /\ suite.exit = "none"
        /\ \A i, j \in 1 .. Len(suite.list) : i < j => suite.list[i] < suite.list[j]
    BY <1>1
  <2> HIDE DEF v, e, b
  <2> QED BY <1>0, <1>17, <1>18, <2>1, <2>2, <2>3, <2>4, <2>5, VerdictAdded
<1>21. NoTurn \in TurnType /\ NoTurn.step = "none" BY DEF NoTurn, TurnType, Kinds
<1>22. Typed(suite', turn', log', lane') BY <1>3, <1>12, <1>20, <1>21 DEF Typed
<1>23. PlaceOK(suite', turn')
  <2>1. suite'.pos >= 1 /\ suite'.pos <= Len(suite'.list)
    <3>1. Len(suite.list) \in Nat /\ suite.pos \in Nat BY <1>1, LenProperties DEF SuiteType
    <3> QED BY <1>1, <1>20, <3>1
  <2> QED BY <1>1, <1>3, <1>20, <1>21, <2>1 DEF PlaceOK
<1>24. TurnOK(suite', turn', log', lane') /\ OpenOK(suite', turn', log', lane')
  BY <1>3, <1>10, <1>20, <1>21 DEF TurnOK, OpenOK
<1>25. SuiteOK(suite', turn', log', lane') BY <1>20, <1>22, <1>23, <1>24 DEF SuiteOK
<1> QED BY <1>20, <1>25 DEF SuiteInv
---------------------------------------------------------------------------
(* The steps of a suite.                                                   *)

\* Between two evals the lane and the end of the suite may be decided: what is known
\* of the verdicts stays as it is.
LEMMA BetweenEvals ==
    ASSUME SuiteInv, ReOK(log), suite.pc \in {"loop", "judge"},
           NEW s \in SuiteType, NEW l \in LogType, NEW n \in LaneType,
           s.pc \in {"loop", "idle"}, s.list = suite.list, s.pos = suite.pos, s.again = suite.again,
           s.exit # "killed", s.pc = "loop" => s.exit = "none",
           n.degraded = lane.degraded, lane.active => n.active,
           l.final = log.final, l.marks = log.marks, l.open = log.open,
           log.switch \subseteq l.switch, EvidenceOK(s, l, n)
    PROVE  SuiteOK(s, turn, l, n) /\ ReOK(l)
<1>1. /\ suite \in SuiteType /\ turn \in TurnType /\ log \in LogType /\ lane \in LaneType
      /\ suite.pos \in Nat
      /\ PlaceOK(suite, turn) /\ OpenOK(suite, turn, log, lane)
      /\ TalliesOK(suite, log, lane) /\ MarksOK(suite, log, lane)
  BY DEF SuiteInv, SuiteOK, Typed, SuiteType
<1>2. suite.exit = "none" /\ turn.step = "none" BY <1>1 DEF PlaceOK
<1>3. Typed(s, turn, l, n) BY <1>1 DEF Typed
<1>4. PlaceOK(s, turn) BY <1>1, <1>2 DEF PlaceOK
<1>5. TurnOK(s, turn, l, n) BY DEF TurnOK
<1>6. OpenOK(s, turn, l, n) BY <1>1, <1>2 DEF OpenOK
<1>7. TalliesOK(s, l, n)
  <2>1. \A i \in 1 .. Len(s.list) : IsJudged(s, i) <=> IsJudged(suite, i) BY DEF IsJudged
  <2>2. s.again => n.active BY <1>1, <1>2 DEF TalliesOK
  <2>3. \A e \in Evals : l.final[e] # <<>> => \E i \in 1 .. Len(s.list) : s.list[i] = e
    BY <1>1, <1>2 DEF TalliesOK
  <2>4. ~s.again => \A i \in 1 .. Len(s.list) :
                       Len(l.final[s.list[i]]) = IF IsJudged(s, i) THEN 1 ELSE 0
    BY <1>1, <1>2, <2>1 DEF TalliesOK
  <2>5. s.again =>
           \A i \in 1 .. Len(s.list) :
                /\ Len(l.final[s.list[i]]) \in {1, 2}
                /\ ~IsJudged(s, i) => Len(l.final[s.list[i]]) = 1
                /\ IsJudged(s, i) /\ Len(l.final[s.list[i]]) = 1 /\ s.list[i] \in n.degraded
                     /\ MaxReruns > 0 => Last(l.final[s.list[i]]).outcome = "success"
    BY <1>1, <1>2, <2>1 DEF TalliesOK
  <2> QED BY <2>2, <2>3, <2>4, <2>5 DEF TalliesOK
<1>8. MarksOK(s, l, n) BY <1>1 DEF MarksOK
<1>9. ReOK(l) BY DEF ReOK
<1> QED BY <1>3, <1>4, <1>5, <1>6, <1>7, <1>8, <1>9 DEF SuiteOK

\* On the fallback lane the spend decides.
LEMMA SpendKeeps ==
    ASSUME SuiteInv, ReOK(log), JudgeSpend
    PROVE  SuiteInv' /\ ReOK(log')
<1> DEFINE c == lane.spend + Latest(Current).cost
<1>1. /\ suite.pc = "judge" /\ lane.active /\ turn' = turn /\ log' = log
      /\ lane' = [lane EXCEPT !.spend = c]
      /\ \/ suite' = [suite EXCEPT !.pc = "idle", !.exit = "4"]
         \/ suite' = [suite EXCEPT !.pc = "loop"]
  BY DEF JudgeSpend, Stops, Continues
<1>2. /\ suite \in SuiteType /\ log \in LogType /\ lane \in LaneType
      /\ PlaceOK(suite, turn) /\ EvidenceOK(suite, log, lane) /\ TalliesOK(suite, log, lane)
  BY DEF SuiteInv, SuiteOK, Typed
<1>3. suite.exit = "none" BY <1>1, <1>2 DEF PlaceOK
<1>4. c \in Nat
  <2>1. Len(log.final[Current]) \in {1, 2} /\ Current \in Evals /\ log.final \in [Evals -> Seq(Verdict)]
    <3>1. /\ suite.pos \in 1 .. Len(suite.list) /\ Current \in Evals
          /\ Current = suite.list[suite.pos] /\ suite.pos \in Nat
      BY <1>1, EvalIsPlaced DEF At
    <3>2. IsJudged(suite, suite.pos) BY <1>1 DEF IsJudged
    <3> QED BY <1>2, <1>3, <3>1, <3>2 DEF TalliesOK, LogType
  <2>2. log.final[Current] \in Seq(Verdict) BY <2>1
  <2>3. Latest(Current) \in Verdict
    <3>0. \A x \in {1, 2} : x \in 1 .. x OBVIOUS
    <3>1. Len(log.final[Current]) \in 1 .. Len(log.final[Current]) BY <2>1, <3>0, Zenon
    <3> QED BY <2>2, <3>1, LenProperties DEF Latest, Last
  <2> QED BY <1>2, <2>3 DEF LaneType, Verdict
<1> HIDE DEF c
<1>5. /\ lane' \in LaneType /\ lane'.active = lane.active /\ lane'.degraded = lane.degraded
      /\ lane'.deaths = lane.deaths /\ lane'.trigger = lane.trigger
  BY <1>1, <1>2, <1>4 DEF LaneType
<1>6. /\ suite' \in SuiteType /\ suite'.pc \in {"loop", "idle"} /\ suite'.list = suite.list
      /\ suite'.pos = suite.pos /\ suite'.again = suite.again /\ suite'.lost = suite.lost
      /\ suite'.exit \in {"none", "4"}
      /\ suite'.pc = "loop" => suite'.exit = "none"
  <2>1. CASE suite' = [suite EXCEPT !.pc = "idle", !.exit = "4"] BY <1>2, <2>1 DEF SuiteType, ExitCodes
  <2>2. CASE suite' = [suite EXCEPT !.pc = "loop"] BY <1>2, <1>3, <2>2 DEF SuiteType, ExitCodes
  <2> QED BY <1>1, <2>1, <2>2
<1>7. EvidenceOK(suite', log', lane') BY <1>1, <1>2, <1>3, <1>5, <1>6 DEF EvidenceOK
<1>8. SuiteOK(suite', turn, log', lane') /\ ReOK(log')
  <2>1. log'.final = log.final /\ log'.marks = log.marks /\ log'.open = log.open
        /\ log.switch \subseteq log'.switch /\ log' \in LogType
    BY <1>1, <1>2
  <2>2. suite'.exit # "killed" /\ (suite'.pc = "loop" => suite'.exit = "none")
    BY <1>6
  <2>3. suite.pc \in {"loop", "judge"} BY <1>1
  <2>4. lane' \in LaneType /\ lane'.degraded = lane.degraded /\ (lane.active => lane'.active)
    BY <1>5
  <2> QED BY <1>6, <1>7, <2>1, <2>2, <2>3, <2>4, BetweenEvals
<1> QED BY <1>1, <1>8 DEF SuiteInv

\* What triggers a switch is in the log.
LEMMA TriggerIsProven ==
    ASSUME SuiteInv, suite.pc = "judge", ~lane.active
    PROVE  /\ Triggered => log.marks # {}
           /\ Lost > 0 => log.marks # {}
           /\ Lost \in Nat
           /\ RunOfDeaths => Triggered
<1>1. /\ suite \in SuiteType /\ lane \in LaneType /\ EvidenceOK(suite, log, lane) /\ PlaceOK(suite, turn)
      /\ suite.exit = "none"
  BY DEF SuiteInv, SuiteOK, Typed, PlaceOK
<1>2. suite.lost \in Nat /\ lane.deaths \in Nat BY <1>1 DEF SuiteType, LaneType
<1>3. Lost \in Nat BY <1>2 DEF Lost
<1>4. Lost > 0 => log.marks # {}
  <2>1. Lost > 0 => suite.lost > 0 \/ Latest(Current).classed BY <1>2 DEF Lost
  <2>2. suite.lost > 0 \/ Last(log.final[At(suite)]).classed => log.marks # {} BY <1>1 DEF EvidenceOK
  <2> QED BY <2>1, <2>2 DEF Latest, Current, At
<1>5. RunOfDeaths => log.marks # {}
  <2>1. \A x \in Nat, y \in Nat \ {0} : x >= y => x > 0 OBVIOUS
  <2>2. lane.deaths >= Deaths => lane.deaths > 0 BY <1>2, <2>1, EvalAssumption
  <2> QED BY <1>1, <2>2 DEF RunOfDeaths, EvidenceOK
<1>6. lane.trigger => log.marks # {} BY <1>1 DEF EvidenceOK
<1> QED BY <1>3, <1>4, <1>5, <1>6 DEF Triggered, ShareLost

\* On the primary lane the evidence does.
LEMMA LaneKeeps ==
    ASSUME SuiteInv, ReOK(log), JudgeLane
    PROVE  SuiteInv' /\ ReOK(log')
<1>1. suite.pc = "judge" /\ ~lane.active /\ turn' = turn BY DEF JudgeLane
<1>2. /\ suite \in SuiteType /\ log \in LogType /\ lane \in LaneType
      /\ PlaceOK(suite, turn) /\ EvidenceOK(suite, log, lane) /\ TalliesOK(suite, log, lane)
  BY DEF SuiteInv, SuiteOK, Typed
<1>3. suite.exit = "none" BY <1>1, <1>2 DEF PlaceOK
<1>4. /\ Triggered => log.marks # {}
      /\ Lost > 0 => log.marks # {}
      /\ Lost \in Nat
      /\ RunOfDeaths => Triggered
  BY <1>1, TriggerIsProven
<1> DEFINE w == IF lane.degraded = {} THEN {Current} ELSE lane.degraded
           on == [log EXCEPT !.switch = w]
           off == [lane EXCEPT !.trigger = FALSE]
           Carried(s) == /\ s \in SuiteType /\ s.list = suite.list
                         /\ s.pos = suite.pos /\ s.again = suite.again /\ s.lost = Lost
<1>5. PICK o \in Settings \cup {NotLooked} :
        LET s == [suite EXCEPT !.lost = Lost, !.setting = o]
        IN  \/ /\ Triggered
               /\ lane' = [lane EXCEPT !.active = TRUE, !.trigger = FALSE]
               /\ log' = on /\ suite' = [s EXCEPT !.pc = "loop"]
            \/ /\ Triggered /\ lane' = off /\ log' = log
               /\ suite' = [s EXCEPT !.pc = "idle", !.exit = "3"]
            \/ /\ lane' = off /\ log' = log
               /\ suite' = [s EXCEPT !.pc = "loop"]
  <2>1. suite.setting \in Settings \cup {NotLooked} BY <1>2 DEF SuiteType
  <2> HIDE DEF w
  <2> QED BY <1>4, <2>1 DEF JudgeLane, w
<1> DEFINE s == [suite EXCEPT !.lost = Lost, !.setting = o]
<1>6. s \in SuiteType /\ s.list = suite.list /\ s.pos = suite.pos /\ s.again = suite.again
      /\ s.lost = Lost /\ s.exit = "none"
  <2>1. s \in SuiteType BY <1>2, <1>4, ZenonT(60) DEF SuiteType
  <2>2. s.list = suite.list /\ s.pos = suite.pos /\ s.again = suite.again BY <1>2 DEF SuiteType
  <2>3. s.lost = Lost /\ s.exit = "none" BY <1>2, <1>3 DEF SuiteType
  <2> QED BY <2>1, <2>2, <2>3
<1> HIDE DEF s
<1>7. off \in LaneType /\ off.active = lane.active /\ off.degraded = lane.degraded
      /\ off.deaths = lane.deaths /\ ~off.trigger
  BY <1>2 DEF LaneType
<1>8. ASSUME suite' = [s EXCEPT !.pc = "loop"]
      PROVE  Carried(suite') /\ suite'.pc = "loop" /\ suite'.exit = "none"
  BY <1>6, <1>8 DEF SuiteType
<1>9. ASSUME suite' = [s EXCEPT !.pc = "idle", !.exit = "3"]
      PROVE  Carried(suite') /\ suite'.pc = "idle" /\ suite'.exit = "3"
  BY <1>6, <1>9 DEF SuiteType, ExitCodes
<1> HIDE DEF off
<1>10. CASE Triggered /\ lane' = [lane EXCEPT !.active = TRUE, !.trigger = FALSE]
            /\ log' = on /\ suite' = [s EXCEPT !.pc = "loop"]
  <2>1. /\ lane' \in LaneType /\ lane'.active /\ lane'.degraded = lane.degraded
        /\ lane'.deaths = lane.deaths /\ ~lane'.trigger
    BY <1>2, <1>10 DEF LaneType
  <2>2. w = log.marks /\ log.marks # {} BY <1>2, <1>4, <1>10 DEF EvidenceOK
  <2>3. /\ log' \in LogType /\ log'.final = log.final /\ log'.marks = log.marks
        /\ log'.open = log.open /\ log'.notes = log.notes /\ log'.switch = log.marks
    <3>1. log.marks \in SUBSET Evals BY <1>2 DEF LogType
    <3>2. log' = [log EXCEPT !.switch = log.marks] BY <1>10, <2>2
    <3> QED BY <1>2, <3>1, <3>2 DEF LogType
  <2>4. log.switch = {} BY <1>1, <1>2 DEF EvidenceOK
  <2>5. Carried(suite') /\ suite'.pc = "loop" /\ suite'.exit = "none" BY <1>8, <1>10
  <2>6. EvidenceOK(suite', log', lane')
    BY <1>2, <1>4, <2>1, <2>2, <2>3, <2>5 DEF EvidenceOK
  <2>7. SuiteOK(suite', turn, log', lane') /\ ReOK(log')
    BY <1>1, <2>1, <2>3, <2>4, <2>5, <2>6, BetweenEvals
  <2> QED BY <1>1, <2>7 DEF SuiteInv
<1>11. CASE lane' = off /\ log' = log
            /\ \/ suite' = [s EXCEPT !.pc = "loop"]
               \/ Triggered /\ suite' = [s EXCEPT !.pc = "idle", !.exit = "3"]
  <2>1. /\ Carried(suite') /\ suite'.pc \in {"loop", "idle"} /\ suite'.exit \in {"none", "3"}
        /\ suite'.pc = "loop" => suite'.exit = "none"
        /\ suite'.exit = "3" => Triggered
    BY <1>8, <1>9, <1>11
  <2>2. EvidenceOK(suite', log', lane')
    BY <1>1, <1>2, <1>4, <1>7, <1>11, <2>1 DEF EvidenceOK
  <2>3. log'.final = log.final /\ log'.marks = log.marks /\ log'.open = log.open
        /\ log.switch \subseteq log'.switch /\ log' \in LogType /\ lane' \in LaneType
        /\ lane'.degraded = lane.degraded /\ (lane.active => lane'.active)
    BY <1>2, <1>7, <1>11
  <2>4. SuiteOK(suite', turn, log', lane') /\ ReOK(log')
    BY <1>1, <2>1, <2>2, <2>3, BetweenEvals
  <2> QED BY <1>1, <2>4 DEF SuiteInv
<1> QED BY <1>5, <1>10, <1>11 DEF s

\* A loop is over: the other begins, or the suite ends.
LEMMA EndLoopKeeps ==
    ASSUME SuiteInv, ReOK(log), EndLoop
    PROVE  SuiteInv' /\ ReOK(log')
<1>1. suite.pc = "loop" /\ turn' = turn /\ log' = log /\ lane' = lane BY DEF EndLoop
<1>2. /\ suite \in SuiteType /\ log \in LogType /\ lane \in LaneType /\ turn \in TurnType
      /\ PlaceOK(suite, turn) /\ EvidenceOK(suite, log, lane) /\ TalliesOK(suite, log, lane)
      /\ MarksOK(suite, log, lane) /\ OpenOK(suite, turn, log, lane)
  BY DEF SuiteInv, SuiteOK, Typed
<1>3. suite.exit = "none" /\ turn.step = "none" BY <1>1, <1>2 DEF PlaceOK
<1>4. Len(suite.list) \in Nat BY <1>2, LenProperties DEF SuiteType
<1>5. CASE lane.active /\ ~suite.again /\ suite' = [suite EXCEPT !.again = TRUE, !.pos = 0]
  <2>1. /\ suite' \in SuiteType /\ suite'.pc = "loop" /\ suite'.list = suite.list
        /\ suite'.pos = 0 /\ suite'.again /\ suite'.lost = suite.lost /\ suite'.exit = "none"
    BY <1>1, <1>2, <1>3, <1>5 DEF SuiteType
  <2>2. \A i \in 1 .. Len(suite.list) : IsJudged(suite, i) /\ ~IsJudged(suite', i)
    <3>1. suite.pos = Len(suite.list) BY <1>5 DEF EndLoop
    <3> QED BY <1>1, <1>4, <2>1, <3>1 DEF IsJudged
  <2>3. TalliesOK(suite', log, lane)
    <3>1. \A i \in 1 .. Len(suite.list) : Len(log.final[suite.list[i]]) = 1
      BY <1>2, <1>3, <1>5, <2>2 DEF TalliesOK
    <3>2. \A e \in Evals : log.final[e] # <<>> => \E i \in 1 .. Len(suite.list) : suite.list[i] = e
      BY <1>2, <1>3 DEF TalliesOK
    <3> QED BY <1>5, <2>1, <2>2, <3>1, <3>2 DEF TalliesOK
  <2>4. Typed(suite', turn, log, lane) BY <1>2, <2>1 DEF Typed
  <2>5. PlaceOK(suite', turn) BY <1>2, <1>3, <1>4, <2>1 DEF PlaceOK
  <2>6. TurnOK(suite', turn, log, lane) /\ OpenOK(suite', turn, log, lane)
    BY <1>2, <1>3, <2>1 DEF TurnOK, OpenOK
  <2>7. EvidenceOK(suite', log, lane) BY <1>2, <1>3, <2>1 DEF EvidenceOK
  <2>8. MarksOK(suite', log, lane) BY <1>1, <1>2, <2>1 DEF MarksOK
  <2> QED BY <1>1, <2>3, <2>4, <2>5, <2>6, <2>7, <2>8 DEF SuiteInv, SuiteOK
<1>6. ASSUME NEW c \in {"0", "1"}, suite' = [suite EXCEPT !.pc = "idle", !.exit = c]
      PROVE  SuiteInv' /\ ReOK(log')
  <2>1. /\ suite' \in SuiteType /\ suite'.pc = "idle" /\ suite'.list = suite.list
        /\ suite'.pos = suite.pos /\ suite'.again = suite.again /\ suite'.lost = suite.lost
        /\ suite'.exit = c
    BY <1>2, <1>6 DEF SuiteType, ExitCodes
  <2>2. EvidenceOK(suite', log', lane') BY <1>1, <1>2, <1>3, <2>1 DEF EvidenceOK
  <2>3. SuiteOK(suite', turn, log', lane') /\ ReOK(log')
    BY <1>1, <1>2, <2>1, <2>2, BetweenEvals
  <2> QED BY <1>1, <2>3 DEF SuiteInv
<1> QED BY <1>5, <1>6 DEF EndLoop, Stops

\* An empty log is as it should be.
LEMMA NewIsTyped ==
    /\ NewLane \in LaneType /\ NewLog \in LogType /\ NoTurn \in TurnType
    /\ NewLane.active = FALSE /\ NewLane.degraded = {} /\ NewLane.deaths = 0 /\ NewLane.trigger = FALSE
    /\ NewLog.marks = {} /\ NewLog.notes = {} /\ NewLog.switch = {}
    /\ \A e \in Evals : NewLog.final[e] = <<>> /\ NewLog.open[e] = 0
    /\ NoTurn.step = "none"
    /\ ReOK(NewLog)
<1>1. NewLane \in LaneType BY DEF NewLane, LaneType
<1>2. NewLog \in LogType
  <2> DEFINE f == [e \in Evals |-> <<>>]
             o == [e \in Evals |-> 0]
  <2>1. f \in [Evals -> Seq(Verdict)] BY EmptySeq
  <2>2. o \in [Evals -> Int] OBVIOUS
  <2>3. NewLog = [final |-> f, notes |-> {}, marks |-> {}, open |-> o, switch |-> {}] BY DEF NewLog
  <2> HIDE DEF f, o
  <2> QED BY <2>1, <2>2, <2>3 DEF LogType
<1>3. NoTurn \in TurnType /\ NoTurn.step = "none" BY DEF NoTurn, TurnType, Kinds
<1>4. \A e \in Evals : NewLog.final[e] = <<>> /\ NewLog.open[e] = 0 BY DEF NewLog
<1>5. ReOK(NewLog)
  <2>1. Len(<<>>) = 0 /\ 0 <= 2 /\ 0 # 2 BY LenProperties, EmptySeq
  <2> QED BY <1>4, <2>1 DEF ReOK
<1> QED BY <1>1, <1>2, <1>3, <1>4, <1>5 DEF NewLane, NewLog

\* A suite that has not begun, or was killed, has nothing to answer for.
LEMMA NothingLogged ==
    ASSUME NEW s \in SuiteType, s.pc \in {"idle", "loop"}, s.pos <= Len(s.list),
           s.pc = "loop" => s.exit = "none", s.exit # "3",
           \A i, j \in 1 .. Len(s.list) : i < j => s.list[i] < s.list[j],
           s.exit = "killed" \/ (s.lost = 0 /\ s.pos = 0 /\ ~s.again)
    PROVE  SuiteOK(s, NoTurn, NewLog, NewLane)
<1>1. Typed(s, NoTurn, NewLog, NewLane) BY NewIsTyped DEF Typed
<1>2. PlaceOK(s, NoTurn) BY NewIsTyped DEF PlaceOK
<1>3. TurnOK(s, NoTurn, NewLog, NewLane) /\ OpenOK(s, NoTurn, NewLog, NewLane)
  BY NewIsTyped DEF TurnOK, OpenOK
<1>4. EvidenceOK(s, NewLog, NewLane)
  <2>1. ~(0 > 0) OBVIOUS
  <2> QED BY <2>1, NewIsTyped DEF EvidenceOK
<1>5. MarksOK(s, NewLog, NewLane) BY NewIsTyped DEF MarksOK
<1>6. TalliesOK(s, NewLog, NewLane)
  <2>1. SUFFICES ASSUME s.exit # "killed" PROVE TalliesOK(s, NewLog, NewLane) BY DEF TalliesOK
  <2>2. s.pos = 0 /\ ~s.again /\ s.list \in Seq(Evals) BY <2>1 DEF SuiteType
  <2>3. Len(s.list) \in Nat /\ \A i \in 1 .. Len(s.list) : s.list[i] \in Evals BY <2>2, LenProperties
  <2>4. \A i \in 1 .. Len(s.list) : ~IsJudged(s, i) BY <2>2, <2>3 DEF IsJudged
  <2>5. \A i \in 1 .. Len(s.list) : Len(NewLog.final[s.list[i]]) = 0
    <3>1. Len(<<>>) = 0 OBVIOUS
    <3> QED BY <2>3, <3>1, NewIsTyped
  <2> QED BY <2>2, <2>4, <2>5, NewIsTyped DEF TalliesOK
<1> QED BY <1>1, <1>2, <1>3, <1>4, <1>5, <1>6 DEF SuiteOK

\* A suite is started.
LEMMA StartKeeps ==
    ASSUME StartSuite
    PROVE  /\ SuiteInv' /\ ReOK(log')
           /\ suite'.exit \in {"none", "0"}
           /\ suite'.exit = "0" => suite'.list = <<>>
<1>1. PICK c \in CommandLines :
        suite' = [NoSuite EXCEPT
                    !.pc = IF FilterEvals(c) = <<>> THEN "idle" ELSE "loop",
                    !.command = c, !.list = FilterEvals(c),
                    !.exit = IF FilterEvals(c) = <<>> THEN "0" ELSE "none"]
  BY DEF StartSuite
<1>2. lane' = NewLane /\ log' = NewLog /\ turn' = NoTurn BY DEF StartSuite
<1> DEFINE q == FilterEvals(c)
           p == IF q = <<>> THEN "idle" ELSE "loop"
           x == IF q = <<>> THEN "0" ELSE "none"
<1>3. q \in Seq(Evals) /\ \A i, j \in 1 .. Len(q) : i < j => q[i] < q[j] BY SelectionIsOrdered
<1>4. p \in {"idle", "loop"} /\ x \in {"none", "0"} /\ (p = "loop" => x = "none") /\ (x = "0" => q = <<>>)
  OBVIOUS
<1>5. suite' = [pc |-> p, command |-> c, list |-> q, pos |-> 0, setting |-> NotLooked,
                lost |-> 0, again |-> FALSE, exit |-> x]
  <2> HIDE DEF q, p, x
  <2>1. suite' = [NoSuite EXCEPT !.pc = p, !.command = c, !.list = q, !.exit = x] BY <1>1 DEF q, p, x
  <2> QED BY <2>1 DEF NoSuite
<1> HIDE DEF q, p, x
<1>6. suite' \in SuiteType
  <2>1. /\ p \in {"idle", "loop", "eval", "judge"} /\ c \in CommandLines \cup {NoCommand}
        /\ q \in Seq(Evals) /\ 0 \in Nat /\ NotLooked \in Settings \cup {NotLooked}
        /\ FALSE \in BOOLEAN /\ x \in ExitCodes
    BY <1>3, <1>4 DEF ExitCodes
  <2> QED BY <1>5, <2>1, ZenonT(60) DEF SuiteType
<1>7. Len(q) \in Nat BY <1>3, LenProperties
<1>8. SuiteOK(suite', NoTurn, NewLog, NewLane)
  <2>1. /\ suite'.pc = p /\ suite'.list = q /\ suite'.pos = 0 /\ suite'.exit = x
        /\ suite'.lost = 0 /\ suite'.again = FALSE
    BY <1>5
  <2>2. suite'.pc \in {"idle", "loop"} /\ suite'.pos <= Len(suite'.list) BY <1>4, <1>7, <2>1
  <2>3. suite'.exit # "3" /\ suite'.exit # "killed" /\ (suite'.pc = "loop" => suite'.exit = "none")
    BY <1>4, <2>1
  <2> QED BY <1>3, <1>6, <2>1, <2>2, <2>3, NothingLogged
<1> QED BY <1>2, <1>4, <1>5, <1>8, NewIsTyped DEF SuiteInv

\* A suite is killed.
LEMMA KilledKeeps ==
    ASSUME SuiteInv, Killed
    PROVE  SuiteInv' /\ ReOK(log') /\ suite'.exit = "killed"
<1>1. /\ lane' = NewLane /\ log' = NewLog /\ turn' = NoTurn
      /\ suite' = [suite EXCEPT !.pc = "idle", !.exit = "killed"]
  BY DEF Killed
<1>2. suite \in SuiteType /\ PlaceOK(suite, turn) BY DEF SuiteInv, SuiteOK, Typed
<1>3. /\ suite' \in SuiteType /\ suite'.pc = "idle" /\ suite'.list = suite.list
      /\ suite'.pos = suite.pos /\ suite'.exit = "killed"
  BY <1>1, <1>2 DEF SuiteType, ExitCodes
<1>4. SuiteOK(suite', NoTurn, NewLog, NewLane)
  <2>1. suite'.pos <= Len(suite'.list) /\ \A i, j \in 1 .. Len(suite'.list) : i < j => suite'.list[i] < suite'.list[j]
    BY <1>2, <1>3 DEF PlaceOK
  <2> QED BY <1>3, <2>1, NothingLogged
<1> QED BY <1>1, <1>3, <1>4, NewIsTyped DEF SuiteInv
---------------------------------------------------------------------------
(* The exit of a suite.                                                    *)

\* The exit that is called green or red is decided at the end of a loop only.
LEMMA ExitsAreDecided ==
    ASSUME SuiteInv, RetryTurn \/ Nudge \/ FreshTurn \/ NextLoop \/ Grade \/ NextEval
                     \/ JudgeSpend \/ JudgeLane
    PROVE  suite'.exit \notin {"0", "1"}
<1>1. suite \in SuiteType /\ PlaceOK(suite, turn) BY DEF SuiteInv, SuiteOK, Typed
<1>2. suite.pc # "idle" /\ suite.exit = "none"
  BY <1>1 DEF PlaceOK, RetryTurn, Nudge, FreshTurn, NextLoop, Grade, NextEval, JudgeSpend, JudgeLane
<1>3. ASSUME NEW s, s.exit = "none", NEW t, NEW l, Invoke(s, t, l), s \in SuiteType
      PROVE  suite'.exit = "none"
  BY <1>3 DEF Invoke, SuiteType
<1>4. CASE RetryTurn \/ FreshTurn
  <2>1. \E t : TryAgain(t) BY <1>4 DEF RetryTurn, FreshTurn
  <2>2. \E t, l : Invoke(suite, t, l) BY <2>1 DEF TryAgain
  <2> QED BY <1>1, <1>2, <1>3, <2>2
<1>5. CASE Nudge
  <2>1. \E t : Invoke(suite, t, log) BY <1>5 DEF Nudge
  <2> QED BY <1>1, <1>2, <1>3, <2>1
<1>6. CASE NextLoop BY <1>2, <1>6 DEF NextLoop
<1>7. CASE Grade BY <1>1, <1>2, <1>7 DEF Grade, SuiteType
<1>8. CASE NextEval
  <2> DEFINE I == IF suite.again THEN ToReattempt(suite.pos + 1)
                                 ELSE suite.pos + 1 .. Len(suite.list)
  <2>1. I # {} /\ Invoke([suite EXCEPT !.pc = "eval", !.pos = Min(I)],
                         [NoTurn EXCEPT !.step = "retry"], log)
    BY <1>8 DEF NextEval
  <2>2. suite.list \in Seq(Evals) /\ suite.pos \in Nat BY <1>1 DEF SuiteType
  <2>3. I \subseteq Nat
    <3>1. Len(suite.list) \in Nat BY <2>2, LenProperties
    <3>2. suite.pos + 1 .. Len(suite.list) \subseteq Nat BY <2>2, <3>1
    <3>3. I \subseteq suite.pos + 1 .. Len(suite.list) BY DEF ToReattempt
    <3> HIDE DEF I
    <3> QED BY <3>2, <3>3
  <2> HIDE DEF I
  <2>4. Min(I) \in Nat BY <2>1, <2>3, LeastIsMember
  <2> DEFINE s == [suite EXCEPT !.pc = "eval", !.pos = Min(I)]
  <2>5. s \in SuiteType /\ s.exit = "none" BY <1>1, <1>2, <2>4 DEF SuiteType
  <2> HIDE DEF s
  <2> QED BY <1>3, <2>1, <2>5 DEF s
<1>9. CASE JudgeSpend BY <1>1, <1>2, <1>9 DEF JudgeSpend, Stops, Continues, SuiteType
<1>10. CASE JudgeLane
  <2>1. PICK o : LET s == [suite EXCEPT !.lost = Lost, !.setting = o]
                 IN  \/ suite' = [s EXCEPT !.pc = "loop"]
                     \/ suite' = [s EXCEPT !.pc = "idle", !.exit = "3"]
    BY <1>10 DEF JudgeLane
  <2> DEFINE s == [suite EXCEPT !.lost = Lost, !.setting = o]
  <2>2. s.exit = "none" /\ DOMAIN s = DOMAIN suite BY <1>1, <1>2 DEF SuiteType
  <2>3. {"pc", "exit"} \subseteq DOMAIN suite BY <1>1 DEF SuiteType
  <2> HIDE DEF s
  <2>4. CASE suite' = [s EXCEPT !.pc = "loop"] BY <2>2, <2>3, <2>4
  <2>5. CASE suite' = [s EXCEPT !.pc = "idle", !.exit = "3"] BY <2>2, <2>3, <2>5
  <2> QED BY <2>1, <2>4, <2>5 DEF s
<1> QED BY <1>4, <1>5, <1>6, <1>7, <1>8, <1>9, <1>10

\* At the end of the last loop each selected eval has its verdicts.
LEMMA EndIsComplete ==
    ASSUME SuiteInv, EndLoop, suite'.exit \in {"0", "1"}
    PROVE  VerdictIsComplete'
<1>1. suite.pc = "loop" /\ log' = log BY DEF EndLoop
<1>2. /\ suite \in SuiteType /\ log \in LogType /\ PlaceOK(suite, turn)
      /\ EvidenceOK(suite, log, lane) /\ TalliesOK(suite, log, lane)
  BY DEF SuiteInv, SuiteOK, Typed
<1>3. suite.exit = "none" BY <1>1, <1>2 DEF PlaceOK
<1> DEFINE c == IF \A i \in DOMAIN suite.list : Latest(suite.list[i]).outcome = "success"
                THEN "0" ELSE "1"
<1>4. /\ ~(lane.active /\ ~suite.again) /\ suite' = [suite EXCEPT !.pc = "idle", !.exit = c]
      /\ IF suite.again THEN ToReattempt(suite.pos + 1) = {} ELSE suite.pos = Len(suite.list)
  <2>1. ASSUME lane.active, ~suite.again PROVE FALSE
    <3>1. suite' = [suite EXCEPT !.again = TRUE, !.pos = 0] BY <2>1 DEF EndLoop
    <3> QED BY <1>2, <1>3, <3>1 DEF SuiteType
  <2> QED BY <2>1 DEF EndLoop, Stops
<1>5. suite'.list = suite.list /\ suite'.exit = c BY <1>2, <1>4 DEF SuiteType
<1>6. /\ suite.list \in Seq(Evals) /\ suite.pos \in Nat /\ Len(suite.list) \in Nat
      /\ DOMAIN suite.list = 1 .. Len(suite.list)
      /\ \A i \in 1 .. Len(suite.list) : suite.list[i] \in Evals
  BY <1>2, LenProperties DEF SuiteType
<1>7. \A i \in DOMAIN suite.list : log.final[suite.list[i]] # <<>>
  <2>1. \A i \in DOMAIN suite.list : Len(log.final[suite.list[i]]) # 0
    <3>1. CASE suite.again
      <4>1. ~(0 \in {1, 2}) OBVIOUS
      <4> QED BY <1>2, <1>3, <1>6, <3>1, <4>1 DEF TalliesOK
    <3>2. CASE ~suite.again
      <4>1. \A i \in 1 .. Len(suite.list) : IsJudged(suite, i)
        BY <1>1, <1>4, <1>6, <3>2 DEF IsJudged
      <4> QED BY <1>2, <1>3, <1>6, <3>2, <4>1 DEF TalliesOK
    <3> QED BY <3>1, <3>2
  <2>2. Len(<<>>) = 0 OBVIOUS
  <2> QED BY <2>1, <2>2
<1>8. ASSUME NEW i \in DOMAIN suite.list, Latest(suite.list[i]).outcome # "success",
             suite.list[i] \in log.switch, MaxReruns > 0
      PROVE  Len(log.final[suite.list[i]]) = 2
  <2>1. lane.active /\ suite.list[i] \in lane.degraded BY <1>2, <1>8 DEF EvidenceOK
  <2>2. suite.again /\ ToReattempt(suite.pos + 1) = {} BY <1>4, <2>1
  <2>3. IsJudged(suite, i) \/ i \in suite.pos + 1 .. Len(suite.list) BY <1>1, <1>6 DEF IsJudged
  <2>4. IsJudged(suite, i)
    <3>1. i \notin ToReattempt(suite.pos + 1) BY <2>2
    <3>2. i \notin suite.pos + 1 .. Len(suite.list) BY <1>8, <2>1, <3>1 DEF ToReattempt
    <3> QED BY <2>3, <3>2
  <2>5. Len(log.final[suite.list[i]]) \in {1, 2} BY <1>2, <1>3, <1>6, <2>2 DEF TalliesOK
  <2>6. Len(log.final[suite.list[i]]) # 1
    BY <1>2, <1>3, <1>6, <1>8, <2>1, <2>2, <2>4 DEF TalliesOK, Latest
  <2> QED BY <2>5, <2>6
<1>9. \A i : Latest(suite.list[i])' = Latest(suite.list[i]) BY <1>1, <1>5 DEF Latest
<1>10. DOMAIN suite'.list = DOMAIN suite.list BY <1>5
<1> DEFINE missed == {i \in DOMAIN suite.list : Latest(suite.list[i]).outcome # "success"}
<1>11. c = "0" <=> missed = {} OBVIOUS
<1> HIDE DEF c
<1>12. {i \in DOMAIN suite'.list : log'.final[suite'.list[i]] = <<>> \/ Latest(suite.list[i])'.outcome # "success"}
       = missed
  BY <1>1, <1>5, <1>7, <1>9
<1>13. /\ suite'.exit = "0" <=> missed = {}
       /\ \A i \in missed :
            /\ log'.final[suite'.list[i]] # <<>>
            /\ suite'.list[i] \in log'.switch /\ MaxReruns > 0 => Len(log'.final[suite'.list[i]]) = 2
  BY <1>1, <1>5, <1>7, <1>8, <1>11
<1> HIDE DEF missed
<1> QED BY <1>12, <1>13 DEF VerdictIsComplete

\* So it is with every step of a suite.
LEMMA CompleteKeeps ==
    ASSUME EvalInv, [EvalNext]_evalvars
    PROVE  VerdictIsComplete'
<1>0. SuiteInv /\ VerdictIsComplete BY DEF EvalInv
<1>1. CASE UNCHANGED evalvars
  <2>1. suite' = suite /\ log' = log BY <1>1 DEF evalvars, suitevars
  <2> QED BY <1>0, <2>1 DEF VerdictIsComplete, Latest
<1>2. CASE StartSuite
  <2>1. suite'.exit \in {"none", "0"} /\ (suite'.exit = "0" => suite'.list = <<>>) BY <1>2, StartKeeps
  <2>2. suite'.exit = "0" => DOMAIN suite'.list = {} BY <2>1
  <2> QED BY <2>1, <2>2 DEF VerdictIsComplete
<1>3. CASE Killed
  <2>1. suite'.exit = "killed" BY <1>0, <1>3, KilledKeeps
  <2> QED BY <2>1 DEF VerdictIsComplete
<1>4. CASE EndLoop BY <1>0, <1>4, EndIsComplete DEF VerdictIsComplete
<1>5. CASE RetryTurn \/ Nudge \/ FreshTurn \/ NextLoop \/ Grade \/ NextEval \/ JudgeSpend \/ JudgeLane
  <2>1. suite'.exit \notin {"0", "1"} BY <1>0, <1>5, ExitsAreDecided
  <2> QED BY <2>1 DEF VerdictIsComplete
<1> QED BY <1>1, <1>2, <1>3, <1>4, <1>5 DEF EvalNext, EvalStep

\* And with its lane, its verdicts and its log.
LEMMA SuiteKeeps ==
    ASSUME EvalInv, [EvalNext]_evalvars
    PROVE  SuiteInv' /\ ReOK(log')
<1>0. SuiteInv /\ ReOK(log) BY DEF EvalInv, ReattemptsEarned, ReOK
<1>1. CASE UNCHANGED evalvars
  <2>1. suite' = suite /\ turn' = turn /\ log' = log /\ lane' = lane BY <1>1 DEF evalvars, suitevars
  <2> QED BY <1>0, <2>1 DEF SuiteInv
<1> QED BY <1>0, <1>1, StartKeeps, KilledKeeps, EndLoopKeeps, RetryKeeps, NudgeKeeps, FreshKeeps,
           NextLoopKeeps, GradeKeeps, NextEvalKeeps, SpendKeeps, LaneKeeps DEF EvalNext, EvalStep
---------------------------------------------------------------------------
(* The book.                                                               *)

\* An entry and its two counts belong together.
EntryOK(b, m, p) ==
    /\ b \in EntryType /\ m \in Nat /\ p \in Nat
    /\ b.status = "quarantined" => b.count >= Threshold /\ b.streak <= p
    /\ b.status # "quarantined" => b.count < Threshold /\ b.count <= m /\ b.streak = 0

\* What the book promises of an entry when it and its counts change.
EntryEarned(b, b2, m2, p2) ==
    /\ b.status # "quarantined" /\ b2.status = "quarantined" => m2 >= Threshold
    /\ b.status = "quarantined" /\ b2.status # "quarantined" => p2 >= RehabRuns

\* The invariant, entry by entry.
LEMMA BookByEntries ==
    BookOK <=> /\ book \in [Evals -> EntryType] /\ ran \in Nat
               /\ misses \in [Evals -> Nat] /\ passes \in [Evals -> Nat]
               /\ \A e \in Evals : EntryOK(book[e], misses[e], passes[e])
BY DEF BookOK, EntryOK

\* An empty entry is always in order.
LEMMA NoEntryIsOK ==
    ASSUME NEW m \in Nat, NEW p \in Nat
    PROVE  EntryOK(NoEntry, m, p)
<1>1. /\ NoEntry.status = "absent" /\ NoEntry.count = 0 /\ NoEntry.streak = 0
      /\ NoEntry \in EntryType
  BY DEF NoEntry, EntryType
<1>2. 0 < Threshold /\ 0 <= m BY QuarantineAssumption
<1> QED BY <1>1, <1>2 DEF EntryOK

\* A failure is counted.
LEMMA FailureIsCounted ==
    ASSUME NEW b, NEW m, NEW p, EntryOK(b, m, p),
           NEW b2, b2 = [count |-> b.count + 1, status |-> StatusFor(b.count + 1), streak |-> b.streak],
           NEW m2, m2 = Upto(m + 1, Threshold),
           NEW p2, p2 = IF b.status = "quarantined" THEN p ELSE 0
    PROVE  EntryOK(b2, m2, p2) /\ EntryEarned(b, b2, m2, p2)
<1>1. /\ b.count \in Nat /\ b.streak \in Nat /\ m \in Nat /\ p \in Nat
      /\ Threshold \in Nat \ {0}
  BY QuarantineAssumption DEF EntryOK, EntryType, Entry, NoEntry
<1> DEFINE c == b.count
           n == b.streak
<1>2. /\ b2.count = c + 1 /\ b2.streak = n
      /\ b2.status = IF c + 1 >= Threshold THEN "quarantined" ELSE "watching"
  BY DEF StatusFor
<1>3. b2 \in EntryType
  <2>1. StatusFor(b.count + 1) \in Statuses BY DEF StatusFor, Statuses
  <2>2. c + 1 \in Nat BY <1>1
  <2> QED BY <1>1, <2>1, <2>2 DEF EntryType, Entry
<1>4. m2 \in Nat /\ p2 \in Nat BY <1>1 DEF Upto
<1>5. CASE b.status = "quarantined"
  <2>1. c >= Threshold /\ n <= p BY <1>5 DEF EntryOK
  <2> HIDE DEF c, n
  <2>2. c + 1 >= Threshold BY <1>1, <2>1 DEF c
  <2>3. b2.status = "quarantined" BY <1>2, <2>2
  <2> QED BY <1>2, <1>3, <1>4, <1>5, <2>1, <2>2, <2>3 DEF EntryOK, EntryEarned
<1>6. CASE b.status # "quarantined"
  <2>1. c < Threshold /\ c <= m /\ n = 0 BY <1>6 DEF EntryOK
  <2>2. c \in Nat BY <1>1
  <2> HIDE DEF c, n
  <2>3. CASE c + 1 >= Threshold
    <3>1. b2.status = "quarantined" BY <1>2, <2>3
    <3>2. m2 >= Threshold BY <1>1, <2>1, <2>2, <2>3 DEF Upto
    <3>3. 0 <= p2 BY <1>4
    <3> QED BY <1>2, <1>3, <1>4, <1>6, <2>1, <2>3, <3>1, <3>2, <3>3 DEF EntryOK, EntryEarned
  <2>4. CASE ~(c + 1 >= Threshold)
    <3>1. b2.status = "watching" BY <1>2, <2>4
    <3>2. c + 1 < Threshold /\ c + 1 <= m2 BY <1>1, <2>1, <2>2, <2>4 DEF Upto
    <3> QED BY <1>2, <1>3, <1>4, <1>6, <2>1, <3>1, <3>2 DEF EntryOK, EntryEarned
  <2> QED BY <2>3, <2>4
<1> QED BY <1>5, <1>6

\* A pass is counted in quarantine, and clears the entry elsewhere.
LEMMA PassIsCounted ==
    ASSUME NEW b, NEW m, NEW p, EntryOK(b, m, p), NEW m2, m2 = 0,
           NEW b2, b2 = IF b.status # "quarantined" THEN NoEntry
                        ELSE IF b.streak + 1 >= RehabRuns
                        THEN [count |-> 0, status |-> "rehabilitated", streak |-> 0]
                        ELSE [count |-> b.count, status |-> b.status, streak |-> b.streak + 1],
           NEW p2, p2 = IF b.status = "quarantined" THEN Upto(p + 1, RehabRuns) ELSE 0
    PROVE  EntryOK(b2, m2, p2) /\ EntryEarned(b, b2, m2, p2)
<1>1. /\ b.count \in Nat /\ b.streak \in Nat /\ m \in Nat /\ p \in Nat
      /\ Threshold \in Nat \ {0} /\ RehabRuns \in Nat \ {0}
  BY QuarantineAssumption DEF EntryOK, EntryType, Entry, NoEntry
<1>2. m2 \in Nat /\ p2 \in Nat BY <1>1 DEF Upto
<1>3. CASE b.status # "quarantined"
  <2>1. b2 = NoEntry BY <1>3
  <2>2. EntryOK(b2, m2, p2) BY <1>2, <2>1, NoEntryIsOK
  <2>3. NoEntry.status # "quarantined" BY DEF NoEntry
  <2> QED BY <1>3, <2>1, <2>2, <2>3 DEF EntryEarned
<1>4. CASE b.status = "quarantined" /\ b.streak + 1 >= RehabRuns
  <2>1. b2 = [count |-> 0, status |-> "rehabilitated", streak |-> 0] BY <1>4
  <2>2. b2 \in EntryType BY <2>1 DEF EntryType, Entry, Statuses
  <2>3. b.streak <= p BY <1>4 DEF EntryOK
  <2>4. p2 = Upto(p + 1, RehabRuns) BY <1>4
  <2> DEFINE n == b.streak
  <2>5. n \in Nat /\ n <= p /\ n + 1 >= RehabRuns BY <1>1, <1>4, <2>3
  <2> HIDE DEF n
  <2>6. p2 >= RehabRuns BY <1>1, <2>4, <2>5 DEF Upto
  <2>7. 0 < Threshold /\ 0 <= m2 BY <1>1
  <2>8. b2.status = "rehabilitated" /\ b2.count = 0 /\ b2.streak = 0 BY <2>1
  <2> QED BY <1>2, <1>4, <2>2, <2>6, <2>7, <2>8 DEF EntryOK, EntryEarned
<1>5. CASE b.status = "quarantined" /\ ~(b.streak + 1 >= RehabRuns)
  <2>1. b2 = [count |-> b.count, status |-> b.status, streak |-> b.streak + 1] BY <1>5
  <2>2. b2 \in EntryType
    <3>1. b.status \in Statuses BY <1>5 DEF Statuses
    <3>2. b.streak + 1 \in Nat BY <1>1
    <3> QED BY <1>1, <2>1, <3>1, <3>2 DEF EntryType, Entry
  <2>3. b.streak <= p /\ b.count >= Threshold BY <1>5 DEF EntryOK
  <2>4. p2 = Upto(p + 1, RehabRuns) BY <1>5
  <2> DEFINE n == b.streak
  <2>5. n \in Nat /\ n <= p /\ ~(n + 1 >= RehabRuns) BY <1>1, <1>5, <2>3
  <2> HIDE DEF n
  <2>6. n + 1 <= p2 BY <1>1, <2>4, <2>5 DEF Upto
  <2>7. b2.status = "quarantined" /\ b2.count = b.count /\ b2.streak = n + 1 BY <1>5, <2>1 DEF n
  <2> QED BY <1>2, <1>5, <2>2, <2>3, <2>6, <2>7 DEF EntryOK, EntryEarned
<1> QED BY <1>3, <1>4, <1>5

\* A death changes nothing in the book, nor in the count of misses.
LEMMA DeathIsSpared ==
    ASSUME NEW b, NEW m, NEW p, EntryOK(b, m, p),
           NEW p2, p2 = IF b.status = "quarantined" THEN p ELSE 0
    PROVE  EntryOK(b, m, p2) /\ EntryEarned(b, b, m, p2)
BY DEF EntryOK, EntryEarned

\* A verdict is entered.
LEMMA GradeIsEntered ==
    ASSUME BookOK, Grade, Current \in Evals
    PROVE  /\ BookOK'
           /\ \A e \in Evals : EntryEarned(book[e], book'[e], misses'[e], passes'[e])
<1> DEFINE c == Current
           b == book[c]
           m == misses[c]
           p == passes[c]
           m2 == CASE Outcome = "success" -> 0
                   [] Outcome = "failure" -> Upto(m + 1, Threshold)
                   [] OTHER               -> m
           p2 == IF Outcome = "success" /\ c \in Quarantined THEN Upto(p + 1, RehabRuns)
                 ELSE IF c \notin Quarantined THEN 0 ELSE p
<1>1. /\ book \in [Evals -> EntryType] /\ ran \in Nat
      /\ misses \in [Evals -> Nat] /\ passes \in [Evals -> Nat]
      /\ \A e \in Evals : EntryOK(book[e], misses[e], passes[e])
  BY BookByEntries
<1>2. EnterBook(c) /\ misses' = [misses EXCEPT ![c] = m2] /\ passes' = [passes EXCEPT ![c] = p2]
      /\ ran' = ran
  BY DEF Grade
<1>3. c \in Quarantined <=> b.status = "quarantined" BY DEF Quarantined
<1>4. EntryOK(b, m, p) BY <1>1
<1>5. \E b2 : /\ book' = [book EXCEPT ![c] = b2]
              /\ EntryOK(b2, m2, p2) /\ EntryEarned(b, b2, m2, p2)
  <2> HIDE DEF b, m, p, c
  <2>1. CASE Outcome = "success"
    <3> DEFINE b2 == IF b.status # "quarantined" THEN NoEntry
                     ELSE IF b.streak + 1 >= RehabRuns
                     THEN [count |-> 0, status |-> "rehabilitated", streak |-> 0]
                     ELSE [count |-> b.count, status |-> b.status, streak |-> b.streak + 1]
    <3>1. book' = [book EXCEPT ![c] = b2] BY <1>2, <2>1 DEF EnterBook, RecordSuccess, b
    <3>2. m2 = 0 /\ p2 = IF b.status = "quarantined" THEN Upto(p + 1, RehabRuns) ELSE 0
      BY <1>3, <2>1
    <3> HIDE DEF m2, p2
    <3>3. EntryOK(b2, m2, p2) /\ EntryEarned(b, b2, m2, p2) BY <1>4, <3>2, PassIsCounted
    <3> QED BY <3>1, <3>3
  <2>2. CASE Outcome = "failure"
    <3> DEFINE b2 == [count |-> b.count + 1, status |-> StatusFor(b.count + 1), streak |-> b.streak]
    <3>1. book' = [book EXCEPT ![c] = b2] BY <1>2, <2>2 DEF EnterBook, RecordFailure, b
    <3>2. m2 = Upto(m + 1, Threshold) /\ p2 = IF b.status = "quarantined" THEN p ELSE 0
      BY <1>3, <2>2
    <3> HIDE DEF m2, p2
    <3>3. EntryOK(b2, m2, p2) /\ EntryEarned(b, b2, m2, p2) BY <1>4, <3>2, FailureIsCounted
    <3> QED BY <3>1, <3>3
  <2>3. CASE Outcome \notin {"success", "failure"}
    <3>1. book' = book BY <1>2, <2>3 DEF EnterBook
    <3>2. book' = [book EXCEPT ![c] = b] BY <1>1, <3>1 DEF b
    <3>3. m2 = m /\ p2 = IF b.status = "quarantined" THEN p ELSE 0 BY <1>3, <2>3
    <3> HIDE DEF m2, p2
    <3>4. EntryOK(b, m2, p2) /\ EntryEarned(b, b, m2, p2) BY <1>4, <3>3, DeathIsSpared
    <3> QED BY <3>2, <3>4
  <2> QED BY <2>1, <2>2, <2>3
<1>6. PICK b2 : /\ book' = [book EXCEPT ![c] = b2]
                /\ EntryOK(b2, m2, p2) /\ EntryEarned(b, b2, m2, p2)
  BY <1>5
<1>7. b2 \in EntryType /\ m2 \in Nat /\ p2 \in Nat BY <1>6 DEF EntryOK
<1> HIDE DEF m2, p2
<1>8. book' \in [Evals -> EntryType] /\ misses' \in [Evals -> Nat] /\ passes' \in [Evals -> Nat]
  BY <1>1, <1>2, <1>6, <1>7
<1>9. \A e \in Evals : /\ EntryOK(book'[e], misses'[e], passes'[e])
                       /\ EntryEarned(book[e], book'[e], misses'[e], passes'[e])
  <2> TAKE e \in Evals
  <2>1. CASE e = c
    <3>1. book'[e] = b2 /\ misses'[e] = m2 /\ passes'[e] = p2 BY <1>1, <1>2, <1>6, <2>1
    <3>2. book[e] = b BY <2>1
    <3> QED BY <1>6, <3>1, <3>2
  <2>2. CASE e # c
    <3>1. book'[e] = book[e] /\ misses'[e] = misses[e] /\ passes'[e] = passes[e]
      BY <1>1, <1>2, <1>6, <2>2
    <3> QED BY <1>1, <3>1 DEF EntryEarned
  <2> QED BY <2>1, <2>2
<1>10. BookOK' BY <1>1, <1>2, <1>8, <1>9 DEF BookOK, EntryOK
<1> QED BY <1>9, <1>10

\* The book is kept, and every change of a status is earned or the book was lost.
LEMMA BookKeeps ==
    ASSUME EvalInv, [EvalNext]_evalvars
    PROVE  /\ BookOK'
           /\ \A e \in Evals : \/ suite'.exit = "killed" /\ book'[e].status # "quarantined"
                               \/ EntryEarned(book[e], book'[e], misses'[e], passes'[e])
<1>0. SuiteInv /\ BookOK BY DEF EvalInv
<1>1. ASSUME book' = book, misses' = misses, passes' = passes, ran' \in Nat
      PROVE  BookOK' /\ \A e \in Evals : EntryEarned(book[e], book'[e], misses'[e], passes'[e])
  BY <1>0, <1>1 DEF BookOK, EntryEarned
<1>2. CASE UNCHANGED evalvars
  <2>1. book' = book /\ misses' = misses /\ passes' = passes /\ ran' = ran
    BY <1>2 DEF evalvars, historyvars
  <2> QED BY <1>0, <1>1, <2>1 DEF BookOK
<1>3. CASE StartSuite
  <2>1. PICK c \in CommandLines : ran' = ran + Len(FilterEvals(c)) * Len(FilterEvals(c))
    BY <1>3 DEF StartSuite
  <2>2. Len(FilterEvals(c)) \in Nat BY SelectionIsOrdered, LenProperties
  <2>3. \A x, y \in Nat : x + y * y \in Nat OBVIOUS
  <2>4. ran' \in Nat
    <3>1. ran \in Nat BY <1>0 DEF BookOK
    <3> QED BY <2>1, <2>2, <2>3, <3>1
  <2> QED BY <1>1, <1>3, <2>4 DEF StartSuite
<1>4. CASE Grade
  <2>1. suite.pc = "eval" BY <1>0, <1>4 DEF SuiteInv, SuiteOK, PlaceOK, Grade
  <2>2. Current \in Evals BY <1>0, <2>1, EvalIsPlaced
  <2> QED BY <1>0, <1>4, <2>2, GradeIsEntered
<1>5. CASE Killed
  <2>1. suite'.exit = "killed" /\ misses' = misses /\ passes' = passes /\ ran' = ran
    BY <1>0, <1>5, KilledKeeps DEF Killed
  <2>2. CASE book' = book BY <1>0, <1>1, <2>1, <2>2 DEF BookOK
  <2>3. CASE LoseBook
    <3>1. book' = [e \in Evals |-> NoEntry] BY <2>3 DEF LoseBook
    <3>2. \A e \in Evals : book'[e].status # "quarantined" BY <3>1 DEF NoEntry
    <3>3. \A e \in Evals : EntryOK(book'[e], misses[e], passes[e])
      BY <1>0, <3>1, NoEntryIsOK DEF BookOK
    <3>4. book' \in [Evals -> EntryType] BY <3>1 DEF EntryType
    <3>5. BookOK' BY <1>0, <2>1, <3>3, <3>4 DEF BookOK, EntryOK
    <3> QED BY <2>1, <3>2, <3>5
  <2> QED BY <1>5, <2>2, <2>3 DEF Killed
<1>6. CASE RetryTurn \/ Nudge \/ FreshTurn \/ NextLoop \/ NextEval \/ JudgeSpend \/ JudgeLane \/ EndLoop
  <2>1. book' = book /\ misses' = misses /\ passes' = passes /\ ran' = ran
    BY <1>6 DEF RetryTurn, Nudge, FreshTurn, TryAgain, NextLoop, NextEval, JudgeSpend, JudgeLane,
                EndLoop, historyvars
  <2> QED BY <1>0, <1>1, <2>1 DEF BookOK
<1> QED BY <1>2, <1>3, <1>4, <1>5, <1>6 DEF EvalNext, EvalStep
---------------------------------------------------------------------------
(* What follows for every run of suites.                                   *)

\* Before the first suite.
LEMMA EvalInitInv == EvalInit => EvalInv
<1>1. SUFFICES ASSUME EvalInit PROVE EvalInv OBVIOUS
<1>2. lane = NewLane /\ log = NewLog /\ turn = NoTurn /\ suite = NoSuite BY <1>1 DEF EvalInit
<1>3. NoSuite \in SuiteType
  <2>1. <<>> \in Seq(Evals) BY EmptySeq
  <2> QED BY <2>1 DEF NoSuite, SuiteType, ExitCodes
<1>4. SuiteOK(NoSuite, NoTurn, NewLog, NewLane)
  <2>1. /\ NoSuite.pc = "idle" /\ NoSuite.list = <<>> /\ NoSuite.pos = 0 /\ NoSuite.exit = "none"
        /\ NoSuite.lost = 0 /\ NoSuite.again = FALSE
    BY DEF NoSuite
  <2>2. NoSuite.pos <= Len(NoSuite.list) /\ 1 .. Len(NoSuite.list) = {} BY <2>1
  <2> QED BY <1>3, <2>1, <2>2, NothingLogged
<1>5. VerdictIsComplete BY <1>2 DEF VerdictIsComplete, NoSuite
<1>6. BookOK
  <2>1. /\ book = [e \in Evals |-> NoEntry] /\ ran = 0
        /\ misses = [e \in Evals |-> 0] /\ passes = [e \in Evals |-> 0]
    BY <1>1 DEF EvalInit, BookInit
  <2>2. \A e \in Evals : EntryOK(book[e], misses[e], passes[e]) BY <2>1, NoEntryIsOK
  <2>3. book \in [Evals -> EntryType] BY <2>1 DEF EntryType
  <2> QED BY <2>1, <2>2, <2>3 DEF BookOK, EntryOK
<1> QED BY <1>2, <1>4, <1>5, <1>6, NewIsTyped DEF EvalInv, SuiteInv, ReattemptsEarned, ReOK

\* And at every step.
THEOREM EvalInvariant == EvalSpec => []EvalInv
<1>1. EvalInv /\ [EvalNext]_evalvars => EvalInv'
  BY SuiteKeeps, BookKeeps, CompleteKeeps DEF EvalInv, ReattemptsEarned, ReOK
<1> QED BY <1>1, EvalInitInv, PTL DEF EvalSpec

\* run_eval and the trigger of the fallback: each death that is the provider's fault
\* is in the log, once and with its mark, and a suite that moved to the fallback, or
\* ended for want of one, has the deaths to show for it.
THEOREM FallbackIsProven == EvalSpec => []SwitchIsProven
<1>1. EvalInv => SwitchIsProven
  <2>1. SUFFICES ASSUME EvalInv PROVE SwitchIsProven OBVIOUS
  <2>2. OpenOK(suite, turn, log, lane) /\ EvidenceOK(suite, log, lane)
    BY <2>1 DEF EvalInv, SuiteInv, SuiteOK
  <2> QED BY <2>2 DEF SwitchIsProven, OpenOK, EvidenceOK, UnderWay, Current, At
<1> QED BY <1>1, EvalInvariant, PTL

\* A share of a whole is at most a hundred percent, and none of nothing.
LEMMA ShareIsBounded ==
    /\ \A a, b \in Nat : a <= b /\ b # 0 => (100 * a) \div b <= 100
    /\ \A b \in Nat : b # 0 => (100 * 0) \div b = 0
<1>1. ASSUME NEW a \in Nat, NEW b \in Nat, a <= b, b # 0 PROVE (100 * a) \div b <= 100
  <2> DEFINE q == (100 * a) \div b
             r == (100 * a) % b
  <2>1. q \in Int /\ r \in 0 .. b - 1 /\ 100 * a = b * q + r BY <1>1
  <2>2. 100 * a <= 100 * b BY <1>1
  <2> HIDE DEF q, r
  <2>3. ASSUME q >= 101 PROVE FALSE
    <3>1. b * q >= b * 101 BY <1>1, <2>1, <2>3
    <3> QED BY <1>1, <2>1, <2>2, <3>1
  <2> QED BY <2>1, <2>3 DEF q
<1>2. ASSUME NEW b \in Nat, b # 0 PROVE (100 * 0) \div b = 0
  <2>1. 100 * 0 = 0 OBVIOUS
  <2>2. 0 \div b = 0 BY <1>2
  <2> QED BY <2>1, <2>2
<1> QED BY <1>1, <1>2

\* The report, of a suite that came to its exit.
LEMMA ReportFollows ==
    ASSUME EvalInv
    PROVE  ReportIsTrue
<1>1. /\ suite \in SuiteType /\ log \in LogType
      /\ EvidenceOK(suite, log, lane) /\ TalliesOK(suite, log, lane) /\ MarksOK(suite, log, lane)
      /\ VerdictIsComplete
  BY DEF EvalInv, SuiteInv, SuiteOK, Typed
<1>2. SUFFICES ASSUME Reported PROVE ReportIsTrue BY DEF ReportIsTrue
<1>3. suite.pc = "idle" /\ suite.exit \notin {"none", "killed"} BY <1>2 DEF Reported
<1>4. suite.list \in Seq(Evals) /\ DOMAIN suite.list = 1 .. Len(suite.list)
  BY <1>1, LenProperties DEF SuiteType
<1>5. log.marks \subseteq FinalKeys
  BY <1>1, <1>3 DEF MarksOK, FinalKeys, LogType
<1>6. ASSUME suite.exit = "0" PROVE TerminalInfra = {} /\ MissingKeys = {}
  <2>1. \A i \in DOMAIN suite.list :
          log.final[suite.list[i]] # <<>> /\ Latest(suite.list[i]).outcome = "success"
    BY <1>1, <1>6 DEF VerdictIsComplete
  <2>2. \A e \in FinalKeys : \E i \in DOMAIN suite.list : suite.list[i] = e
    BY <1>1, <1>3, <1>4 DEF FinalKeys, TalliesOK
  <2>3. \A e \in FinalKeys : Latest(e).outcome # "error" BY <2>1, <2>2
  <2>4. \A i \in DOMAIN suite.list : suite.list[i] \in FinalKeys BY <1>4, <2>1 DEF FinalKeys
  <2> QED BY <2>3, <2>4 DEF TerminalInfra, MissingKeys
<1>7. IsFiniteSet(FinalKeys) /\ IsFiniteSet(EvidenceKeys)
      /\ Cardinality(EvidenceKeys) <= Cardinality(FinalKeys)
  <2>1. FinalKeys \subseteq Evals /\ EvidenceKeys \subseteq FinalKeys
    BY <1>5 DEF EvidenceKeys, FinalKeys
  <2>2. IsFiniteSet(FinalKeys) BY <2>1, EvalAssumption, FS_Subset
  <2> QED BY <2>1, <2>2, FS_Subset
<1>8. /\ Cardinality(FinalKeys) \in Nat /\ Cardinality(EvidenceKeys) \in Nat
      /\ FinalKeys # {} => Cardinality(FinalKeys) # 0
  BY <1>7, FS_CardinalityType, FS_EmptySet
<1>9. Cover <= 100
  <2>1. CASE FinalKeys = {} BY <2>1 DEF Cover
  <2>2. CASE FinalKeys # {}
    <3>1. Cover = (100 * Cardinality(EvidenceKeys)) \div Cardinality(FinalKeys) BY <2>2 DEF Cover
    <3> QED BY <1>7, <1>8, <2>2, <3>1, ShareIsBounded
  <2> QED BY <2>1, <2>2
<1>10. MaxFresh > 0 => log.marks \subseteq TerminalInfra \cup RecoveredInfra
  <2>1. SUFFICES ASSUME MaxFresh > 0 PROVE log.marks \subseteq TerminalInfra \cup RecoveredInfra OBVIOUS
  <2>2. log.marks \subseteq log.notes BY <1>1, <2>1 DEF EvidenceOK
  <2> QED BY <1>5, <2>2 DEF RecoveredInfra
<1>11. ReviewNeeded => log.switch # {}
  <2>1. SUFFICES ASSUME log.switch = {} PROVE ~(Cover >= ReviewCover) BY DEF ReviewNeeded
  <2>2. Cardinality(EvidenceKeys) = 0 BY <2>1, FS_EmptySet DEF EvidenceKeys
  <2>3. Cover = 0
    <3>1. CASE FinalKeys = {} BY <3>1 DEF Cover
    <3>2. CASE FinalKeys # {}
      <4>1. Cover = (100 * 0) \div Cardinality(FinalKeys) BY <2>2, <3>2 DEF Cover
      <4> QED BY <1>8, <3>2, <4>1, ShareIsBounded
    <3> QED BY <3>1, <3>2
  <2> QED BY <2>3, ReviewAssumption
<1> QED BY <1>6, <1>9, <1>10, <1>11 DEF ReportIsTrue

\* The exit code, the second attempts and eval-report.py: a green suite has a pass of
\* each eval, a red one the verdicts it is red for, no verdict is replaced but that of
\* an eval that died with the lane, and the report says so too.
THEOREM ReportsAreTrue == EvalSpec => []VerdictIsTrue
<1>1. EvalInv => VerdictIsTrue BY ReportFollows DEF EvalInv, VerdictIsTrue
<1> QED BY <1>1, EvalInvariant, PTL

\* quarantine.py: an eval is quarantined by failures of its own only, and leaves by
\* passes, or with the book.
THEOREM BookIsEarned == EvalSpec => QuarantineIsEarned
<1> DEFINE A == \A e \in Evals :
         /\ book[e].status # "quarantined" /\ book'[e].status = "quarantined"
              => misses'[e] >= Threshold
         /\ book[e].status = "quarantined" /\ book'[e].status # "quarantined"
              => suite'.exit = "killed" \/ passes'[e] >= RehabRuns
<1>1. EvalInv /\ [EvalNext]_evalvars => [A]_evalvars
  BY BookKeeps DEF EntryEarned
<1>2. EvalSpec => [][A]_evalvars BY <1>1, EvalInvariant, PTL DEF EvalSpec
<1> QED BY <1>2 DEF QuarantineIsEarned
---------------------------------------------------------------------------
(* The tools together: each is typed, whichever of them moves.             *)

\* The invariants of the tools say that they are typed.
LEMMA InvariantsAreTyped ==
    /\ DispatcherTyped => DispatcherTypeOK
    /\ EarnedInv => UpgradeTypeOK
    /\ EvalInv => EvalTypeOK
    /\ GuardInv => GuardTypeOK
    /\ SyncInv => SyncTypeOK
    /\ ConfigInv => ConfigTypeOK
    /\ CanaryInv => CanaryTypeOK
    /\ CutoverInv => CutoverTypeOK
<1>1. EarnedInv => UpgradeTypeOK BY DEF EarnedInv
<1>2. EvalInv => EvalTypeOK
  <2> SUFFICES ASSUME EvalInv PROVE EvalTypeOK OBVIOUS
  <2>1. suite \in SuiteType /\ turn \in TurnType /\ log \in LogType /\ lane \in LaneType /\ BookOK
    BY DEF EvalInv, SuiteInv, SuiteOK, Typed
  <2>2. BookTypeOK /\ ran \in Nat /\ misses \in [Evals -> Nat] /\ passes \in [Evals -> Nat]
    BY <2>1 DEF BookOK, BookTypeOK, EntryType
  <2> QED BY <2>1, <2>2, Zenon DEF EvalTypeOK, SuiteType, TurnType, LogType, LaneType, ExitCodes
<1>3. GuardInv => GuardTypeOK BY DEF GuardInv
<1>4. SyncInv => SyncTypeOK BY DEF SyncInv
<1>5. CanaryInv => CanaryTypeOK
  <2> SUFFICES ASSUME CanaryInv PROVE CanaryTypeOK OBVIOUS
  <2>1. CanaryTyped BY DEF CanaryInv
  <2> QED BY <2>1 DEF CanaryTyped, CanaryTypeOK, CanaryCmdType, ScratchType
<1>6. CutoverInv => CutoverTypeOK BY DEF CutoverInv
<1>7. ConfigInv => ConfigTypeOK BY DEF ConfigInv
<1>8. DispatcherTyped => DispatcherTypeOK BY DEF DispatcherTyped
<1> QED BY <1>1, <1>2, <1>3, <1>4, <1>5, <1>6, <1>7, <1>8

\* What is kept of the eight tools.
ToolsInv == /\ DispatcherTyped /\ EarnedInv /\ EvalInv /\ GuardInv /\ SyncInv
            /\ ConfigInv /\ CanaryInv /\ CutoverInv

\* Before any of them has moved.
LEMMA ToolsInitInv == ToolsInit => ToolsInv
<1> SUFFICES ASSUME ToolsInit PROVE ToolsInv OBVIOUS
<1>1. DispatcherTyped
  BY DispatcherTypeInit, LivenessAssumption, DispatcherAssumption DEF ToolsInit
<1> QED BY <1>1, InitEarned, UpgradeAssumption, EvalInitInv, GuardInitInv, SyncStarts, ConfigInitInv,
           CanaryInitInv, CutoverInitInv DEF ToolsInit, ToolsInv

\* The step of each tool, and of the others meanwhile.
LEMMA ToolsStep ==
    ASSUME ToolsInv,
           [DispatcherNext]_dvars, [Next]_vars, [EvalNext]_evalvars, [GuardNext]_guardvars,
           [SyncNext]_syncvars, [ConfigNext]_configvars, [CanaryNext]_canaryvars, [CutoverNext]_cutovervars
    PROVE  ToolsInv'
<1>1. EarnedInv' BY EarnedStep, UpgradeAssumption DEF ToolsInv
<1>2. EvalInv'
  BY SuiteKeeps, BookKeeps, CompleteKeeps DEF ToolsInv, EvalInv, ReattemptsEarned, ReOK
<1>3. GuardInv' BY GuardStepInv DEF ToolsInv
<1>4. SyncInv'
  BY SyncTypesKept, AtARowKept, StillUnfiledKept, NoSecondIssueKept DEF ToolsInv, SyncInv
<1>5. ConfigInv' BY ConfigInvKept DEF ToolsInv
<1>6. CanaryInv' BY CanaryStep DEF ToolsInv
<1>7. CutoverInv' BY CutoverStepInv DEF ToolsInv
<1>8. DispatcherTyped'
  BY DispatcherTypeStep, LivenessAssumption, DispatcherAssumption DEF ToolsInv
<1> QED BY <1>1, <1>2, <1>3, <1>4, <1>5, <1>6, <1>7, <1>8 DEF ToolsInv

\* Every part of the state of every tool has its type, for any values of all their
\* constants.
THEOREM ToolsAreTyped == ToolsSpec => []ToolsTypeOK
<1>1. ToolsInv /\ [ToolsNext]_toolvars => ToolsInv'
  <2> SUFFICES ASSUME ToolsInv, [ToolsNext]_toolvars PROVE ToolsInv' OBVIOUS
  <2>1. /\ [DispatcherNext]_dvars /\ [Next]_vars /\ [EvalNext]_evalvars /\ [GuardNext]_guardvars /\ [SyncNext]_syncvars
        /\ [ConfigNext]_configvars /\ [CanaryNext]_canaryvars /\ [CutoverNext]_cutovervars
    BY Zenon DEF ToolsNext, toolvars, DispatchMoves, UpgradeMoves, EvalMoves, GuardMoves, SyncMoves, ConfigMoves,
           CanaryMoves, CutoverMoves
  <2> QED BY <2>1, ToolsStep
<1>2. ToolsInv => ToolsTypeOK BY InvariantsAreTyped DEF ToolsInv, ToolsTypeOK
<1> QED BY <1>1, <1>2, ToolsInitInv, PTL DEF ToolsSpec
=============================================================================
