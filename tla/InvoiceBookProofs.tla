------------------------ MODULE InvoiceBookProofs ------------------------
(***************************************************************************)
(* The state invariants of InvoiceLifecycle that relate several rows, or a *)
(* row and the bucket, and the refinement of InvoiceBooks, for any number  *)
(* of sessions, projects, customers, invoices, keys and years.             *)
(*                                                                         *)
(* They hold with every mixture of requests, permanent deletes included,   *)
(* except FrozenNeverLost and KeepsBooks: a permanent delete can take an   *)
(* issued row with it (run purge_race), so those two are proved of the     *)
(* behaviours in which nobody asks for one.                                *)
(***************************************************************************)
EXTENDS InvoiceStepProofs

USE SessionsAssumption, RowsAssumption, NumbersAssumption, WorkflowAssumption,
    RequestsAssumption

-----------------------------------------------------------------------------
(* What a step does to the rows that carry a number *)

\* no numbered row appears, changes or goes, and no id is given back
Drafting ==
  \A i \in Invoices :
    \/ row'[i] = row[i]
    \/ /\ row[i].status \in {"none", "draft"}
       /\ row'[i].status \in {"draft", "gone"}

Destroys(s) == AllDeleted(s) /\ Destroy(tx[s].doomed)

LEMMA BookStep ==
  ASSUME IInv, NEW s \in Sessions, Acts(s)
  PROVE  \/ Drafting
         \/ CommitIssue(s) /\ ~ Rollback(s)
         \/ CommitCancel(s)
         \/ Destroys(s)
<1> USE DEF IInv
<1>1. CASE UNCHANGED row
  BY <1>1 DEF Drafting
<1>2. CASE InsertDraft(s) /\ ~ UNCHANGED row
  <2>1. tx[s].fresh \in Invoices
    BY <1>2 DEF InsertDraft, LocalOK, Local
  <2>2. row[tx[s].fresh].status = "none"
    BY <2>1 DEF FreshOK, Fresh
  <2>3. PICK t \in Totals :
          row' = [row EXCEPT ![tx[s].fresh] = [NoRow EXCEPT !.status = "draft",
                                !.project = tx[s].prj, !.total = t, !.version = 1]]
    BY <1>2 DEF InsertDraft, Rollback, data
  <2>4. row'[tx[s].fresh].status = "draft"
    BY <2>1, <2>3 DEF TypeOK, NoRow
  <2> QED
    BY <2>2, <2>3, <2>4 DEF TypeOK, Drafting
<1>3. CASE WriteDraft(s) \/ DeleteDraft(s)
  <2> DEFINE j == tx[s].inv
  <2>1. j \in Invoices /\ row[j].status = "draft"
    BY <1>3 DEF WriteDraft, DeleteDraft, LocalOK, Local, HeldRowOK, HeldRow, Holding
  <2>2. \A i \in Invoices \ {j} : row'[i] = row[i]
    BY <1>3, <2>1 DEF WriteDraft, DeleteDraft, TypeOK
  <2>3. row'[j].status \in {"draft", "gone"}
    <3>1. CASE WriteDraft(s)
      BY <2>1, <3>1 DEF WriteDraft, TypeOK, Row
    <3>2. CASE DeleteDraft(s)
      BY <2>1, <3>2 DEF DeleteDraft, TypeOK, Tombstone
    <3> QED
      BY <1>3, <3>1, <3>2
  <2> QED
    BY <2>1, <2>2, <2>3 DEF Drafting
<1>4. CASE CommitIssue(s) /\ ~ UNCHANGED row
  BY <1>4 DEF Rollback, data
<1>5. CASE (CommitPurge(s) \/ CommitCustomer(s)) /\ ~ UNCHANGED row
  BY <1>5 DEF CommitPurge, CommitCustomer, Rollback, data, Destroys
<1> QED
  BY <1>1, <1>2, <1>3, <1>4, <1>5, RowWriters

\* An issue's commit, in the terms of the row alone.
LEMMA IssuedRow ==
  ASSUME IInv, NEW s \in Sessions, CommitIssue(s), ~ Rollback(s)
  PROVE  LET i == tx[s].inv
         IN /\ i \in Invoices
            /\ row[i].status = "draft" /\ row'[i].status = "issued"
            /\ row'[i].project = row[i].project /\ row'[i].total = row[i].total
            /\ row'[i].cancels = None /\ row'[i].blob = tx[s].blob
            /\ \A j \in Invoices \ {i} : row'[j] = row[j]
<1> USE DEF IInv
<1> DEFINE i == tx[s].inv
<1>1. /\ i \in Invoices /\ row[i].status = "draft"
      /\ row'[i].status = "issued" /\ row'[i].project = row[i].project
      /\ row'[i].cancels = None
      /\ \A j \in Invoices \ {i} : row'[j] = row[j]
  BY IssueEffect
<1>2. row' = [row EXCEPT ![i].status = "issued", ![i].version = @ + 1,
                ![i].year = tx[s].year, ![i].number = tx[s].number,
                ![i].blob = tx[s].blob]
  BY DEF CommitIssue
<1>3. row'[i] = [row[i] EXCEPT !.status = "issued", !.version = @ + 1,
                   !.year = tx[s].year, !.number = tx[s].number, !.blob = tx[s].blob]
  BY <1>1, <1>2 DEF TypeOK
<1>4. row'[i].total = row[i].total /\ row'[i].blob = tx[s].blob
  BY <1>1, <1>3 DEF TypeOK, Row
<1> QED
  BY <1>1, <1>4

\* A cancel's commit, likewise; the two rows are on one project.
LEMMA CancelledRows ==
  ASSUME IInv, HInv, NEW s \in Sessions, CommitCancel(s)
  PROVE  LET i == tx[s].inv
             j == tx[s].fresh
         IN /\ i \in Invoices /\ j \in Invoices /\ i # j
            /\ row[i].status = "issued" /\ row[j] = NoRow
            /\ row'[i] = [row[i] EXCEPT !.status = "cancelled"]
            /\ row'[i].status = "cancelled" /\ row'[i].project = row[i].project
            /\ row'[i].total = row[i].total /\ row'[i].cancels = row[i].cancels
            /\ row'[i].blob = row[i].blob
            /\ row'[j].status = "issued" /\ row'[j].project = row[i].project
            /\ row'[j].total = -row[i].total /\ row'[j].cancels = i
            /\ row'[j].blob = tx[s].blob
            /\ \A k \in Invoices \ {i, j} : row'[k] = row[k]
<1> USE DEF IInv
<1> DEFINE i == tx[s].inv
           j == tx[s].fresh
<1>1. /\ i \in Invoices /\ j \in Invoices /\ i # j
      /\ row[i].status = "issued" /\ row[j] = NoRow
      /\ row'[i] = [row[i] EXCEPT !.status = "cancelled"]
      /\ row'[j] = [status |-> "issued", project |-> tx[s].prj,
                    total |-> -row[i].total, version |-> 1, year |-> tx[s].year,
                    number |-> seq[SeriesOf(tx[s])] + 1, cancels |-> i, blob |-> tx[s].blob]
      /\ \A k \in Invoices \ {i, j} : row'[k] = row[k]
  BY CancelEffect
<1>2. tx[s].prj = row[i].project
  BY <1>1 DEF HInv, Remembers, SameProject, OnRow, Holding, CommitCancel, LiveRow
<1>3. row[i] \in Row
  BY <1>1 DEF TypeOK
<1>4. /\ row'[i].status = "cancelled" /\ row'[i].project = row[i].project
      /\ row'[i].total = row[i].total /\ row'[i].cancels = row[i].cancels
      /\ row'[i].blob = row[i].blob
  BY <1>1, <1>3 DEF Row
<1>5. /\ row'[j].status = "issued" /\ row'[j].project = tx[s].prj
      /\ row'[j].total = -row[i].total /\ row'[j].cancels = i
      /\ row'[j].blob = tx[s].blob
  BY <1>1
<1> QED
  BY <1>1, <1>2, <1>4, <1>5

-----------------------------------------------------------------------------
(* A cancelled invoice and its Storno *)

\* a Storno names a row, so an id not yet inserted has none
CancelsRow ==
  \A j \in Invoices : row[j].status \in Frozen /\ row[j].cancels # None =>
    row[row[j].cancels].status # "none"

\* the Stornos of a row, as StornoPairs has them
StornosOf(i) == {j \in Invoices : row[j].status \in Frozen /\ row[j].cancels = i}

\* StornoPairs for one row
Paired(i) ==
  row[i].status \in LiveRow =>
    /\ row[i].status = "cancelled" <=> StornosOf(i) # {}
    /\ \A j, k \in StornosOf(i) :
         /\ j = k
         /\ row[j].project = row[i].project
         /\ row[j].total + row[i].total = 0

LEMMA PairedAll == StornoPairs <=> \A i \in Invoices : Paired(i)
  BY DEF StornoPairs, Paired, StornosOf

LEMMA DraftingPairs ==
  ASSUME TypeOK, RowOK, StornoPairs, CancelsRow, Drafting
  PROVE  StornoPairs' /\ CancelsRow'
<1>1. \A i \in Invoices : (row[i].status \in Frozen \/ row'[i].status \in Frozen) => row'[i] = row[i]
  BY DEF Drafting, Frozen
<1>2. \A i \in Invoices : StornosOf(i)' = StornosOf(i)
  BY <1>1 DEF StornosOf
<1>3. ASSUME NEW i \in Invoices PROVE Paired(i)'
  <2>1. CASE row'[i] = row[i]
    BY <1>1, <1>2, <2>1, PairedAll DEF Paired, StornosOf
  <2>2. CASE row[i].status \in {"none", "draft"} /\ row'[i].status \in {"draft", "gone"}
    <3>1. StornosOf(i) = {}
      <4>1. CASE row[i].status = "none"
        BY <4>1, RowsAssumption DEF CancelsRow, StornosOf
      <4>2. CASE row[i].status = "draft"
        BY <4>2, PairedAll DEF Paired, LiveRow
      <4> QED
        BY <2>2, <4>1, <4>2
    <3> QED
      BY <1>2, <2>2, <3>1 DEF Paired
  <2> QED
    BY <2>1, <2>2 DEF Drafting
<1>4. CancelsRow'
  <2> SUFFICES ASSUME NEW j \in Invoices, row'[j].status \in Frozen, row'[j].cancels # None
               PROVE  row'[row'[j].cancels].status # "none"
    BY DEF CancelsRow
  <2>1. row'[j] = row[j] /\ row[j].cancels \in Invoices
    BY <1>1 DEF TypeOK, Row
  <2> QED
    BY <2>1 DEF CancelsRow, Drafting
<1> QED
  BY <1>3, <1>4, PairedAll DEF StornoPairs, Paired, StornosOf

\* An issue books a row that names none; the row it numbers had no Storno.
LEMMA IssuePairs ==
  ASSUME IInv, StornoPairs, CancelsRow, NEW s \in Sessions, CommitIssue(s), ~ Rollback(s)
  PROVE  StornoPairs' /\ CancelsRow'
<1> PICK i \in Invoices : i = tx[s].inv
  BY IssuedRow
<1>1. /\ i \in Invoices
      /\ row[i].status = "draft" /\ row'[i].status = "issued"
      /\ row'[i].cancels = None
      /\ \A j \in Invoices \ {i} : row'[j] = row[j]
  BY IssuedRow
<1>2. \A k \in Invoices : StornosOf(k)' = StornosOf(k)
  BY <1>1 DEF StornosOf, Frozen
<1>3. StornosOf(i) = {}
  BY <1>1, PairedAll DEF Paired, LiveRow
<1>4. ASSUME NEW k \in Invoices \ {i} PROVE Paired(k)'
  <2>1. Paired(k) /\ row'[k] = row[k]
    BY <1>1, PairedAll
  <2>2. ASSUME NEW j \in StornosOf(k) PROVE row'[j] = row[j]
    BY <1>1, <2>2 DEF StornosOf, Frozen
  <2> QED
    BY <1>2, <2>1, <2>2 DEF Paired
<1>5. Paired(i)'
  BY <1>1, <1>2, <1>3 DEF Paired
<1>6. CancelsRow'
  <2> SUFFICES ASSUME NEW j \in Invoices, row'[j].status \in Frozen, row'[j].cancels # None
               PROVE  row'[row'[j].cancels].status # "none"
    BY DEF CancelsRow
  <2>1. row'[j] = row[j] /\ row[j].cancels \in Invoices
    BY <1>1 DEF IInv, TypeOK, Row
  <2> QED
    BY <1>1, <2>1 DEF CancelsRow
<1>7. \A k \in Invoices : Paired(k)'
  BY <1>4, <1>5
<1> QED
  BY <1>6, <1>7 DEF StornoPairs, Paired, StornosOf

\* A cancel gives its invoice the one Storno it did not have.
LEMMA CancelPairs ==
  ASSUME IInv, HInv, StornoPairs, CancelsRow, NEW s \in Sessions, CommitCancel(s)
  PROVE  StornoPairs' /\ CancelsRow'
<1> PICK i \in Invoices, f \in Invoices : i = tx[s].inv /\ f = tx[s].fresh
  BY CancelledRows
<1>1. /\ i \in Invoices /\ f \in Invoices /\ i # f
      /\ row[i].status = "issued" /\ row[f] = NoRow
      /\ row'[i].status = "cancelled" /\ row'[i].project = row[i].project
      /\ row'[i].total = row[i].total /\ row'[i].cancels = row[i].cancels
      /\ row'[f].status = "issued" /\ row'[f].project = row[i].project
      /\ row'[f].total = -row[i].total /\ row'[f].cancels = i
      /\ \A k \in Invoices \ {i, f} : row'[k] = row[k]
  BY CancelledRows
<1>2. row[f].status = "none"
  BY <1>1 DEF NoRow
<1>3. \A k \in Invoices \ {i} : StornosOf(k)' = StornosOf(k)
  BY <1>1, <1>2 DEF StornosOf, Frozen
<1>4. StornosOf(i) = {} /\ StornosOf(f) = {}
  BY <1>1, <1>2, PairedAll DEF Paired, LiveRow, CancelsRow, StornosOf
<1>5. StornosOf(i)' = {f}
  BY <1>1, <1>4, <1>2 DEF StornosOf, Frozen
<1>6. Paired(i)'
  <2>1. row[i].total \in Int
    BY <1>1 DEF IInv, TypeOK, Row
  <2> QED
    BY <1>1, <1>5, <2>1 DEF Paired
<1>7. Paired(f)'
  BY <1>1, <1>3, <1>4 DEF Paired
<1>8. ASSUME NEW k \in Invoices \ {i, f} PROVE Paired(k)'
  <2>1. Paired(k) /\ row'[k] = row[k]
    BY <1>1, PairedAll
  <2>2. ASSUME NEW j \in StornosOf(k)
        PROVE  row'[j].project = row[j].project /\ row'[j].total = row[j].total
    BY <1>1, <1>2, <2>2 DEF StornosOf, Frozen
  <2> QED
    BY <1>3, <2>1, <2>2 DEF Paired
<1>9. CancelsRow'
  <2> SUFFICES ASSUME NEW j \in Invoices, row'[j].status \in Frozen, row'[j].cancels # None
               PROVE  row'[row'[j].cancels].status # "none"
    BY DEF CancelsRow
  <2>1. CASE j = f
    BY <1>1, <2>1
  <2>2. CASE j # f
    <3>1. row[j].status \in Frozen /\ row'[j].cancels = row[j].cancels /\ row[j].cancels \in Invoices
      BY <1>1, <2>2 DEF IInv, TypeOK, Row, Frozen
    <3> QED
      BY <1>1, <3>1 DEF CancelsRow
  <2> QED
    BY <2>1, <2>2
<1>10. \A k \in Invoices : Paired(k)'
  BY <1>6, <1>7, <1>8
<1> QED
  BY <1>9, <1>10 DEF StornoPairs, Paired, StornosOf

\* A permanent delete takes an invoice and its Storno together: they are on
\* one project.
LEMMA DestroyPairs ==
  ASSUME IInv, StornoPairs, CancelsRow, NEW P, Destroy(P)
  PROVE  StornoPairs' /\ CancelsRow'
<1>1. \A i \in Invoices : \/ row'[i] = row[i] /\ ~ (row[i].status \in LiveRow /\ row[i].project \in P)
                          \/ /\ row[i].status \in LiveRow /\ row[i].project \in P
                             /\ row'[i].status = "gone"
  BY DEF Destroy, Tombstone
<1>2. ASSUME NEW i \in Invoices, row'[i].status \in LiveRow PROVE Paired(i)'
  <2>1. row'[i] = row[i] /\ Paired(i) /\ row[i].project \notin P
    BY <1>1, <1>2, PairedAll DEF LiveRow
  <2>2. ASSUME NEW j \in StornosOf(i) PROVE row'[j] = row[j]
    <3>1. j \in Invoices /\ row[j].project = row[i].project
      BY <1>2, <2>1, <2>2 DEF Paired, StornosOf
    <3> QED
      BY <1>1, <2>1, <3>1
  <2>3. StornosOf(i)' = StornosOf(i)
    BY <1>1, <2>2 DEF StornosOf, Frozen
  <2> QED
    BY <2>1, <2>2, <2>3 DEF Paired
<1>3. CancelsRow'
  <2> SUFFICES ASSUME NEW j \in Invoices, row'[j].status \in Frozen, row'[j].cancels # None
               PROVE  row'[row'[j].cancels].status # "none"
    BY DEF CancelsRow
  <2>1. row'[j] = row[j] /\ row[j].cancels \in Invoices
    BY <1>1 DEF IInv, TypeOK, Row, Frozen
  <2> QED
    BY <1>1, <2>1 DEF CancelsRow
<1>4. \A i \in Invoices : Paired(i)'
  BY <1>2 DEF Paired
<1> QED
  BY <1>3, <1>4, PairedAll DEF StornoPairs, Paired, StornosOf

LEMMA PairsStep == IInv /\ HInv /\ StornoPairs /\ CancelsRow /\ [Next]_vars
                     => StornoPairs' /\ CancelsRow'
<1> SUFFICES ASSUME IInv, HInv, StornoPairs, CancelsRow, [Next]_vars
             PROVE  StornoPairs' /\ CancelsRow'
  OBVIOUS
<1>1. CASE UNCHANGED row
  BY <1>1 DEF StornoPairs, CancelsRow
<1>2. ASSUME NEW s \in Sessions, Acts(s) PROVE StornoPairs' /\ CancelsRow'
  <2>1. CASE Drafting
    BY <2>1, DraftingPairs DEF IInv
  <2>2. CASE CommitIssue(s) /\ ~ Rollback(s)
    BY <2>2, IssuePairs
  <2>3. CASE CommitCancel(s)
    BY <2>3, CancelPairs
  <2>4. CASE Destroys(s)
    BY <2>4, DestroyPairs DEF Destroys
  <2> QED
    BY <1>2, <2>1, <2>2, <2>3, <2>4, BookStep
<1> QED
  BY <1>1, <1>2, ChangeCases

\* However cancels of one invoice race each other, issues, and deletes: an
\* invoice is cancelled exactly when one Storno offsets it, on the same
\* project, and the two sum to nothing.
THEOREM Stornos == Spec => []StornoPairs
<1>1. Init => StornoPairs /\ CancelsRow
  BY DEF Init, NoRow, StornoPairs, CancelsRow, LiveRow, Frozen
<1>2. IInv /\ HInv /\ StornoPairs /\ CancelsRow /\ [Next]_vars => StornoPairs' /\ CancelsRow'
  BY PairsStep
<1> QED
  BY <1>1, <1>2, Memory, PTL DEF Spec

-----------------------------------------------------------------------------
(* Rows and the projects and customers they name *)

Homed(i) == row[i].status \in LiveRow => pstate[row[i].project] \in Present

\* the rows a step leaves or makes live are in a project that is there
LEMMA RowsHomed ==
  ASSUME IInv, HInv, NoDangling, [Next]_vars, NEW i \in Invoices
  PROVE  Homed(i)'
<1> USE DEF IInv
<1> SUFFICES ASSUME row'[i].status \in LiveRow PROVE pstate'[row'[i].project] \in Present
  BY DEF Homed
<1>1. row[i].status \in LiveRow => row[i].project \in Projects /\ pstate[row[i].project] \in Present
  BY DEF NoDangling, RowOK, RowShape
<1>2. ASSUME UNCHANGED row, \A p \in Projects : pstate[p] \in Present => pstate'[p] \in Present
      PROVE  pstate'[row'[i].project] \in Present
  BY <1>1, <1>2
<1>3. CASE NoChange
  BY <1>2, <1>3 DEF NoChange, vars, data
<1>4. ASSUME NEW p \in Projects, OneStatement(p) PROVE pstate'[row'[i].project] \in Present
  <2>1. UNCHANGED row
    BY <1>4 DEF OneStatement, CreateProject, Advance, Retreat, Move, Archive, Restore, Flip
  <2>2. pstate' = pstate \/ \E st \in Present : pstate' = [pstate EXCEPT ![p] = st]
    BY <1>4 DEF OneStatement, CreateProject, Advance, Retreat, Move, Archive, Restore, Flip, Present
  <2> QED
    BY <1>2, <2>1, <2>2 DEF TypeOK
<1>5. ASSUME NEW s \in Sessions, Acts(s) PROVE pstate'[row'[i].project] \in Present
  <2>1. CASE Destroys(s)
    <3>1. row'[i] = row[i] /\ row[i].project \notin tx[s].doomed
      BY <2>1 DEF Destroys, Destroy, Tombstone, LiveRow
    <3> QED
      BY <1>1, <2>1, <3>1 DEF Destroys, Destroy
  <2>2. CASE ~ Destroys(s)
    <3>1. UNCHANGED pstate
      BY <1>5, <2>2 DEF Acts, Submit, SubmitCreate, SubmitRow, SubmitPurge, SubmitDeleteCustomer,
         Abort, DeadlockVictim, Rollback, data, Step, InsertDraft, LockRow, WriteDraft,
         DeleteDraft, ReadProject, AllocateNumber, PutPdf, RenderFails, CommitIssue,
         CommitCancel, ListKeys, CheckArchived, CountCustomer, ListArchived, DeleteProject,
         Cascade, CommitPurge, HideKeys, CommitCustomer, Destroys
    <3>2. CASE InsertDraft(s) /\ ~ Rollback(s)
      <4>1. /\ tx[s].fresh \in Invoices /\ tx[s].prj \in Projects
            /\ pstate[tx[s].prj] \in Present
        BY <3>2 DEF InsertDraft, LocalOK, Local
      <4>2. PICK t \in Totals :
              row' = [row EXCEPT ![tx[s].fresh] = [NoRow EXCEPT !.status = "draft",
                                    !.project = tx[s].prj, !.total = t, !.version = 1]]
        BY <3>2 DEF InsertDraft
      <4>3. row'[tx[s].fresh].project = tx[s].prj
        BY <4>1, <4>2 DEF TypeOK, NoRow
      <4>4. i # tx[s].fresh => row'[i] = row[i]
        BY <4>2 DEF TypeOK
      <4> QED
        BY <1>1, <3>1, <4>1, <4>3, <4>4
    <3>3. CASE CommitCancel(s)
      <4>1. /\ tx[s].inv \in Invoices /\ row[tx[s].inv].status = "issued"
            /\ row'[tx[s].inv].project = row[tx[s].inv].project
            /\ row'[tx[s].fresh].project = row[tx[s].inv].project
            /\ \A k \in Invoices \ {tx[s].inv, tx[s].fresh} : row'[k] = row[k]
        BY <3>3, CancelledRows
      <4>2. pstate[row[tx[s].inv].project] \in Present
        BY <4>1 DEF NoDangling, LiveRow
      <4>3. CASE i \in {tx[s].inv, tx[s].fresh}
        BY <3>1, <4>1, <4>2, <4>3
      <4>4. CASE i \notin {tx[s].inv, tx[s].fresh}
        BY <1>1, <3>1, <4>1, <4>4
      <4> QED
        BY <4>3, <4>4
    <3>4. CASE ~ (InsertDraft(s) /\ ~ Rollback(s)) /\ ~ CommitCancel(s)
      <4>1. Change(s, i)
        BY <1>5, ChangeStep
      <4>2. row'[i].project = row[i].project /\ row[i].status \in LiveRow
        <5>1. CASE row'[i] = row[i]
          BY <5>1
        <5>2. CASE Edited(s, i) \/ Issued(s, i)
          BY <5>2 DEF Edited, Issued, LiveRow
        <5>3. CASE Cancelled(s, i)
          BY <5>3 DEF Cancelled, TypeOK, Row, LiveRow
        <5>4. CASE Inserted(s, i) \/ Stornoed(s, i)
          <6>1. row[i].status = "none" /\ row'[i].status # "none"
            BY <5>4 DEF Inserted, Stornoed
          <6>2. WriteDraft(s) \/ DeleteDraft(s) \/ CommitIssue(s) => row'[i] = row[i]
            <7> SUFFICES ASSUME WriteDraft(s) \/ DeleteDraft(s) \/ CommitIssue(s)
                         PROVE  row'[i] = row[i]
              OBVIOUS
            <7>1. row[tx[s].inv].status = "draft" /\ tx[s].inv \in Invoices
              BY DEF WriteDraft, DeleteDraft, CommitIssue, LocalOK, Local, HeldRowOK, HeldRow, Holding
            <7> QED
              BY ZenonT(40), <6>1, <7>1 DEF WriteDraft, DeleteDraft, CommitIssue, TypeOK, Rollback, data
          <6>3. CommitPurge(s) \/ CommitCustomer(s) => row'[i] = row[i]
            BY <2>2 DEF CommitPurge, CommitCustomer, Destroys, Rollback, data
          <6>4. InsertDraft(s) => row'[i] = row[i]
            BY <3>4 DEF Rollback, data
          <6> QED
            BY <1>5, <3>4, <6>1, <6>2, <6>3, <6>4, RowWriters
        <5>5. ~ Deleted(s, i)
          BY DEF Deleted, LiveRow
        <5> QED
          BY <4>1, <5>1, <5>2, <5>3, <5>4, <5>5 DEF Change
      <4> QED
        BY <1>1, <3>1, <4>2
    <3> QED
      BY <3>2, <3>3, <3>4
  <2> QED
    BY <2>1, <2>2
<1> QED
  BY <1>3, <1>4, <1>5, StepCases DEF Acts

\* A project is created under a customer row; only the delete that destroys
\* all of its projects takes the customer away.
LEMMA CustomersStep ==
  ASSUME TypeOK, NoDangling, [Next]_vars, NEW p \in Projects, pstate'[p] \in Present
  PROVE  CustomerOf[p] \in customers'
<1>1. pstate[p] \in Present => CustomerOf[p] \in customers
  BY DEF NoDangling
<1>2. CASE NoChange
  BY <1>1, <1>2 DEF NoChange, vars, data
<1>3. ASSUME NEW o \in Projects, OneStatement(o) PROVE CustomerOf[p] \in customers'
  <2>1. UNCHANGED customers
    BY <1>3 DEF OneStatement, CreateProject, Advance, Retreat, Move, Archive, Restore, Flip
  <2>2. CASE CreateProject(o)
    BY <1>1, <2>1, <2>2 DEF CreateProject, TypeOK
  <2>3. CASE ~ CreateProject(o)
    BY <1>1, <1>3, <2>1, <2>3 DEF OneStatement, Advance, Retreat, Move, Archive, Restore, Flip,
       TypeOK, Present
  <2> QED
    BY <2>2, <2>3
<1>4. ASSUME NEW s \in Sessions, Acts(s) PROVE CustomerOf[p] \in customers'
  <2>1. CASE CommitCustomer(s) /\ ~ Rollback(s)
    <3>1. /\ customers' = customers \ {tx[s].cust}
          /\ ProjectsOf(tx[s].cust) \subseteq tx[s].doomed
          /\ Destroy(tx[s].doomed)
      BY <2>1 DEF CommitCustomer
    <3>2. pstate[p] \in Present /\ p \notin tx[s].doomed
      BY <3>1 DEF Destroy, Present
    <3> QED
      BY <1>1, <3>1, <3>2 DEF ProjectsOf
  <2>2. CASE ~ (CommitCustomer(s) /\ ~ Rollback(s))
    <3>1. UNCHANGED customers
      BY <1>4, <2>2 DEF Acts, Submit, SubmitCreate, SubmitRow, SubmitPurge, SubmitDeleteCustomer,
         Abort, DeadlockVictim, Rollback, data, Step, InsertDraft, LockRow, WriteDraft,
         DeleteDraft, ReadProject, AllocateNumber, PutPdf, RenderFails, CommitIssue,
         CommitCancel, ListKeys, CheckArchived, CountCustomer, ListArchived, DeleteProject,
         Cascade, CommitPurge, HideKeys, CommitCustomer
    <3>2. pstate' = pstate \/ Destroy(tx[s].doomed)
      BY <1>4, <2>2 DEF Acts, Submit, SubmitCreate, SubmitRow, SubmitPurge, SubmitDeleteCustomer,
         Abort, DeadlockVictim, Rollback, data, Step, InsertDraft, LockRow, WriteDraft,
         DeleteDraft, ReadProject, AllocateNumber, PutPdf, RenderFails, CommitIssue,
         CommitCancel, ListKeys, CheckArchived, CountCustomer, ListArchived, DeleteProject,
         Cascade, CommitPurge, HideKeys, CommitCustomer
    <3>3. pstate[p] \in Present
      BY <3>2 DEF Destroy, Present
    <3> QED
      BY <1>1, <3>1, <3>3
  <2> QED
    BY <2>1, <2>2
<1> QED
  BY <1>2, <1>3, <1>4, StepCases DEF Acts

\* No invoice outlives its project and no project its customer, whatever
\* creates, issues and cancels a purge or a customer delete overlaps.
THEOREM Homes == Spec => []NoDangling
<1>1. Init => NoDangling
  BY DEF Init, NoRow, NoDangling, LiveRow, Present
<1>2. IInv /\ HInv /\ NoDangling /\ [Next]_vars => NoDangling'
  BY RowsHomed, CustomersStep DEF NoDangling, Homed, IInv
<1> QED
  BY <1>1, <1>2, Memory, PTL DEF Spec

-----------------------------------------------------------------------------
(* Keys: of PDFs about to be booked, and of PDFs about to be hidden *)

\* the object of a handler about to commit is stored under a key that is in no
\* row, no other handler's hands and no purge's list
Pending(s) ==
  tx[s].pc = "commit" =>
    /\ blobs[tx[s].blob] = "stored"
    /\ \A i \in Invoices : row[i].status \in Frozen => row[i].blob # tx[s].blob
    /\ \A u \in Sessions : tx[u].pc = "commit" /\ tx[u].blob = tx[s].blob => u = s
    /\ \A u \in Sessions : tx[s].blob \notin tx[u].keys

\* the keys a purge has listed are those of its own project's rows, and when
\* it hides them no row carries them any more
Listed(s) ==
  /\ \A k \in tx[s].keys : blobs[k] # "none"
  /\ tx[s].keys # {} => tx[s].op = "purge" /\ tx[s].pc \in {"check", "delete", "cascade", "hide"}
  /\ \A i \in Invoices : row[i].status \in Frozen /\ row[i].blob \in tx[s].keys
       => tx[s].pc # "hide" /\ row[i].project = tx[s].prj

\* a purge deletes the project whose keys it listed, unless another deleter
\* was faster
Purges(s) ==
  /\ tx[s].pc \in {"keys", "check"} => tx[s].op = "purge" /\ tx[s].prj \in Projects
  /\ tx[s].pc \in {"count", "archived"} => tx[s].op = "customer"
  /\ tx[s].op = "purge" /\ tx[s].pc \in {"delete", "cascade"} =>
       /\ tx[s].prj \in Projects
       /\ tx[s].doomed \subseteq {tx[s].prj}
       /\ pstate[tx[s].prj] # "none"
       /\ tx[s].doomed = {} => pstate[tx[s].prj] = "gone"

KInv ==
  /\ PdfBacked
  /\ \A s \in Sessions : Pending(s) /\ Listed(s) /\ Purges(s)

\* where a step can take its handler, and what the handler keeps
Starts(s) ==
  /\ tx'[s].keys = {}
  /\ \/ tx'[s].pc \in {"insert", "row"} /\ tx'[s].op # "purge"
     \/ tx'[s].pc = "keys" /\ tx'[s].op = "purge" /\ tx'[s].prj \in Projects
     \/ tx'[s].pc = "count" /\ tx'[s].op = "customer"

Proceeds(s, pc) == tx'[s].pc = pc /\ tx'[s].op = tx[s].op /\ tx'[s].keys = tx[s].keys

Bills(s) ==
  /\ tx[s].pc \in {"row", "project", "number"}
  /\ \E pc \in {"write", "project", "number", "render"} : Proceeds(s, pc)

Stores(s) ==
  \E b \in Blobs :
    /\ tx[s].pc = "render"
    /\ blobs[b] = "none"
    /\ blobs' = [blobs EXCEPT ![b] = "stored"]
    /\ UNCHANGED row
    /\ Proceeds(s, "commit")
    /\ tx'[s].blob = b

Lists(s) ==
  /\ tx[s].pc = "keys" /\ tx'[s].pc = "check"
  /\ UNCHANGED <<row, blobs>>
  /\ tx'[s].op = tx[s].op /\ tx'[s].prj = tx[s].prj
  /\ tx'[s].keys = {row[i].blob : i \in FrozenIn({tx[s].prj})}

Checks(s) ==
  /\ tx[s].pc = "check" /\ Proceeds(s, "delete")
  /\ tx'[s].prj = tx[s].prj /\ tx'[s].doomed = {tx[s].prj}
  /\ pstate[tx[s].prj] = "archived" /\ UNCHANGED pstate

Counts(s) ==
  \/ tx[s].pc = "count" /\ Proceeds(s, "archived")
  \/ tx[s].pc = "archived" /\ Proceeds(s, "delete")

Removes(s) ==
  \E p \in tx[s].doomed :
    /\ tx[s].pc = "delete"
    /\ UNCHANGED pstate
    /\ \/ Proceeds(s, "cascade") /\ tx'[s].prj = p /\ tx'[s].doomed = tx[s].doomed
       \/ /\ pstate[p] \notin Present
          /\ Proceeds(s, "delete")
          /\ tx'[s].prj = tx[s].prj /\ tx'[s].doomed = tx[s].doomed \ {p}

Cascades(s) ==
  /\ tx[s].pc = "cascade" /\ Proceeds(s, "delete")
  /\ tx'[s].prj = tx[s].prj /\ tx'[s].doomed = tx[s].doomed

Purged(s) ==
  /\ tx[s].pc = "delete" /\ tx[s].op = "purge" /\ Destroys(s)
  /\ Proceeds(s, "hide")

Control(s) ==
  \/ tx'[s] = Idle
  \/ Starts(s) \/ Bills(s) \/ Stores(s)
  \/ Lists(s) \/ Checks(s) \/ Counts(s) \/ Removes(s) \/ Cascades(s) \/ Purged(s)

LEMMA StartControl ==
  ASSUME TypeOK, NEW s \in Sessions, Submit(s)
  PROVE  Starts(s)
<1>1. ASSUME NEW p \in Projects, NEW i \in Invoices, SubmitCreate(s, p, i)
      PROVE  Starts(s)
  BY <1>1 DEF SubmitCreate, Goto, Idle, TypeOK, Starts
<1>2. ASSUME NEW p \in Projects, SubmitPurge(s, p)
      PROVE  Starts(s)
  BY <1>2 DEF SubmitPurge, Goto, Idle, TypeOK, Starts
<1>3. ASSUME NEW c \in Customers, SubmitDeleteCustomer(s, c)
      PROVE  Starts(s)
  BY <1>3 DEF SubmitDeleteCustomer, Goto, Idle, TypeOK, Starts
<1>4. ASSUME NEW i \in Invoices, NEW op \in RowRequests, SubmitRow(s, i, op)
      PROVE  Starts(s)
  <2> DEFINE t == [Idle EXCEPT !.pc = "row", !.op = op, !.inv = i, !.prj = row[i].project]
  <2>1. op # "purge"
    BY DEF RowRequests
  <2>2. \/ \E j \in Invoices : tx'[s] = [t EXCEPT !.fresh = j]
        \/ \E v \in read[i] : tx'[s] = [t EXCEPT !.expected = v.version, !.seen = v.total]
    BY <1>4 DEF SubmitRow, Goto, TypeOK
  <2>3. tx'[s].pc = "row" /\ tx'[s].op = op /\ tx'[s].keys = {}
    BY <2>2 DEF Idle
  <2> QED
    BY <2>1, <2>3 DEF Starts
<1> QED
  BY <1>1, <1>2, <1>3, <1>4 DEF Submit

LEMMA BillControl ==
  ASSUME TypeOK, NEW s \in Sessions, ~ Rollback(s),
         LockRow(s) \/ ReadProject(s) \/ AllocateNumber(s) \/ PutPdf(s)
  PROVE  Bills(s) \/ Stores(s)
<1>1. tx[s] \in TxRecord
  BY TxType
<1>2. CASE LockRow(s)
  <2>1. tx[s].pc = "row" /\ tx'[s] = [tx[s] EXCEPT !.pc = AfterLock(tx[s].op)]
    BY <1>2 DEF LockRow, Goto, TypeOK
  <2> QED
    BY <1>1, <2>1 DEF TxRecord, AfterLock, Bills, Proceeds
<1>3. CASE ReadProject(s)
  <2>1. tx[s].pc = "project" /\ tx'[s] = [tx[s] EXCEPT !.pc = "number"]
    BY <1>3 DEF ReadProject, Goto, TypeOK
  <2> QED
    BY <1>1, <2>1 DEF TxRecord, Bills, Proceeds
<1>4. CASE AllocateNumber(s)
  <2>1. PICK y \in Years : \E n :
          Goto(s, [tx[s] EXCEPT !.pc = "render", !.year = y, !.number = n])
    BY <1>4 DEF AllocateNumber
  <2>2. PICK n : tx'[s] = [tx[s] EXCEPT !.pc = "render", !.year = y, !.number = n]
    BY <2>1 DEF Goto, TypeOK
  <2>3. tx[s].pc = "number"
    BY <1>4 DEF AllocateNumber
  <2> QED
    BY <1>1, <2>2, <2>3 DEF TxRecord, Bills, Proceeds
<1>5. CASE PutPdf(s)
  <2>1. PICK b \in Blobs : /\ tx[s].pc = "render" /\ blobs[b] = "none"
                           /\ blobs' = [blobs EXCEPT ![b] = "stored"]
                           /\ UNCHANGED row
                           /\ tx'[s] = [tx[s] EXCEPT !.pc = "commit", !.blob = b]
    BY <1>5 DEF PutPdf, Goto, TypeOK
  <2> QED
    BY <1>1, <2>1 DEF TxRecord, Stores, Proceeds
<1> QED
  BY <1>2, <1>3, <1>4, <1>5

LEMMA PurgeControl ==
  ASSUME TypeOK, NEW s \in Sessions, ~ Rollback(s),
         \/ ListKeys(s) \/ CheckArchived(s) \/ CountCustomer(s) \/ ListArchived(s)
         \/ DeleteProject(s) \/ Cascade(s) \/ CommitPurge(s)
  PROVE  Lists(s) \/ Checks(s) \/ Counts(s) \/ Removes(s) \/ Cascades(s) \/ Purged(s)
<1>1. tx[s] \in TxRecord
  BY TxType
<1>2. CASE ListKeys(s)
  <2>1. /\ tx[s].pc = "keys" /\ UNCHANGED <<row, blobs>>
        /\ tx'[s] = [tx[s] EXCEPT !.pc = "check",
                        !.keys = {row[i].blob : i \in FrozenIn({tx[s].prj})}]
    BY <1>2 DEF ListKeys, Goto, TypeOK, data
  <2>2. Lists(s)
    BY <1>1, <2>1 DEF TxRecord, Lists
  <2> QED
    BY <2>2
<1>3. CASE CheckArchived(s)
  <2>1. /\ tx[s].pc = "check" /\ pstate[tx[s].prj] = "archived" /\ UNCHANGED pstate
        /\ tx'[s] = [tx[s] EXCEPT !.pc = "delete", !.doomed = {tx[s].prj}]
    BY <1>3 DEF CheckArchived, Goto, TypeOK, data
  <2> QED
    BY <1>1, <2>1 DEF TxRecord, Checks, Proceeds
<1>4. CASE CountCustomer(s)
  <2>1. tx[s].pc = "count" /\ tx'[s] = [tx[s] EXCEPT !.pc = "archived"]
    BY <1>4 DEF CountCustomer, Goto, TypeOK
  <2> QED
    BY <1>1, <2>1 DEF TxRecord, Counts, Proceeds
<1>5. CASE ListArchived(s)
  <2>1. PICK P : tx[s].pc = "archived" /\ tx'[s] = [tx[s] EXCEPT !.pc = "delete", !.doomed = P]
    BY <1>5 DEF ListArchived, Goto, TypeOK
  <2> QED
    BY <1>1, <2>1 DEF TxRecord, Counts, Proceeds
<1>6. CASE DeleteProject(s)
  <2>1. PICK p \in tx[s].doomed :
          /\ tx[s].pc = "delete" /\ UNCHANGED pstate
          /\ \/ tx'[s] = [tx[s] EXCEPT !.pc = "cascade", !.prj = p]
             \/ pstate[p] \notin Present /\ tx'[s] = [tx[s] EXCEPT !.doomed = @ \ {p}]
    BY <1>6 DEF DeleteProject, Goto, TypeOK, data
  <2>2. CASE tx'[s] = [tx[s] EXCEPT !.pc = "cascade", !.prj = p]
    BY <1>1, <2>1, <2>2 DEF TxRecord, Removes, Proceeds
  <2>3. CASE pstate[p] \notin Present /\ tx'[s] = [tx[s] EXCEPT !.doomed = @ \ {p}]
    BY <1>1, <2>1, <2>3 DEF TxRecord, Removes, Proceeds
  <2> QED
    BY <2>1, <2>2, <2>3
<1>7. CASE Cascade(s)
  <2>1. tx[s].pc = "cascade" /\ tx'[s] = [tx[s] EXCEPT !.pc = "delete"]
    BY <1>7 DEF Cascade, Goto, TypeOK
  <2> QED
    BY <1>1, <2>1 DEF TxRecord, Cascades, Proceeds
<1>8. CASE CommitPurge(s)
  <2>1. tx'[s] = [Idle EXCEPT !.pc = "hide", !.op = "purge", !.keys = tx[s].keys]
    BY <1>8 DEF CommitPurge, Goto, TypeOK
  <2> QED
    BY <1>8, <2>1 DEF CommitPurge, Destroys, AllDeleted, Idle, Purged, Proceeds
<1> QED
  BY <1>2, <1>3, <1>4, <1>5, <1>6, <1>7, <1>8

LEMMA ControlStep ==
  ASSUME TypeOK, NEW s \in Sessions, Acts(s)
  PROVE  Control(s)
<1>1. ASSUME EndTx(s) PROVE tx'[s] = Idle
  BY <1>1 DEF EndTx, TypeOK
<1>2. CASE InsertDraft(s) \/ WriteDraft(s) \/ DeleteDraft(s) \/ RenderFails(s)
           \/ CommitIssue(s) \/ CommitCancel(s) \/ HideKeys(s) \/ CommitCustomer(s)
           \/ Abort(s) \/ DeadlockVictim(s) \/ Rollback(s)
  BY <1>1, <1>2 DEF InsertDraft, WriteDraft, DeleteDraft, RenderFails, CommitIssue,
     CommitCancel, HideKeys, CommitCustomer, Abort, DeadlockVictim, Rollback, Control
<1>3. CASE Submit(s)
  BY <1>3, StartControl DEF Control
<1>4. CASE Step(s) /\ ~ Rollback(s)
  BY <1>2, <1>4, BillControl, PurgeControl DEF Step, Control
<1> QED
  BY <1>2, <1>3, <1>4 DEF Acts

\* The bucket gains an object when a handler stores its PDF and loses listed
\* ones after a purge; nothing else touches it.
LEMMA BucketStep ==
  ASSUME TypeOK, NEW s \in Sessions, Acts(s)
  PROVE  \/ UNCHANGED blobs
         \/ Stores(s)
         \/ /\ tx[s].pc = "hide" /\ tx'[s] = Idle
            /\ UNCHANGED <<row, pstate>>
            /\ \A b \in Blobs : b \notin tx[s].keys => blobs'[b] = blobs[b]
            /\ \A b \in Blobs : blobs'[b] \in {blobs[b], "hidden"}
<1>1. CASE HideKeys(s)
  <2>1. PICK K \in SUBSET tx[s].keys : blobs' = [b \in Blobs |-> IF b \in K THEN "hidden" ELSE blobs[b]]
    BY <1>1 DEF HideKeys
  <2>2. tx'[s] = Idle /\ tx[s].pc = "hide" /\ UNCHANGED <<row, pstate>>
    BY <1>1 DEF HideKeys, EndTx, TypeOK
  <2> QED
    BY <2>1, <2>2
<1>2. CASE PutPdf(s)
  <2>1. PICK b \in Blobs : /\ tx[s].pc = "render" /\ blobs[b] = "none"
                           /\ blobs' = [blobs EXCEPT ![b] = "stored"]
                           /\ UNCHANGED row
                           /\ tx'[s] = [tx[s] EXCEPT !.pc = "commit", !.blob = b]
    BY <1>2 DEF PutPdf, Goto, TypeOK
  <2>2. PICK t \in TxRecord : t = tx[s]
    BY TxType
  <2>3. /\ [t EXCEPT !.pc = "commit", !.blob = b].pc = "commit"
        /\ [t EXCEPT !.pc = "commit", !.blob = b].op = t.op
        /\ [t EXCEPT !.pc = "commit", !.blob = b].keys = t.keys
        /\ [t EXCEPT !.pc = "commit", !.blob = b].blob = b
    BY <2>2 DEF TxRecord
  <2>4. Proceeds(s, "commit") /\ tx'[s].blob = b
    BY <2>1, <2>2, <2>3 DEF Proceeds
  <2> QED
    BY <2>1, <2>4 DEF Stores
<1>3. CASE ~ HideKeys(s) /\ ~ PutPdf(s)
  BY <1>3 DEF Acts, Submit, SubmitCreate, SubmitRow, SubmitPurge, SubmitDeleteCustomer,
     Abort, DeadlockVictim, Rollback, data, Step, InsertDraft, LockRow, WriteDraft,
     DeleteDraft, ReadProject, AllocateNumber, RenderFails, CommitIssue, CommitCancel,
     ListKeys, CheckArchived, CountCustomer, ListArchived, DeleteProject, Cascade,
     CommitPurge, CommitCustomer
<1> QED
  BY <1>1, <1>2, <1>3

\* A numbered row keeps its key and its project as long as it exists, and gets
\* its key from the handler that commits it.
Keeps(i) ==
  /\ row[i].status \in Frozen
  /\ row'[i].blob = row[i].blob /\ row'[i].project = row[i].project

Books1(s, k) ==
  /\ tx[s].pc = "commit" /\ tx'[s] = Idle
  /\ UNCHANGED blobs
  /\ row[k].status \notin Frozen /\ row'[k].blob = tx[s].blob
  /\ \A i \in Invoices \ {k} : row'[i].status \in Frozen => Keeps(i)

LEMMA CarriedStep ==
  ASSUME IInv, HInv, NEW s \in Sessions, Acts(s)
  PROVE  \/ \A i \in Invoices : row'[i].status \in Frozen => Keeps(i)
         \/ \E k \in Invoices : Books1(s, k)
<1>1. CASE Drafting
  BY <1>1 DEF Drafting, Keeps, Frozen
<1>2. CASE CommitIssue(s) /\ ~ Rollback(s)
  <2> PICK k \in Invoices : k = tx[s].inv
    BY <1>2, IssuedRow
  <2>1. /\ row[k].status = "draft" /\ row'[k].blob = tx[s].blob
        /\ \A i \in Invoices \ {k} : row'[i] = row[i]
    BY <1>2, IssuedRow
  <2>2. tx[s].pc = "commit" /\ tx'[s] = Idle /\ UNCHANGED blobs
    BY <1>2 DEF CommitIssue, EndTx, IInv, TypeOK
  <2>3. Books1(s, k)
    BY <2>1, <2>2 DEF Books1, Keeps, Frozen
  <2> QED
    BY <2>3
<1>3. CASE CommitCancel(s)
  <2> PICK i \in Invoices, k \in Invoices : i = tx[s].inv /\ k = tx[s].fresh
    BY <1>3, CancelledRows
  <2>1. /\ row[i].status = "issued" /\ row[k] = NoRow
        /\ row'[i].blob = row[i].blob /\ row'[i].project = row[i].project
        /\ row'[k].blob = tx[s].blob
        /\ \A j \in Invoices \ {i, k} : row'[j] = row[j]
    BY <1>3, CancelledRows
  <2>2. tx[s].pc = "commit" /\ tx'[s] = Idle /\ UNCHANGED blobs
    BY <1>3 DEF CommitCancel, EndTx, IInv, TypeOK
  <2>3. row[k].status \notin Frozen
    BY <2>1 DEF NoRow, Frozen
  <2>4. \A j \in Invoices \ {k} : row'[j].status \in Frozen => Keeps(j)
    BY <2>1 DEF Keeps, Frozen
  <2>5. Books1(s, k)
    BY <2>1, <2>2, <2>3, <2>4 DEF Books1
  <2> QED
    BY <2>5
<1>4. CASE Destroys(s)
  BY <1>4 DEF Destroys, Destroy, Tombstone, Keeps, Frozen
<1> QED
  BY <1>1, <1>2, <1>3, <1>4, BookStep

\* A project that was inserted stays so, and a destroyed one stays destroyed.
LEMMA ProjectsStep ==
  ASSUME TypeOK, NEW s \in Sessions, Acts(s), NEW p \in Projects
  PROVE  /\ pstate[p] # "none" => pstate'[p] # "none"
         /\ pstate[p] = "gone" => pstate'[p] = "gone"
<1>1. UNCHANGED pstate \/ Destroy(tx[s].doomed)
  BY DEF Acts, Submit, SubmitCreate, SubmitRow, SubmitPurge, SubmitDeleteCustomer,
     Abort, DeadlockVictim, Rollback, data, Step, InsertDraft, LockRow, WriteDraft,
     DeleteDraft, ReadProject, AllocateNumber, PutPdf, RenderFails, CommitIssue, CommitCancel,
     ListKeys, CheckArchived, CountCustomer, ListArchived, DeleteProject, Cascade,
     CommitPurge, HideKeys, CommitCustomer
<1> QED
  BY <1>1 DEF Destroy

-----------------------------------------------------------------------------
(* Each part of KInv across a step of session s *)

LEMMA PdfStep ==
  ASSUME IInv, HInv, KInv, NEW s \in Sessions, Acts(s)
  PROVE  PdfBacked'
<1>1. \A u \in Sessions : Pending(u) /\ Listed(u)
  BY DEF KInv
<1>2. \A i \in Invoices : row[i].status \in Frozen =>
        /\ row[i].blob \in Blobs /\ blobs[row[i].blob] = "stored"
        /\ \A j \in Invoices : row[j].status \in Frozen /\ row[j].blob = row[i].blob => i = j
  BY DEF KInv, PdfBacked
<1>3. CASE \A i \in Invoices : row'[i].status \in Frozen => Keeps(i)
  <2>1. ASSUME NEW i \in Invoices, row'[i].status \in Frozen
        PROVE  blobs'[row[i].blob] = "stored"
    <3>1. row[i].status \in Frozen /\ row[i].blob \in Blobs /\ blobs[row[i].blob] = "stored"
      BY <1>2, <1>3, <2>1 DEF Keeps
    <3>2. CASE UNCHANGED blobs
      BY <3>1, <3>2
    <3>3. CASE Stores(s)
      BY <3>1, <3>3 DEF Stores, IInv, TypeOK
    <3>4. CASE tx[s].pc = "hide" /\ \A b \in Blobs : b \notin tx[s].keys => blobs'[b] = blobs[b]
      BY <1>1, <3>1, <3>4 DEF Listed
    <3> QED
      BY <3>2, <3>3, <3>4, BucketStep DEF IInv
  <2> QED
    BY <1>2, <1>3, <2>1 DEF PdfBacked, Keeps
<1>4. ASSUME NEW k \in Invoices, Books1(s, k) PROVE PdfBacked'
  <2>1. /\ tx[s].blob \in Blobs /\ blobs[tx[s].blob] = "stored"
        /\ \A i \in Invoices : row[i].status \in Frozen => row[i].blob # tx[s].blob
    BY <1>1, <1>4 DEF Books1, Pending, IInv, LocalOK, Local
  <2>2. /\ UNCHANGED blobs /\ row'[k].blob = tx[s].blob
        /\ \A i \in Invoices \ {k} : row'[i].status \in Frozen => Keeps(i)
    BY <1>4 DEF Books1
  <2> QED
    BY <1>2, <2>1, <2>2 DEF PdfBacked, Keeps
<1> QED
  BY <1>3, <1>4, CarriedStep

LEMMA OnlyStores ==
  ASSUME NEW s \in Sessions, Control(s), ~ Stores(s)
  PROVE  tx'[s].pc # "commit"
<1>1. CASE tx'[s] = Idle
  BY <1>1 DEF Idle
<1>2. CASE Starts(s)
  BY <1>2 DEF Starts
<1>3. CASE Bills(s)
  BY <1>3 DEF Bills, Proceeds
<1>4. CASE Lists(s)
  BY <1>4 DEF Lists
<1>5. CASE Checks(s) \/ Counts(s)
  BY <1>5 DEF Checks, Counts, Proceeds
<1>6. CASE Removes(s) \/ Cascades(s) \/ Purged(s)
  BY <1>6 DEF Removes, Cascades, Purged, Proceeds
<1> QED
  BY <1>1, <1>2, <1>3, <1>4, <1>5, <1>6 DEF Control

LEMMA PendingOther ==
  ASSUME IInv, HInv, KInv, NEW s \in Sessions, Acts(s), NEW u \in Sessions \ {s}
  PROVE  Pending(u)'
<1>1. tx'[u] = tx[u] /\ \A v \in Sessions \ {s} : tx'[v] = tx[v]
  BY FrameStep DEF IInv, Frame
<1> SUFFICES ASSUME tx[u].pc = "commit" PROVE Pending(u)'
  BY <1>1 DEF Pending
<1> DEFINE b == tx[u].blob
<1>2. /\ b \in Blobs /\ blobs[b] = "stored"
      /\ \A i \in Invoices : row[i].status \in Frozen => row[i].blob # b
      /\ \A v \in Sessions : tx[v].pc = "commit" /\ tx[v].blob = b => v = u
      /\ \A v \in Sessions : b \notin tx[v].keys
  BY DEF KInv, Pending, IInv, LocalOK, Local
<1>3. blobs'[b] = "stored"
  <2>1. CASE Stores(s)
    BY <1>2, <2>1 DEF Stores, IInv, TypeOK
  <2> QED
    BY <1>2, <2>1, BucketStep DEF IInv
<1>4. \A i \in Invoices : row'[i].status \in Frozen => row'[i].blob # b
  BY <1>2, CarriedStep DEF Keeps, Books1
<1>5. tx'[s].pc = "commit" => tx'[s].blob # b
  <2>1. CASE Stores(s)
    BY <1>2, <2>1 DEF Stores
  <2> QED
    BY <2>1, OnlyStores, ControlStep DEF IInv
<1>6. b \notin tx'[s].keys
  <2>1. CASE Lists(s)
    BY <1>2, <2>1 DEF Lists, FrozenIn
  <2>2. CASE ~ Lists(s)
    BY <1>2, <2>2, ControlStep DEF IInv, Control, Idle, Starts, Bills, Stores, Checks, Counts,
       Removes, Cascades, Purged, Proceeds
  <2> QED
    BY <2>1, <2>2
<1> QED
  BY <1>1, <1>2, <1>3, <1>4, <1>5, <1>6 DEF Pending

LEMMA PendingOwn ==
  ASSUME IInv, HInv, KInv, NEW s \in Sessions, Acts(s)
  PROVE  Pending(s)'
<1>1. \A v \in Sessions \ {s} : tx'[v] = tx[v]
  BY FrameStep DEF IInv, Frame
<1>2. CASE Stores(s)
  <2>1. PICK b \in Blobs : /\ blobs[b] = "none" /\ blobs'[b] = "stored"
                           /\ UNCHANGED row /\ tx'[s].blob = b /\ tx'[s].keys = tx[s].keys
    BY <1>2 DEF Stores, Proceeds, IInv, TypeOK
  <2>2. \A i \in Invoices : row[i].status \in Frozen => row[i].blob # b
    BY <2>1 DEF KInv, PdfBacked
  <2>3. \A v \in Sessions : tx[v].pc = "commit" => tx[v].blob # b
    BY <2>1 DEF KInv, Pending
  <2>4. \A v \in Sessions : b \notin tx[v].keys
    BY <2>1 DEF KInv, Listed
  <2> QED
    BY <1>1, <2>1, <2>2, <2>3, <2>4 DEF Pending
<1>3. CASE ~ Stores(s)
  <2>1. tx'[s].pc # "commit"
    BY <1>3, OnlyStores, ControlStep DEF IInv
  <2> QED
    BY <2>1 DEF Pending
<1> QED
  BY <1>2, <1>3

LEMMA ListedOther ==
  ASSUME IInv, HInv, KInv, NEW s \in Sessions, Acts(s), NEW u \in Sessions \ {s}
  PROVE  Listed(u)'
<1>1. tx'[u] = tx[u] /\ Listed(u) /\ tx[u].keys \subseteq Blobs
  BY FrameStep, TxType DEF IInv, Frame, KInv, TxRecord
<1>2. ASSUME NEW k \in tx[u].keys PROVE blobs'[k] # "none"
  <2>1. k \in Blobs /\ blobs[k] # "none"
    BY <1>1 DEF Listed
  <2>2. CASE Stores(s)
    BY <2>1, <2>2 DEF Stores, IInv, TypeOK
  <2> QED
    BY <2>1, <2>2, BucketStep DEF IInv
<1>3. ASSUME NEW i \in Invoices, row'[i].status \in Frozen, row'[i].blob \in tx[u].keys
      PROVE  tx[u].pc # "hide" /\ row'[i].project = tx[u].prj
  <2>1. CASE Keeps(i)
    BY <1>1, <1>3, <2>1 DEF Keeps, Listed
  <2>2. ASSUME NEW k \in Invoices, Books1(s, k), ~ Keeps(i) PROVE FALSE
    <3>1. row'[i].blob = tx[s].blob /\ tx[s].pc = "commit"
      BY <1>3, <2>2 DEF Books1
    <3> QED
      BY <1>3, <3>1 DEF KInv, Pending
  <2> QED
    BY <1>3, <2>1, <2>2, CarriedStep
<1> QED
  BY <1>1, <1>2, <1>3 DEF Listed

\* the keys a handler has when its step ends were listed before, or are now
LEMMA ListedOwn ==
  ASSUME IInv, HInv, NoDangling, KInv, NEW s \in Sessions, Acts(s)
  PROVE  Listed(s)'
<1>1. Listed(s) /\ Purges(s) /\ tx[s] \in TxRecord
  BY TxType DEF KInv, IInv
<1>2. CASE tx'[s].keys = {}
  BY <1>2 DEF Listed
<1>3. CASE Lists(s)
  <2>1. /\ tx[s].op = "purge" /\ tx'[s].op = "purge" /\ tx'[s].pc = "check"
        /\ UNCHANGED <<row, blobs>> /\ tx'[s].prj = tx[s].prj
        /\ tx'[s].keys = {row[i].blob : i \in FrozenIn({tx[s].prj})}
    BY <1>1, <1>3 DEF Lists, Purges
  <2>2. \A i \in Invoices : row[i].status \in Frozen /\ row[i].blob \in tx'[s].keys
          => row[i].project = tx[s].prj
    BY <2>1 DEF FrozenIn, KInv, PdfBacked
  <2>3. \A k \in tx'[s].keys : blobs[k] # "none"
    BY <2>1 DEF FrozenIn, KInv, PdfBacked
  <2> QED
    BY <2>1, <2>2, <2>3 DEF Listed
<1>4. ASSUME tx[s].keys # {}, tx'[s].keys = tx[s].keys, UNCHANGED blobs,
             \A i \in Invoices : row'[i].status \in Frozen => Keeps(i),
             tx'[s].op = "purge", tx'[s].pc \in {"delete", "cascade"},
             tx'[s].prj = tx[s].prj
      PROVE  Listed(s)'
  BY <1>1, <1>4 DEF Listed, Keeps
<1>5. CASE tx'[s].keys # {} /\ ~ Lists(s)
  <2>1. tx[s].pc \notin {"insert", "row", "count", "archived", "commit", "keys"}
          \/ tx[s].keys = {}
    BY <1>1 DEF Listed
  <2>2. Checks(s) \/ Removes(s) \/ Cascades(s) \/ Purged(s) \/ Counts(s) \/ Bills(s) \/ Stores(s)
    BY <1>5, ControlStep DEF IInv, Control, Idle, Starts
  <2>3. tx'[s].keys = tx[s].keys /\ tx'[s].op = tx[s].op
    BY <2>2 DEF Checks, Removes, Cascades, Purged, Counts, Bills, Stores, Proceeds
  <2>4. tx[s].op = "purge" /\ tx[s].pc \in {"check", "delete", "cascade", "hide"}
    BY <1>1, <1>5, <2>3 DEF Listed
  <2>5. \A i \in Invoices : row'[i].status \in Frozen => Keeps(i)
    BY <2>4, CarriedStep DEF Books1
  <2>6. tx'[s].pc # "commit" => UNCHANGED blobs
    BY <1>5, BucketStep DEF IInv, Stores, Proceeds, Idle
  <2> QED
    <3>1. CASE Checks(s)
      BY <1>4, <1>5, <2>3, <2>4, <2>5, <2>6, <3>1 DEF Checks, Proceeds
    <3>2. CASE Removes(s)
      <4>1. tx'[s].prj = tx[s].prj
        BY <1>1, <2>4, <3>2 DEF Removes, Purges
      <4> QED
        BY <1>4, <1>5, <2>3, <2>4, <2>5, <2>6, <3>2, <4>1 DEF Removes, Proceeds
    <3>3. CASE Cascades(s)
      BY <1>4, <1>5, <2>3, <2>4, <2>5, <2>6, <3>3 DEF Cascades, Proceeds
    <3>4. CASE Purged(s)
      <4>1. ASSUME NEW i \in Invoices, row'[i].status \in Frozen, row'[i].blob \in tx[s].keys
            PROVE  FALSE
        <5>1. /\ row[i].status \in Frozen /\ row[i].project = tx[s].prj
              /\ row'[i].status = row[i].status
          BY <1>1, <2>5, <3>4, <4>1 DEF Keeps, Listed, Purged, Destroys, Destroy, Tombstone, Frozen
        <5>2. row[i].project \notin tx[s].doomed
          BY <3>4, <4>1, <5>1 DEF Purged, Destroys, Destroy, Tombstone, Frozen, LiveRow
        <5>3. tx[s].doomed = {} /\ pstate[tx[s].prj] = "gone"
          BY <1>1, <3>4, <5>1, <5>2 DEF Purged, Purges
        <5> QED
          BY <5>1, <5>3 DEF NoDangling, Frozen, LiveRow, Present
      <4>2. tx'[s].pc = "hide" /\ UNCHANGED blobs
        BY <2>6, <3>4 DEF Purged, Proceeds
      <4> QED
        BY <1>1, <2>3, <2>4, <4>1, <4>2 DEF Listed
    <3>5. ~ Counts(s)
      BY <1>1, <2>4 DEF Counts, Purges
    <3>6. ~ Bills(s) /\ ~ Stores(s)
      BY <2>4 DEF Bills, Stores
    <3> QED
      BY <2>2, <3>1, <3>2, <3>3, <3>4, <3>5, <3>6
<1> QED
  BY <1>2, <1>3, <1>5

LEMMA PurgesOther ==
  ASSUME IInv, KInv, NEW s \in Sessions, Acts(s), NEW u \in Sessions \ {s}
  PROVE  Purges(u)'
<1>1. tx'[u] = tx[u] /\ Purges(u)
  BY FrameStep DEF IInv, Frame, KInv
<1> QED
  BY <1>1, ProjectsStep DEF IInv, Purges

LEMMA PurgesOwn ==
  ASSUME IInv, KInv, NEW s \in Sessions, Acts(s)
  PROVE  Purges(s)'
<1>1. Purges(s) /\ tx[s] \in TxRecord
  BY TxType DEF KInv, IInv
<1>2. CASE tx'[s] = Idle
  BY <1>2 DEF Idle, Purges
<1>3. CASE Starts(s)
  BY <1>3 DEF Starts, Purges
<1>4. CASE Bills(s)
  BY <1>4 DEF Bills, Proceeds, Purges
<1>5. CASE Stores(s)
  BY <1>5 DEF Stores, Proceeds, Purges
<1>6. CASE Lists(s)
  BY <1>1, <1>6 DEF Lists, Purges
<1>7. CASE Checks(s)
  BY <1>1, <1>7 DEF Checks, Proceeds, Purges
<1>8. CASE Counts(s)
  BY <1>1, <1>8 DEF Counts, Proceeds, Purges
<1>9. CASE Removes(s)
  <2>1. tx'[s].op = tx[s].op /\ tx'[s].pc \in {"delete", "cascade"} /\ tx[s].pc = "delete"
    BY <1>9 DEF Removes, Proceeds
  <2>2. CASE tx[s].op # "purge"
    BY <2>1, <2>2 DEF Purges
  <2>3. CASE tx[s].op = "purge"
    <3>1. /\ tx[s].prj \in Projects /\ tx[s].doomed = {tx[s].prj}
          /\ pstate[tx[s].prj] # "none"
      BY <1>1, <1>9, <2>1, <2>3 DEF Removes, Purges
    <3>2. pstate[tx[s].prj] \in Present \cup {"none", "gone"}
      BY <3>1 DEF IInv, TypeOK
    <3>3. /\ tx'[s].prj = tx[s].prj /\ UNCHANGED pstate
          /\ \/ tx'[s].doomed = tx[s].doomed
             \/ tx'[s].doomed = {} /\ pstate[tx[s].prj] \notin Present
      BY <1>9, <3>1 DEF Removes
    <3> QED
      BY <2>1, <2>3, <3>1, <3>2, <3>3 DEF Purges
  <2> QED
    BY <2>2, <2>3
<1>10. CASE Cascades(s)
  BY <1>1, <1>10, ProjectsStep DEF IInv, Cascades, Proceeds, Purges
<1>11. CASE Purged(s)
  BY <1>11 DEF Purged, Proceeds, Purges
<1> QED
  BY <1>2, <1>3, <1>4, <1>5, <1>6, <1>7, <1>8, <1>9, <1>10, <1>11, ControlStep DEF IInv, Control

LEMMA KInvStep == IInv /\ HInv /\ NoDangling /\ KInv /\ [Next]_vars => KInv'
<1> SUFFICES ASSUME IInv, HInv, NoDangling, KInv, [Next]_vars PROVE KInv'
  OBVIOUS
<1>1. CASE NoChange
  BY <1>1 DEF NoChange, vars, data, KInv, PdfBacked, Pending, Listed, Purges
<1>2. ASSUME NEW p \in Projects, OneStatement(p) PROVE KInv'
  <2>1. UNCHANGED <<row, blobs, tx>>
    BY <1>2 DEF OneStatement, CreateProject, Advance, Retreat, Move, Archive, Restore, Flip
  <2>2. PdfBacked' /\ \A s \in Sessions : Pending(s)' /\ Listed(s)'
    BY <2>1 DEF KInv, PdfBacked, Pending, Listed
  <2>3. \A q \in Projects : /\ pstate[q] # "none" => pstate'[q] # "none"
                            /\ pstate[q] = "gone" => pstate'[q] = "gone"
    BY <1>2 DEF OneStatement, CreateProject, Advance, Retreat, Move, Archive, Restore, Flip,
       IInv, TypeOK, Present
  <2>4. \A s \in Sessions : Purges(s)'
    BY <2>1, <2>3 DEF KInv, Purges
  <2> QED
    BY <2>2, <2>4 DEF KInv
<1>3. ASSUME NEW s \in Sessions, Acts(s) PROVE KInv'
  <2>1. \A u \in Sessions : Pending(u)' /\ Listed(u)' /\ Purges(u)'
    BY <1>3, PendingOther, PendingOwn, ListedOther, ListedOwn, PurgesOther, PurgesOwn
  <2> QED
    BY <1>3, <2>1, PdfStep DEF KInv
<1> QED
  BY <1>1, <1>2, <1>3, StepCases DEF Acts

\* Every issued or cancelled invoice has its PDF in the bucket under a key of
\* its own, whatever renders, rollbacks, purges and failed hides happen around
\* it: the keys a purge hides are only in rows that it destroyed.
THEOREM Pdfs == Spec => []PdfBacked
<1>1. Init => KInv
  BY DEF Init, NoRow, Idle, KInv, PdfBacked, Pending, Listed, Purges, Frozen
<1>2. IInv /\ HInv /\ NoDangling /\ KInv /\ [Next]_vars => KInv'
  BY KInvStep
<1>3. KInv => PdfBacked
  BY DEF KInv
<1> QED
  BY <1>1, <1>2, <1>3, Memory, Homes, PTL DEF Spec

-----------------------------------------------------------------------------
(* The books, as long as nobody asks for a permanent delete *)

NoPermanentDelete == Requests \cap {"purge", "customer"} = {}

\* no handler is at a statement of a permanent delete
Undeleting ==
  \A s \in Sessions :
    tx[s].pc \notin {"keys", "check", "count", "archived", "delete", "cascade", "hide"}

LEMMA UndeletingStep ==
  ASSUME NoPermanentDelete, IInv, Undeleting, [Next]_vars
  PROVE  Undeleting'
<1>1. CASE UNCHANGED tx
  BY <1>1 DEF Undeleting
<1>2. ASSUME NEW s \in Sessions, Acts(s) PROVE Undeleting'
  <2>1. \A u \in Sessions \ {s} : tx'[u] = tx[u]
    BY <1>2, FrameStep DEF IInv, Frame
  <2>2. tx[s].pc \notin {"keys", "check", "count", "archived", "delete", "cascade", "hide"}
    BY DEF Undeleting
  <2>3. CASE Submit(s)
    <3>1. \/ \E p \in Projects, i \in Invoices : SubmitCreate(s, p, i)
          \/ \E i \in Invoices, op \in RowRequests : SubmitRow(s, i, op)
      BY <2>3 DEF Submit, SubmitPurge, SubmitDeleteCustomer, NoPermanentDelete
    <3>2. CASE \E p \in Projects, i \in Invoices : SubmitCreate(s, p, i)
      <4>1. tx'[s].pc = "insert"
        BY <3>2 DEF SubmitCreate, Goto, Idle, IInv, TypeOK
      <4> QED
        BY <2>1, <4>1 DEF Undeleting
    <3>3. CASE \E i \in Invoices, op \in RowRequests : SubmitRow(s, i, op)
      <4>1. PICK i \in Invoices, op \in RowRequests : SubmitRow(s, i, op)
        BY <3>3
      <4> DEFINE t == [Idle EXCEPT !.pc = "row", !.op = op, !.inv = i, !.prj = row[i].project]
      <4>2. \/ \E j \in Invoices : tx'[s] = [t EXCEPT !.fresh = j]
            \/ \E v \in read[i] : tx'[s] = [t EXCEPT !.expected = v.version, !.seen = v.total]
        BY <4>1 DEF SubmitRow, Goto, IInv, TypeOK
      <4>3. tx'[s].pc = "row"
        BY <4>2 DEF Idle
      <4> QED
        BY <2>1, <4>3 DEF Undeleting
    <3> QED
      BY <3>1, <3>2, <3>3
  <2>4. CASE ~ Submit(s)
    <3>1. tx'[s] = Idle \/ Bills(s) \/ Stores(s)
      <4>1. Rollback(s) => tx'[s] = Idle
        BY DEF Rollback, EndTx, IInv, TypeOK
      <4>2. EndTx(s) => tx'[s] = Idle
        BY DEF EndTx, IInv, TypeOK
      <4> QED
        BY <1>2, <2>2, <2>4, <4>1, <4>2, BillControl DEF IInv, Acts, Step, Abort, DeadlockVictim,
           InsertDraft, WriteDraft, DeleteDraft, RenderFails, CommitIssue, CommitCancel,
           HideKeys, CommitCustomer, AllDeleted, ListKeys, CheckArchived, CountCustomer,
           ListArchived, DeleteProject, Cascade, CommitPurge
    <3>2. tx'[s].pc \notin {"keys", "check", "count", "archived", "delete", "cascade", "hide"}
      BY <3>1 DEF Idle, Bills, Stores, Proceeds
    <3> QED
      BY <2>1, <3>2 DEF Undeleting
  <2> QED
    BY <2>3, <2>4
<1>3. ASSUME NEW p \in Projects, OneStatement(p) PROVE UNCHANGED tx
  BY <1>3 DEF OneStatement, CreateProject, Advance, Retreat, Move, Archive, Restore, Flip
<1> QED
  BY <1>1, <1>2, <1>3, StepCases DEF Acts, NoChange, vars

LEMMA NobodyDeletes ==
  ASSUME NoPermanentDelete
  PROVE  Spec => []Undeleting
<1>1. Init => Undeleting
  BY DEF Init, Idle, Undeleting
<1>2. IInv /\ Undeleting /\ [Next]_vars => Undeleting'
  BY UndeletingStep
<1> QED
  BY <1>1, <1>2, Invariance, PTL DEF Spec

\* ADR-0026, of the behaviours without a permanent delete: no row that ever
\* carried a number is destroyed.  Drafts are deleted, and have none.
THEOREM NeverLost ==
  ASSUME NoPermanentDelete
  PROVE  Spec => []FrozenNeverLost
<1>1. Init => FrozenNeverLost
  BY DEF Init, NoRow, FrozenNeverLost
<1>2. IInv /\ HInv /\ Undeleting /\ FrozenNeverLost /\ [Next]_vars => FrozenNeverLost'
  <2> SUFFICES ASSUME IInv, HInv, Undeleting, FrozenNeverLost, [Next]_vars,
                      NEW i \in Invoices, row'[i].status = "gone"
               PROVE  row'[i].number = 0
    BY DEF FrozenNeverLost
  <2>1. CASE row'[i] = row[i]
    BY <2>1 DEF FrozenNeverLost
  <2>2. CASE row'[i] # row[i]
    <3>1. PICK s \in Sessions : Acts(s)
      BY <2>2, ChangeCases
    <3>2. Drafting
      <4>1. ~ (CommitIssue(s) /\ ~ Rollback(s))
        <5> SUFFICES ASSUME CommitIssue(s), ~ Rollback(s) PROVE FALSE
          OBVIOUS
        <5>1. /\ row'[tx[s].inv].status = "issued"
              /\ \A j \in Invoices \ {tx[s].inv} : row'[j] = row[j]
          BY IssuedRow
        <5> QED
          BY <2>2, <5>1
      <4>2. ~ CommitCancel(s)
        <5> SUFFICES ASSUME CommitCancel(s) PROVE FALSE
          OBVIOUS
        <5>1. /\ row'[tx[s].inv].status = "cancelled" /\ row'[tx[s].fresh].status = "issued"
              /\ \A j \in Invoices \ {tx[s].inv, tx[s].fresh} : row'[j] = row[j]
          BY CancelledRows
        <5> QED
          BY <2>2, <5>1
      <4>3. ~ Destroys(s)
        BY DEF Destroys, AllDeleted, Undeleting
      <4> QED
        BY <3>1, <4>1, <4>2, <4>3, BookStep
    <3>3. row[i].number = 0
      BY <2>2, <3>2 DEF Drafting, IInv, RowOK, RowShape, NoRow
    <3>4. Numberless
      <4>1. ~ (CommitIssue(s) /\ ~ Rollback(s)) /\ ~ CommitCancel(s)
        BY <3>2, IssuedRow, CancelledRows DEF Drafting
      <4> QED
        BY <3>1, <4>1, RowsStep DEF IInv
    <3> QED
      BY <3>3, <3>4 DEF Numberless
  <2> QED
    BY <2>1, <2>2
<1> QED
  BY <1>1, <1>2, Memory, NobodyDeletes, PTL DEF Spec

\* an issue books a draft under the next number of its series
LEMMA IssueBooks ==
  ASSUME IInv, NEW s \in Sessions, CommitIssue(s), ~ Rollback(s)
  PROVE  Books!Next
<1> PICK i \in Invoices : i = tx[s].inv
  BY IssuedRow
<1> PICK y \in Years : y = tx[s].year
  BY DEF IInv, LocalOK, Local, CommitIssue
<1>1. /\ row[i].status = "draft" /\ row'[i].status = "issued"
      /\ row'[i].total = row[i].total /\ row'[i].cancels = None
      /\ \A j \in Invoices \ {i} : row'[j] = row[j]
  BY IssuedRow
<1>2. SeriesOf(tx[s]) = <<y, "invoice">>
  BY DEF SeriesOf, CommitIssue
<1>3. /\ row'[i].number = seq[<<y, "invoice">>] + 1
      /\ <<row'[i].year, KindOf(row'[i])>> = <<y, "invoice">>
      /\ seq' = [seq EXCEPT ![<<y, "invoice">>] = seq[<<y, "invoice">>] + 1]
  BY <1>2, IssueEffect DEF IInv
<1>4. row[i].total \in Totals
  BY <1>1 DEF IInv, RowOK, RowShape
<1>5. row'[i].year = y
  BY <1>3
<1> DEFINE e == [j \in Invoices |-> BookedRow(row[j])]
           n == seq[<<y, "invoice">>] + 1
           f == [j \in Invoices |-> BookedRow(row'[j])]
<1>6. ~ e[i].booked
  BY <1>1 DEF BookedRow, Frozen
<1>7. BookedRow(row'[i]) = Books!Entry(y, n, row[i].total, None)
  BY <1>1, <1>3, <1>5 DEF BookedRow, Frozen, Books!Entry
<1>8. f = [e EXCEPT ![i] = Books!Entry(y, n, row[i].total, None)]
  BY <1>1, <1>7
<1>9. Books!Book(i, y, row[i].total)
  BY <1>3, <1>6, <1>8 DEF Books!Book
<1> QED
  BY <1>4, <1>9 DEF Books!Next

\* a cancel marks the entry and books the Storno, under the next number of the
\* Storno series
LEMMA CancelBooks ==
  ASSUME IInv, HInv, NEW s \in Sessions, CommitCancel(s)
  PROVE  Books!Next
<1> PICK i \in Invoices, k \in Invoices : i = tx[s].inv /\ k = tx[s].fresh
  BY CancelledRows
<1> PICK y \in Years : y = tx[s].year
  BY DEF IInv, LocalOK, Local, CommitCancel
<1>1. /\ i # k /\ row[i].status = "issued" /\ row[k] = NoRow
      /\ row'[i] = [row[i] EXCEPT !.status = "cancelled"]
      /\ \A j \in Invoices \ {i, k} : row'[j] = row[j]
  BY CancelledRows
<1>2. SeriesOf(tx[s]) = <<y, "storno">>
  BY DEF SeriesOf, CommitCancel
<1>3. /\ row'[k] = [status |-> "issued", project |-> tx[s].prj,
                    total |-> -row[i].total, version |-> 1, year |-> y,
                    number |-> seq[<<y, "storno">>] + 1, cancels |-> i, blob |-> tx[s].blob]
      /\ seq' = [seq EXCEPT ![<<y, "storno">>] = seq[<<y, "storno">>] + 1]
  BY <1>2, CancelEffect DEF IInv
<1>4. row[i] \in Row
  BY DEF IInv, TypeOK
<1> DEFINE e == [j \in Invoices |-> BookedRow(row[j])]
           n == seq[<<y, "storno">>] + 1
           f == [j \in Invoices |-> BookedRow(row'[j])]
<1>5. e[i].booked /\ ~ e[i].cancelled /\ e[i].total = row[i].total
  BY <1>1 DEF BookedRow, Frozen
<1>6. ~ e[k].booked
  BY <1>1 DEF BookedRow, Frozen, NoRow
<1>7. BookedRow(row'[i]) = [BookedRow(row[i]) EXCEPT !.cancelled = TRUE]
  <2>1. /\ row'[i].status = "cancelled" /\ row'[i].year = row[i].year
        /\ row'[i].number = row[i].number /\ row'[i].total = row[i].total
        /\ row'[i].cancels = row[i].cancels
    BY <1>1, <1>4 DEF Row
  <2>2. BookedRow(row[i]) = [booked |-> TRUE, cancelled |-> FALSE, year |-> row[i].year,
          number |-> row[i].number, total |-> row[i].total, cancels |-> row[i].cancels]
    BY <1>1 DEF BookedRow, Frozen
  <2>3. BookedRow(row'[i]) = [booked |-> TRUE, cancelled |-> TRUE, year |-> row[i].year,
          number |-> row[i].number, total |-> row[i].total, cancels |-> row[i].cancels]
    BY <2>1 DEF BookedRow, Frozen
  <2>4. PICK t, n0 : t = TRUE /\ n0 = FALSE
    OBVIOUS
  <2>5. BookedRow(row[i]) = [booked |-> t, cancelled |-> n0, year |-> row[i].year,
          number |-> row[i].number, total |-> row[i].total, cancels |-> row[i].cancels]
    BY <2>2, <2>4, Zenon
  <2>6. BookedRow(row'[i]) = [booked |-> t, cancelled |-> t, year |-> row[i].year,
          number |-> row[i].number, total |-> row[i].total, cancels |-> row[i].cancels]
    BY <2>3, <2>4, Zenon
  <2>7. BookedRow(row'[i]) = [BookedRow(row[i]) EXCEPT !.cancelled = t]
    BY <2>5, <2>6
  <2> QED
    BY <2>4, <2>7, Zenon
<1>8. BookedRow(row'[k]) = Books!Entry(y, n, -row[i].total, i)
  <2>1. /\ row'[k].status = "issued" /\ row'[k].year = y /\ row'[k].number = n
        /\ row'[k].total = -row[i].total /\ row'[k].cancels = i
    BY <1>3
  <2> QED
    BY <2>1 DEF BookedRow, Frozen, Books!Entry
<1>9. f = [e EXCEPT ![i].cancelled = TRUE, ![k] = Books!Entry(y, n, -e[i].total, i)]
  BY ZenonT(40), <1>1, <1>5, <1>7, <1>8
<1>10. Books!Cancel(i, k, y)
  BY <1>3, <1>5, <1>6, <1>9 DEF Books!Cancel
<1> QED
  BY <1>10 DEF Books!Next

\* ADR-0026, as a refinement: without permanent deletes, whatever handlers run,
\* interleaved statement by statement and rolled back anywhere, what commits
\* is the append-only, gaplessly numbered books of InvoiceBooks.
THEOREM Refinement ==
  ASSUME NoPermanentDelete
  PROVE  Spec => KeepsBooks
<1> DEFINE e == [i \in Invoices |-> BookedRow(row[i])]
<1>1. Init => Books!Init
  BY DEF Init, NoRow, Books!Init, Books!NoEntry, Books!Kinds, BookedRow, Frozen, Series, Kinds
<1>2. IInv /\ HInv /\ Undeleting /\ [Next]_vars => [Books!Next]_<<e, seq>>
  <2> SUFFICES ASSUME IInv, HInv, Undeleting, [Next]_vars
               PROVE  Books!Next \/ UNCHANGED <<e, seq>>
    OBVIOUS
  <2>1. CASE NoChange
    BY <2>1 DEF NoChange, vars, data
  <2>2. ASSUME NEW p \in Projects, OneStatement(p) PROVE UNCHANGED <<row, seq>>
    BY <2>2 DEF OneStatement, CreateProject, Advance, Retreat, Move, Archive, Restore, Flip
  <2>3. ASSUME NEW s \in Sessions, Acts(s), ~ CommitCancel(s),
               ~ (CommitIssue(s) /\ ~ Rollback(s))
        PROVE  UNCHANGED <<e, seq>>
    <3>1. Numberless
      BY <2>3, RowsStep DEF IInv
    <3>2. ~ Destroys(s)
      BY DEF Destroys, AllDeleted, Undeleting
    <3>3. Drafting
      BY <2>3, <3>2, BookStep
    <3>4. \A i \in Invoices : BookedRow(row'[i]) = BookedRow(row[i])
      BY <3>3 DEF Drafting, BookedRow, Frozen
    <3> QED
      BY <3>1, <3>4 DEF Numberless
  <2> QED
    BY <2>1, <2>2, <2>3, IssueBooks, CancelBooks, StepCases DEF Acts
<1> QED
  BY <1>1, <1>2, Memory, NobodyDeletes, PTL DEF Spec, KeepsBooks, Books!Spec
===========================================================================
