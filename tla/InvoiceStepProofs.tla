------------------------ MODULE InvoiceStepProofs ------------------------
(***************************************************************************)
(* The action properties of InvoiceLifecycle, for any number of sessions,  *)
(* projects, customers, invoices, keys and years.                          *)
(*                                                                         *)
(* IInv says what a handler has locked.  Whether it still acts on what its *)
(* client read also depends on what it remembers: the project it billed    *)
(* for, the version and the content it was asked to change.  HInv says how *)
(* that memory relates to the rows while it may have gone stale.           *)
(***************************************************************************)
EXTENDS InvoiceProofs

USE SessionsAssumption, RowsAssumption, NumbersAssumption, WorkflowAssumption,
    RequestsAssumption

-----------------------------------------------------------------------------
(* What one step of a handler does to one row *)

\* the ways a handler changes a row; ChangeStep shows there are no others
Inserted(s, i) ==
  /\ row[i].status = "none"
  /\ row'[i].status = "draft"

Edited(s, i) ==
  /\ tx[s].pc = "write" /\ i = tx[s].inv
  /\ row[i].status = "draft"
  /\ row'[i].status = "draft"
  /\ row'[i].project = row[i].project
  /\ row'[i].version = row[i].version + 1

Deleted(s, i) ==
  /\ row[i].status \in LiveRow
  /\ row'[i].status = "gone"

Issued(s, i) ==
  /\ tx[s].pc = "commit" /\ tx[s].op = "issue" /\ i = tx[s].inv
  /\ row[i].status = "draft"
  /\ row'[i].status = "issued"
  /\ row'[i].project = row[i].project
  /\ Billable(tx[s].prj)
  /\ pstate' = pstate
  /\ status' = [status EXCEPT ![tx[s].prj] = DueStatus + 1]

Cancelled(s, i) ==
  /\ row[i].status = "issued"
  /\ row'[i] = [row[i] EXCEPT !.status = "cancelled"]

Stornoed(s, i) ==
  /\ tx[s].pc = "commit" /\ tx[s].op = "cancel"
  /\ row[i].status = "none"
  /\ row'[i].status = "issued"
  /\ row'[i].project = tx[s].prj

Change(s, i) ==
  \/ row'[i] = row[i]
  \/ Inserted(s, i)
  \/ Edited(s, i)
  \/ Deleted(s, i)
  \/ Issued(s, i)
  \/ Cancelled(s, i)
  \/ Stornoed(s, i)

\* the steps that change a row at all
LEMMA RowWriters ==
  ASSUME NEW s \in Sessions, Acts(s)
  PROVE  \/ UNCHANGED row
         \/ InsertDraft(s) \/ WriteDraft(s) \/ DeleteDraft(s) \/ CommitIssue(s)
         \/ CommitCancel(s) \/ CommitPurge(s) \/ CommitCustomer(s)
<1>1. CASE Submit(s)
  BY <1>1 DEF Submit, SubmitCreate, SubmitRow, SubmitPurge, SubmitDeleteCustomer, data
<1>2. CASE Abort(s) \/ DeadlockVictim(s)
  BY <1>2 DEF Abort, DeadlockVictim, Rollback, data
<1>3. CASE Step(s)
  BY <1>3 DEF Step, LockRow, ReadProject, AllocateNumber, PutPdf, RenderFails, ListKeys,
      CheckArchived, CountCustomer, ListArchived, DeleteProject, Cascade, HideKeys,
      Rollback, data
<1> QED
  BY <1>1, <1>2, <1>3 DEF Acts

LEMMA ChangeStep ==
  ASSUME IInv, NEW s \in Sessions, Acts(s), NEW i \in Invoices
  PROVE  Change(s, i)
<1> USE DEF IInv
<1>1. CASE UNCHANGED row
  BY <1>1 DEF Change
<1>2. CASE InsertDraft(s) /\ ~ UNCHANGED row
  <2>1. tx[s].fresh \in Invoices
    BY <1>2 DEF InsertDraft, LocalOK, Local
  <2>2. row[tx[s].fresh].status = "none"
    BY <2>1 DEF FreshOK, Fresh
  <2>3. PICK t \in Totals :
          row' = [row EXCEPT ![tx[s].fresh] = [NoRow EXCEPT !.status = "draft",
                                !.project = tx[s].prj, !.total = t, !.version = 1]]
    BY <1>2 DEF InsertDraft, Rollback, data
  <2>4. row'[tx[s].fresh].status = "draft"
    BY <2>1, <2>3 DEF TypeOK, NoRow
  <2> QED
    BY <2>1, <2>2, <2>3, <2>4 DEF TypeOK, Change, Inserted
<1>3. CASE WriteDraft(s) \/ DeleteDraft(s) \/ (CommitIssue(s) /\ ~ UNCHANGED row)
  <2> DEFINE j == tx[s].inv
  <2>1. j \in Invoices /\ row[j].status = "draft"
    BY <1>3 DEF WriteDraft, DeleteDraft, CommitIssue, LocalOK, Local, HeldRowOK, HeldRow, Holding
  <2>2. row[j] \in Row
    BY <2>1 DEF TypeOK
  <2>3. CASE WriteDraft(s)
    <3>1. PICK t \in Totals :
            row' = [row EXCEPT ![j].total = t, ![j].version = row[j].version + 1]
      BY <2>3 DEF WriteDraft
    <3>2. row'[j] = [row[j] EXCEPT !.total = t, !.version = row[j].version + 1]
      BY <2>1, <3>1 DEF TypeOK
    <3>3. /\ row'[j].status = row[j].status
          /\ row'[j].project = row[j].project
          /\ row'[j].version = row[j].version + 1
      BY <2>2, <3>2 DEF Row
    <3>4. i # j => row'[i] = row[i]
      BY <3>1 DEF TypeOK
    <3> QED
      BY <2>1, <2>3, <3>3, <3>4 DEF WriteDraft, Change, Edited
  <2>4. CASE DeleteDraft(s)
    BY <2>1, <2>4 DEF DeleteDraft, TypeOK, Tombstone, Change, Deleted, LiveRow
  <2>5. CASE CommitIssue(s) /\ ~ UNCHANGED row
    <3>1. ~ Rollback(s)
      BY <2>5 DEF Rollback, data
    <3>2. /\ row'[j].status = "issued" /\ row'[j].project = row[j].project
          /\ i # j => row'[i] = row[i]
      BY <2>5, <3>1, IssueEffect
    <3>3. /\ tx[s].pc = "commit" /\ tx[s].op = "issue" /\ Billable(tx[s].prj)
          /\ UNCHANGED pstate
          /\ status' = [status EXCEPT ![tx[s].prj] = DueStatus + 1]
      BY <2>5, <3>1 DEF CommitIssue
    <3> QED
      BY <2>1, <3>2, <3>3 DEF Change, Issued
  <2> QED
    BY <1>3, <2>3, <2>4, <2>5
<1>4. CASE CommitCancel(s)
  <2> DEFINE k == tx[s].inv
             j == tx[s].fresh
  <2>1. /\ row[k].status = "issued" /\ row[j] = NoRow
        /\ row'[k] = [row[k] EXCEPT !.status = "cancelled"]
        /\ row'[j] = [status |-> "issued", project |-> tx[s].prj,
                      total |-> -row[k].total, version |-> 1, year |-> tx[s].year,
                      number |-> seq[SeriesOf(tx[s])] + 1, cancels |-> k,
                      blob |-> tx[s].blob]
        /\ i \notin {k, j} => row'[i] = row[i]
    BY <1>4, CancelEffect
  <2>2. tx[s].pc = "commit" /\ tx[s].op = "cancel"
    BY <1>4 DEF CommitCancel
  <2>3. row[j].status = "none" /\ row'[j].status = "issued" /\ row'[j].project = tx[s].prj
    BY <2>1 DEF NoRow
  <2> QED
    BY <2>1, <2>2, <2>3 DEF Change, Cancelled, Stornoed
<1>5. CASE (CommitPurge(s) \/ CommitCustomer(s)) /\ ~ UNCHANGED row
  <2>1. AllDeleted(s) /\ Destroy(tx[s].doomed)
    BY <1>5 DEF CommitPurge, CommitCustomer, Rollback, data
  <2>2. Tombstone(row[i]).status = "gone"
    BY DEF Tombstone
  <2> QED
    BY <2>1, <2>2, DestroyFrame DEF Change, Deleted
<1> QED
  BY <1>1, <1>2, <1>3, <1>4, <1>5, RowWriters

\* The one-statement handlers and stuttering change no row.
LEMMA ChangeCases ==
  ASSUME IInv, [Next]_vars
  PROVE  \/ UNCHANGED row
         \/ \E s \in Sessions : Acts(s) /\ \A i \in Invoices : Change(s, i)
<1>1. CASE NoChange
  BY <1>1 DEF NoChange, vars, data
<1>2. ASSUME NEW p \in Projects, OneStatement(p) PROVE UNCHANGED row
  BY <1>2 DEF OneStatement, CreateProject, Advance, Retreat, Move, Archive, Restore, Flip
<1>3. ASSUME NEW s \in Sessions, Acts(s) PROVE \A i \in Invoices : Change(s, i)
  BY <1>3, ChangeStep
<1> QED
  BY <1>1, <1>2, <1>3, StepCases DEF Acts

-----------------------------------------------------------------------------
(* Issued invoices are immutable *)

\* 30-invoices-immutability.sql: whatever handlers run, an issued row changes
\* only by the flip to cancelled and a cancelled row never, as long as the row
\* exists, without the help of the trigger.
THEOREM FrozenStay == Spec => FrozenImmutable
<1> DEFINE Keep ==
             \A i \in Invoices : row[i].status \in Frozen /\ row'[i].status # "gone" =>
               \/ row'[i] = row[i]
               \/ row[i].status = "issued" /\ row'[i] = [row[i] EXCEPT !.status = "cancelled"]
<1>1. IInv /\ [Next]_vars => Keep
  <2> SUFFICES ASSUME IInv, [Next]_vars PROVE Keep
    OBVIOUS
  <2>1. ASSUME NEW s \in Sessions, NEW i \in Invoices, Change(s, i), row[i].status \in Frozen,
               row'[i].status # "gone", row'[i] # row[i]
        PROVE  row[i].status = "issued" /\ row'[i] = [row[i] EXCEPT !.status = "cancelled"]
    BY <2>1 DEF Change, Inserted, Edited, Deleted, Issued, Cancelled, Stornoed, Frozen
  <2> QED
    BY <2>1, ChangeCases
<1> QED
  BY <1>1, Invariance, PTL DEF Spec, FrozenImmutable

-----------------------------------------------------------------------------
(* What a handler remembers *)

\* steps at which a handler works on an invoice row, or waits to
OnRow == Holding \cup {"row"}

\* only a handler on a row has an `inv`; one that waits for its row, or has
\* not started, has no row locked
Named(s) ==
  /\ tx[s].inv # None => tx[s].pc \in OnRow
  /\ tx[s].pc \in {"idle", "row"} => \A i \in Invoices : invLock[i] # s

\* the row stays in the project the handler read it in
SameProject(s) ==
  tx[s].pc \in OnRow =>
    /\ row[tx[s].inv].status # "none"
    /\ row[tx[s].inv].status \in LiveRow => row[tx[s].inv].project = tx[s].prj

\* a draft at the expected version has the content the client read; once the
\* row is locked it is at that version
SameContent(s) ==
  tx[s].pc \in OnRow /\ tx[s].op # "cancel" =>
    LET r == row[tx[s].inv]
    IN /\ r.status = "draft" =>
            /\ tx[s].expected <= r.version
            /\ tx[s].expected = r.version => tx[s].seen = r.total
       /\ tx[s].pc \in Holding => tx[s].expected = r.version

\* the same of the clients that have not sent their request yet
ReadOf(i) ==
  row[i].status = "draft" =>
    \A e \in read[i] :
      /\ e.version <= row[i].version
      /\ e.version = row[i].version => e.total = row[i].total

Remembers(s) == Named(s) /\ SameProject(s) /\ SameContent(s)

HInv ==
  /\ \A s \in Sessions : Remembers(s)
  /\ \A i \in Invoices : ReadOf(i)

LEMMA InitHInv == Init => HInv
  BY DEF Init, Idle, NoRow, HInv, Remembers, Named, SameProject, SameContent, ReadOf, OnRow, Holding

\* a handler that is on no row and does not wait for the next request
LEMMA OffRow ==
  ASSUME NEW s \in Sessions, tx'[s].inv = None, tx'[s].pc \notin OnRow \cup {"idle"}
  PROVE  Remembers(s)'
  BY DEF Remembers, Named, SameProject, SameContent, OnRow

\* a handler that ended with its transaction
LEMMA EndTxRemembers ==
  ASSUME TypeOK, NEW s \in Sessions, EndTx(s)
  PROVE  Remembers(s)'
<1>1. tx'[s] = Idle /\ \A i \in Invoices : invLock'[i] # s
  BY DEF EndTx, ReleaseLocks, TypeOK
<1> QED
  BY <1>1 DEF Idle, Remembers, Named, SameProject, SameContent, OnRow, Holding

\* A request reaches a handler with what its client read, which the row may
\* have left behind already.
LEMMA SubmitRemembers ==
  ASSUME IInv, HInv, NEW s \in Sessions, Submit(s)
  PROVE  Remembers(s)'
<1> USE DEF IInv
<1>1. /\ tx[s].pc = "idle" /\ UNCHANGED <<row, invLock>>
      /\ \A i \in Invoices : invLock[i] # s
  BY DEF Submit, SubmitCreate, SubmitRow, SubmitPurge, SubmitDeleteCustomer, HInv,
         Remembers, Named, data, locks
<1>2. ASSUME NEW p \in Projects, NEW i \in Invoices, SubmitCreate(s, p, i)
      PROVE  Remembers(s)'
  <2>1. tx'[s].pc = "insert" /\ tx'[s].inv = None
    BY <1>2 DEF SubmitCreate, Goto, TypeOK, Idle
  <2> QED
    BY <2>1, OffRow DEF OnRow, Holding
<1>3. ASSUME NEW p \in Projects, SubmitPurge(s, p)
      PROVE  Remembers(s)'
  <2>1. tx'[s].pc = "keys" /\ tx'[s].inv = None
    BY <1>3 DEF SubmitPurge, Goto, TypeOK, Idle
  <2> QED
    BY <2>1, OffRow DEF OnRow, Holding
<1>4. ASSUME NEW c \in Customers, SubmitDeleteCustomer(s, c)
      PROVE  Remembers(s)'
  <2>1. tx'[s].pc = "count" /\ tx'[s].inv = None
    BY <1>4 DEF SubmitDeleteCustomer, Goto, TypeOK, Idle
  <2> QED
    BY <2>1, OffRow DEF OnRow, Holding
<1>5. ASSUME NEW i \in Invoices, NEW op \in RowRequests, SubmitRow(s, i, op)
      PROVE  Remembers(s)'
  <2> DEFINE t == [Idle EXCEPT !.pc = "row", !.op = op, !.inv = i, !.prj = row[i].project]
  <2>1. row[i].status \in LiveRow
    BY <1>5 DEF SubmitRow
  <2>2. CASE op = "cancel"
    <3>1. PICK j \in Invoices : tx'[s] = [t EXCEPT !.fresh = j]
      BY <1>5, <2>2 DEF SubmitRow, Goto, TypeOK
    <3>2. /\ tx'[s].pc = "row" /\ tx'[s].op = "cancel" /\ tx'[s].inv = i
          /\ tx'[s].prj = row[i].project
      BY <2>2, <3>1 DEF Idle
    <3> QED
      BY <1>1, <2>1, <3>2 DEF Remembers, Named, SameProject, SameContent, OnRow, LiveRow
  <2>3. CASE op # "cancel"
    <3>1. PICK v \in read[i] : tx'[s] = [t EXCEPT !.expected = v.version, !.seen = v.total]
      BY <1>5, <2>3 DEF SubmitRow, Goto, TypeOK
    <3>2. /\ tx'[s].pc = "row" /\ tx'[s].inv = i /\ tx'[s].prj = row[i].project
          /\ tx'[s].expected = v.version /\ tx'[s].seen = v.total
      BY <3>1 DEF Idle
    <3>3. row[i].status = "draft" => /\ v.version <= row[i].version
                                     /\ v.version = row[i].version => v.total = row[i].total
      BY DEF HInv, ReadOf
    <3>4. SameContent(s)'
      BY <1>1, <3>2, <3>3 DEF SameContent, Holding
    <3> QED
      BY <1>1, <2>1, <3>2, <3>4 DEF Remembers, Named, SameProject, OnRow, LiveRow
  <2> QED
    BY <2>2, <2>3
<1> QED
  BY <1>2, <1>3, <1>4, <1>5 DEF Submit

\* A handler on a row moves on: it remembers the same, and what it locks is at
\* the version it expected.
LEMMA BillingRemembers ==
  ASSUME IInv, HInv, NEW s \in Sessions,
         LockRow(s) \/ ReadProject(s) \/ AllocateNumber(s) \/ PutPdf(s)
  PROVE  Remembers(s)'
<1> USE DEF IInv
<1>1. CASE Rollback(s)
  BY <1>1, EndTxRemembers DEF Rollback
<1>2. CASE ~ Rollback(s)
  <2>1. UNCHANGED row /\ tx[s].pc \in OnRow
    BY <1>2 DEF LockRow, ReadProject, AllocateNumber, PutPdf, data, OnRow, Holding
  <2>2. Remembers(s) /\ Local(s) /\ tx[s] \in TxRecord
    BY DEF HInv, LocalOK, TypeOK
  <2>3. /\ tx'[s].inv = tx[s].inv /\ tx'[s].prj = tx[s].prj /\ tx'[s].op = tx[s].op
        /\ tx'[s].expected = tx[s].expected /\ tx'[s].seen = tx[s].seen
        /\ tx'[s].pc \in Holding
    <3>1. CASE LockRow(s)
      <4>1. tx'[s] = [tx[s] EXCEPT !.pc = AfterLock(tx[s].op)]
        BY <1>2, <3>1 DEF LockRow, Goto, TypeOK
      <4>2. AfterLock(tx[s].op) \in Holding
        BY DEF AfterLock, Holding
      <4> QED
        BY <2>2, <4>1, <4>2 DEF TxRecord
    <3>2. CASE ReadProject(s)
      <4>1. tx'[s] = [tx[s] EXCEPT !.pc = "number"]
        BY <1>2, <3>2 DEF ReadProject, Goto, TypeOK
      <4> QED
        BY <2>2, <4>1 DEF TxRecord, Holding
    <3>3. CASE AllocateNumber(s)
      <4>1. PICK y \in Years : \E n :
              Goto(s, [tx[s] EXCEPT !.pc = "render", !.year = y, !.number = n])
        BY <3>3 DEF AllocateNumber
      <4>2. PICK n : tx'[s] = [tx[s] EXCEPT !.pc = "render", !.year = y, !.number = n]
        BY <4>1 DEF Goto, TypeOK
      <4> QED
        BY <2>2, <4>2 DEF TxRecord, Holding
    <3>4. CASE PutPdf(s)
      <4>1. PICK b \in Blobs : tx'[s] = [tx[s] EXCEPT !.pc = "commit", !.blob = b]
        BY <3>4 DEF PutPdf, Goto, TypeOK
      <4> QED
        BY <2>2, <4>1 DEF TxRecord, Holding
    <3> QED
      BY <3>1, <3>2, <3>3, <3>4
  <2>4. tx[s].op # "cancel" => tx[s].expected = row[tx[s].inv].version
    <3>1. CASE LockRow(s)
      BY <1>2, <3>1 DEF LockRow, RowAccepts
    <3>2. CASE ~ LockRow(s)
      <4>1. tx[s].pc \in Holding
        BY <3>2 DEF ReadProject, AllocateNumber, PutPdf, Holding
      <4> QED
        BY <2>2, <4>1 DEF Remembers, SameContent, OnRow
    <3> QED
      BY <3>1, <3>2
  <2>5. Named(s)'
    BY <2>3 DEF Named, OnRow, Holding
  <2>6. SameProject(s)'
    BY <2>1, <2>2, <2>3 DEF Remembers, SameProject
  <2>7. SameContent(s)'
    BY <2>1, <2>2, <2>3, <2>4 DEF Remembers, SameContent
  <2> QED
    BY <2>5, <2>6, <2>7 DEF Remembers
<1> QED
  BY <1>1, <1>2

\* A deleter is never on a row.
LEMMA PurgeRemembers ==
  ASSUME IInv, HInv, NEW s \in Sessions,
         \/ ListKeys(s) \/ CheckArchived(s) \/ CountCustomer(s) \/ ListArchived(s)
         \/ DeleteProject(s) \/ Cascade(s) \/ CommitPurge(s)
  PROVE  Remembers(s)'
<1> USE DEF IInv
<1>1. CASE Rollback(s)
  BY <1>1, EndTxRemembers DEF Rollback
<1>2. CASE CommitPurge(s)
  <2>1. tx'[s].inv = None /\ tx'[s].pc = "hide"
    BY <1>2 DEF CommitPurge, Goto, TypeOK, Idle
  <2> QED
    BY <2>1, OffRow DEF OnRow, Holding
<1>3. CASE ~ Rollback(s) /\ ~ CommitPurge(s)
  <2>1. tx[s].pc \notin OnRow
    BY <1>3 DEF ListKeys, CheckArchived, CountCustomer, ListArchived, DeleteProject, Cascade,
                OnRow, Holding
  <2>2. tx[s].inv = None /\ tx[s] \in TxRecord
    BY <2>1 DEF HInv, Remembers, Named, TypeOK
  <2>3. /\ tx'[s].inv = tx[s].inv
        /\ tx'[s].pc \in {"check", "delete", "archived", "cascade"}
    <3>1. CASE ListKeys(s)
      BY <2>2, <3>1 DEF ListKeys, Goto, TypeOK, TxRecord
    <3>2. CASE CheckArchived(s)
      <4>1. tx'[s] = [tx[s] EXCEPT !.pc = "delete", !.doomed = {tx[s].prj}]
        BY <1>3, <3>2 DEF CheckArchived, Goto, TypeOK
      <4> QED
        BY <2>2, <4>1 DEF TxRecord
    <3>3. CASE CountCustomer(s)
      <4>1. tx'[s] = [tx[s] EXCEPT !.pc = "archived"]
        BY <1>3, <3>3 DEF CountCustomer, Goto, TypeOK
      <4> QED
        BY <2>2, <4>1 DEF TxRecord
    <3>4. CASE ListArchived(s)
      <4>1. PICK P : tx'[s] = [tx[s] EXCEPT !.pc = "delete", !.doomed = P]
        BY <3>4 DEF ListArchived, Goto, TypeOK
      <4> QED
        BY <2>2, <4>1 DEF TxRecord
    <3>5. CASE DeleteProject(s)
      <4>1. tx[s].pc = "delete"
        BY <3>5 DEF DeleteProject
      <4>2. PICK p \in tx[s].doomed :
              \/ Goto(s, [tx[s] EXCEPT !.pc = "cascade", !.prj = p])
              \/ Goto(s, [tx[s] EXCEPT !.doomed = @ \ {p}])
        BY <3>5 DEF DeleteProject
      <4>3. CASE Goto(s, [tx[s] EXCEPT !.pc = "cascade", !.prj = p])
        BY <2>2, <4>3 DEF Goto, TypeOK, TxRecord
      <4>4. CASE Goto(s, [tx[s] EXCEPT !.doomed = @ \ {p}])
        BY <2>2, <4>1, <4>4 DEF Goto, TypeOK, TxRecord
      <4> QED
        BY <4>2, <4>3, <4>4
    <3>6. CASE Cascade(s)
      BY <2>2, <3>6 DEF Cascade, Goto, TypeOK, TxRecord
    <3> QED
      BY <1>3, <3>1, <3>2, <3>3, <3>4, <3>5, <3>6
  <2> QED
    BY <2>2, <2>3, OffRow DEF OnRow, Holding
<1> QED
  BY <1>1, <1>2, <1>3

\* The handlers of the other sessions: a row somebody else changes is either
\* not theirs yet, and then its version moves past the one they expect, or it
\* is not a draft any more.
LEMMA OthersRemember ==
  ASSUME IInv, HInv, NEW s \in Sessions, Acts(s), NEW u \in Sessions \ {s}
  PROVE  Remembers(u)'
<1> USE DEF IInv
<1>1. Frame(s) /\ RowFrame(s)
  BY FrameStep, RowFrameStep
<1>2. tx'[u] = tx[u] /\ Remembers(u) /\ Local(u) /\ HeldRow(u)
  BY <1>1 DEF Frame, HInv, LocalOK, HeldRowOK
<1>3. Named(u)'
  BY <1>1, <1>2 DEF Remembers, Named, Frame
<1>4. CASE tx[u].pc \notin OnRow
  BY <1>2, <1>3, <1>4 DEF Remembers, SameProject, SameContent
<1>5. CASE tx[u].pc \in OnRow
  <2> DEFINE i == tx[u].inv
  <2>1. i \in Invoices /\ row[i].status # "none"
    BY <1>2, <1>5 DEF Local, Remembers, SameProject, OnRow
  <2>2. row[i] \in Row
    BY <2>1 DEF TypeOK
  <2>3. CASE row'[i] = row[i]
    BY <1>2, <1>3, <2>3 DEF Remembers, SameProject, SameContent
  <2>4. CASE row'[i] # row[i]
    <3>1. invLock[i] = s
      BY <1>1, <2>1, <2>4 DEF RowFrame
    <3>2. tx[u].pc \notin Holding
      BY <1>2, <3>1 DEF HeldRow
    <3>3. Edited(s, i) \/ Deleted(s, i) \/ Issued(s, i) \/ Cancelled(s, i)
      BY <2>1, <2>4, ChangeStep DEF Change, Inserted, Stornoed
    <3>4. /\ row'[i].status # "none"
          /\ row'[i].status \in LiveRow => row[i].status \in LiveRow /\ row'[i].project = row[i].project
          /\ row'[i].status = "draft" => /\ row[i].status = "draft"
                                         /\ row'[i].version = row[i].version + 1
      BY <2>2, <3>3 DEF Edited, Deleted, Issued, Cancelled, LiveRow, Row
    <3>5. SameProject(u)'
      BY <1>2, <1>5, <3>4 DEF Remembers, SameProject
    <3>6. row'[i].status = "draft" /\ tx[u].op # "cancel" =>
            tx[u].expected <= row'[i].version /\ tx[u].expected # row'[i].version
      <4>1. tx[u].expected \in Nat /\ row[i].version \in Nat
        BY <2>2, TxType DEF TxRecord, Row
      <4> QED
        BY <1>2, <1>5, <3>4, <4>1 DEF Remembers, SameContent
    <3>7. SameContent(u)'
      BY <1>2, <3>2, <3>6 DEF SameContent
    <3> QED
      BY <1>3, <3>5, <3>7 DEF Remembers
  <2> QED
    BY <2>3, <2>4
<1> QED
  BY <1>4, <1>5

\* Clients hold versions a draft has or had.
LEMMA ReadStep ==
  ASSUME IInv, HInv, NEW s \in Sessions, Acts(s), NEW i \in Invoices
  PROVE  ReadOf(i)'
<1> USE DEF IInv
<1> SUFFICES ASSUME row'[i].status = "draft" PROVE ReadOf(i)'
  BY DEF ReadOf
<1>1. CASE InsertDraft(s) /\ ~ Rollback(s)
  <2> DEFINE j == tx[s].fresh
  <2>1. j \in Invoices
    BY <1>1 DEF InsertDraft, LocalOK, Local
  <2>2. PICK t \in Totals :
          /\ row' = [row EXCEPT ![j] = [NoRow EXCEPT !.status = "draft",
                        !.project = tx[s].prj, !.total = t, !.version = 1]]
          /\ read' = [read EXCEPT ![j] = {[version |-> 1, total |-> t]}]
    BY <1>1 DEF InsertDraft
  <2>3. CASE i = j
    <3>1. row'[i].total = t /\ row'[i].version = 1 /\ read'[i] = {[version |-> 1, total |-> t]}
      BY <2>1, <2>2, <2>3 DEF TypeOK, NoRow
    <3> QED
      BY <3>1 DEF ReadOf
  <2>4. CASE i # j
    <3>1. row'[i] = row[i] /\ read'[i] = read[i]
      BY <2>2, <2>4 DEF TypeOK
    <3> QED
      BY <3>1 DEF HInv, ReadOf
  <2> QED
    BY <2>3, <2>4
<1>2. CASE WriteDraft(s)
  <2> DEFINE j == tx[s].inv
             v == row[j].version + 1
  <2>1. j \in Invoices /\ row[j].status = "draft"
    BY <1>2 DEF WriteDraft, LocalOK, Local, HeldRowOK, HeldRow, Holding
  <2>2. PICK t \in Totals :
          /\ row' = [row EXCEPT ![j].total = t, ![j].version = v]
          /\ read' = [read EXCEPT ![j] = @ \cup {[version |-> v, total |-> t]}]
    BY <1>2 DEF WriteDraft
  <2>3. CASE i = j
    <3>1. row'[i] = [row[i] EXCEPT !.total = t, !.version = v] /\ row[i] \in Row
      BY <2>1, <2>2, <2>3 DEF TypeOK
    <3>2. row'[i].total = t /\ row'[i].version = v /\ row[i].version \in Nat
      BY <3>1 DEF Row
    <3>3. read'[i] = read[i] \cup {[version |-> v, total |-> t]}
      BY <2>1, <2>2, <2>3 DEF TypeOK
    <3>4. \A e \in read[i] : e.version \in Nat /\ e.version <= row[i].version
      <4>1. \A e \in read[i] : e \in [version : Nat, total : Totals]
        BY DEF TypeOK
      <4> QED
        BY <2>1, <2>3, <4>1 DEF HInv, ReadOf
    <3> QED
      BY <2>3, <3>2, <3>3, <3>4 DEF ReadOf
  <2>4. CASE i # j
    <3>1. row'[i] = row[i] /\ read'[i] = read[i]
      BY <2>2, <2>4 DEF TypeOK
    <3> QED
      BY <3>1 DEF HInv, ReadOf
  <2> QED
    BY <2>3, <2>4
<1>3. CASE ~ (InsertDraft(s) /\ ~ Rollback(s)) /\ ~ WriteDraft(s)
  <2>1. row'[i] = row[i]
    <3>1. ~ Inserted(s, i)
      <4>1. InsertDraft(s) => UNCHANGED row
        BY <1>3 DEF Rollback, data
      <4>2. ASSUME row'[i] # row[i] PROVE row[i].status \in LiveRow \/ CommitCancel(s)
        <5>1. CASE WriteDraft(s) \/ DeleteDraft(s) \/ CommitIssue(s)
          <6>1. row[tx[s].inv].status = "draft" /\ tx[s].inv \in Invoices
            BY <5>1 DEF WriteDraft, DeleteDraft, CommitIssue, LocalOK, Local, HeldRowOK, HeldRow, Holding
          <6>2. i # tx[s].inv => row'[i] = row[i]
            BY <5>1, <6>1 DEF WriteDraft, DeleteDraft, CommitIssue, TypeOK, Rollback, data
          <6> QED
            BY <4>2, <6>1, <6>2 DEF LiveRow
        <5>2. CASE CommitPurge(s) \/ CommitCustomer(s)
          BY <4>2, <5>2 DEF CommitPurge, CommitCustomer, Destroy, Rollback, data
        <5> QED
          BY <4>1, <4>2, <5>1, <5>2, RowWriters
      <4>3. CommitCancel(s) => row'[i] = row[i] \/ row'[i].status # "draft"
        <5> SUFFICES ASSUME CommitCancel(s) PROVE row'[i] = row[i] \/ row'[i].status # "draft"
          OBVIOUS
        <5>1. /\ tx[s].inv \in Invoices
              /\ row'[tx[s].inv] = [row[tx[s].inv] EXCEPT !.status = "cancelled"]
              /\ row'[tx[s].fresh] =
                   [status |-> "issued", project |-> tx[s].prj,
                    total |-> -row[tx[s].inv].total, version |-> 1, year |-> tx[s].year,
                    number |-> seq[SeriesOf(tx[s])] + 1, cancels |-> tx[s].inv,
                    blob |-> tx[s].blob]
              /\ i \notin {tx[s].inv, tx[s].fresh} => row'[i] = row[i]
          BY CancelEffect
        <5>2. row'[tx[s].inv].status = "cancelled"
          BY <5>1 DEF TypeOK, Row
        <5>3. row'[tx[s].fresh].status = "issued"
          BY <5>1
        <5>4. i \notin {tx[s].inv, tx[s].fresh} => row'[i] = row[i]
          BY <5>1
        <5> QED
          BY <5>2, <5>3, <5>4
      <4> QED
        BY <4>2, <4>3 DEF Inserted, LiveRow
    <3>2. ~ Edited(s, i)
      <4> SUFFICES ASSUME Edited(s, i) PROVE FALSE
        OBVIOUS
      <4>1. row'[i] # row[i]
        BY DEF Edited, TypeOK, Row
      <4>2. tx[s].pc = "write"
        BY DEF Edited
      <4>3. DeleteDraft(s)
        BY <1>3, <4>1, <4>2, RowWriters DEF InsertDraft, CommitIssue, CommitCancel, CommitPurge,
           CommitCustomer, AllDeleted
      <4>4. row'[i].status = "gone"
        BY <4>3 DEF Edited, DeleteDraft, TypeOK, Tombstone
      <4> QED
        BY <4>4
    <3> QED
      BY <3>1, <3>2, ChangeStep DEF Change, Deleted, Issued, Cancelled, Stornoed, TypeOK, Row
  <2>2. read'[i] \subseteq read[i]
    <3>1. CASE UNCHANGED read
      BY <3>1
    <3>2. CASE DeleteDraft(s) \/ CommitIssue(s)
      BY <3>2 DEF DeleteDraft, CommitIssue, TypeOK, Rollback, data
    <3>3. CASE CommitPurge(s) \/ CommitCustomer(s)
      BY <3>3 DEF CommitPurge, CommitCustomer, Destroy, Rollback, data
    <3>4. CASE Submit(s) \/ Abort(s) \/ DeadlockVictim(s) \/ Rollback(s)
      BY <3>4 DEF Submit, SubmitCreate, SubmitRow, SubmitPurge, SubmitDeleteCustomer, Abort,
         DeadlockVictim, Rollback, data
    <3>5. CASE Step(s) /\ ~ Rollback(s)
      BY <1>3, <3>2, <3>3, <3>5 DEF Step, LockRow, ReadProject, AllocateNumber, PutPdf,
         RenderFails, CommitCancel, ListKeys, CheckArchived, CountCustomer, ListArchived,
         DeleteProject, Cascade, HideKeys, data
    <3> QED
      BY <3>4, <3>5 DEF Acts
  <2> QED
    BY <2>1, <2>2 DEF HInv, ReadOf
<1> QED
  BY <1>1, <1>2, <1>3

LEMMA HInvStep == IInv /\ HInv /\ [Next]_vars => HInv'
<1> SUFFICES ASSUME IInv, HInv, [Next]_vars PROVE HInv'
  OBVIOUS
<1>1. ASSUME UNCHANGED <<row, read, invLock, tx>> PROVE HInv'
  BY <1>1 DEF HInv, Remembers, Named, SameProject, SameContent, ReadOf
<1>2. CASE NoChange
  BY <1>1, <1>2 DEF NoChange, vars, data, locks
<1>3. ASSUME NEW p \in Projects, OneStatement(p) PROVE HInv'
  BY <1>1, <1>3 DEF OneStatement, CreateProject, Advance, Retreat, Move, Archive, Restore,
                    Flip, locks
<1>4. ASSUME NEW s \in Sessions, Acts(s) PROVE HInv'
  <2>1. Remembers(s)'
    <3>1. CASE InsertDraft(s) \/ WriteDraft(s) \/ DeleteDraft(s) \/ RenderFails(s)
               \/ CommitIssue(s) \/ CommitCancel(s) \/ HideKeys(s) \/ CommitCustomer(s)
               \/ Abort(s) \/ DeadlockVictim(s)
      BY <3>1, EndTxRemembers DEF InsertDraft, WriteDraft, DeleteDraft, RenderFails, CommitIssue,
         CommitCancel, HideKeys, CommitCustomer, Abort, DeadlockVictim, Rollback, IInv
    <3> QED
      BY <1>4, <3>1, SubmitRemembers, BillingRemembers, PurgeRemembers DEF Acts, Step
  <2>2. \A u \in Sessions \ {s} : Remembers(u)'
    BY <1>4, OthersRemember
  <2>3. \A i \in Invoices : ReadOf(i)'
    BY <1>4, ReadStep
  <2> QED
    BY <2>1, <2>2, <2>3 DEF HInv
<1> QED
  BY <1>2, <1>3, <1>4, StepCases DEF Acts

\* What handlers and clients remember is never ahead of the rows, and where it
\* is not behind it is right.
LEMMA Memory == Spec => [](IInv /\ HInv)
<1>1. Init => HInv
  BY InitHInv
<1>2. IInv /\ HInv /\ [Next]_vars => HInv'
  BY HInvStep
<1> QED
  BY <1>1, <1>2, Invariance, PTL DEF Spec

-----------------------------------------------------------------------------
(* No lost update, and no invoice on a project that cannot be billed *)

\* data-model.md 6.4: an edit, a delete or an issue acts on the draft content
\* its client read, however long the request travelled or waited for the row
\* lock, and whoever edited the draft meanwhile.
THEOREM EditsWhatWasRead == Spec => NoLostUpdate
<1> DEFINE Act == \A s \in Sessions : \A i \in Invoices :
                    (tx[s].inv = i /\ invLock[i] = s /\ row[i].status = "draft" /\ row'[i] # row[i])
                      => row[i].total = tx[s].seen
<1>1. IInv /\ HInv => Act
  <2> SUFFICES ASSUME IInv, HInv, NEW s \in Sessions, NEW i \in Invoices,
                      tx[s].inv = i, invLock[i] = s, row[i].status = "draft"
               PROVE  row[i].total = tx[s].seen
    OBVIOUS
  <2>1. Remembers(s) /\ HeldRow(s)
    BY DEF IInv, HInv, HeldRowOK
  <2>2. tx[s].pc \in Holding
    BY <2>1 DEF Remembers, Named, OnRow
  <2>3. tx[s].op # "cancel"
    BY <2>1, <2>2 DEF HeldRow
  <2> QED
    BY <2>1, <2>2, <2>3 DEF Remembers, SameContent, OnRow
<1> QED
  BY <1>1, Memory, PTL DEF NoLostUpdate

\* AC-287: an issue's commit finds the invoice's own project active and in
\* 'rechnung_faellig', and moves it on in the same step, although every
\* statement before it read the project without a lock.
THEOREM IssueBills == Spec => IssueBillsProject
<1> DEFINE Act == \A i \in Invoices : row[i].status = "draft" /\ row'[i].status = "issued" =>
                    LET p == row[i].project
                    IN /\ pstate[p] = "active" /\ pstate'[p] = "active"
                       /\ status[p] = DueStatus /\ status'[p] = DueStatus + 1
<1>1. IInv /\ HInv /\ [Next]_vars => Act
  <2> SUFFICES ASSUME IInv, HInv, [Next]_vars, NEW i \in Invoices,
                      row[i].status = "draft", row'[i].status = "issued"
               PROVE  LET p == row[i].project
                      IN /\ pstate[p] = "active" /\ pstate'[p] = "active"
                         /\ status[p] = DueStatus /\ status'[p] = DueStatus + 1
    OBVIOUS
  <2>1. PICK s \in Sessions : Change(s, i)
    BY ChangeCases
  <2>2. Issued(s, i)
    BY <2>1 DEF Change, Inserted, Edited, Deleted, Cancelled, Stornoed
  <2>3. row[i].project = tx[s].prj /\ tx[s].prj \in Projects
    BY <2>2 DEF Issued, IInv, HInv, Remembers, SameProject, OnRow, Holding, LiveRow, RowOK, RowShape
  <2>4. status \in [Projects -> 1 .. LastStatus]
    BY DEF IInv, TypeOK
  <2> QED
    BY <2>2, <2>3, <2>4 DEF Issued, Billable
<1> QED
  BY <1>1, Memory, PTL DEF Spec, IssueBillsProject

\* An archived project gains no first issued invoice, not even from an issue or
\* a cancel that started before the archive: what the count of a purge found
\* stays true until somebody restores the project.
THEOREM ArchivedUnbilled == Spec => ArchivedStaysUnbilled
<1> DEFINE Act == \A p \in Projects : pstate[p] = "archived" /\ FrozenIn({p}) = {}
                    => FrozenIn({p})' = {}
<1>1. IInv /\ HInv /\ [Next]_vars => Act
  <2> SUFFICES ASSUME IInv, HInv, [Next]_vars, NEW p \in Projects, pstate[p] = "archived",
                      FrozenIn({p}) = {}, NEW i \in Invoices,
                      row'[i].status \in Frozen, row'[i].project = p
               PROVE  FALSE
    BY DEF FrozenIn
  <2>1. ~ (row[i].status \in Frozen /\ row[i].project = p)
    BY DEF FrozenIn
  <2>2. PICK s \in Sessions : Change(s, i) /\ row'[i] # row[i]
    BY <2>1, ChangeCases
  <2>3. Issued(s, i) \/ Cancelled(s, i) \/ Stornoed(s, i)
    BY <2>2 DEF Change, Inserted, Edited, Deleted, Frozen
  <2>4. CASE Issued(s, i)
    <3>1. row[i].project = tx[s].prj
      BY <2>4 DEF Issued, HInv, Remembers, SameProject, OnRow, Holding, LiveRow
    <3> QED
      BY <2>4, <3>1 DEF Issued, Billable
  <2>5. CASE Cancelled(s, i)
    BY <2>1, <2>5 DEF Cancelled, IInv, TypeOK, Row, Frozen
  <2>6. CASE Stornoed(s, i)
    <3> DEFINE j == tx[s].inv
    <3>1. tx[s].pc \in Holding /\ tx[s].op = "cancel"
      BY <2>6 DEF Stornoed, Holding
    <3>2. j \in Invoices /\ row[j].status = "issued"
      BY <3>1 DEF IInv, LocalOK, Local, HeldRowOK, HeldRow
    <3>3. row[j].project = tx[s].prj
      BY <3>1, <3>2 DEF HInv, Remembers, SameProject, OnRow, LiveRow
    <3> QED
      BY <2>6, <3>2, <3>3 DEF Stornoed, FrozenIn, Frozen
  <2> QED
    BY <2>3, <2>4, <2>5, <2>6
<1> QED
  BY <1>1, Memory, PTL DEF Spec, ArchivedStaysUnbilled
=============================================================================
