--------------------------- MODULE InvoiceProofs ---------------------------
(***************************************************************************)
(* Theorems about InvoiceLifecycle, for any number of sessions, projects,  *)
(* customers, invoices, keys and years.                                    *)
(*                                                                         *)
(* What makes the numbering gapless is not visible in GaplessNumbers: it   *)
(* holds because the transaction that has drawn a number still holds the   *)
(* series' row lock and still has a draft (or a reserved fresh id) to put  *)
(* the number on.  IInv says so, for every step a handler can be at.       *)
(***************************************************************************)
EXTENDS InvoiceRefinement, TLAPS

\* steps at which a handler holds the row lock on its invoice
Holding == {"write", "project", "number", "render", "commit"}

SeriesOf(t) == <<t.year, IF t.op = "cancel" THEN "storno" ELSE "invoice">>

\* what each status says of the other columns
RowShape(r) ==
  /\ r.status = "none" => r = NoRow
  /\ r.status \in LiveRow => r.project \in Projects
  /\ r.status = "draft" => /\ r.number = 0
                           /\ r.year = None
                           /\ r.cancels = None
                           /\ r.total \in Totals
  /\ r.status \in Frozen => /\ r.number # 0
                            /\ r.blob \in Blobs

RowOK == \A i \in Invoices : RowShape(row[i])

\* which local state a handler has at which step
Local(s) ==
  /\ tx[s].pc = "insert" => /\ tx[s].op = "create"
                            /\ tx[s].prj \in Projects
                            /\ tx[s].fresh \in Invoices
  /\ tx[s].pc \in Holding \cup {"row"} => /\ tx[s].inv \in Invoices
                                          /\ tx[s].prj \in Projects
                                          /\ tx[s].op \in RowRequests
                                          /\ tx[s].op = "cancel" => tx[s].fresh \in Invoices
  /\ tx[s].pc = "write" => tx[s].op \in {"update", "delete"}
  /\ tx[s].pc = "project" => tx[s].op = "issue"
  /\ tx[s].pc \in {"number", "render", "commit"} => tx[s].op \in {"issue", "cancel"}
  /\ tx[s].pc \in {"render", "commit"} => tx[s].year \in Years
  /\ tx[s].pc = "commit" => tx[s].blob \in Blobs
  /\ tx[s].pc \in {"keys", "check"} => tx[s].prj \in Projects

\* a locked invoice row is as its holder found it
HeldRow(s) ==
  tx[s].pc \in Holding =>
    /\ invLock[tx[s].inv] = s
    /\ row[tx[s].inv].status = (IF tx[s].op = "cancel" THEN "issued" ELSE "draft")

\* an id reserved for an insert is unused and belongs to one handler
Fresh(s) ==
  tx[s].fresh # None =>
    /\ row[tx[s].fresh].status = "none"
    /\ \A u \in Sessions : tx[u].fresh = tx[s].fresh => u = s

\* a drawn number is the next one, and nobody else can draw it
Drawn(s) ==
  tx[s].pc \in {"render", "commit"} =>
    /\ seqLock[SeriesOf(tx[s])] = s
    /\ tx[s].number = seq[SeriesOf(tx[s])] + 1

\* a deleter that has the project's row and finished its cascade has every
\* invoice row of the project as well
Cascaded(s) ==
  \A p \in Projects : prjLock[p] = s =>
    /\ tx[s].pc \in {"delete", "cascade"}
    /\ \/ tx[s].pc = "cascade" /\ tx[s].prj = p
       \/ \A i \in Invoices : row[i].status \in LiveRow /\ row[i].project = p
            => invLock[i] = s

LocalOK   == \A s \in Sessions : Local(s)
HeldRowOK == \A s \in Sessions : HeldRow(s)
FreshOK   == \A s \in Sessions : Fresh(s)
DrawnOK   == \A s \in Sessions : Drawn(s)
CascadeOK == \A s \in Sessions : Cascaded(s)

IInv ==
  /\ TypeOK
  /\ RowOK
  /\ LocalOK
  /\ HeldRowOK
  /\ FreshOK
  /\ DrawnOK
  /\ CascadeOK
  /\ GaplessNumbers

USE SessionsAssumption, RowsAssumption, NumbersAssumption, WorkflowAssumption,
    RequestsAssumption

-----------------------------------------------------------------------------
\* Everything holds before the first request.
LEMMA InitIInv == Init => IInv
<1> SUFFICES ASSUME Init PROVE IInv
  OBVIOUS
<1> USE DEF Init, NoRow, Idle
<1>1. TypeOK
  BY DEF TypeOK, Present, Row, LiveRow, TxRecord, Steps
<1>2. RowOK
  BY DEF RowOK, RowShape, LiveRow, Frozen
<1>3. LocalOK /\ HeldRowOK /\ FreshOK /\ DrawnOK /\ CascadeOK
  BY DEF LocalOK, Local, HeldRowOK, HeldRow, FreshOK, Fresh, DrawnOK, Drawn, CascadeOK, Cascaded, Holding
<1>4. GaplessNumbers
  BY DEF GaplessNumbers, Numbered
<1> QED
  BY <1>1, <1>2, <1>3, <1>4 DEF IInv

-----------------------------------------------------------------------------
(* The disjuncts of Next, once for all case splits below. *)

NoChange == UNCHANGED vars

LEMMA StepCases ==
  ASSUME [Next]_vars
  PROVE  \/ NoChange
         \/ \E p \in Projects : OneStatement(p)
         \/ \E s \in Sessions : \/ Submit(s) \/ Abort(s) \/ DeadlockVictim(s)
                                \/ Step(s)
  BY DEF Next, NoChange

-----------------------------------------------------------------------------
(* Types *)

LEMMA EndTxType ==
  ASSUME TypeOK, NEW s \in Sessions, EndTx(s)
  PROVE  /\ invLock' \in [Invoices -> Sessions \cup {None}]
         /\ seqLock' \in [Series -> Sessions \cup {None}]
         /\ prjLock' \in [Projects -> Sessions \cup {None}]
         /\ tx' \in [Sessions -> TxRecord]
<1>1. Idle \in TxRecord
  BY DEF Idle, TxRecord, Steps
<1>2. /\ invLock' \in [Invoices -> Sessions \cup {None}]
      /\ seqLock' \in [Series -> Sessions \cup {None}]
      /\ prjLock' \in [Projects -> Sessions \cup {None}]
  BY DEF TypeOK, EndTx, ReleaseLocks
<1>3. tx' \in [Sessions -> TxRecord]
  BY <1>1 DEF TypeOK, EndTx
<1> QED
  BY <1>2, <1>3

LEMMA RollbackType ==
  ASSUME TypeOK, NEW s \in Sessions, Rollback(s)
  PROVE  TypeOK'
  BY EndTxType DEF Rollback, TypeOK, data

LEMMA GotoType ==
  ASSUME TypeOK, NEW s \in Sessions, NEW t \in TxRecord, Goto(s, t)
  PROVE  tx' \in [Sessions -> TxRecord]
  BY DEF TypeOK, Goto

LEMMA DestroyType ==
  ASSUME TypeOK, NEW P \in SUBSET Projects, Destroy(P)
  PROVE  /\ pstate' \in [Projects -> Present \cup {"none", "gone"}]
         /\ row' \in [Invoices -> Row]
         /\ read' \in [Invoices -> SUBSET [version : Nat, total : Totals]]
<1>1. \A i \in Invoices : Tombstone(row[i]) \in Row
  BY DEF TypeOK, Tombstone, Row
<1> QED
  BY <1>1 DEF TypeOK, Destroy

LEMMA OneStatementType ==
  ASSUME TypeOK, NEW p \in Projects, OneStatement(p)
  PROVE  TypeOK'
<1>1. CASE CreateProject(p)
  BY <1>1 DEF CreateProject, TypeOK, locks, Present
<1>2. CASE Advance(p)
  BY <1>2 DEF Advance, Move, TypeOK, locks
<1>3. CASE Retreat(p)
  BY <1>3 DEF Retreat, Move, TypeOK, locks
<1>4. CASE Archive(p)
  BY <1>4 DEF Archive, Flip, TypeOK, locks, Present
<1>5. CASE Restore(p)
  BY <1>5 DEF Restore, Flip, TypeOK, locks, Present
<1> QED
  BY <1>1, <1>2, <1>3, <1>4, <1>5 DEF OneStatement

LEMMA SubmitType ==
  ASSUME TypeOK, NEW s \in Sessions, Submit(s)
  PROVE  TypeOK'
<1>1. ASSUME NEW p \in Projects, NEW i \in Invoices, SubmitCreate(s, p, i)
      PROVE  TypeOK'
  BY <1>1 DEF SubmitCreate, Goto, Idle, TypeOK, TxRecord, Steps, AllRequests, data, locks
<1>2. ASSUME NEW i \in Invoices, NEW op \in RowRequests, SubmitRow(s, i, op)
      PROVE  TypeOK'
  <2> DEFINE t == [Idle EXCEPT !.pc = "row", !.op = op, !.inv = i, !.prj = row[i].project]
  <2>1. row[i].project \in Projects \cup {None}
    BY DEF TypeOK, Row
  <2>2. ASSUME NEW j \in Invoices
        PROVE  [t EXCEPT !.fresh = j] \in TxRecord
    BY <2>1 DEF Idle, TxRecord, Steps, AllRequests
  <2>3. ASSUME NEW v \in read[i]
        PROVE  [t EXCEPT !.expected = v.version, !.seen = v.total] \in TxRecord
    <3>1. v \in [version : Nat, total : Totals]
      BY <2>3 DEF TypeOK
    <3> QED
      BY <2>1, <3>1 DEF Idle, TxRecord, Steps, AllRequests
  <2>4. tx' \in [Sessions -> TxRecord]
    BY <1>2, <2>2, <2>3, GotoType DEF SubmitRow
  <2> QED
    BY <1>2, <2>4 DEF SubmitRow, TypeOK, data, locks
<1>3. ASSUME NEW p \in Projects, SubmitPurge(s, p)
      PROVE  TypeOK'
  BY <1>3 DEF SubmitPurge, Goto, Idle, TypeOK, TxRecord, Steps, AllRequests, data, locks
<1>4. ASSUME NEW c \in Customers, SubmitDeleteCustomer(s, c)
      PROVE  TypeOK'
  BY <1>4 DEF SubmitDeleteCustomer, Goto, Idle, TypeOK, TxRecord, Steps, AllRequests,
              data, locks
<1> QED
  BY <1>1, <1>2, <1>3, <1>4 DEF Submit

\* Updating a function at a point.
LEMMA UpdateType ==
  ASSUME NEW D, NEW R, NEW f \in [D -> R], NEW i, NEW v \in R
  PROVE  [f EXCEPT ![i] = v] \in [D -> R]
  OBVIOUS

\* A handler that moves on, and the local state it sets while it does.
LEMMA TxFields ==
  ASSUME NEW t \in TxRecord, NEW pc \in Steps
  PROVE  /\ [t EXCEPT !.pc = pc] \in TxRecord
         /\ \A y \in Years, n \in Nat : [t EXCEPT !.pc = pc, !.year = y, !.number = n] \in TxRecord
         /\ \A b \in Blobs : [t EXCEPT !.pc = pc, !.blob = b] \in TxRecord
         /\ \A K \in SUBSET Blobs : [t EXCEPT !.pc = pc, !.keys = K] \in TxRecord
         /\ \A P \in SUBSET Projects : [t EXCEPT !.pc = pc, !.doomed = P] \in TxRecord
         /\ \A p \in Projects : [t EXCEPT !.pc = pc, !.prj = p] \in TxRecord
         /\ \A P \in SUBSET Projects : [t EXCEPT !.doomed = P] \in TxRecord
<1>1. [t EXCEPT !.pc = pc] \in TxRecord
  BY DEF TxRecord
<1>2. \A y \in Years, n \in Nat : [t EXCEPT !.pc = pc, !.year = y, !.number = n] \in TxRecord
  BY DEF TxRecord
<1>3. \A b \in Blobs : [t EXCEPT !.pc = pc, !.blob = b] \in TxRecord
  BY DEF TxRecord
<1>4. \A K \in SUBSET Blobs : [t EXCEPT !.pc = pc, !.keys = K] \in TxRecord
  BY DEF TxRecord
<1>5. \A P \in SUBSET Projects : /\ [t EXCEPT !.pc = pc, !.doomed = P] \in TxRecord
                                 /\ [t EXCEPT !.doomed = P] \in TxRecord
  BY DEF TxRecord
<1>6. \A p \in Projects : [t EXCEPT !.pc = pc, !.prj = p] \in TxRecord
  BY DEF TxRecord
<1> QED
  BY <1>1, <1>2, <1>3, <1>4, <1>5, <1>6

LEMMA TxType ==
  ASSUME TypeOK, NEW s \in Sessions
  PROVE  tx[s] \in TxRecord
  BY DEF TypeOK

LEMMA MoveOnType ==
  ASSUME TypeOK, NEW s \in Sessions, NEW pc \in Steps,
         Goto(s, [tx[s] EXCEPT !.pc = pc])
  PROVE  tx' \in [Sessions -> TxRecord]
  BY TxType, TxFields, GotoType

LEMMA StepType ==
  ASSUME TypeOK, RowOK, LocalOK, NEW s \in Sessions, Step(s)
  PROVE  TypeOK'
<1>1. CASE InsertDraft(s)
  <2>1. CASE pstate[tx[s].prj] \in Present
    <3>1. PICK t \in Totals :
            /\ row' = [row EXCEPT ![tx[s].fresh] = [NoRow EXCEPT !.status = "draft",
                          !.project = tx[s].prj, !.total = t, !.version = 1]]
            /\ read' = [read EXCEPT ![tx[s].fresh] = {[version |-> 1, total |-> t]}]
      BY <1>1, <2>1 DEF InsertDraft
    <3>2. row' \in [Invoices -> Row]
      <4>1. tx[s].prj \in Projects
        BY <1>1 DEF LocalOK, Local, InsertDraft
      <4>2. t \in Int
        OBVIOUS
      <4>3. [NoRow EXCEPT !.status = "draft", !.project = tx[s].prj, !.total = t,
                          !.version = 1] \in Row
        BY <4>1, <4>2 DEF NoRow, Row, LiveRow
      <4> QED
        BY <3>1, <4>3, UpdateType DEF TypeOK
    <3>3. read' \in [Invoices -> SUBSET [version : Nat, total : Totals]]
      <4>1. {[version |-> 1, total |-> t]} \in SUBSET [version : Nat, total : Totals]
        OBVIOUS
      <4> QED
        BY <3>1, <4>1, UpdateType DEF TypeOK
    <3> QED
      BY <1>1, <2>1, <3>2, <3>3, EndTxType DEF InsertDraft, TypeOK
  <2>2. CASE pstate[tx[s].prj] \notin Present
    BY <1>1, <2>2, RollbackType DEF InsertDraft
  <2> QED
    BY <2>1, <2>2
<1>2. CASE LockRow(s)
  <2>1. CASE Rollback(s)
    BY <2>1, RollbackType
  <2>2. CASE ~ Rollback(s)
    <3>1. AfterLock(tx[s].op) \in Steps
      BY DEF AfterLock, Steps
    <3>2. tx' \in [Sessions -> TxRecord]
      BY <1>2, <2>2, <3>1, MoveOnType DEF LockRow
    <3> QED
      BY <1>2, <2>2, <3>2 DEF LockRow, TypeOK, data
  <2> QED
    BY <2>1, <2>2
<1>3. CASE WriteDraft(s)
  <2>1. PICK t \in Totals :
          /\ row' = [row EXCEPT ![tx[s].inv].total = t,
                                ![tx[s].inv].version = row[tx[s].inv].version + 1]
          /\ read' = [read EXCEPT ![tx[s].inv] =
                        @ \cup {[version |-> row[tx[s].inv].version + 1, total |-> t]}]
    BY <1>3 DEF WriteDraft
  <2>2. tx[s].inv \in Invoices
    BY <1>3 DEF WriteDraft, LocalOK, Local, Holding
  <2>3. row[tx[s].inv].version + 1 \in Nat
    BY <2>2 DEF TypeOK, Row
  <2>4. row' \in [Invoices -> Row]
    BY SMTT(30), <2>1, <2>2, <2>3 DEF TypeOK, Row
  <2>5. read' \in [Invoices -> SUBSET [version : Nat, total : Totals]]
    <3>1. read[tx[s].inv] \cup {[version |-> row[tx[s].inv].version + 1, total |-> t]}
            \in SUBSET [version : Nat, total : Totals]
      BY <2>2, <2>3 DEF TypeOK
    <3> QED
      BY <2>1, <3>1, UpdateType DEF TypeOK
  <2> QED
    BY <1>3, <2>4, <2>5, EndTxType DEF WriteDraft, TypeOK
<1>4. CASE DeleteDraft(s)
  <2>1. \A i \in Invoices : Tombstone(row[i]) \in Row
    BY DEF TypeOK, Tombstone, Row
  <2>2. row' \in [Invoices -> Row]
    BY <1>4, <2>1 DEF DeleteDraft, TypeOK
  <2> QED
    BY <1>4, <2>2, EndTxType DEF DeleteDraft, TypeOK
<1>5. CASE ReadProject(s)
  BY <1>5, RollbackType, MoveOnType DEF ReadProject, TypeOK, data, locks, Steps
<1>6. CASE AllocateNumber(s)
  <2> PICK y \in Years :
        LET q == <<y, IF tx[s].op = "cancel" THEN "storno" ELSE "invoice">>
        IN /\ seqLock' = [seqLock EXCEPT ![q] = s]
           /\ Goto(s, [tx[s] EXCEPT !.pc = "render", !.year = y, !.number = seq[q] + 1])
           /\ UNCHANGED <<data, invLock, prjLock>>
    BY <1>6 DEF AllocateNumber
  <2> DEFINE q == <<y, IF tx[s].op = "cancel" THEN "storno" ELSE "invoice">>
  <2>1. q \in Series
    BY DEF Series, Kinds
  <2>2. seq[q] + 1 \in Nat
    BY <2>1 DEF TypeOK
  <2>3. tx' \in [Sessions -> TxRecord]
    BY <2>2, TxType, TxFields, GotoType DEF Steps
  <2> QED
    BY <2>3 DEF TypeOK, data
<1>7. CASE PutPdf(s)
  <2>1. tx' \in [Sessions -> TxRecord]
    BY <1>7, TxType, TxFields, GotoType DEF PutPdf, Steps
  <2> QED
    BY <1>7, <2>1 DEF PutPdf, TypeOK, locks
<1>8. CASE RenderFails(s)
  BY <1>8, RollbackType DEF RenderFails
<1>9. CASE CommitIssue(s)
  <2>1. CASE Rollback(s)
    BY <2>1, RollbackType
  <2>2. CASE ~ Rollback(s)
    <3>1. tx[s].number \in Nat /\ tx[s].blob \in Blobs \cup {None}
          /\ tx[s].year \in Years \cup {None}
      BY DEF TypeOK, TxRecord
    <3>2. row' \in [Invoices -> Row]
      BY SMTT(30), <1>9, <2>2, <3>1 DEF CommitIssue, TypeOK, Row, LiveRow
    <3>3. status' \in [Projects -> 1 .. LastStatus]
      BY <1>9, <2>2 DEF CommitIssue, TypeOK
    <3>4. seq' \in [Series -> Nat]
      BY <1>9, <2>2, <3>1 DEF CommitIssue, TypeOK
    <3>5. read' \in [Invoices -> SUBSET [version : Nat, total : Totals]]
      BY <1>9, <2>2 DEF CommitIssue, TypeOK
    <3> QED
      BY <1>9, <2>2, <3>2, <3>3, <3>4, <3>5, EndTxType DEF CommitIssue, TypeOK
  <2> QED
    BY <2>1, <2>2
<1>10. CASE CommitCancel(s)
  <2> DEFINE i == tx[s].inv
             storno == [status |-> "issued", project |-> tx[s].prj,
                        total |-> -row[i].total, version |-> 1, year |-> tx[s].year,
                        number |-> tx[s].number, cancels |-> i, blob |-> tx[s].blob]
  <2>1. i \in Invoices
    BY <1>10 DEF CommitCancel, LocalOK, Local, Holding
  <2>2. storno \in Row
    BY <2>1 DEF TypeOK, TxRecord, Row, LiveRow
  <2>3. row' = [row EXCEPT ![tx[s].fresh] = storno, ![i].status = "cancelled"]
    BY <1>10 DEF CommitCancel
  <2>4. row' \in [Invoices -> Row]
    <3>1. [row EXCEPT ![tx[s].fresh] = storno] \in [Invoices -> Row]
      BY <2>2, UpdateType DEF TypeOK
    <3>2. \A r \in Row : [r EXCEPT !.status = "cancelled"] \in Row
      BY DEF Row, LiveRow
    <3> QED
      BY <2>1, <2>3, <3>1, <3>2
  <2>5. seq' \in [Series -> Nat]
    BY <1>10 DEF CommitCancel, TypeOK, TxRecord
  <2> QED
    BY <1>10, <2>4, <2>5, EndTxType DEF CommitCancel, TypeOK
<1>11. CASE ListKeys(s)
  <2>1. {row[i].blob : i \in FrozenIn({tx[s].prj})} \in SUBSET Blobs
    BY DEF FrozenIn, RowOK, RowShape
  <2>2. tx' \in [Sessions -> TxRecord]
    BY <1>11, <2>1, TxType, TxFields, GotoType DEF ListKeys, Steps
  <2> QED
    BY <1>11, <2>2 DEF ListKeys, TypeOK, data, locks
<1>12. CASE CheckArchived(s)
  <2>1. CASE Rollback(s)
    BY <2>1, RollbackType
  <2>2. CASE ~ Rollback(s)
    <3>1. {tx[s].prj} \in SUBSET Projects
      BY <1>12 DEF CheckArchived, LocalOK, Local
    <3>2. tx' \in [Sessions -> TxRecord]
      BY <1>12, <2>2, <3>1, TxType, TxFields, GotoType DEF CheckArchived, Steps
    <3> QED
      BY <1>12, <2>2, <3>2 DEF CheckArchived, TypeOK, data, locks
  <2> QED
    BY <2>1, <2>2
<1>13. CASE CountCustomer(s)
  BY <1>13, RollbackType, MoveOnType DEF CountCustomer, TypeOK, data, locks, Steps
<1>14. CASE ListArchived(s)
  <2>1. tx' \in [Sessions -> TxRecord]
    BY <1>14, TxType, TxFields, GotoType DEF ListArchived, ProjectsOf, Steps
  <2> QED
    BY <1>14, <2>1 DEF ListArchived, TypeOK, data, locks
<1>15. CASE DeleteProject(s)
  <2>1. PICK p \in Projects :
          IF pstate[p] \in Present
          THEN /\ prjLock' = [prjLock EXCEPT ![p] = s]
               /\ Goto(s, [tx[s] EXCEPT !.pc = "cascade", !.prj = p])
          ELSE /\ Goto(s, [tx[s] EXCEPT !.doomed = @ \ {p}])
               /\ UNCHANGED prjLock
    BY <1>15 DEF DeleteProject, TypeOK, TxRecord
  <2>2. tx' \in [Sessions -> TxRecord]
    <3>1. tx[s].doomed \ {p} \in SUBSET Projects
      BY DEF TypeOK, TxRecord
    <3> QED
      BY <2>1, <3>1, TxType, TxFields, GotoType DEF Steps
  <2> QED
    BY <1>15, <2>1, <2>2 DEF DeleteProject, TypeOK, data
<1>16. CASE Cascade(s)
  <2>1. tx' \in [Sessions -> TxRecord]
    BY <1>16, MoveOnType DEF Cascade, Steps
  <2> QED
    BY <1>16, <2>1 DEF Cascade, TypeOK, data
<1>17. CASE CommitPurge(s)
  <2>1. tx[s].doomed \in SUBSET Projects
    BY DEF TypeOK, TxRecord
  <2>2. tx' \in [Sessions -> TxRecord]
    BY <1>17 DEF CommitPurge, TypeOK, Goto, Idle, TxRecord, Steps, AllRequests
  <2> QED
    BY <1>17, <2>1, <2>2, DestroyType DEF CommitPurge, TypeOK, ReleaseLocks
<1>18. CASE HideKeys(s)
  <2>1. blobs' \in [Blobs -> {"none", "stored", "hidden"}]
    BY <1>18 DEF HideKeys, TypeOK
  <2> QED
    BY <1>18, <2>1, EndTxType DEF HideKeys, TypeOK
<1>19. CASE CommitCustomer(s)
  <2>1. tx[s].doomed \in SUBSET Projects
    BY DEF TypeOK, TxRecord
  <2> QED
    BY <1>19, <2>1, DestroyType, EndTxType, RollbackType DEF CommitCustomer, TypeOK
<1> QED
  BY <1>1, <1>2, <1>3, <1>4, <1>5, <1>6, <1>7, <1>8, <1>9, <1>10, <1>11, <1>12,
     <1>13, <1>14, <1>15, <1>16, <1>17, <1>18, <1>19 DEF Step

LEMMA TypeStep ==
  ASSUME TypeOK, RowOK, LocalOK, [Next]_vars
  PROVE  TypeOK'
<1>1. CASE NoChange
  BY <1>1 DEF NoChange, vars, data, locks, TypeOK
<1>2. ASSUME NEW s \in Sessions, Abort(s) \/ DeadlockVictim(s)
      PROVE  TypeOK'
  BY <1>2, RollbackType DEF Abort, DeadlockVictim
<1> QED
  BY <1>1, <1>2, StepCases, OneStatementType, SubmitType, StepType

-----------------------------------------------------------------------------
(* What a handler of one session leaves alone *)

Acts(s) == Submit(s) \/ Step(s) \/ Abort(s) \/ DeadlockVictim(s)

\* the local state and the locks of the other sessions
Frame(s) ==
  \A u \in Sessions \ {s} :
    /\ tx'[u] = tx[u]
    /\ \A i \in Invoices : invLock[i] = u <=> invLock'[i] = u
    /\ \A q \in Series : seqLock[q] = u <=> seqLock'[q] = u
    /\ \A p \in Projects : prjLock[p] = u <=> prjLock'[p] = u

LEMMA GotoFrame ==
  ASSUME TypeOK, NEW s \in Sessions, NEW t, Goto(s, t), UNCHANGED locks
  PROVE  Frame(s)
  BY DEF Goto, TypeOK, locks, Frame

LEMMA ReleaseFrame ==
  ASSUME TypeOK, NEW s \in Sessions, NEW t, Goto(s, t), ReleaseLocks(s)
  PROVE  Frame(s)
  BY DEF Goto, ReleaseLocks, TypeOK, Frame

LEMMA EndTxFrame ==
  ASSUME TypeOK, NEW s \in Sessions, EndTx(s)
  PROVE  Frame(s)
  BY ReleaseFrame DEF EndTx, Goto

LEMMA FrameStep ==
  ASSUME TypeOK, LocalOK, NEW s \in Sessions, Acts(s)
  PROVE  Frame(s)
<1>1. CASE Submit(s)
  BY <1>1, GotoFrame DEF Submit, SubmitCreate, SubmitRow, SubmitPurge, SubmitDeleteCustomer
<1>2. CASE Abort(s) \/ DeadlockVictim(s)
  BY <1>2, EndTxFrame DEF Abort, DeadlockVictim, Rollback
<1>3. CASE InsertDraft(s) \/ WriteDraft(s) \/ DeleteDraft(s) \/ RenderFails(s)
           \/ CommitIssue(s) \/ CommitCancel(s) \/ HideKeys(s) \/ CommitCustomer(s)
  BY <1>3, EndTxFrame DEF InsertDraft, WriteDraft, DeleteDraft, RenderFails, CommitIssue,
                          CommitCancel, HideKeys, CommitCustomer, Rollback
<1>4. CASE ReadProject(s) \/ PutPdf(s) \/ ListKeys(s) \/ CheckArchived(s)
           \/ CountCustomer(s) \/ ListArchived(s)
  BY <1>4, EndTxFrame, GotoFrame DEF ReadProject, PutPdf, ListKeys, CheckArchived,
                                     CountCustomer, ListArchived, Rollback
<1>5. CASE LockRow(s)
  BY <1>5, EndTxFrame DEF LockRow, Rollback, Goto, TypeOK, Frame
<1>6. CASE AllocateNumber(s)
  BY <1>6 DEF AllocateNumber, Goto, TypeOK, Frame
<1>7. CASE DeleteProject(s)
  BY <1>7 DEF DeleteProject, Goto, TypeOK, Frame
<1>8. CASE Cascade(s)
  BY <1>8 DEF Cascade, Goto, TypeOK, Frame
<1>9. CASE CommitPurge(s)
  BY <1>9, ReleaseFrame DEF CommitPurge
<1> QED
  BY <1>1, <1>2, <1>3, <1>4, <1>5, <1>6, <1>7, <1>8, <1>9 DEF Acts, Step

\* The invoice rows a handler changes are rows it has locked, which stay in
\* their project, and the fresh row it inserts, into a project no deleter has.
RowFrame(s) ==
  \A i \in Invoices :
    \/ row'[i] = row[i]
    \/ /\ invLock[i] = s
       /\ row[i].status \in LiveRow
       /\ row'[i].status \in LiveRow => row'[i].project = row[i].project
    \/ /\ i = tx[s].fresh
       /\ row[i].status = "none"
       /\ row'[i].project = tx[s].prj
       /\ tx[s].prj \in Projects
       /\ prjLock[tx[s].prj] = None

\* A committing deleter has every invoice row of its projects.
LEMMA DestroyFrame ==
  ASSUME TypeOK, CascadeOK, NEW s \in Sessions, AllDeleted(s), Destroy(tx[s].doomed)
  PROVE  \A i \in Invoices : \/ row'[i] = row[i]
                              \/ /\ invLock[i] = s
                                 /\ row[i].status \in LiveRow
                                 /\ row'[i] = Tombstone(row[i])
<1> TAKE i \in Invoices
<1>1. CASE ~ (row[i].status \in LiveRow /\ row[i].project \in tx[s].doomed)
  BY <1>1 DEF Destroy
<1>2. CASE row[i].status \in LiveRow /\ row[i].project \in tx[s].doomed
  <2>1. row[i].project \in Projects
    BY <1>2 DEF TypeOK, TxRecord
  <2>2. prjLock[row[i].project] = s /\ tx[s].pc = "delete"
    BY <1>2 DEF AllDeleted
  <2>3. invLock[i] = s
    BY <1>2, <2>1, <2>2 DEF CascadeOK, Cascaded, AllDeleted
  <2> QED
    BY <1>2, <2>3 DEF Destroy
<1> QED
  BY <1>1, <1>2

LEMMA RowFrameStep ==
  ASSUME TypeOK, RowOK, LocalOK, HeldRowOK, FreshOK, CascadeOK,
         NEW s \in Sessions, Acts(s)
  PROVE  RowFrame(s)
<1>1. CASE UNCHANGED row
  BY <1>1 DEF RowFrame
<1>2. CASE InsertDraft(s) /\ ~ UNCHANGED row
  <2>1. /\ prjLock[tx[s].prj] = None
        /\ tx[s].prj \in Projects /\ tx[s].fresh \in Invoices
    BY <1>2 DEF InsertDraft, LocalOK, Local
  <2>2. row[tx[s].fresh].status = "none"
    BY <2>1 DEF FreshOK, Fresh
  <2>3. PICK t \in Totals :
          row' = [row EXCEPT ![tx[s].fresh] = [NoRow EXCEPT !.status = "draft",
                                !.project = tx[s].prj, !.total = t, !.version = 1]]
    BY <1>2 DEF InsertDraft, Rollback, data
  <2>4. row'[tx[s].fresh].project = tx[s].prj
    BY <2>1, <2>3 DEF TypeOK, NoRow
  <2> QED
    BY <2>1, <2>2, <2>3, <2>4 DEF RowFrame, TypeOK
<1>3. CASE WriteDraft(s) \/ DeleteDraft(s) \/ (CommitIssue(s) /\ ~ UNCHANGED row)
  <2> DEFINE i == tx[s].inv
  <2>1. i \in Invoices /\ invLock[i] = s /\ row[i].status = "draft"
    BY <1>3 DEF WriteDraft, DeleteDraft, CommitIssue, LocalOK, Local, HeldRowOK, HeldRow, Holding
  <2>2. \A j \in Invoices : j # i => row'[j] = row[j]
    BY ZenonT(40), <1>3, <2>1 DEF WriteDraft, DeleteDraft, CommitIssue, TypeOK, Rollback, data
  <2>3. row'[i].status \in LiveRow => row'[i].project = row[i].project
    <3>1. CASE WriteDraft(s)
      BY <2>1, <3>1 DEF WriteDraft, TypeOK, Row
    <3>2. CASE DeleteDraft(s)
      BY <2>1, <3>2 DEF DeleteDraft, TypeOK, Tombstone, LiveRow
    <3>3. CASE CommitIssue(s) /\ ~ UNCHANGED row
      BY <2>1, <3>3 DEF CommitIssue, TypeOK, Row, Rollback, data
    <3> QED
      BY <1>3, <3>1, <3>2, <3>3
  <2> QED
    BY <2>1, <2>2, <2>3 DEF RowFrame, LiveRow
<1>4. CASE CommitCancel(s)
  <2> DEFINE i == tx[s].inv
             j == tx[s].fresh
  <2>1. /\ i \in Invoices /\ invLock[i] = s /\ row[i].status = "issued"
        /\ j \in Invoices /\ tx[s].prj \in Projects /\ prjLock[tx[s].prj] = None
    BY <1>4 DEF CommitCancel, LocalOK, Local, HeldRowOK, HeldRow, Holding
  <2>2. row[j].status = "none" /\ i # j
    BY <2>1 DEF FreshOK, Fresh
  <2>3. /\ row'[i] = [row[i] EXCEPT !.status = "cancelled"]
        /\ row'[j].project = tx[s].prj
        /\ \A k \in Invoices \ {i, j} : row'[k] = row[k]
    BY <1>4, <2>1, <2>2 DEF CommitCancel, TypeOK
  <2>4. row'[i].project = row[i].project
    BY <2>1, <2>3 DEF TypeOK, Row
  <2> QED
    BY <2>1, <2>2, <2>3, <2>4 DEF RowFrame, LiveRow
<1>5. CASE (CommitPurge(s) \/ CommitCustomer(s)) /\ ~ UNCHANGED row
  <2>1. AllDeleted(s) /\ Destroy(tx[s].doomed)
    BY <1>5 DEF CommitPurge, CommitCustomer, Rollback, data
  <2>2. \A i \in Invoices : Tombstone(row[i]).status \notin LiveRow
    BY DEF Tombstone, LiveRow
  <2> QED
    BY <2>1, <2>2, DestroyFrame DEF RowFrame
<1>6. UNCHANGED row \/ InsertDraft(s) \/ WriteDraft(s) \/ DeleteDraft(s) \/ CommitIssue(s)
      \/ CommitCancel(s) \/ CommitPurge(s) \/ CommitCustomer(s)
  <2>1. CASE Submit(s)
    BY <2>1 DEF Submit, SubmitCreate, SubmitRow, SubmitPurge, SubmitDeleteCustomer, data
  <2>2. CASE Abort(s) \/ DeadlockVictim(s)
    BY <2>2 DEF Abort, DeadlockVictim, Rollback, data
  <2>3. CASE Step(s)
    BY <2>3 DEF Step, LockRow, ReadProject, AllocateNumber, PutPdf, RenderFails, ListKeys,
        CheckArchived, CountCustomer, ListArchived, DeleteProject, Cascade, HideKeys,
        Rollback, data
  <2> QED
    BY <2>1, <2>2, <2>3 DEF Acts
<1> QED
  BY <1>1, <1>2, <1>3, <1>4, <1>5, <1>6

\* A handler changes a series' counter only while it has the counter's lock.
SeqFrame(s) == \A q \in Series : seq'[q] = seq[q] \/ seqLock[q] = s

LEMMA SeqFrameStep ==
  ASSUME TypeOK, LocalOK, DrawnOK, NEW s \in Sessions, Acts(s)
  PROVE  SeqFrame(s)
<1>1. CASE UNCHANGED seq
  BY <1>1 DEF SeqFrame
<1>2. CASE CommitIssue(s) /\ ~ UNCHANGED seq
  <2>1. seqLock[<<tx[s].year, "invoice">>] = s
    BY <1>2 DEF CommitIssue, DrawnOK, Drawn, SeriesOf
  <2> QED
    BY <1>2, <2>1 DEF CommitIssue, SeqFrame, TypeOK, Rollback, data
<1>3. CASE CommitCancel(s)
  <2>1. seqLock[<<tx[s].year, "storno">>] = s
    BY <1>3 DEF CommitCancel, DrawnOK, Drawn, SeriesOf
  <2> QED
    BY <1>3, <2>1 DEF CommitCancel, SeqFrame, TypeOK
<1>4. UNCHANGED seq \/ CommitIssue(s) \/ CommitCancel(s)
  <2>1. CASE Submit(s)
    BY <2>1 DEF Submit, SubmitCreate, SubmitRow, SubmitPurge, SubmitDeleteCustomer, data
  <2>2. CASE Abort(s) \/ DeadlockVictim(s)
    BY <2>2 DEF Abort, DeadlockVictim, Rollback, data
  <2>3. CASE Step(s)
    BY <2>3 DEF Step, InsertDraft, LockRow, WriteDraft, DeleteDraft, ReadProject,
        AllocateNumber, PutPdf, RenderFails, ListKeys, CheckArchived, CountCustomer,
        ListArchived, DeleteProject, Cascade, CommitPurge, HideKeys, CommitCustomer,
        Rollback, data
  <2> QED
    BY <2>1, <2>2, <2>3 DEF Acts
<1> QED
  BY <1>1, <1>2, <1>3, <1>4

\* a reservation a handler makes is of an id nobody has reserved
NewFresh(s) ==
  \/ tx'[s].fresh \in {None, tx[s].fresh}
  \/ tx'[s].fresh \in Invoices \ Reserved

\* The handlers of the other sessions are where they were, and what they rely
\* on still holds.
LEMMA OthersOK ==
  ASSUME TypeOK, RowOK, LocalOK, HeldRowOK, FreshOK, DrawnOK, CascadeOK,
         NEW s \in Sessions, Frame(s), RowFrame(s), SeqFrame(s), NewFresh(s),
         NEW u \in Sessions \ {s}
  PROVE  Local(u)' /\ HeldRow(u)' /\ Fresh(u)' /\ Drawn(u)' /\ Cascaded(u)'
<1>1. tx'[u] = tx[u]
  BY DEF Frame
<1>2. Local(u) /\ HeldRow(u) /\ Fresh(u) /\ Drawn(u) /\ Cascaded(u)
  BY DEF LocalOK, HeldRowOK, FreshOK, DrawnOK, CascadeOK
<1>3. Local(u)'
  BY <1>1, <1>2 DEF Local
<1>4. HeldRow(u)'
  <2> SUFFICES ASSUME tx[u].pc \in Holding PROVE HeldRow(u)'
    BY <1>1 DEF HeldRow
  <2>1. tx[u].inv \in Invoices
    BY <1>2 DEF Local
  <2>2. invLock[tx[u].inv] = u /\ row[tx[u].inv].status \in {"issued", "draft"}
    BY <1>2 DEF HeldRow
  <2>3. row'[tx[u].inv] = row[tx[u].inv] /\ invLock'[tx[u].inv] = u
    BY <2>1, <2>2 DEF RowFrame, Frame
  <2> QED
    BY <1>1, <1>2, <2>3 DEF HeldRow
<1>5. Fresh(u)'
  <2> SUFFICES ASSUME tx[u].fresh # None PROVE Fresh(u)'
    BY <1>1 DEF Fresh
  <2>1. tx[u].fresh \in Invoices
    BY DEF TypeOK, TxRecord
  <2>2. row[tx[u].fresh].status = "none" /\ tx[u].fresh # tx[s].fresh
    BY <1>2 DEF Fresh
  <2>3. row'[tx[u].fresh] = row[tx[u].fresh]
    BY <2>1, <2>2 DEF RowFrame, LiveRow
  <2>4. tx'[s].fresh # tx[u].fresh
    BY <2>2 DEF NewFresh, Reserved
  <2>5. \A w \in Sessions \ {s} : tx'[w] = tx[w]
    BY DEF Frame
  <2> QED
    BY <1>1, <1>2, <2>2, <2>3, <2>4, <2>5 DEF Fresh
<1>6. Drawn(u)'
  <2> SUFFICES ASSUME tx[u].pc \in {"render", "commit"} PROVE Drawn(u)'
    BY <1>1 DEF Drawn
  <2>1. SeriesOf(tx[u]) \in Series
    BY <1>2 DEF Local, SeriesOf, Series, Kinds
  <2>2. seqLock[SeriesOf(tx[u])] = u
    BY <1>2 DEF Drawn
  <2>3. seq'[SeriesOf(tx[u])] = seq[SeriesOf(tx[u])] /\ seqLock'[SeriesOf(tx[u])] = u
    BY <2>1, <2>2 DEF SeqFrame, Frame
  <2> QED
    BY <1>1, <1>2, <2>3 DEF Drawn
<1>7. Cascaded(u)'
  <2> SUFFICES ASSUME NEW p \in Projects, prjLock'[p] = u
               PROVE  /\ tx'[u].pc \in {"delete", "cascade"}
                      /\ \/ tx'[u].pc = "cascade" /\ tx'[u].prj = p
                         \/ \A i \in Invoices : row'[i].status \in LiveRow /\ row'[i].project = p
                              => invLock'[i] = u
    BY DEF Cascaded
  <2>1. prjLock[p] = u
    BY DEF Frame
  <2>2. CASE tx[u].pc = "cascade" /\ tx[u].prj = p
    BY <1>1, <2>2
  <2>3. CASE ~ (tx[u].pc = "cascade" /\ tx[u].prj = p)
    <3>1. \A i \in Invoices : row[i].status \in LiveRow /\ row[i].project = p => invLock[i] = u
      BY <1>2, <2>1, <2>3 DEF Cascaded
    <3> SUFFICES ASSUME NEW i \in Invoices, row'[i].status \in LiveRow, row'[i].project = p
                 PROVE  invLock'[i] = u
      BY <1>1, <1>2, <2>1 DEF Cascaded
    <3>2. CASE row'[i] = row[i]
      BY <3>1, <3>2 DEF Frame
    <3>3. CASE invLock[i] = s /\ row[i].status \in LiveRow /\ row'[i].project = row[i].project
      BY <3>1, <3>3
    <3>4. CASE row'[i].project = tx[s].prj /\ prjLock[tx[s].prj] = None
      BY <2>1, <3>4
    <3> QED
      BY <3>2, <3>3, <3>4 DEF RowFrame
  <2> QED
    BY <2>2, <2>3
<1> QED
  BY <1>3, <1>4, <1>5, <1>6, <1>7

-----------------------------------------------------------------------------
(* What a handler relies on itself *)

OwnOK(s) == Local(s)' /\ HeldRow(s)' /\ Fresh(s)' /\ Drawn(s)' /\ Cascaded(s)' /\ NewFresh(s)

\* the transaction is over and its locks are released
Done(s) ==
  /\ tx'[s].pc \in {"idle", "hide"}
  /\ tx'[s].fresh = None
  /\ \A p \in Projects : prjLock'[p] # s

LEMMA DoneOK ==
  ASSUME NEW s \in Sessions, Done(s)
  PROVE  OwnOK(s)
  BY DEF Done, OwnOK, Local, HeldRow, Fresh, Drawn, Cascaded, NewFresh, Holding

LEMMA EndTxDone ==
  ASSUME TypeOK, NEW s \in Sessions, EndTx(s)
  PROVE  Done(s)
  BY DEF TypeOK, EndTx, ReleaseLocks, Done, Idle

LEMMA SubmitOwn ==
  ASSUME TypeOK, RowOK, LocalOK, CascadeOK, NEW s \in Sessions, Submit(s)
  PROVE  OwnOK(s)
<1>1. tx[s].pc = "idle" /\ UNCHANGED <<data, locks>>
  BY DEF Submit, SubmitCreate, SubmitRow, SubmitPurge, SubmitDeleteCustomer
<1>2. Cascaded(s)'
  BY <1>1 DEF CascadeOK, Cascaded, locks
<1>3. ASSUME NEW j \in Invoices, FreshId(j), tx'[s].fresh = j
      PROVE  Fresh(s)' /\ NewFresh(s)
  <2>1. \A u \in Sessions \ {s} : tx'[u] = tx[u]
    BY FrameStep DEF Acts, Frame
  <2>2. row'[j].status = "none" /\ j \notin Reserved
    BY <1>1, <1>3 DEF FreshId, data
  <2>3. \A u \in Sessions : tx'[u].fresh = j => u = s
    BY <2>1, <2>2 DEF Reserved
  <2> QED
    BY <1>3, <2>2, <2>3 DEF Fresh, NewFresh
<1>4. ASSUME tx'[s].fresh = None
      PROVE  Fresh(s)' /\ NewFresh(s)
  BY <1>4 DEF Fresh, NewFresh
<1>5. ASSUME tx'[s].pc \notin Holding
      PROVE  HeldRow(s)' /\ Drawn(s)'
  BY <1>5 DEF HeldRow, Drawn, Holding
<1>6. ASSUME NEW p \in Projects, NEW i \in Invoices, SubmitCreate(s, p, i)
      PROVE  OwnOK(s)
  <2>1. tx'[s] = [Idle EXCEPT !.pc = "insert", !.op = "create", !.prj = p, !.fresh = i]
    BY <1>6 DEF SubmitCreate, Goto, TypeOK
  <2>2. /\ tx'[s].pc = "insert" /\ tx'[s].op = "create"
        /\ tx'[s].prj = p /\ tx'[s].fresh = i
    BY <2>1 DEF Idle
  <2>3. Local(s)' /\ tx'[s].pc \notin Holding
    BY <2>2 DEF Local, Holding
  <2>4. FreshId(i)
    BY <1>6 DEF SubmitCreate
  <2> QED
    BY <1>2, <1>3, <1>5, <2>2, <2>3, <2>4 DEF OwnOK
<1>7. ASSUME NEW i \in Invoices, NEW op \in RowRequests, SubmitRow(s, i, op)
      PROVE  OwnOK(s)
  <2> DEFINE t == [Idle EXCEPT !.pc = "row", !.op = op, !.inv = i, !.prj = row[i].project]
  <2>1. row[i].project \in Projects
    BY <1>7 DEF SubmitRow, RowOK, RowShape
  <2>2. CASE op = "cancel"
    <3>1. PICK j \in Invoices : FreshId(j) /\ tx'[s] = [t EXCEPT !.fresh = j]
      BY <1>7, <2>2 DEF SubmitRow, Goto, TypeOK
    <3>2. /\ tx'[s].pc = "row" /\ tx'[s].op = op /\ tx'[s].inv = i
          /\ tx'[s].prj = row[i].project /\ tx'[s].fresh = j
      BY <3>1 DEF Idle
    <3>3. Local(s)' /\ tx'[s].pc \notin Holding
      BY <2>1, <3>2 DEF Local, Holding
    <3> QED
      BY <1>2, <1>3, <1>5, <3>1, <3>2, <3>3 DEF OwnOK
  <2>3. CASE op # "cancel"
    <3>1. PICK v \in read[i] : tx'[s] = [t EXCEPT !.expected = v.version, !.seen = v.total]
      BY <1>7, <2>3 DEF SubmitRow, Goto, TypeOK
    <3>2. /\ tx'[s].pc = "row" /\ tx'[s].op = op /\ tx'[s].inv = i
          /\ tx'[s].prj = row[i].project /\ tx'[s].fresh = None
      BY <3>1 DEF Idle
    <3>3. Local(s)' /\ tx'[s].pc \notin Holding
      BY <2>1, <2>3, <3>2 DEF Local, Holding
    <3> QED
      BY <1>2, <1>4, <1>5, <3>2, <3>3 DEF OwnOK
  <2> QED
    BY <2>2, <2>3
<1>8. ASSUME NEW p \in Projects, SubmitPurge(s, p)
      PROVE  OwnOK(s)
  <2>1. tx'[s].pc = "keys" /\ tx'[s].fresh = None /\ tx'[s].prj = p
    BY <1>8 DEF SubmitPurge, Goto, TypeOK, Idle
  <2>2. Local(s)' /\ tx'[s].pc \notin Holding
    BY <2>1 DEF Local, Holding
  <2> QED
    BY <1>2, <1>4, <1>5, <2>1, <2>2 DEF OwnOK
<1>9. ASSUME NEW c \in Customers, SubmitDeleteCustomer(s, c)
      PROVE  OwnOK(s)
  <2>1. tx'[s].pc = "count" /\ tx'[s].fresh = None
    BY <1>9 DEF SubmitDeleteCustomer, Goto, TypeOK, Idle
  <2>2. Local(s)' /\ tx'[s].pc \notin Holding
    BY <2>1 DEF Local, Holding
  <2> QED
    BY <1>2, <1>4, <1>5, <2>1, <2>2 DEF OwnOK
<1> QED
  BY <1>6, <1>7, <1>8, <1>9 DEF Submit

\* A handler that sets its pc, and fields none of these clauses read.
Moved(s, pc) ==
  /\ tx'[s].pc = pc
  /\ tx'[s].op = tx[s].op
  /\ tx'[s].inv = tx[s].inv
  /\ tx'[s].prj = tx[s].prj
  /\ tx'[s].fresh = tx[s].fresh
  /\ tx'[s].year = tx[s].year
  /\ tx'[s].number = tx[s].number

LEMMA MoveOnTx ==
  ASSUME TypeOK, NEW s \in Sessions, NEW pc \in Steps,
         \/ Goto(s, [tx[s] EXCEPT !.pc = pc])
         \/ \E b \in Blobs : Goto(s, [tx[s] EXCEPT !.pc = pc, !.blob = b])
         \/ \E K \in SUBSET Blobs : Goto(s, [tx[s] EXCEPT !.pc = pc, !.keys = K])
         \/ \E P \in SUBSET Projects : Goto(s, [tx[s] EXCEPT !.pc = pc, !.doomed = P])
  PROVE  Moved(s, pc)
<1>1. tx[s] \in TxRecord
  BY TxType
<1>2. CASE Goto(s, [tx[s] EXCEPT !.pc = pc])
  BY <1>1, <1>2 DEF Goto, TypeOK, TxRecord, Moved
<1>3. ASSUME NEW b \in Blobs, Goto(s, [tx[s] EXCEPT !.pc = pc, !.blob = b])
      PROVE  Moved(s, pc)
  BY <1>1, <1>3 DEF Goto, TypeOK, TxRecord, Moved
<1>4. ASSUME NEW K \in SUBSET Blobs, Goto(s, [tx[s] EXCEPT !.pc = pc, !.keys = K])
      PROVE  Moved(s, pc)
  BY <1>1, <1>4 DEF Goto, TypeOK, TxRecord, Moved
<1>5. ASSUME NEW P \in SUBSET Projects, Goto(s, [tx[s] EXCEPT !.pc = pc, !.doomed = P])
      PROVE  Moved(s, pc)
  BY <1>1, <1>5 DEF Goto, TypeOK, TxRecord, Moved
<1> QED
  BY <1>2, <1>3, <1>4, <1>5

\* A handler that keeps its reservation and changes no row.
LEMMA FreshKept ==
  ASSUME TypeOK, FreshOK, NEW s \in Sessions, Frame(s), UNCHANGED row,
         tx'[s].fresh = tx[s].fresh
  PROVE  Fresh(s)' /\ NewFresh(s)
<1>1. \A u \in Sessions : tx'[u].fresh = tx[u].fresh
  BY DEF Frame
<1> QED
  BY <1>1 DEF FreshOK, Fresh, NewFresh

\* A handler that is not a deleter has no project's row.
LEMMA NotDeleting ==
  ASSUME CascadeOK, NEW s \in Sessions, tx[s].pc \notin {"delete", "cascade"},
         UNCHANGED prjLock
  PROVE  Cascaded(s)'
  BY DEF CascadeOK, Cascaded

LEMMA BillingOwn ==
  ASSUME TypeOK, RowOK, LocalOK, HeldRowOK, FreshOK, DrawnOK, CascadeOK, NEW s \in Sessions,
         LockRow(s) \/ ReadProject(s) \/ AllocateNumber(s) \/ PutPdf(s)
  PROVE  OwnOK(s)
<1>1. Local(s) /\ HeldRow(s) /\ Drawn(s)
  BY DEF LocalOK, HeldRowOK, DrawnOK
<1>2. Frame(s)
  BY FrameStep DEF Acts, Step
<1>3. CASE Rollback(s)
  BY <1>3, EndTxDone, DoneOK DEF Rollback
<1>4. CASE ~ Rollback(s)
  <2>1. UNCHANGED <<row, seq, prjLock>> /\ tx[s].pc \in {"row", "project", "number", "render"}
    BY <1>4 DEF LockRow, ReadProject, AllocateNumber, PutPdf, locks, data
  <2>2. Cascaded(s)'
    BY <2>1, NotDeleting
  <2>3. CASE LockRow(s)
    <3>1. AfterLock(tx[s].op) \in {"write", "project", "number"}
      BY DEF AfterLock
    <3>2. /\ tx'[s].pc = AfterLock(tx[s].op)
          /\ tx'[s].op = tx[s].op /\ tx'[s].inv = tx[s].inv /\ tx'[s].prj = tx[s].prj
          /\ tx'[s].fresh = tx[s].fresh
      BY <1>4, <2>3, <3>1, MoveOnTx DEF Moved, LockRow, Steps
    <3>3. /\ tx[s].inv \in Invoices /\ tx[s].op \in RowRequests
          /\ RowAccepts(tx[s], row[tx[s].inv])
          /\ invLock' = [invLock EXCEPT ![tx[s].inv] = s]
      BY <1>1, <1>4, <2>3 DEF LockRow, Local
    <3>4. HeldRow(s)'
      BY <2>1, <3>2, <3>3 DEF HeldRow, RowAccepts, TypeOK
    <3>5. Local(s)'
      BY <1>1, <2>3, <3>1, <3>2, <3>3 DEF Local, LockRow, AfterLock, RowRequests, Holding
    <3>6. Drawn(s)'
      BY <3>1, <3>2 DEF Drawn
    <3> QED
      BY <1>2, <2>1, <2>2, <3>2, <3>4, <3>5, <3>6, FreshKept DEF OwnOK
  <2>4. CASE ReadProject(s)
    <3>1. /\ tx[s].pc = "project" /\ UNCHANGED <<invLock, row>>
          /\ Goto(s, [tx[s] EXCEPT !.pc = "number"])
      BY <1>4, <2>4 DEF ReadProject, locks, data
    <3>2. /\ tx'[s].pc = "number"
          /\ tx'[s].op = tx[s].op /\ tx'[s].inv = tx[s].inv /\ tx'[s].prj = tx[s].prj
          /\ tx'[s].fresh = tx[s].fresh
      BY <3>1, MoveOnTx DEF Moved, Steps
    <3>3. HeldRow(s)' /\ Local(s)' /\ Drawn(s)'
      BY <1>1, <3>1, <3>2 DEF HeldRow, Local, Drawn, Holding
    <3> QED
      BY <1>2, <2>1, <2>2, <3>2, <3>3, FreshKept DEF OwnOK
  <2>5. CASE AllocateNumber(s)
    <3> PICK y \in Years :
          LET q == <<y, IF tx[s].op = "cancel" THEN "storno" ELSE "invoice">>
          IN /\ tx[s].pc = "number"
             /\ seqLock' = [seqLock EXCEPT ![q] = s]
             /\ Goto(s, [tx[s] EXCEPT !.pc = "render", !.year = y, !.number = seq[q] + 1])
             /\ UNCHANGED <<data, invLock, prjLock>>
      BY <2>5 DEF AllocateNumber
    <3> DEFINE q == <<y, IF tx[s].op = "cancel" THEN "storno" ELSE "invoice">>
    <3>1. q \in Series
      BY DEF Series, Kinds
    <3>2. /\ tx'[s].pc = "render" /\ tx'[s].year = y /\ tx'[s].number = seq[q] + 1
          /\ tx'[s].op = tx[s].op /\ tx'[s].inv = tx[s].inv /\ tx'[s].prj = tx[s].prj
          /\ tx'[s].fresh = tx[s].fresh
      BY TxType DEF Goto, TypeOK, TxRecord
    <3>3. SeriesOf(tx'[s]) = q
      BY <3>2 DEF SeriesOf
    <3>4. Drawn(s)'
      BY <2>1, <3>1, <3>2, <3>3 DEF Drawn, TypeOK
    <3>5. HeldRow(s)' /\ Local(s)'
      BY <1>1, <2>1, <3>2 DEF HeldRow, Local, Holding
    <3> QED
      BY <1>2, <2>1, <2>2, <3>2, <3>4, <3>5, FreshKept DEF OwnOK
  <2>6. CASE PutPdf(s)
    <3>1. PICK b \in Blobs : Goto(s, [tx[s] EXCEPT !.pc = "commit", !.blob = b])
      BY <2>6 DEF PutPdf
    <3>2. /\ tx'[s].pc = "commit" /\ tx'[s].year = tx[s].year /\ tx'[s].number = tx[s].number
          /\ tx'[s].op = tx[s].op /\ tx'[s].inv = tx[s].inv /\ tx'[s].prj = tx[s].prj
          /\ tx'[s].fresh = tx[s].fresh
      BY <3>1, MoveOnTx DEF Moved, Steps
    <3>3. tx'[s].blob = b
      BY <3>1, TxType DEF Goto, TypeOK, TxRecord
    <3>4. tx[s].pc = "render" /\ UNCHANGED <<seqLock, invLock>>
      BY <2>6 DEF PutPdf, locks
    <3>5. SeriesOf(tx'[s]) = SeriesOf(tx[s])
      BY <3>2 DEF SeriesOf
    <3>6. Drawn(s)'
      BY <1>1, <2>1, <3>2, <3>4, <3>5 DEF Drawn
    <3>7. HeldRow(s)' /\ Local(s)'
      BY <1>1, <2>1, <3>2, <3>3, <3>4 DEF HeldRow, Local, Holding
    <3> QED
      BY <1>2, <2>1, <2>2, <3>2, <3>6, <3>7, FreshKept DEF OwnOK
  <2> QED
    BY <2>3, <2>4, <2>5, <2>6
<1> QED
  BY <1>3, <1>4

\* Handlers at none of the billing steps: only the reservation and the locks on
\* projects matter.
LEMMA ElsewhereOK ==
  ASSUME TypeOK, FreshOK, NEW s \in Sessions, Frame(s), UNCHANGED row,
         tx'[s].fresh = tx[s].fresh,
         tx'[s].pc \in {"keys", "check", "count", "archived", "delete", "cascade"},
         tx'[s].pc \in {"keys", "check"} => tx'[s].prj \in Projects,
         Cascaded(s)'
  PROVE  OwnOK(s)
<1>1. Fresh(s)' /\ NewFresh(s)
  BY FreshKept
<1>2. Local(s)' /\ HeldRow(s)' /\ Drawn(s)'
  BY DEF Local, HeldRow, Drawn, Holding
<1> QED
  BY <1>1, <1>2 DEF OwnOK

LEMMA PurgeOwn ==
  ASSUME TypeOK, RowOK, LocalOK, FreshOK, CascadeOK, NEW s \in Sessions,
         CheckArchived(s) \/ CountCustomer(s) \/ ListArchived(s) \/ DeleteProject(s)
           \/ Cascade(s)
  PROVE  OwnOK(s)
<1>1. Cascaded(s)
  BY DEF CascadeOK
<1>2. Frame(s)
  BY FrameStep DEF Acts, Step
<1>3. CASE Rollback(s)
  BY <1>3, EndTxDone, DoneOK DEF Rollback
<1>4. CASE ~ Rollback(s)
  <2>1. UNCHANGED row
    BY <1>4 DEF CheckArchived, CountCustomer, ListArchived, DeleteProject, Cascade, data
  <2>2. CASE CheckArchived(s) \/ CountCustomer(s) \/ ListArchived(s)
    <3>1. tx[s].pc \notin {"delete", "cascade"} /\ UNCHANGED prjLock
      BY <1>4, <2>2 DEF CheckArchived, CountCustomer, ListArchived, locks
    <3>2. Cascaded(s)'
      BY <3>1, NotDeleting
    <3>3. CASE CheckArchived(s)
      <4>1. tx[s].prj \in Projects
        BY <3>3 DEF CheckArchived, LocalOK, Local
      <4>2. tx'[s].pc = "delete" /\ tx'[s].fresh = tx[s].fresh
        BY ZenonT(40), <1>4, <3>3, <4>1, MoveOnTx DEF Moved, CheckArchived, Steps
      <4> QED
        BY <1>2, <2>1, <3>2, <4>2, ElsewhereOK
    <3>4. CASE CountCustomer(s)
      <4>1. tx'[s].pc = "archived" /\ tx'[s].fresh = tx[s].fresh
        BY <1>4, <3>4, MoveOnTx DEF Moved, CountCustomer, Steps
      <4> QED
        BY <1>2, <2>1, <3>2, <4>1, ElsewhereOK
    <3>5. CASE ListArchived(s)
      <4>1. {p \in ProjectsOf(tx[s].cust) : pstate[p] = "archived"} \in SUBSET Projects
        BY DEF ProjectsOf
      <4>2. tx'[s].pc = "delete" /\ tx'[s].fresh = tx[s].fresh
        BY <3>5, <4>1, MoveOnTx DEF Moved, ListArchived, Steps
      <4> QED
        BY <1>2, <2>1, <3>2, <4>2, ElsewhereOK
    <3> QED
      BY <2>2, <3>3, <3>4, <3>5
  <2>3. CASE DeleteProject(s)
    <3>1. PICK p \in tx[s].doomed :
            /\ tx[s].pc = "delete"
            /\ IF pstate[p] \in Present
               THEN /\ prjLock' = [prjLock EXCEPT ![p] = s]
                    /\ Goto(s, [tx[s] EXCEPT !.pc = "cascade", !.prj = p])
               ELSE /\ Goto(s, [tx[s] EXCEPT !.doomed = @ \ {p}])
                    /\ UNCHANGED prjLock
            /\ UNCHANGED <<data, invLock, seqLock>>
      BY <2>3 DEF DeleteProject
    <3>2. p \in Projects
      BY DEF TypeOK, TxRecord
    <3>3. CASE pstate[p] \in Present
      <4> DEFINE t == [tx[s] EXCEPT !.pc = "cascade", !.prj = p]
      <4>0. tx'[s] = t
        BY <3>1, <3>3 DEF Goto, TypeOK
      <4>1. tx'[s].pc = "cascade" /\ tx'[s].prj = p /\ tx'[s].fresh = tx[s].fresh
        BY <4>0, TxType DEF TxRecord
      <4>2. Cascaded(s)'
        BY <1>1, <3>1, <3>2, <3>3, <4>1, <2>1 DEF Cascaded, TypeOK
      <4> QED
        BY <1>2, <2>1, <4>1, <4>2, ElsewhereOK
    <3>4. CASE pstate[p] \notin Present
      <4>1. tx'[s].pc = "delete" /\ tx'[s].fresh = tx[s].fresh
        BY <3>1, <3>4, TxType DEF Goto, TypeOK, TxRecord
      <4>2. Cascaded(s)'
        BY <1>1, <3>1, <3>4, <4>1, <2>1 DEF Cascaded
      <4> QED
        BY <1>2, <2>1, <4>1, <4>2, ElsewhereOK
    <3> QED
      BY <3>3, <3>4
  <2>4. CASE Cascade(s)
    <3>1. tx'[s].pc = "delete" /\ tx'[s].fresh = tx[s].fresh
      BY <2>4, MoveOnTx DEF Moved, Cascade, Steps
    <3>2. UNCHANGED prjLock
      BY <2>4 DEF Cascade
    <3>3. ASSUME NEW p \in Projects, prjLock[p] = s,
                 NEW i \in Invoices, row[i].status \in LiveRow, row[i].project = p
          PROVE  invLock'[i] = s
      BY <1>1, <2>4, <3>3 DEF Cascade, Cascaded
    <3>4. Cascaded(s)'
      BY <2>1, <3>1, <3>2, <3>3 DEF Cascaded
    <3> QED
      BY <1>2, <2>1, <3>1, <3>4, ElsewhereOK
  <2> QED
    BY <2>2, <2>3, <2>4
<1> QED
  BY <1>3, <1>4

LEMMA OwnStep ==
  ASSUME TypeOK, RowOK, LocalOK, HeldRowOK, FreshOK, DrawnOK, CascadeOK,
         NEW s \in Sessions, Acts(s)
  PROVE  OwnOK(s)
<1>1. CASE Submit(s)
  BY <1>1, SubmitOwn
<1>2. CASE Abort(s) \/ DeadlockVictim(s)
  BY <1>2, EndTxDone, DoneOK DEF Abort, DeadlockVictim, Rollback
<1>3. CASE InsertDraft(s) \/ WriteDraft(s) \/ DeleteDraft(s) \/ RenderFails(s)
           \/ CommitIssue(s) \/ CommitCancel(s) \/ HideKeys(s) \/ CommitCustomer(s)
  BY <1>3, EndTxDone, DoneOK DEF InsertDraft, WriteDraft, DeleteDraft, RenderFails,
     CommitIssue, CommitCancel, HideKeys, CommitCustomer, Rollback
<1>4. CASE LockRow(s) \/ ReadProject(s) \/ AllocateNumber(s) \/ PutPdf(s)
  BY <1>4, BillingOwn
<1>5. CASE CheckArchived(s) \/ CountCustomer(s) \/ ListArchived(s) \/ DeleteProject(s)
           \/ Cascade(s)
  BY <1>5, PurgeOwn
<1>6. CASE ListKeys(s)
  <2>1. {row[i].blob : i \in FrozenIn({tx[s].prj})} \in SUBSET Blobs
    BY DEF FrozenIn, RowOK, RowShape
  <2>2. tx'[s].pc = "check" /\ tx'[s].fresh = tx[s].fresh /\ tx'[s].prj = tx[s].prj
    BY <1>6, <2>1, MoveOnTx DEF Moved, ListKeys, Steps
  <2>3. tx[s].prj \in Projects
    BY <1>6 DEF ListKeys, LocalOK, Local
  <2>4. Cascaded(s)' /\ UNCHANGED row
    BY <1>6, NotDeleting DEF ListKeys, locks, data
  <2>5. Frame(s)
    BY FrameStep
  <2> QED
    BY <2>2, <2>3, <2>4, <2>5, ElsewhereOK
<1>7. CASE CommitPurge(s)
  <2>1. Done(s)
    BY <1>7 DEF CommitPurge, Goto, ReleaseLocks, TypeOK, Done, Idle
  <2> QED
    BY <2>1, DoneOK
<1> QED
  BY <1>1, <1>2, <1>3, <1>4, <1>5, <1>6, <1>7 DEF Acts, Step

\* Every handler keeps its own part of the invariant and everyone else's.
LEMMA SessionsStep ==
  ASSUME TypeOK, RowOK, LocalOK, HeldRowOK, FreshOK, DrawnOK, CascadeOK,
         NEW s \in Sessions, Acts(s)
  PROVE  LocalOK' /\ HeldRowOK' /\ FreshOK' /\ DrawnOK' /\ CascadeOK'
<1>1. OwnOK(s)
  BY OwnStep
<1>2. Frame(s) /\ RowFrame(s) /\ SeqFrame(s)
  BY FrameStep, RowFrameStep, SeqFrameStep
<1>3. \A u \in Sessions \ {s} : Local(u)' /\ HeldRow(u)' /\ Fresh(u)' /\ Drawn(u)' /\ Cascaded(u)'
  BY <1>1, <1>2, OthersOK DEF OwnOK
<1> QED
  BY <1>1, <1>3 DEF OwnOK, LocalOK, HeldRowOK, FreshOK, DrawnOK, CascadeOK

-----------------------------------------------------------------------------
(* What each action does to the rows and the counters *)

\* An issue puts the drawn number on a draft, and the counter moves with it.
LEMMA IssueEffect ==
  ASSUME TypeOK, RowOK, LocalOK, HeldRowOK, DrawnOK, NEW s \in Sessions,
         CommitIssue(s), ~ Rollback(s)
  PROVE  LET i == tx[s].inv
             q == SeriesOf(tx[s])
         IN /\ i \in Invoices /\ q \in Series
            /\ row[i].status = "draft"
            /\ row'[i].status = "issued" /\ row'[i].project = row[i].project
            /\ row'[i].cancels = None /\ row'[i].blob \in Blobs
            /\ row'[i].number = seq[q] + 1 /\ <<row'[i].year, KindOf(row'[i])>> = q
            /\ \A j \in Invoices \ {i} : row'[j] = row[j]
            /\ seq' = [seq EXCEPT ![q] = seq[q] + 1]
<1> DEFINE i == tx[s].inv
           q == SeriesOf(tx[s])
<1>1. /\ i \in Invoices /\ tx[s].year \in Years /\ tx[s].blob \in Blobs
      /\ tx[s].op = "issue" /\ row[i].status = "draft"
      /\ tx[s].number = seq[q] + 1
  BY DEF CommitIssue, LocalOK, Local, HeldRowOK, HeldRow, DrawnOK, Drawn, Holding
<1>2. q = <<tx[s].year, "invoice">> /\ q \in Series
  BY <1>1 DEF SeriesOf, Series, Kinds
<1>3. /\ row' = [row EXCEPT ![i].status = "issued", ![i].version = @ + 1,
                   ![i].year = tx[s].year, ![i].number = tx[s].number,
                   ![i].blob = tx[s].blob]
      /\ seq' = [seq EXCEPT ![q] = tx[s].number]
  BY <1>2 DEF CommitIssue
<1>4. row[i] \in Row /\ row[i].cancels = None
  BY <1>1 DEF TypeOK, RowOK, RowShape
<1>5. row'[i] = [row[i] EXCEPT !.status = "issued", !.version = @ + 1,
                   !.year = tx[s].year, !.number = tx[s].number, !.blob = tx[s].blob]
  BY <1>1, <1>3 DEF TypeOK
<1>6. /\ row'[i].status = "issued" /\ row'[i].project = row[i].project
      /\ row'[i].cancels = None /\ row'[i].blob = tx[s].blob
      /\ row'[i].number = tx[s].number /\ row'[i].year = tx[s].year
  BY <1>4, <1>5 DEF Row
<1>7. \A j \in Invoices \ {i} : row'[j] = row[j]
  BY <1>3 DEF TypeOK
<1> QED
  BY <1>1, <1>2, <1>3, <1>6, <1>7 DEF KindOf

\* A cancel books the Storno on the reserved id under the drawn number, and
\* marks the invoice, which keeps its own number.
LEMMA CancelEffect ==
  ASSUME TypeOK, RowOK, LocalOK, HeldRowOK, FreshOK, DrawnOK, NEW s \in Sessions,
         CommitCancel(s)
  PROVE  LET i == tx[s].inv
             j == tx[s].fresh
             q == SeriesOf(tx[s])
         IN /\ i \in Invoices /\ j \in Invoices /\ i # j /\ q \in Series
            /\ row[i].status = "issued" /\ row[j] = NoRow
            /\ row'[i] = [row[i] EXCEPT !.status = "cancelled"]
            /\ row'[j] = [status |-> "issued", project |-> tx[s].prj,
                          total |-> -row[i].total, version |-> 1, year |-> tx[s].year,
                          number |-> seq[q] + 1, cancels |-> i, blob |-> tx[s].blob]
            /\ row'[j].number = seq[q] + 1
            /\ <<row'[j].year, KindOf(row'[j])>> = q
            /\ tx[s].prj \in Projects /\ tx[s].blob \in Blobs
            /\ \A k \in Invoices \ {i, j} : row'[k] = row[k]
            /\ seq' = [seq EXCEPT ![q] = seq[q] + 1]
<1> DEFINE i == tx[s].inv
           j == tx[s].fresh
           q == SeriesOf(tx[s])
<1>1. /\ i \in Invoices /\ tx[s].year \in Years /\ tx[s].blob \in Blobs
      /\ tx[s].prj \in Projects
      /\ tx[s].op = "cancel" /\ row[i].status = "issued" /\ j \in Invoices
      /\ tx[s].number = seq[q] + 1
  BY DEF CommitCancel, LocalOK, Local, HeldRowOK, HeldRow, DrawnOK, Drawn, Holding
<1>2. q = <<tx[s].year, "storno">> /\ q \in Series
  BY <1>1 DEF SeriesOf, Series, Kinds
<1>3. row[j] = NoRow /\ i # j
  BY <1>1 DEF FreshOK, Fresh, RowOK, RowShape
<1>4. seq' = [seq EXCEPT ![q] = seq[q] + 1]
  BY <1>1, <1>2 DEF CommitCancel
<1>5. /\ row'[i] = [row[i] EXCEPT !.status = "cancelled"]
      /\ row'[j] = [status |-> "issued", project |-> tx[s].prj,
                    total |-> -row[i].total, version |-> 1, year |-> tx[s].year,
                    number |-> seq[q] + 1, cancels |-> i, blob |-> tx[s].blob]
      /\ \A k \in Invoices \ {i, j} : row'[k] = row[k]
  BY <1>1, <1>3 DEF CommitCancel, TypeOK
<1>6. <<row'[j].year, KindOf(row'[j])>> = q
  BY <1>1, <1>2, <1>5 DEF KindOf
<1> QED
  BY <1>1, <1>2, <1>3, <1>4, <1>5, <1>6

\* All other actions leave the counters and every row's number alone.
Numberless ==
  /\ UNCHANGED seq
  /\ \A i \in Invoices : /\ row'[i].number = row[i].number
                         /\ row'[i].year = row[i].year
                         /\ row'[i].cancels = row[i].cancels

LEMMA DestroyEffect ==
  ASSUME TypeOK, RowOK, NEW P, Destroy(P)
  PROVE  /\ \A i \in Invoices : RowShape(row'[i])
         /\ \A i \in Invoices : /\ row'[i].number = row[i].number
                                /\ row'[i].year = row[i].year
                                /\ row'[i].cancels = row[i].cancels
<1> SUFFICES ASSUME NEW i \in Invoices
             PROVE  /\ RowShape(row'[i])
                    /\ row'[i].number = row[i].number
                    /\ row'[i].year = row[i].year
                    /\ row'[i].cancels = row[i].cancels
  OBVIOUS
<1>1. CASE row'[i] = row[i]
  BY <1>1 DEF RowOK, RowShape
<1>2. CASE row'[i] = Tombstone(row[i])
  BY <1>2 DEF Tombstone, RowShape, LiveRow, Frozen
<1> QED
  BY <1>1, <1>2 DEF Destroy

\* Rows keep their shape; and each action is an issue, a cancel or numberless.
LEMMA RowsStep ==
  ASSUME TypeOK, RowOK, LocalOK, HeldRowOK, FreshOK, DrawnOK, NEW s \in Sessions, Acts(s)
  PROVE  /\ RowOK'
         /\ \/ Numberless
            \/ CommitIssue(s) /\ ~ Rollback(s)
            \/ CommitCancel(s)
<1>1. CASE UNCHANGED <<row, seq>>
  BY <1>1 DEF RowOK, Numberless
<1>2. CASE InsertDraft(s) /\ ~ UNCHANGED <<row, seq>>
  <2> DEFINE i == tx[s].fresh
  <2>1. i \in Invoices /\ tx[s].prj \in Projects
    BY <1>2 DEF InsertDraft, LocalOK, Local
  <2>2. row[i] = NoRow
    BY <2>1 DEF FreshOK, Fresh, RowOK, RowShape
  <2>3. PICK t \in Totals :
          row' = [row EXCEPT ![i] = [NoRow EXCEPT !.status = "draft",
                                !.project = tx[s].prj, !.total = t, !.version = 1]]
    BY <1>2 DEF InsertDraft, Rollback, data
  <2>4. /\ row'[i] = [NoRow EXCEPT !.status = "draft", !.project = tx[s].prj,
                                   !.total = t, !.version = 1]
        /\ \A j \in Invoices \ {i} : row'[j] = row[j]
    BY <2>1, <2>3 DEF TypeOK
  <2>5. RowShape(row'[i]) /\ row'[i].number = 0 /\ row'[i].year = None /\ row'[i].cancels = None
    BY <2>1, <2>4 DEF NoRow, RowShape, LiveRow, Frozen
  <2>6. UNCHANGED seq
    BY <1>2 DEF InsertDraft, Rollback, data
  <2>7. row[i].number = 0 /\ row[i].year = None /\ row[i].cancels = None
    BY <2>2 DEF NoRow
  <2> QED
    BY <2>4, <2>5, <2>6, <2>7 DEF RowOK, Numberless
<1>3. CASE WriteDraft(s)
  <2> DEFINE i == tx[s].inv
  <2>1. i \in Invoices /\ row[i].status = "draft"
    BY <1>3 DEF WriteDraft, LocalOK, Local, HeldRowOK, HeldRow, Holding
  <2>2. PICK t \in Totals :
          row' = [row EXCEPT ![i].total = t, ![i].version = row[i].version + 1]
    BY <1>3 DEF WriteDraft
  <2>3. /\ row'[i] = [row[i] EXCEPT !.total = t, !.version = row[i].version + 1]
        /\ \A j \in Invoices \ {i} : row'[j] = row[j]
    BY <2>1, <2>2 DEF TypeOK
  <2>4. row[i] \in Row
    BY <2>1 DEF TypeOK
  <2>5. /\ row'[i].status = "draft" /\ row'[i].total = t
        /\ row'[i].project = row[i].project /\ row'[i].number = row[i].number
        /\ row'[i].year = row[i].year /\ row'[i].cancels = row[i].cancels
    BY <2>1, <2>3, <2>4 DEF Row
  <2>6. RowShape(row'[i])
    BY <2>1, <2>5 DEF RowOK, RowShape, LiveRow, Frozen
  <2>7. UNCHANGED seq
    BY <1>3 DEF WriteDraft
  <2> QED
    BY <2>3, <2>5, <2>6, <2>7 DEF RowOK, Numberless
<1>4. CASE DeleteDraft(s)
  <2> DEFINE i == tx[s].inv
  <2>1. \A j \in Invoices : row'[j] = row[j] \/ row'[j] = Tombstone(row[j])
    BY <1>4 DEF DeleteDraft, TypeOK
  <2>2. \A j \in Invoices : RowShape(Tombstone(row[j]))
    BY DEF Tombstone, RowShape, LiveRow, Frozen
  <2>3. UNCHANGED seq
    BY <1>4 DEF DeleteDraft
  <2>4. \A j \in Invoices : /\ row'[j].number = row[j].number
                             /\ row'[j].year = row[j].year
                             /\ row'[j].cancels = row[j].cancels
    <3>1. \A r : /\ Tombstone(r).number = r.number
                 /\ Tombstone(r).year = r.year
                 /\ Tombstone(r).cancels = r.cancels
      BY DEF Tombstone
    <3> QED
      BY <2>1, <3>1
  <2>5. RowOK'
    BY <2>1, <2>2 DEF RowOK
  <2> QED
    BY <2>3, <2>4, <2>5 DEF Numberless
<1>5. CASE CommitIssue(s) /\ ~ Rollback(s)
  <2> DEFINE i == tx[s].inv
             q == SeriesOf(tx[s])
  <2>1. /\ i \in Invoices /\ row[i].status = "draft" /\ q \in Series
        /\ row'[i].status = "issued" /\ row'[i].project = row[i].project
        /\ row'[i].blob \in Blobs /\ row'[i].number = seq[q] + 1
        /\ \A j \in Invoices \ {i} : row'[j] = row[j]
    BY <1>5, IssueEffect
  <2>2. seq[q] \in Nat
    BY <2>1 DEF TypeOK
  <2>3. RowShape(row'[i])
    BY <2>1, <2>2 DEF RowOK, RowShape, LiveRow, Frozen
  <2> QED
    BY <1>5, <2>1, <2>3 DEF RowOK
<1>6. CASE CommitCancel(s)
  <2> DEFINE i == tx[s].inv
             j == tx[s].fresh
             q == SeriesOf(tx[s])
  <2>1. /\ i \in Invoices /\ j \in Invoices /\ row[i].status = "issued" /\ q \in Series
        /\ row'[i] = [row[i] EXCEPT !.status = "cancelled"]
        /\ row'[j] = [status |-> "issued", project |-> tx[s].prj,
                      total |-> -row[i].total, version |-> 1, year |-> tx[s].year,
                      number |-> seq[q] + 1, cancels |-> i, blob |-> tx[s].blob]
        /\ tx[s].prj \in Projects /\ tx[s].blob \in Blobs
        /\ \A k \in Invoices \ {i, j} : row'[k] = row[k]
    BY <1>6, CancelEffect
  <2>2. seq[q] \in Nat /\ row[i] \in Row
    BY <2>1 DEF TypeOK
  <2>3. RowShape(row'[j])
    BY <2>1, <2>2 DEF RowShape, LiveRow, Frozen
  <2>4. /\ row'[i].status = "cancelled" /\ row'[i].project = row[i].project
        /\ row'[i].number = row[i].number /\ row'[i].blob = row[i].blob
    BY <2>1, <2>2 DEF Row
  <2>5. RowShape(row'[i])
    BY <2>1, <2>4 DEF RowOK, RowShape, LiveRow, Frozen
  <2> QED
    BY <1>6, <2>1, <2>3, <2>5 DEF RowOK
<1>7. CASE (CommitPurge(s) \/ CommitCustomer(s)) /\ ~ UNCHANGED <<row, seq>>
  <2>1. Destroy(tx[s].doomed) /\ UNCHANGED seq
    BY <1>7 DEF CommitPurge, CommitCustomer, Rollback, data
  <2> QED
    BY <2>1, DestroyEffect DEF RowOK, Numberless
<1>8. \/ UNCHANGED <<row, seq>> \/ InsertDraft(s) \/ WriteDraft(s) \/ DeleteDraft(s)
      \/ (CommitIssue(s) /\ ~ Rollback(s)) \/ CommitCancel(s) \/ CommitPurge(s)
      \/ CommitCustomer(s)
  <2>1. CASE Submit(s)
    BY <2>1 DEF Submit, SubmitCreate, SubmitRow, SubmitPurge, SubmitDeleteCustomer, data
  <2>2. CASE Abort(s) \/ DeadlockVictim(s)
    BY <2>2 DEF Abort, DeadlockVictim, Rollback, data
  <2>3. CASE Step(s)
    BY <2>3 DEF Step, LockRow, ReadProject, AllocateNumber, PutPdf, RenderFails, ListKeys,
        CheckArchived, CountCustomer, ListArchived, DeleteProject, Cascade, HideKeys,
        CommitIssue, Rollback, data
  <2> QED
    BY <2>1, <2>2, <2>3 DEF Acts
<1> QED
  BY <1>1, <1>2, <1>3, <1>4, <1>5, <1>6, <1>7, <1>8

-----------------------------------------------------------------------------
(* Gapless numbers *)

LEMMA GaplessKept ==
  ASSUME GaplessNumbers, Numberless
  PROVE  GaplessNumbers'
<1>1. \A i \in Invoices : KindOf(row'[i]) = KindOf(row[i])
  BY DEF KindOf, Numberless
<1>2. \A q \in Series : Numbered(q)' = Numbered(q)
  BY <1>1 DEF Numbered, Numberless
<1>3. \A q \in Series : \A i \in Numbered(q) : i \in Invoices
  BY DEF Numbered
<1>4. \A q \in Series : {row'[i].number : i \in Numbered(q)} = {row[i].number : i \in Numbered(q)}
  BY <1>3 DEF Numberless
<1> QED
  BY <1>2, <1>3, <1>4 DEF GaplessNumbers, Numberless

\* One row gets the next number of its series, all others keep theirs.
LEMMA GaplessBooked ==
  ASSUME TypeOK, GaplessNumbers, NEW k \in Invoices, NEW q \in Series,
         row[k].number = 0,
         row'[k].number = seq[q] + 1,
         <<row'[k].year, KindOf(row'[k])>> = q,
         \A i \in Invoices \ {k} : /\ row'[i].number = row[i].number
                                   /\ row'[i].year = row[i].year
                                   /\ row'[i].cancels = row[i].cancels,
         seq' = [seq EXCEPT ![q] = seq[q] + 1]
  PROVE  GaplessNumbers'
<1>1. \A i \in Invoices \ {k} : KindOf(row'[i]) = KindOf(row[i])
  BY DEF KindOf
<1>2. seq[q] \in Nat /\ seq'[q] = seq[q] + 1
  BY DEF TypeOK
<1>3. \A r \in Series : k \notin Numbered(r)
  BY DEF Numbered
<1>4. \A r \in Series : r # q => Numbered(r)' = Numbered(r)
  BY <1>1, <1>3 DEF Numbered
<1>5. Numbered(q)' = Numbered(q) \cup {k}
  BY <1>1, <1>2, <1>3 DEF Numbered
<1>6. \A r \in Series : \A i \in Numbered(r) : i \in Invoices \ {k}
  BY <1>3 DEF Numbered
<1> SUFFICES ASSUME NEW r \in Series
             PROVE  /\ {row'[i].number : i \in Numbered(r)'} = 1 .. seq'[r]
                    /\ \A i, j \in Numbered(r)' : row'[i].number = row'[j].number => i = j
  BY DEF GaplessNumbers
<1>7. /\ {row[i].number : i \in Numbered(r)} = 1 .. seq[r]
      /\ \A i, j \in Numbered(r) : row[i].number = row[j].number => i = j
  BY DEF GaplessNumbers
<1>8. \A i \in Numbered(r) : row'[i].number = row[i].number
  BY <1>6
<1>9. CASE r # q
  <2>1. seq'[r] = seq[r]
    BY <1>9 DEF TypeOK
  <2>2. {row'[i].number : i \in Numbered(r)} = {row[i].number : i \in Numbered(r)}
    BY <1>8
  <2> QED
    BY <1>4, <1>7, <1>8, <1>9, <2>1, <2>2
<1>10. CASE r = q
  <2>1. {row'[i].number : i \in Numbered(q)'}
          = {row[i].number : i \in Numbered(q)} \cup {seq[q] + 1}
    BY <1>5, <1>8, <1>10
  <2>2. (1 .. seq[q]) \cup {seq[q] + 1} = 1 .. (seq[q] + 1)
    BY <1>2
  <2>3. \A i \in Numbered(q) : row[i].number # seq[q] + 1
    <3>1. \A i \in Numbered(q) : row[i].number \in 1 .. seq[q]
      BY <1>7, <1>10
    <3> QED
      BY <1>2, <3>1
  <2>4. \A i, j \in Numbered(q)' : row'[i].number = row'[j].number => i = j
    BY <1>5, <1>7, <1>8, <1>10, <2>3
  <2> QED
    BY <1>2, <1>7, <1>10, <2>1, <2>2, <2>4
<1> QED
  BY <1>9, <1>10

LEMMA GaplessStep ==
  ASSUME TypeOK, RowOK, LocalOK, HeldRowOK, FreshOK, DrawnOK, GaplessNumbers,
         NEW s \in Sessions, Acts(s)
  PROVE  GaplessNumbers'
<1>1. CASE Numberless
  BY <1>1, GaplessKept
<1>2. CASE CommitIssue(s) /\ ~ Rollback(s)
  <2> DEFINE i == tx[s].inv
             q == SeriesOf(tx[s])
  <2>1. /\ i \in Invoices /\ q \in Series /\ row[i].status = "draft"
        /\ row'[i].number = seq[q] + 1 /\ <<row'[i].year, KindOf(row'[i])>> = q
        /\ \A j \in Invoices \ {i} : row'[j] = row[j]
        /\ seq' = [seq EXCEPT ![q] = seq[q] + 1]
    BY <1>2, IssueEffect
  <2>2. row[i].number = 0
    BY <2>1 DEF RowOK, RowShape
  <2> QED
    BY <2>1, <2>2, GaplessBooked
<1>3. CASE CommitCancel(s)
  <2> DEFINE i == tx[s].inv
             j == tx[s].fresh
             q == SeriesOf(tx[s])
  <2>1. /\ i \in Invoices /\ j \in Invoices /\ i # j /\ q \in Series /\ row[j] = NoRow
        /\ row'[i] = [row[i] EXCEPT !.status = "cancelled"]
        /\ row'[j].number = seq[q] + 1
        /\ <<row'[j].year, KindOf(row'[j])>> = q
        /\ \A k \in Invoices \ {i, j} : row'[k] = row[k]
        /\ seq' = [seq EXCEPT ![q] = seq[q] + 1]
    BY <1>3, CancelEffect
  <2>2. row[j].number = 0
    BY <2>1 DEF NoRow
  <2>3. row[i] \in Row
    BY <2>1 DEF TypeOK
  <2>4. /\ row'[i].number = row[i].number /\ row'[i].year = row[i].year
        /\ row'[i].cancels = row[i].cancels
    BY <2>1, <2>3 DEF Row
  <2> QED
    BY <2>1, <2>2, <2>4, GaplessBooked
<1> QED
  BY <1>1, <1>2, <1>3, RowsStep

-----------------------------------------------------------------------------
(* The theorems *)

\* IInv is inductive.
LEMMA IInvStep == IInv /\ [Next]_vars => IInv'
<1> SUFFICES ASSUME IInv, [Next]_vars PROVE IInv'
  OBVIOUS
<1> USE DEF IInv
<1>1. TypeOK'
  BY TypeStep
<1>2. ASSUME UNCHANGED <<row, seq, locks, tx>> PROVE IInv'
  <2>1. RowOK' /\ LocalOK' /\ HeldRowOK' /\ DrawnOK'
    BY <1>2 DEF RowOK, LocalOK, Local, HeldRowOK, HeldRow, DrawnOK, Drawn, locks
  <2>2. FreshOK' /\ CascadeOK'
    BY <1>2 DEF FreshOK, Fresh, CascadeOK, Cascaded, locks
  <2>3. GaplessNumbers'
    BY <1>2, GaplessKept DEF Numberless
  <2> QED
    BY <1>1, <2>1, <2>2, <2>3
<1>3. CASE NoChange
  BY <1>2, <1>3 DEF NoChange, vars, data
<1>4. ASSUME NEW p \in Projects, OneStatement(p) PROVE IInv'
  BY <1>2, <1>4 DEF OneStatement, CreateProject, Advance, Retreat, Move, Archive, Restore, Flip
<1>5. ASSUME NEW s \in Sessions, Acts(s) PROVE IInv'
  BY <1>1, <1>5, SessionsStep, RowsStep, GaplessStep
<1> QED
  BY <1>3, <1>4, <1>5, StepCases DEF Acts

\* The inductive invariant holds in every reachable state.
THEOREM Invariance == Spec => []IInv
<1>1. Init => IInv
  BY InitIInv
<1>2. IInv /\ [Next]_vars => IInv'
  BY IInvStep
<1> QED
  BY <1>1, <1>2, PTL DEF Spec

\* Every variable keeps its type, for any number of handlers and rows.
THEOREM TypeCorrect == Spec => []TypeOK
<1>1. IInv => TypeOK
  BY DEF IInv
<1> QED
  BY <1>1, Invariance, PTL

\* AC-288 for any number of concurrent issues and cancels, of years and rows:
\* the committed numbers of a series are 1 .. seq without gap or repetition.
THEOREM Gapless == Spec => []GaplessNumbers
<1>1. IInv => GaplessNumbers
  BY DEF IInv
<1> QED
  BY <1>1, Invariance, PTL
=============================================================================
