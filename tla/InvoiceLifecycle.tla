------------------------- MODULE InvoiceLifecycle -------------------------
(***************************************************************************)
(* Invoices and the projects they bill, as the server's request handlers   *)
(* change them: draft create / update / delete, issue, cancel (Storno),    *)
(* project transitions, archive, restore, permanent delete ("purge") and   *)
(* customer delete.                                                        *)
(*                                                                         *)
(* Every handler is one Postgres transaction at READ COMMITTED: each       *)
(* statement reads what is committed when it starts, writes become visible *)
(* at COMMIT, row locks are held until the transaction ends.  A session    *)
(* runs one handler at a time; `pc` names the statement it runs next.      *)
(* What a session has written but not committed lives in its `tx` record,  *)
(* protected by the locks it holds.  Consecutive statements that neither   *)
(* wait nor read a row another session can write are one step.             *)
(*                                                                         *)
(* A deleted row leaves a tombstone: status "gone" and the number it had,  *)
(* so that properties can speak of what was destroyed; no action reads it. *)
(*                                                                         *)
(* An operator commented "faulty:" is a plausible bug of the definition    *)
(* that follows it; no behaviour uses it.  The checks put it in that       *)
(* definition's place to show that a property notices.                     *)
(***************************************************************************)
EXTENDS Integers, FiniteSets

CONSTANTS
  Sessions,     \* request handlers that can run at the same time
  Customers, Projects, Invoices,   \* row ids (random UUIDs in the code)
  CustomerOf,   \* the customer a project row references
  Blobs,        \* keys of rendered PDFs in the bucket (random UUIDs)
  Years,        \* calendar years of the clock seam `now`
  Totals,       \* what a draft can amount to: its lines and their total
  Requests,     \* the kinds of request the clients of this instance send
  MaxVersion,   \* bound: drafts are not edited beyond this version
  LastStatus,   \* length of WORKFLOW_ORDER; a status is its index there
  DueStatus,    \* index of 'rechnung_faellig'; 'abgerechnet' is the next
  None          \* SQL NULL, an absent id, a lock nobody holds

Kinds  == {"invoice", "storno"}
Series == Years \X Kinds

ASSUME SessionsAssumption == None \notin Sessions
ASSUME RowsAssumption ==
  /\ None \notin Invoices \cup Projects \cup Customers \cup Blobs
  /\ CustomerOf \in [Projects -> Customers]
ASSUME NumbersAssumption ==
  /\ Totals \subseteq Nat \ {0}
  /\ MaxVersion \in Nat
ASSUME WorkflowAssumption ==
  /\ LastStatus \in Nat
  /\ DueStatus \in 1 .. (LastStatus - 2)

VARIABLES
  customers,  \* customer rows
  pstate,     \* a project row: not inserted, active, archived, deleted
  status,     \* projects.status
  row,        \* invoice rows (and what a deleted row last held)
  seq,        \* invoice_sequence: the last value handed out per series
  blobs,      \* the bucket: PDFs never written, stored, hidden
  read,       \* (version, content) pairs of a draft some client has read;
              \* emptied when the row stops being a draft
  invLock,    \* FOR UPDATE on invoices rows
  seqLock,    \* row lock on invoice_sequence rows
  prjLock,    \* the FOR UPDATE lock a DELETE takes on a projects row
  tx          \* per session: the handler it runs and its local state

data  == <<customers, pstate, status, row, seq, blobs, read>>
locks == <<invLock, seqLock, prjLock>>
vars  == <<data, locks, tx>>

-----------------------------------------------------------------------------
(* Rows and transaction records *)

LiveRow == {"draft", "issued", "cancelled"}
Frozen  == {"issued", "cancelled"}
Present == {"active", "archived"}

\* an id no row was ever inserted under
NoRow == [status |-> "none", project |-> None, total |-> 0, version |-> 0,
          year |-> None, number |-> 0, cancels |-> None, blob |-> None]

\* what stays of a deleted row: which number it carried
Tombstone(r) ==
  [status |-> "gone", project |-> None, total |-> 0, version |-> 0,
   year |-> r.year, number |-> r.number, cancels |-> r.cancels, blob |-> None]

\* invoices_number_format: ST- numbers exactly on rows with cancellation_of
KindOf(r) == IF r.cancels = None THEN "invoice" ELSE "storno"

\* countIssuedOrCancelledForProject / ...ForCustomer
FrozenIn(P) == {i \in Invoices : row[i].status \in Frozen /\ row[i].project \in P}

ProjectsOf(c) == {p \in Projects : CustomerOf[p] = c /\ pstate[p] \in Present}

Steps == {"idle", "row", "write", "project", "number", "render", "commit",
          "insert", "keys", "check", "count", "archived", "delete", "cascade",
          "hide"}

RowRequests == {"update", "delete", "issue", "cancel"}
AllRequests == RowRequests \cup {"create", "transition", "archive", "restore",
                                 "project", "purge", "customer"}

ASSUME RequestsAssumption == Requests \subseteq AllRequests

\* no handler running
Idle == [pc |-> "idle", op |-> "none", inv |-> None, prj |-> None,
         cust |-> None, fresh |-> None, expected |-> 0, seen |-> 0,
         year |-> None, number |-> 0, blob |-> None, doomed |-> {}, keys |-> {}]

Init ==
  /\ customers = Customers
  /\ pstate = [p \in Projects |-> "none"]
  /\ status = [p \in Projects |-> 1]
  /\ row = [i \in Invoices |-> NoRow]
  /\ seq = [q \in Series |-> 0]
  /\ blobs = [b \in Blobs |-> "none"]
  /\ read = [i \in Invoices |-> {}]
  /\ invLock = [i \in Invoices |-> None]
  /\ seqLock = [q \in Series |-> None]
  /\ prjLock = [p \in Projects |-> None]
  /\ tx = [s \in Sessions |-> Idle]

-----------------------------------------------------------------------------
(* Ends of a transaction *)

\* faulty: the connection goes back to the pool with its row locks
KeepRowLocks(s) ==
  /\ UNCHANGED invLock
  /\ seqLock' = [q \in Series |-> IF seqLock[q] = s THEN None ELSE seqLock[q]]
  /\ prjLock' = [p \in Projects |-> IF prjLock[p] = s THEN None ELSE prjLock[p]]

\* COMMIT and ROLLBACK both release every lock the session holds
ReleaseLocks(s) ==
  /\ invLock' = [i \in Invoices |-> IF invLock[i] = s THEN None ELSE invLock[i]]
  /\ seqLock' = [q \in Series |-> IF seqLock[q] = s THEN None ELSE seqLock[q]]
  /\ prjLock' = [p \in Projects |-> IF prjLock[p] = s THEN None ELSE prjLock[p]]

EndTx(s) == ReleaseLocks(s) /\ tx' = [tx EXCEPT ![s] = Idle]

\* a rejection, a thrown error: nothing the transaction wrote survives, but
\* an object it put in the bucket does
Rollback(s) == EndTx(s) /\ UNCHANGED data

\* move to the next statement, with some of the local state set
Goto(s, t) == tx' = [tx EXCEPT ![s] = t]

\* a process crash, a dropped connection, any exception of a step
Abort(s) == tx[s].pc # "idle" /\ Rollback(s)

-----------------------------------------------------------------------------
(* Projects: one-statement handlers.  Each takes the row's NO KEY UPDATE   *)
(* lock, so it waits while a DELETE holds the row.                         *)

\* ProjectCrudService.createProject: the row starts in the first status and
\* the FK wants the customer row
CreateProject(p) ==
  /\ "project" \in Requests
  /\ pstate[p] = "none"
  /\ CustomerOf[p] \in customers
  /\ pstate' = [pstate EXCEPT ![p] = "active"]
  /\ UNCHANGED <<customers, status, row, seq, blobs, read, locks, tx>>

\* one statement on an unlocked projects row that moves it to st
Move(p, st) ==
  /\ "transition" \in Requests
  /\ pstate[p] = "active"
  /\ prjLock[p] = None
  /\ status' = [status EXCEPT ![p] = st]
  /\ UNCHANGED <<customers, pstate, row, seq, blobs, read, locks, tx>>

\* transitionForward / transitionBackward with expectedStatus = status[p];
\* any other expectedStatus is rejected and changes nothing
Advance(p) == status[p] < LastStatus /\ Move(p, status[p] + 1)

\* faulty: the first status has a predecessor
RetreatFromFirst(p) == status[p] < LastStatus /\ Move(p, status[p] - 1)

Retreat(p) == status[p] \in 2 .. (LastStatus - 1) /\ Move(p, status[p] - 1)

\* softDeleteProject and restoreProject flip projects.deleted
Flip(p, from, to) ==
  /\ pstate[p] = from
  /\ prjLock[p] = None
  /\ pstate' = [pstate EXCEPT ![p] = to]
  /\ UNCHANGED <<customers, status, row, seq, blobs, read, locks, tx>>

Archive(p) == "archive" \in Requests /\ Flip(p, "active", "archived")
Restore(p) == "restore" \in Requests /\ Flip(p, "archived", "active")

-----------------------------------------------------------------------------
(* Drafts *)

Reserved == {tx[s].fresh : s \in Sessions}

\* a UUID for a row to insert
FreshId(i) == row[i].status = "none" /\ i \notin Reserved

\* createDraft: the in-transaction lookup finds an active project
SubmitCreate(s, p, i) ==
  /\ "create" \in Requests
  /\ tx[s].pc = "idle"
  /\ pstate[p] = "active"
  /\ FreshId(i)
  /\ Goto(s, [Idle EXCEPT !.pc = "insert", !.op = "create", !.prj = p, !.fresh = i])
  /\ UNCHANGED <<data, locks>>

\* faulty: no foreign key on invoices.project_id
InsertUnchecked(s) ==
  LET i == tx[s].fresh
  IN /\ tx[s].pc = "insert"
     /\ \E t \in Totals :
          row' = [row EXCEPT ![i] = [NoRow EXCEPT !.status = "draft",
                    !.project = tx[s].prj, !.total = t, !.version = 1]]
     /\ EndTx(s)
     /\ UNCHANGED <<customers, pstate, status, seq, blobs, read>>

\* ... and the INSERT, whose FK check takes KEY SHARE on the projects row:
\* it waits for a DELETE of that row and fails when the row is gone.  An
\* archive committed since the lookup does not stop it.
InsertDraft(s) ==
  LET i == tx[s].fresh
      p == tx[s].prj
  IN /\ tx[s].pc = "insert"
     /\ prjLock[p] = None
     /\ \/ /\ pstate[p] \in Present
           /\ \E t \in Totals :
                /\ row' = [row EXCEPT ![i] = [NoRow EXCEPT !.status = "draft",
                                !.project = p, !.total = t, !.version = 1]]
                /\ read' = [read EXCEPT ![i] = {[version |-> 1, total |-> t]}]
           /\ EndTx(s)
           /\ UNCHANGED <<customers, pstate, status, seq, blobs>>
        \/ pstate[p] \notin Present /\ Rollback(s)

\* the client's request names a row and, but for cancel, the version it read;
\* the statement's snapshot of the project is taken here (rejected with 404
\* when the project is archived) and not again after a wait for the row lock
SubmitRow(s, i, op) ==
  /\ op \in Requests \cap RowRequests
  /\ tx[s].pc = "idle"
  /\ row[i].status \in LiveRow
  /\ pstate[row[i].project] = "active"
  /\ LET t == [Idle EXCEPT !.pc = "row", !.op = op, !.inv = i, !.prj = row[i].project]
     IN IF op = "cancel"
        THEN \E j \in Invoices : FreshId(j) /\ Goto(s, [t EXCEPT !.fresh = j])
        ELSE \E v \in read[i] :
               /\ op = "update" => v.version < MaxVersion
               /\ Goto(s, [t EXCEPT !.expected = v.version, !.seen = v.total])
  /\ UNCHANGED <<data, locks>>

\* faulty: the status read before the lock is trusted (update, delete, issue)
AcceptsAnyStatus(t, r) ==
  IF t.op = "cancel" THEN r.status = "issued" ELSE r.status \in LiveRow

\* faulty: a cancelled invoice can be cancelled again
AcceptsCancelled(t, r) ==
  IF t.op = "cancel" THEN r.status \in Frozen
  ELSE r.status = "draft" /\ r.version = t.expected

\* faulty: the expected version is not compared
AcceptsAnyVersion(t, r) == r.status = IF t.op = "cancel" THEN "issued" ELSE "draft"

\* the checks every handler makes on the row it has locked
RowAccepts(t, r) ==
  IF t.op = "cancel" THEN r.status = "issued"
  ELSE r.status = "draft" /\ r.version = t.expected

AfterLock(op) ==
  CASE op = "issue"  -> "project"
    [] op = "cancel" -> "number"
    [] OTHER         -> "write"

\* faulty: a plain SELECT
ReadRow(s) ==
  LET i == tx[s].inv
  IN /\ tx[s].pc = "row"
     /\ IF RowAccepts(tx[s], row[i])
        THEN /\ Goto(s, [tx[s] EXCEPT !.pc = AfterLock(tx[s].op)])
             /\ UNCHANGED <<data, locks>>
        ELSE Rollback(s)

\* getInvoiceRowForMutation (SELECT ... FOR UPDATE OF invoices) and the
\* INVOICE_FROZEN / version conflict / NOT_ISSUED / ALREADY_CANCELLED checks
LockRow(s) ==
  LET i == tx[s].inv
  IN /\ tx[s].pc = "row"
     /\ invLock[i] = None
     /\ IF RowAccepts(tx[s], row[i])
        THEN /\ invLock' = [invLock EXCEPT ![i] = s]
             /\ Goto(s, [tx[s] EXCEPT !.pc = AfterLock(tx[s].op)])
             /\ UNCHANGED <<data, seqLock, prjLock>>
        ELSE Rollback(s)

\* updateDraft: the UPDATE, the version bump of 50-row-version.sql, COMMIT
WriteDraft(s) ==
  LET i == tx[s].inv
      v == row[i].version + 1
  IN /\ tx[s].pc = "write"
     /\ tx[s].op = "update"
     /\ \E t \in Totals :
          /\ row' = [row EXCEPT ![i].total = t, ![i].version = v]
          /\ read' = [read EXCEPT ![i] = @ \cup {[version |-> v, total |-> t]}]
     /\ EndTx(s)
     /\ UNCHANGED <<customers, pstate, status, seq, blobs>>

\* deleteDraft: the DELETE and COMMIT
DeleteDraft(s) ==
  /\ tx[s].pc = "write"
  /\ tx[s].op = "delete"
  /\ row' = [row EXCEPT ![tx[s].inv] = Tombstone(@)]
  /\ read' = [read EXCEPT ![tx[s].inv] = {}]
  /\ EndTx(s)
  /\ UNCHANGED <<customers, pstate, status, seq, blobs>>

-----------------------------------------------------------------------------
(* Issue and cancel *)

\* faulty: archived projects can be billed
BillableArchived(p) == status[p] = DueStatus

\* faulty: projects of any status can be billed
BillableAnyStatus(p) == pstate[p] = "active"

\* not archived, and in 'rechnung_faellig'
Billable(p) == pstate[p] = "active" /\ status[p] = DueStatus

\* issue, steps 1-3: the project, read without a lock, must be billable, else
\* the request is rejected (404, INVOICE_PROJECT_STATE).
\* An incomplete draft or company profile is rejected too: Abort(s).
ReadProject(s) ==
  LET p == tx[s].prj
  IN /\ tx[s].pc = "project"
     /\ IF Billable(p)
        THEN /\ Goto(s, [tx[s] EXCEPT !.pc = "number"])
             /\ UNCHANGED <<data, locks>>
        ELSE Rollback(s)

\* faulty: the counter's row is not locked
AllocateUnlocked(s) ==
  \E y \in Years :
    LET q == <<y, IF tx[s].op = "cancel" THEN "storno" ELSE "invoice">>
    IN /\ tx[s].pc = "number"
       /\ Goto(s, [tx[s] EXCEPT !.pc = "render", !.year = y, !.number = seq[q] + 1])
       /\ UNCHANGED <<data, locks>>

\* faulty: a Postgres sequence, which a rollback does not take back
AllocateOutsideTx(s) ==
  \E y \in Years :
    LET q == <<y, IF tx[s].op = "cancel" THEN "storno" ELSE "invoice">>
    IN /\ tx[s].pc = "number"
       /\ seq' = [seq EXCEPT ![q] = @ + 1]
       /\ Goto(s, [tx[s] EXCEPT !.pc = "render", !.year = y, !.number = seq[q] + 1])
       /\ UNCHANGED <<customers, pstate, status, row, blobs, read, locks>>

\* allocateInvoiceNumber: the upsert on (year, kind) locks the counter row and
\* returns its next value; both last until the transaction ends
AllocateNumber(s) ==
  \E y \in Years :
    LET q == <<y, IF tx[s].op = "cancel" THEN "storno" ELSE "invoice">>
    IN /\ tx[s].pc = "number"
       /\ seqLock[q] = None
       /\ seqLock' = [seqLock EXCEPT ![q] = s]
       /\ Goto(s, [tx[s] EXCEPT !.pc = "render", !.year = y, !.number = seq[q] + 1])
       /\ UNCHANGED <<data, invLock, prjLock>>

\* faulty: the object is to be stored after the commit
PutPdfLater(s) ==
  \E b \in Blobs :
    /\ tx[s].pc = "render"
    /\ blobs[b] = "none"
    /\ Goto(s, [tx[s] EXCEPT !.pc = "commit", !.blob = b])
    /\ UNCHANGED <<data, locks>>

\* render and putObject; the object is in the bucket whatever happens next
PutPdf(s) ==
  \E b \in Blobs :
    /\ tx[s].pc = "render"
    /\ blobs[b] = "none"
    /\ blobs' = [blobs EXCEPT ![b] = "stored"]
    /\ Goto(s, [tx[s] EXCEPT !.pc = "commit", !.blob = b])
    /\ UNCHANGED <<customers, pstate, status, row, seq, read, locks>>

\* the renderer or the bucket throws
RenderFails(s) == tx[s].pc = "render" /\ Rollback(s)

\* insertRenderedInvoiceBinary, applyIssuanceUpdate, then the project's own
\* transition: row lock, archived and status checks repeated, UPDATE, COMMIT.
\* ProjectNotFound and ConcurrentModification roll everything back.
CommitIssue(s) ==
  LET i == tx[s].inv
      p == tx[s].prj
      q == <<tx[s].year, "invoice">>
  IN /\ tx[s].pc = "commit"
     /\ tx[s].op = "issue"
     /\ prjLock[p] = None
     /\ IF Billable(p)
        THEN /\ row' = [row EXCEPT ![i].status = "issued", ![i].version = @ + 1,
                          ![i].year = tx[s].year, ![i].number = tx[s].number,
                          ![i].blob = tx[s].blob]
             /\ status' = [status EXCEPT ![p] = DueStatus + 1]
             /\ seq' = [seq EXCEPT ![q] = tx[s].number]
             /\ read' = [read EXCEPT ![i] = {}]
             /\ EndTx(s)
             /\ UNCHANGED <<customers, pstate, blobs>>
        ELSE Rollback(s)

\* insertRenderedInvoiceBinary, insertStornoInvoice (both take KEY SHARE on
\* the project), applyCancellationFlip, COMMIT.  The Storno's lines and totals
\* are the original's, negated; the project's status stays.
CommitCancel(s) ==
  LET i == tx[s].inv
      p == tx[s].prj
      q == <<tx[s].year, "storno">>
      storno == [status |-> "issued", project |-> p, total |-> -row[i].total,
                 version |-> 1, year |-> tx[s].year, number |-> tx[s].number,
                 cancels |-> i, blob |-> tx[s].blob]
  IN /\ tx[s].pc = "commit"
     /\ tx[s].op = "cancel"
     /\ prjLock[p] = None
     /\ row' = [row EXCEPT ![tx[s].fresh] = storno, ![i].status = "cancelled"]
     /\ seq' = [seq EXCEPT ![q] = tx[s].number]
     /\ EndTx(s)
     /\ UNCHANGED <<customers, pstate, status, blobs, read>>

-----------------------------------------------------------------------------
(* Permanent delete of a project, and of a customer with its archived      *)
(* projects.  Each statement is a step: nothing is locked before the DELETE.*)

\* purgeProject: countIssuedOrCancelledForProject finds none (else
\* PROJECT_HAS_INVOICES)
SubmitPurge(s, p) ==
  /\ "purge" \in Requests
  /\ tx[s].pc = "idle"
  /\ pstate[p] \in Present
  /\ FrozenIn({p}) = {}
  /\ Goto(s, [Idle EXCEPT !.pc = "keys", !.op = "purge", !.prj = p])
  /\ UNCHANGED <<data, locks>>

\* listKeysForProject: the attachment rows of the project, rendered PDFs here
ListKeys(s) ==
  /\ tx[s].pc = "keys"
  /\ Goto(s, [tx[s] EXCEPT !.pc = "check",
                !.keys = {row[i].blob : i \in FrozenIn({tx[s].prj})}])
  /\ UNCHANGED <<data, locks>>

\* hardDeleteProject reads `deleted`: missing and active rows are rejected
CheckArchived(s) ==
  /\ tx[s].pc = "check"
  /\ IF pstate[tx[s].prj] = "archived"
     THEN /\ Goto(s, [tx[s] EXCEPT !.pc = "delete", !.doomed = {tx[s].prj}])
          /\ UNCHANGED <<data, locks>>
     ELSE Rollback(s)

\* deleteCustomer: no active project (else CUSTOMER_HAS_PROJECTS) ...
SubmitDeleteCustomer(s, c) ==
  /\ "customer" \in Requests
  /\ tx[s].pc = "idle"
  /\ c \in customers
  /\ \A p \in ProjectsOf(c) : pstate[p] = "archived"
  /\ Goto(s, [Idle EXCEPT !.pc = "count", !.op = "customer", !.cust = c])
  /\ UNCHANGED <<data, locks>>

\* ... countIssuedOrCancelledForCustomer finds none ...
CountCustomer(s) ==
  /\ tx[s].pc = "count"
  /\ IF FrozenIn(ProjectsOf(tx[s].cust)) = {}
     THEN /\ Goto(s, [tx[s] EXCEPT !.pc = "archived"])
          /\ UNCHANGED <<data, locks>>
     ELSE Rollback(s)

\* ... and the archived projects are listed for the loop that deletes them
ListArchived(s) ==
  /\ tx[s].pc = "archived"
  /\ Goto(s, [tx[s] EXCEPT !.pc = "delete",
       !.doomed = {p \in ProjectsOf(tx[s].cust) : pstate[p] = "archived"}])
  /\ UNCHANGED <<data, locks>>

\* DELETE FROM projects WHERE id = p, the unchecked statement of both paths:
\* it locks the row, or finds none
DeleteProject(s) ==
  \E p \in tx[s].doomed :
    /\ tx[s].pc = "delete"
    /\ prjLock[p] = None
    /\ IF pstate[p] \in Present
       THEN /\ prjLock' = [prjLock EXCEPT ![p] = s]
            /\ Goto(s, [tx[s] EXCEPT !.pc = "cascade", !.prj = p])
       ELSE /\ Goto(s, [tx[s] EXCEPT !.doomed = @ \ {p}])
            /\ UNCHANGED prjLock
    /\ UNCHANGED <<data, invLock, seqLock>>

\* ON DELETE CASCADE reaches the project's invoices, and waits for their locks
Cascade(s) ==
  LET mine == {i \in Invoices : row[i].status \in LiveRow /\ row[i].project = tx[s].prj}
  IN /\ tx[s].pc = "cascade"
     /\ \A i \in mine : invLock[i] = None
     /\ invLock' = [i \in Invoices |-> IF i \in mine THEN s ELSE invLock[i]]
     /\ Goto(s, [tx[s] EXCEPT !.pc = "delete"])
     /\ UNCHANGED <<data, seqLock, prjLock>>

AllDeleted(s) == tx[s].pc = "delete" /\ \A p \in tx[s].doomed : prjLock[p] = s

\* the deletes become visible, with every row they cascade to
Destroy(P) ==
  /\ pstate' = [p \in Projects |-> IF p \in P THEN "gone" ELSE pstate[p]]
  /\ row' = [i \in Invoices |->
               IF row[i].status \in LiveRow /\ row[i].project \in P
               THEN Tombstone(row[i]) ELSE row[i]]
  /\ read' = [i \in Invoices |-> IF row[i].project \in P THEN {} ELSE read[i]]

\* purgeProject commits; the keys it listed are hidden afterwards
CommitPurge(s) ==
  /\ tx[s].op = "purge"
  /\ AllDeleted(s)
  /\ Destroy(tx[s].doomed)
  /\ ReleaseLocks(s)
  /\ Goto(s, [Idle EXCEPT !.pc = "hide", !.op = "purge", !.keys = tx[s].keys])
  /\ UNCHANGED <<customers, status, seq, blobs>>

\* bestEffortHideStorageKeys: any of the hides may fail
HideKeys(s) ==
  \E K \in SUBSET tx[s].keys :
    /\ tx[s].pc = "hide"
    /\ blobs' = [b \in Blobs |-> IF b \in K THEN "hidden" ELSE blobs[b]]
    /\ EndTx(s)
    /\ UNCHANGED <<customers, pstate, status, row, seq, read>>

\* deleteCustomer's last statement deletes the customer row: the FK refuses it
\* (23503, 409) while a project still references the customer
CommitCustomer(s) ==
  LET c == tx[s].cust
  IN /\ tx[s].op = "customer"
     /\ AllDeleted(s)
     /\ IF c \in customers /\ ProjectsOf(c) \subseteq tx[s].doomed
        THEN /\ customers' = customers \ {c}
             /\ Destroy(tx[s].doomed)
             /\ EndTx(s)
             /\ UNCHANGED <<status, seq, blobs>>
        ELSE Rollback(s)

-----------------------------------------------------------------------------
(* Waiting *)

Blockers(s) ==
  LET t == tx[s]
      holders == CASE t.pc = "row"    -> {invLock[t.inv]}
                   [] t.pc = "insert" -> {prjLock[t.prj]}
                   [] t.pc = "commit" -> {prjLock[t.prj]}
                   [] t.pc = "delete" -> {prjLock[p] : p \in t.doomed}
                   [] t.pc = "cascade" ->
                        {invLock[i] : i \in {j \in Invoices : row[j].project = t.prj}}
                   [] OTHER -> {}
  IN holders \ {None, s}

\* Postgres aborts one transaction of a cycle of waiting transactions
DeadlockVictim(s) ==
  /\ \E D \in SUBSET Sessions :
       /\ s \in D
       /\ \A t \in D : Blockers(t) \cap D # {} /\ \E u \in D : t \in Blockers(u)
  /\ Rollback(s)

-----------------------------------------------------------------------------
(* The system *)

Submit(s) ==
  \/ \E p \in Projects, i \in Invoices : SubmitCreate(s, p, i)
  \/ \E i \in Invoices, op \in RowRequests : SubmitRow(s, i, op)
  \/ \E p \in Projects : SubmitPurge(s, p)
  \/ \E c \in Customers : SubmitDeleteCustomer(s, c)

\* what a running handler does next when nothing fails around it
Step(s) ==
  \/ InsertDraft(s)
  \/ LockRow(s)
  \/ WriteDraft(s)
  \/ DeleteDraft(s)
  \/ ReadProject(s)
  \/ AllocateNumber(s)
  \/ PutPdf(s)
  \/ RenderFails(s)
  \/ CommitIssue(s)
  \/ CommitCancel(s)
  \/ ListKeys(s)
  \/ CheckArchived(s)
  \/ CountCustomer(s)
  \/ ListArchived(s)
  \/ DeleteProject(s)
  \/ Cascade(s)
  \/ CommitPurge(s)
  \/ HideKeys(s)
  \/ CommitCustomer(s)

OneStatement(p) ==
  \/ CreateProject(p)
  \/ Advance(p)
  \/ Retreat(p)
  \/ Archive(p)
  \/ Restore(p)

Next ==
  \/ \E p \in Projects : OneStatement(p)
  \/ \E s \in Sessions : Submit(s) \/ Step(s) \/ Abort(s) \/ DeadlockVictim(s)

Spec == Init /\ [][Next]_vars

\* A handler keeps running, a waiter is eventually granted a lock that keeps
\* becoming free (Postgres queues waiters in order), a deadlock is detected.
Fairness == \A s \in Sessions : SF_vars(Step(s)) /\ WF_vars(DeadlockVictim(s))

FairSpec == Spec /\ Fairness

-----------------------------------------------------------------------------
(* Properties *)

TxRecord ==
  [pc : Steps, op : AllRequests \cup {"none"}, inv : Invoices \cup {None},
   prj : Projects \cup {None}, cust : Customers \cup {None},
   fresh : Invoices \cup {None}, expected : Nat, seen : Nat,
   year : Years \cup {None}, number : Nat, blob : Blobs \cup {None},
   doomed : SUBSET Projects, keys : SUBSET Blobs]

Row ==
  [status : LiveRow \cup {"none", "gone"}, project : Projects \cup {None},
   total : Int, version : Nat, year : Years \cup {None}, number : Nat,
   cancels : Invoices \cup {None}, blob : Blobs \cup {None}]

\* Every variable has its type.
TypeOK ==
  /\ customers \in SUBSET Customers
  /\ pstate \in [Projects -> Present \cup {"none", "gone"}]
  /\ status \in [Projects -> 1 .. LastStatus]
  /\ row \in [Invoices -> Row]
  /\ seq \in [Series -> Nat]
  /\ blobs \in [Blobs -> {"none", "stored", "hidden"}]
  /\ read \in [Invoices -> SUBSET [version : Nat, total : Totals]]
  /\ invLock \in [Invoices -> Sessions \cup {None}]
  /\ seqLock \in [Series -> Sessions \cup {None}]
  /\ prjLock \in [Projects -> Sessions \cup {None}]
  /\ tx \in [Sessions -> TxRecord]

\* rows of a series that were ever given a number, destroyed ones included
Numbered(q) == {i \in Invoices : row[i].number # 0 /\ <<row[i].year, KindOf(row[i])>> = q}

\* AC-288: within a (year, kind) series the numbers ever committed are
\* 1 .. seq, each used once, whatever mixture of issues and cancels runs and
\* whichever of them roll back after allocateInvoiceNumber.
GaplessNumbers ==
  \A q \in Series :
    /\ {row[i].number : i \in Numbered(q)} = 1 .. seq[q]
    /\ \A i, j \in Numbered(q) : row[i].number = row[j].number => i = j

\* ADR-0026: a row that was issued or cancelled is never destroyed.
FrozenNeverLost == \A i \in Invoices : row[i].status = "gone" => row[i].number = 0

\* A row is cancelled exactly when some Storno cancels it; there is then one
\* such Storno, on the same project, and the two sum to nothing.  Two sessions
\* cancelling the same invoice must not produce two Stornos.
StornoPairs ==
  LET stornos(i) == {j \in Invoices : row[j].status \in Frozen /\ row[j].cancels = i}
  IN \A i \in Invoices : row[i].status \in LiveRow =>
       /\ row[i].status = "cancelled" <=> stornos(i) # {}
       /\ \A j, k \in stornos(i) :
            /\ j = k
            /\ row[j].project = row[i].project
            /\ row[j].total + row[i].total = 0

\* The PDF of every issued or cancelled invoice is in the bucket, under a key
\* of its own: putObject precedes the commit, a rolled-back issue leaves its
\* object behind but never takes one away, and the hides after a purge touch
\* only keys of rows that are gone.
PdfBacked ==
  \A i \in Invoices : row[i].status \in Frozen =>
    /\ row[i].blob \in Blobs
    /\ blobs[row[i].blob] = "stored"
    /\ \A j \in Invoices : row[j].status \in Frozen /\ row[j].blob = row[i].blob => i = j

\* No invoice outlives its project and no project its customer, however a
\* purge or a customer delete meets a draft create, an issue or a cancel.
NoDangling ==
  /\ \A i \in Invoices : row[i].status \in LiveRow => pstate[row[i].project] \in Present
  /\ \A p \in Projects : pstate[p] \in Present => CustomerOf[p] \in customers

\* 30-invoices-immutability.sql: an issued row changes only by the flip to
\* cancelled, a cancelled row not at all; here the handlers keep to it even
\* without the trigger, whoever else is changing the project.
FrozenImmutable ==
  [][\A i \in Invoices : row[i].status \in Frozen /\ row'[i].status # "gone" =>
       \/ row'[i] = row[i]
       \/ row[i].status = "issued" /\ row'[i] = [row[i] EXCEPT !.status = "cancelled"]]_vars

\* data-model.md 6.4: a request that changes, deletes or issues a draft acts
\* on the content its client read.  An edit committed while the request
\* travelled, or while it waited for the row lock, must make it fail.
NoLostUpdate ==
  [][\A s \in Sessions : \A i \in Invoices :
       (tx[s].inv = i /\ invLock[i] = s /\ row[i].status = "draft" /\ row'[i] # row[i])
         => row[i].total = tx[s].seen]_vars

\* AC-287: an invoice becomes issued in the very step that moves its active
\* project from 'rechnung_faellig' to 'abgerechnet', although the project was
\* read without a lock several statements earlier.
IssueBillsProject ==
  [][\A i \in Invoices : row[i].status = "draft" /\ row'[i].status = "issued" =>
       LET p == row[i].project
       IN /\ pstate[p] = "active" /\ pstate'[p] = "active"
          /\ status[p] = DueStatus /\ status'[p] = DueStatus + 1]_vars

\* While a project is archived it cannot gain a first issued invoice, not even
\* from an issue that started before the archive: what the in-transaction
\* count of a purge found stays true as long as nobody restores the project.
ArchivedStaysUnbilled ==
  [][\A p \in Projects : pstate[p] = "archived" /\ FrozenIn({p}) = {}
       => FrozenIn({p})' = {}]_vars

\* Every handler ends, with a commit or a rollback: waiting sessions are
\* served and no cycle of waiters survives.
RequestsTerminate == \A s \in Sessions : tx[s].pc # "idle" ~> tx[s].pc = "idle"
=============================================================================
