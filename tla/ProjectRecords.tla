--------------------------- MODULE ProjectRecords ---------------------------
(***************************************************************************)
(* Projects, who is assigned to them and who wrote what: project create    *)
(* under a client-supplied id, edit and worker reassignment, archive,      *)
(* restore, permanent delete; user deactivate, reactivate and delete; and  *)
(* the draft invoices whose author columns a user delete sets to null.     *)
(*                                                                         *)
(* A handler is a Postgres transaction at READ COMMITTED and a session     *)
(* runs one at a time; `pc` names the statement it runs next.  What it has *)
(* written and not committed is in its `tx` record, and so are its row     *)
(* locks, by what they protect: an uncommitted reference to a user holds   *)
(* KEY SHARE on the users row, `owns` is a deleter's FOR UPDATE.           *)
(*                                                                         *)
(* The invoices belong to a project outside of the instance; numbering,    *)
(* Storno and the project states they depend on are in InvoiceLifecycle.   *)
(* The administrators who change users are outside of Users.  Deadlocks    *)
(* end in Abort.  An operator commented "faulty:" is a plausible bug of    *)
(* the definition that follows it, which no behaviour uses.                *)
(***************************************************************************)
EXTENDS FiniteSets

CONSTANTS
  Sessions,    \* request handlers that can run at the same time
  Users,       \* users with the worker role
  Projects,    \* ids clients generate for the projects they create
  NumberOf,    \* the number in the create request of an id
  Invoices,
  None         \* SQL NULL

ASSUME NoneAssumption == None \notin Users \cup Projects \cup Invoices \cup Sessions

VARIABLES
  user,      \* users rows
  project,   \* projects rows; `edited`: a field differs from the create request
  workers,   \* project_workers
  invoice,   \* invoices rows: status, created_by, updated_by
  tx

data == <<user, project, workers, invoice>>
vars == <<data, tx>>

-----------------------------------------------------------------------------

Stored == {"active", "archived"}
Known  == {u \in Users : user[u] # "gone"}

NoProject == [state |-> "none", edited |-> FALSE]
NoInvoice == [status |-> "none", created |-> None, updated |-> None]

\* for the properties: `refused`, the last create of the session was told that
\* its id or its number is taken; `disturbed`, the project's row or workers have
\* changed since the create started
Idle == [pc |-> "idle", op |-> "none", prj |-> None, want |-> {}, add |-> {},
         del |-> {}, added |-> {}, removed |-> {}, inserts |-> FALSE,
         updates |-> FALSE, inv |-> None, locked |-> {}, refs |-> {},
         as |-> None, owns |-> None, disturbed |-> FALSE, refused |-> FALSE]

Init ==
  /\ user = [u \in Users |-> "active"]
  /\ project = [p \in Projects |-> NoProject]
  /\ workers = [p \in Projects |-> {}]
  /\ invoice = [i \in Invoices |-> NoInvoice]
  /\ tx = [s \in Sessions |-> Idle]

\* what another session's transaction makes s wait for
Others(s) == Sessions \ {s}
Owned(u, s)   == \E r \in Others(s) : tx[r].owns = u
Shared(u, s)  == \E r \in Others(s) : u \in tx[r].refs
Locked(i, s)  == \E r \in Others(s) : i \in tx[r].locked
Updated(p, s) == \E r \in Others(s) : tx[r].prj = p /\ tx[r].updates

\* project_workers rows another session has inserted or deleted
Pending(p, u, s) ==
  \E r \in Others(s) : tx[r].prj = p /\ u \in tx[r].added \cup tx[r].removed

\* an uncommitted project_workers row holds KEY SHARE on its projects row
Referenced(p, s) == \E r \in Others(s) : tx[r].prj = p /\ tx[r].added # {}

Goto(s, t) == tx' = [tx EXCEPT ![s] = t]

\* ROLLBACK, or the end of a transaction that wrote nothing
End(s) == Goto(s, Idle) /\ UNCHANGED data

\* DUPLICATE number or IDEMPOTENCY_CONFLICT
Refuse(s) == Goto(s, [Idle EXCEPT !.refused = TRUE]) /\ UNCHANGED data

\* a commit of s that changes the projects in P ends s and is noticed
\* by the creates of these projects that are under way
EndChanging(s, P) ==
  tx' = [r \in Sessions |->
           CASE r = s -> Idle
             [] r # s /\ tx[r].op = "create" /\ tx[r].prj \in P
                  -> [tx[r] EXCEPT !.disturbed = TRUE]
             [] OTHER -> tx[r]]

\* a crash, a dropped connection, an exception, the victim of a deadlock
Abort(s) == tx[s].pc # "idle" /\ End(s)

-----------------------------------------------------------------------------
(* Create: createIdempotent over runCreateWithAudit *)

\* a create of p, or the retry of one, with the workers in W
SubmitCreate(s, p, W) ==
  /\ tx[s].pc = "idle"
  /\ Goto(s, [Idle EXCEPT !.pc = "select", !.op = "create", !.prj = p, !.want = W])
  /\ UNCHANGED data

\* the SELECT by id, archived rows included: a row that differs from the
\* request is refused, an equal one is replayed
Found(s, otherwise) ==
  LET p == tx[s].prj
  IN IF project[p].state \notin Stored THEN otherwise
     ELSE IF project[p].edited THEN Refuse(s)
     ELSE Goto(s, [tx[s] EXCEPT !.pc = "replay"]) /\ UNCHANGED data

PreSelect(s) ==
  /\ tx[s].pc = "select"
  /\ Found(s, Goto(s, [tx[s] EXCEPT !.pc = "assignable"]) /\ UNCHANGED data)

\* replayFromRow: the workers are a second read
Replay(s) ==
  /\ tx[s].pc = "replay"
  /\ IF workers[tx[s].prj] = tx[s].want THEN End(s) ELSE Refuse(s)

\* assertAssignableWorkers: a plain read, no lock
AssertAssignable(s) ==
  /\ tx[s].pc = "assignable"
  /\ IF \A u \in tx[s].want : user[u] = "active"
     THEN /\ Goto(s, [tx[s] EXCEPT !.pc = "insert"])
          /\ UNCHANGED data
     ELSE End(s)

\* an index entry of an uncommitted row: the INSERT waits to see its end
Colliding(s) ==
  \E r \in Others(s) : tx[r].inserts /\
    (tx[r].prj = tx[s].prj \/ NumberOf[tx[r].prj] = NumberOf[tx[s].prj])

NumberTaken(p) ==
  \E q \in Projects \ {p} : project[q].state \in Stored /\ NumberOf[q] = NumberOf[p]

\* faulty: every unique violation is reported as a duplicate number
InsertProjectNoRace(s) ==
  LET p == tx[s].prj
  IN /\ tx[s].pc = "insert" /\ ~ Colliding(s)
     /\ IF project[p].state \in Stored \/ NumberTaken(p) THEN Refuse(s)
        ELSE /\ Goto(s, [tx[s] EXCEPT !.pc = "assign", !.inserts = TRUE,
                                      !.add = tx[s].want, !.want = {}])
             /\ UNCHANGED data

\* the INSERT.  A taken id rolls back and is read again; a taken number is
\* refused; the primary key is checked first.
InsertProject(s) ==
  LET p == tx[s].prj
  IN /\ tx[s].pc = "insert" /\ ~ Colliding(s)
     /\ \/ /\ project[p].state \in Stored
           /\ Goto(s, [tx[s] EXCEPT !.pc = "reread"])
           /\ UNCHANGED data
        \/ /\ project[p].state \notin Stored /\ NumberTaken(p)
           /\ Refuse(s)
        \/ /\ project[p].state \notin Stored /\ ~ NumberTaken(p)
           /\ Goto(s, [tx[s] EXCEPT !.pc = "assign", !.inserts = TRUE,
                                      !.add = tx[s].want, !.want = {}])
           /\ UNCHANGED data

\* the SELECT again; no row there is taken for a duplicate number
Reread(s) == tx[s].pc = "reread" /\ Found(s, Refuse(s))

-----------------------------------------------------------------------------
(* Edit: updateProject *)

\* getProjectForMutation: an active project, read without a lock; the request
\* has fields, workers or both
SubmitEdit(s, p, fields, W) ==
  /\ tx[s].pc = "idle"
  /\ project[p].state = "active"
  /\ Goto(s, [Idle EXCEPT !.op = "edit", !.prj = p, !.want = W,
                          !.pc = IF fields THEN "fields" ELSE "diff"])
  /\ UNCHANGED data

\* updateProjectFields: UPDATE ... WHERE NOT deleted; then the workers, if the
\* request has any
UpdateFields(s) ==
  LET p == tx[s].prj
  IN /\ tx[s].pc = "fields" /\ ~ Updated(p, s)
     /\ IF project[p].state # "active" THEN End(s)
        ELSE /\ \E next \in {"diff", "assign"} :
                  Goto(s, [tx[s] EXCEPT !.pc = next, !.updates = TRUE])
             /\ UNCHANGED data

\* diffProjectWorkers and assertAssignableWorkers of the new ones
DiffWorkers(s) ==
  LET p == tx[s].prj
  IN /\ tx[s].pc = "diff"
     /\ IF \A u \in tx[s].want \ workers[p] : user[u] = "active"
        THEN /\ Goto(s, [tx[s] EXCEPT !.pc = "assign", !.add = tx[s].want \ workers[p],
                                      !.del = workers[p] \ tx[s].want, !.want = {}])
             /\ UNCHANGED data
        ELSE End(s)

\* removeProjectWorker: no row is no error
RemoveWorker(s, u) ==
  /\ tx[s].pc = "assign" /\ u \in tx[s].del
  /\ ~ Pending(tx[s].prj, u, s)
  /\ Goto(s, [tx[s] EXCEPT !.del = @ \ {u}, !.removed = @ \cup {u}])
  /\ UNCHANGED data

\* addProjectWorker: the primary key and both foreign keys
AddWorker(s, u) ==
  LET p == tx[s].prj
  IN /\ tx[s].pc = "assign" /\ tx[s].del = {} /\ u \in tx[s].add
     /\ ~ Pending(p, u, s) /\ ~ Owned(u, s)
     /\ IF u \in Known /\ u \notin workers[p] /\ (tx[s].inserts \/ project[p].state \in Stored)
        THEN /\ Goto(s, [tx[s] EXCEPT !.add = @ \ {u}, !.added = @ \cup {u},
                                      !.refs = @ \cup {u}])
             /\ UNCHANGED data
        ELSE End(s)

\* COMMIT of a create or an edit
CommitProject(s) ==
  LET p == tx[s].prj
  IN /\ tx[s].pc = "assign" /\ tx[s].del \cup tx[s].add = {}
     /\ project' = [project EXCEPT ![p] =
          IF tx[s].inserts THEN [NoProject EXCEPT !.state = "active"]
          ELSE [project[p] EXCEPT !.edited = @ \/ tx[s].updates]]
     /\ workers' = [workers EXCEPT ![p] = (@ \ tx[s].removed) \cup tx[s].added]
     /\ EndChanging(s, IF ~ tx[s].inserts
                         /\ (tx[s].updates \/ tx[s].removed \cup tx[s].added # {})
                      THEN {p} ELSE {})
     /\ UNCHANGED <<user, invoice>>

-----------------------------------------------------------------------------
(* Archive, restore, permanent delete *)

\* softDeleteProject, restoreProject: one UPDATE
Flip(p, from, to) ==
  /\ project[p].state = from
  /\ \A r \in Sessions : ~ (tx[r].prj = p /\ tx[r].updates)
  /\ project' = [project EXCEPT ![p].state = to]
  /\ UNCHANGED <<user, workers, invoice, tx>>

Archive(p) == Flip(p, "active", "archived")
Restore(p) == Flip(p, "archived", "active")

\* hardDeleteProject finds the row archived ...
SubmitPurge(s, p) ==
  /\ tx[s].pc = "idle"
  /\ project[p].state = "archived"
  /\ Goto(s, [Idle EXCEPT !.pc = "purge", !.op = "purge", !.prj = p])
  /\ UNCHANGED data

\* ... and deletes it whatever it is by now, its assignments with it
Purge(s) ==
  LET p == tx[s].prj
  IN /\ tx[s].pc = "purge"
     /\ ~ Updated(p, s) /\ ~ Referenced(p, s)
     /\ \A u \in workers[p] : ~ Pending(p, u, s)
     /\ project' = [project EXCEPT ![p] = NoProject]
     /\ workers' = [workers EXCEPT ![p] = {}]
     /\ EndChanging(s, {p})
     /\ UNCHANGED <<user, invoice>>

-----------------------------------------------------------------------------
(* Invoices, as far as they name their authors *)

\* faulty: author columns without a foreign key
InsertDraftUnchecked(s, i, u) ==
  /\ tx[s].pc = "idle" /\ user[u] = "active"
  /\ invoice[i].status = "none" /\ \A r \in Sessions : tx[r].inv # i
  /\ Goto(s, [Idle EXCEPT !.pc = "commit", !.op = "create draft", !.inv = i, !.as = u])
  /\ UNCHANGED data

\* createDraft by u, up to its INSERT
InsertDraft(s, i, u) ==
  /\ tx[s].pc = "idle" /\ user[u] = "active" /\ ~ Owned(u, s)
  /\ invoice[i].status = "none" /\ \A r \in Sessions : tx[r].inv # i
  /\ Goto(s, [Idle EXCEPT !.pc = "commit", !.op = "create draft", !.inv = i,
                          !.as = u, !.refs = {u}])
  /\ UNCHANGED data

\* updateDraft or issueDraft by u: SELECT ... FOR UPDATE finds a draft
LockDraft(s, op, i, u) ==
  /\ tx[s].pc = "idle" /\ user[u] = "active"
  /\ invoice[i].status = "draft" /\ ~ Locked(i, s)
  /\ Goto(s, [Idle EXCEPT !.pc = "stamp", !.op = op, !.inv = i, !.as = u, !.locked = {i}])
  /\ UNCHANGED data

\* its UPDATE sets updated_by; the FK check is skipped when that is no change
Stamp(s) ==
  LET u == tx[s].as
      same == invoice[tx[s].inv].updated = u
  IN /\ tx[s].pc = "stamp"
     /\ same \/ ~ Owned(u, s)
     /\ IF same \/ u \in Known
        THEN /\ Goto(s, [tx[s] EXCEPT !.pc = "commit", !.refs = IF same THEN {} ELSE {u}])
             /\ UNCHANGED data
        ELSE End(s)

CommitInvoice(s) ==
  LET i == tx[s].inv
  IN /\ tx[s].pc = "commit"
     /\ invoice' = [invoice EXCEPT ![i] =
          CASE tx[s].op = "create draft" ->
                 [status |-> "draft", created |-> tx[s].as, updated |-> tx[s].as]
            [] tx[s].op = "edit draft" -> [@ EXCEPT !.updated = tx[s].as]
            [] tx[s].op = "issue" -> [@ EXCEPT !.status = "issued", !.updated = tx[s].as]]
     /\ Goto(s, Idle)
     /\ UNCHANGED <<user, project, workers>>

-----------------------------------------------------------------------------
(* Users *)

\* deactivateUser, reactivateUser: one UPDATE
Toggle(u, from, to) ==
  /\ user[u] = from
  /\ \A r \in Sessions : tx[r].owns # u
  /\ user' = [user EXCEPT ![u] = to]
  /\ UNCHANGED <<project, workers, invoice, tx>>

Deactivate(u) == Toggle(u, "active", "inactive")
Reactivate(u) == Toggle(u, "inactive", "active")

NamedBy(u) == {i \in Invoices : u \in {invoice[i].created, invoice[i].updated}}

\* deleteUser: lockInvoicesReferencingUser ...
SubmitDelete(s, u) ==
  /\ tx[s].pc = "idle"
  /\ \A i \in NamedBy(u) : ~ Locked(i, s)
  /\ Goto(s, [Idle EXCEPT !.pc = "user", !.op = "delete", !.as = u, !.locked = NamedBy(u)])
  /\ UNCHANGED data

\* ... getUserRowForDelete ...
LockUser(s) ==
  LET u == tx[s].as
  IN /\ tx[s].pc = "user"
     /\ ~ Owned(u, s) /\ ~ Shared(u, s)
     /\ IF u \in Known
        THEN /\ Goto(s, [tx[s] EXCEPT !.pc = "count", !.owns = u])
             /\ UNCHANGED data
        ELSE End(s)

\* ... countIssuedOrCancelledForUser ...
CountInvoices(s) ==
  /\ tx[s].pc = "count"
  /\ IF \E i \in NamedBy(tx[s].as) : invoice[i].status = "issued"
     THEN End(s)
     ELSE /\ Goto(s, [tx[s] EXCEPT !.pc = "erase"])
          /\ UNCHANGED data

\* what ON DELETE SET NULL and CASCADE leave behind
Erase(s) ==
  LET u == tx[s].as
      Cleared(v) == IF v = u THEN None ELSE v
  IN /\ user' = [user EXCEPT ![u] = "gone"]
     /\ workers' = [p \in Projects |-> workers[p] \ {u}]
     /\ invoice' = [i \in Invoices |->
          [invoice[i] EXCEPT !.created = Cleared(@), !.updated = Cleared(@)]]
     /\ EndChanging(s, {p \in Projects : u \in workers[p]})
     /\ UNCHANGED project

\* faulty: the trigger lets the cascade through
DeleteUserUnguarded(s) ==
  LET u == tx[s].as
  IN /\ tx[s].pc = "erase"
     /\ \A i \in NamedBy(u) : ~ Locked(i, s)
     /\ \A p \in Projects : u \in workers[p] => ~ Pending(p, u, s)
     /\ Erase(s)

\* ... and the DELETE with its cascades, which an issued invoice aborts
\* (30-invoices-immutability.sql)
DeleteUser(s) ==
  LET u == tx[s].as
  IN /\ tx[s].pc = "erase"
     /\ \A i \in NamedBy(u) : ~ Locked(i, s)
     /\ \A p \in Projects : u \in workers[p] => ~ Pending(p, u, s)
     /\ IF \E i \in NamedBy(u) : invoice[i].status = "issued" THEN End(s)
        ELSE Erase(s)

-----------------------------------------------------------------------------

CreateProject(s) ==
  \/ \E p \in Projects, W \in SUBSET Users : SubmitCreate(s, p, W)
  \/ PreSelect(s) \/ Replay(s) \/ AssertAssignable(s) \/ InsertProject(s) \/ Reread(s)

EditProject(s) ==
  \/ \E p \in Projects, fields \in BOOLEAN, W \in SUBSET Users : SubmitEdit(s, p, fields, W)
  \/ UpdateFields(s) \/ DiffWorkers(s)

WriteInvoice(s) ==
  \/ \E i \in Invoices, u \in Users :
       \/ InsertDraft(s, i, u)
       \/ \E op \in {"edit draft", "issue"} : LockDraft(s, op, i, u)
  \/ Stamp(s) \/ CommitInvoice(s)

RemoveUser(s) ==
  \/ \E u \in Users : SubmitDelete(s, u)
  \/ LockUser(s) \/ CountInvoices(s) \/ DeleteUser(s)

Next ==
  \/ \E s \in Sessions :
       \/ CreateProject(s) \/ EditProject(s)
       \/ \E u \in Users : RemoveWorker(s, u) \/ AddWorker(s, u)
       \/ CommitProject(s)
       \/ \E p \in Projects : SubmitPurge(s, p)
       \/ Purge(s) \/ WriteInvoice(s) \/ RemoveUser(s) \/ Abort(s)
  \/ \E p \in Projects : Archive(p) \/ Restore(p)
  \/ \E u \in Users : Deactivate(u) \/ Reactivate(u)

Spec == Init /\ [][Next]_vars

-----------------------------------------------------------------------------
(* Properties *)

\* Every variable has its type; whoever a row names exists, and an assignment
\* belongs to a stored project, whatever was deleted meanwhile.
TypeOK ==
  /\ user \in [Users -> {"active", "inactive", "gone"}]
  /\ project \in [Projects -> [state : Stored \cup {"none"}, edited : BOOLEAN]]
  /\ workers \in [Projects -> SUBSET Known]
  /\ \A p \in Projects : workers[p] # {} => project[p].state \in Stored
  /\ invoice \in [Invoices -> [status : {"none", "draft", "issued"},
                               created : Known \cup {None}, updated : Known \cup {None}]]
  /\ \A s \in Sessions :
       /\ tx[s].refs \subseteq Known
       /\ tx[s].owns \in Known \cup {None}

\* A create is refused as a conflict or a duplicate number only for a reason:
\* another project holds the number, the stored project is not the one the
\* request describes, or it changed or went away while the request ran.  So a
\* client that repeats a create whose answer was lost, even while the first
\* attempt is still running, is never told that its own project collides.
RetryAnswered ==
  [][\A s \in Sessions :
       ~ tx[s].refused /\ tx'[s].refused =>
         LET p == tx[s].prj
         IN \/ NumberTaken(p)
            \/ tx[s].disturbed
            \/ project[p].state \in Stored /\ (project[p].edited \/ workers[p] # tx[s].want)]_vars

\* An issued invoice keeps the authors it was issued with, whichever users
\* are deleted while drafts are written and issued (AC-385).
AuthorsKept ==
  [][\A i \in Invoices : invoice[i].status = "issued" => invoice'[i] = invoice[i]]_vars
=============================================================================
