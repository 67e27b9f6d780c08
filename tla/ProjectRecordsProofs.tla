----------------------- MODULE ProjectRecordsProofs -----------------------
(***************************************************************************)
(* Theorems about ProjectRecords, for any number of sessions, users,       *)
(* projects and invoices.                                                  *)
(*                                                                         *)
(* A user stays as long as an uncommitted row names it: a handler that     *)
(* adds a reference holds KEY SHARE on the users row (`refs`), a deleter   *)
(* holds it FOR UPDATE (`owns`), and the two exclude each other.  The one  *)
(* reference taken without KEY SHARE, an UPDATE that leaves updated_by as  *)
(* it is, is safe for another reason: its handler holds the invoice row,   *)
(* which the deleter must have before it clears the column.                *)
(***************************************************************************)
EXTENDS ProjectRecords, TLAPS

Steps == {"idle", "select", "replay", "assignable", "insert", "reread", "fields",
          "diff", "assign", "purge", "stamp", "commit", "user", "count", "erase"}

Ops == {"none", "create", "edit", "purge", "create draft", "edit draft", "issue", "delete"}

TxRecord ==
  [pc : Steps, op : Ops, prj : Projects \cup {None},
   want : SUBSET Users, add : SUBSET Users, del : SUBSET Users,
   added : SUBSET Users, removed : SUBSET Users,
   inserts : BOOLEAN, updates : BOOLEAN, inv : Invoices \cup {None},
   locked : SUBSET Invoices, refs : SUBSET Users, as : Users \cup {None},
   owns : Users \cup {None}, disturbed : BOOLEAN, refused : BOOLEAN]

\* the statements of the project handlers, whose local state names a project
OnProject == {"select", "replay", "assignable", "insert", "reread", "fields",
              "diff", "assign", "purge"}

OnCreate == {"select", "replay", "assignable", "insert", "reread"}

\* an assignment about to be committed is of a user whose row is held, to a
\* project that is there or about to be
Assigning(s) ==
  /\ tx[s].pc \in OnProject => tx[s].prj \in Projects
  /\ tx[s].added \subseteq tx[s].refs
  /\ tx[s].added # {} => /\ tx[s].prj \in Projects
                         /\ tx[s].inserts \/ project[tx[s].prj].state \in Stored

\* a user row held FOR UPDATE is held by one handler, and shared with none
Owning(s) ==
  /\ tx[s].owns # None => tx[s].pc \in {"count", "erase"}
  /\ tx[s].pc \in {"count", "erase"} => tx[s].owns = tx[s].as
  /\ tx[s].pc \in {"user", "count", "erase"} => tx[s].as \in Users /\ tx[s].refs = {}
  /\ \A r \in Others(s) : tx[s].owns # None => /\ tx[r].owns # tx[s].owns
                                               /\ tx[s].owns \notin tx[r].refs

\* an invoice about to be written is as its handler found it, and the author
\* it will name exists
Writing(s) ==
  /\ tx[s].pc = "stamp" =>
       /\ tx[s].op \in {"edit draft", "issue"}
       /\ tx[s].inv \in Invoices /\ tx[s].as \in Users
       /\ tx[s].inv \in tx[s].locked /\ tx[s].refs = {}
       /\ invoice[tx[s].inv].status = "draft"
  /\ tx[s].pc = "commit" =>
       /\ tx[s].inv \in Invoices /\ tx[s].as \in Users
       /\ \/ /\ tx[s].op = "create draft"
             /\ tx[s].as \in tx[s].refs
             /\ invoice[tx[s].inv].status = "none"
             /\ \A r \in Others(s) : tx[r].inv # tx[s].inv
          \/ /\ tx[s].op \in {"edit draft", "issue"}
             /\ tx[s].inv \in tx[s].locked
             /\ invoice[tx[s].inv].status = "draft"
             /\ tx[s].as \in tx[s].refs \/ invoice[tx[s].inv].updated = tx[s].as
  /\ \A r \in Others(s) : tx[r].locked \cap tx[s].locked = {}

\* a create that found its project stored still does, unless it was disturbed
Replaying(s) ==
  /\ tx[s].pc \in OnCreate => tx[s].op = "create"
  /\ tx[s].pc \in {"replay", "reread"} =>
       tx[s].disturbed \/ project[tx[s].prj].state \in Stored

TxOK == tx \in [Sessions -> TxRecord]

SessionOK(s) == Assigning(s) /\ Owning(s) /\ Writing(s) /\ Replaying(s)

IInv == TypeOK /\ TxOK /\ \A s \in Sessions : SessionOK(s)

USE NoneAssumption

-----------------------------------------------------------------------------
LEMMA InitIInv == Init => IInv
<1> SUFFICES ASSUME Init PROVE IInv
  OBVIOUS
<1> USE DEF Init
<1>1. Idle \in TxRecord
  BY DEF Idle, TxRecord, Steps, Ops
<1>2. TypeOK
  BY DEF TypeOK, Known, NoProject, NoInvoice, Idle, Stored
<1>3. \A s \in Sessions : SessionOK(s)
  BY DEF Idle, SessionOK, Assigning, Owning, Writing, Replaying, OnProject, OnCreate, Others
<1> QED
  BY <1>1, <1>2, <1>3 DEF IInv, TxOK

-----------------------------------------------------------------------------
(* The steps of one handler *)

Acts(s) ==
  \/ CreateProject(s) \/ EditProject(s)
  \/ \E u \in Users : RemoveWorker(s, u) \/ AddWorker(s, u)
  \/ CommitProject(s)
  \/ \E p \in Projects : SubmitPurge(s, p)
  \/ Purge(s) \/ WriteInvoice(s) \/ RemoveUser(s) \/ Abort(s)

\* one-statement handlers, which no session is needed for
OneStatement ==
  \/ \E p \in Projects : Archive(p) \/ Restore(p)
  \/ \E u \in Users : Deactivate(u) \/ Reactivate(u)

LEMMA StepCases ==
  ASSUME [Next]_vars
  PROVE  \/ UNCHANGED vars
         \/ OneStatement
         \/ \E s \in Sessions : Acts(s)
  BY DEF Next, OneStatement, Acts

\* a handler that is done, or was refused, has nothing left
Quiet(s) ==
  /\ tx'[s].pc = "idle"
  /\ tx'[s].refs = {} /\ tx'[s].added = {} /\ tx'[s].locked = {}
  /\ tx'[s].owns = None /\ tx'[s].inv = None

\* a project handler starts with nothing
Starts(s) ==
  /\ UNCHANGED data
  /\ tx'[s].pc \in {"select", "fields", "diff", "purge"} /\ tx'[s].prj \in Projects
  /\ tx'[s].pc = "select" => tx'[s].op = "create"
  /\ tx'[s].refs = {} /\ tx'[s].added = {} /\ tx'[s].locked = {}
  /\ tx'[s].owns = None /\ tx'[s].inv = None

\* it moves on, takes no reference, and remembers what it found
Moves(s) ==
  /\ UNCHANGED data
  /\ tx[s].pc \in OnProject /\ tx'[s].pc \in OnProject
  /\ tx'[s].pc \in OnCreate => tx[s].pc \in OnCreate
  /\ tx'[s].pc \in {"replay", "reread"} =>
       /\ tx[s].pc \in {"select", "insert", "reread"}
       /\ project[tx[s].prj].state \in Stored
  /\ tx[s].inserts => tx'[s].inserts
  /\ tx'[s].op = tx[s].op /\ tx'[s].prj = tx[s].prj /\ tx'[s].as = tx[s].as
  /\ tx'[s].refs = tx[s].refs /\ tx'[s].added = tx[s].added
  /\ tx'[s].locked = tx[s].locked /\ tx'[s].owns = tx[s].owns /\ tx'[s].inv = tx[s].inv

\* it adds an assignment
Adds(s, u) ==
  /\ UNCHANGED data
  /\ u \in Known /\ ~ Owned(u, s)
  /\ tx[s].inserts \/ project[tx[s].prj].state \in Stored
  /\ tx[s].pc = "assign" /\ tx'[s].pc = "assign"
  /\ tx'[s].refs = tx[s].refs \cup {u} /\ tx'[s].added = tx[s].added \cup {u}
  /\ tx'[s].inserts = tx[s].inserts
  /\ tx'[s].op = tx[s].op /\ tx'[s].prj = tx[s].prj /\ tx'[s].as = tx[s].as
  /\ tx'[s].locked = tx[s].locked /\ tx'[s].owns = tx[s].owns /\ tx'[s].inv = tx[s].inv

LEMMA IdleType == Idle \in TxRecord /\ [Idle EXCEPT !.refused = TRUE] \in TxRecord
  BY DEF Idle, TxRecord, Steps, Ops

LEMMA EndQuiet ==
  ASSUME TxOK, NEW s \in Sessions, End(s) \/ Refuse(s)
  PROVE  TxOK' /\ Quiet(s)
<1>1. CASE End(s)
  BY <1>1, IdleType DEF TxOK, End, Goto, Quiet, Idle
<1>2. CASE Refuse(s)
  <2>1. tx' = [tx EXCEPT ![s] = [Idle EXCEPT !.refused = TRUE]]
    BY <1>2 DEF Refuse, Goto
  <2>2. tx'[s] = [Idle EXCEPT !.refused = TRUE]
    BY <2>1 DEF TxOK
  <2> QED
    BY <2>1, <2>2, IdleType DEF TxOK, Quiet, Idle
<1> QED
  BY <1>1, <1>2

LEMMA CommitQuiet ==
  ASSUME TxOK, NEW s \in Sessions, NEW P, EndChanging(s, P)
  PROVE  TxOK' /\ Quiet(s)
<1>1. \A t \in TxRecord, b \in BOOLEAN : [t EXCEPT !.disturbed = b] \in TxRecord
  BY DEF TxRecord
<1>2. \A r \in Sessions : [tx[r] EXCEPT !.disturbed = TRUE] \in TxRecord
  BY <1>1 DEF TxOK
<1> QED
  BY <1>2, IdleType DEF EndChanging, TxOK, Quiet, Idle

\* The updates handlers make to their local state keep its type.
LEMMA TxFields ==
  ASSUME NEW t \in TxRecord, NEW pc \in Steps, NEW b \in BOOLEAN,
         NEW V \in SUBSET Users, NEW W \in SUBSET Users, NEW X \in SUBSET Users
  PROVE  /\ [t EXCEPT !.pc = pc] \in TxRecord
         /\ [t EXCEPT !.pc = pc, !.inserts = b, !.add = V, !.want = W] \in TxRecord
         /\ [t EXCEPT !.pc = pc, !.updates = b] \in TxRecord
         /\ [t EXCEPT !.pc = pc, !.add = V, !.del = W, !.want = X] \in TxRecord
         /\ [t EXCEPT !.del = V, !.removed = W] \in TxRecord
         /\ [t EXCEPT !.add = V, !.added = W, !.refs = X] \in TxRecord
         /\ [t EXCEPT !.pc = pc, !.refs = V] \in TxRecord
         /\ \A u \in Users : [t EXCEPT !.pc = pc, !.owns = u] \in TxRecord
<1>1. [t EXCEPT !.pc = pc] \in TxRecord
  BY DEF TxRecord
<1>2. [t EXCEPT !.pc = pc, !.inserts = b, !.add = V, !.want = W] \in TxRecord
  BY DEF TxRecord
<1>3. [t EXCEPT !.pc = pc, !.updates = b] \in TxRecord
  BY DEF TxRecord
<1>4. [t EXCEPT !.pc = pc, !.add = V, !.del = W, !.want = X] \in TxRecord
  BY DEF TxRecord
<1>5. [t EXCEPT !.del = V, !.removed = W] \in TxRecord
  BY DEF TxRecord
<1>6. [t EXCEPT !.add = V, !.added = W, !.refs = X] \in TxRecord
  BY DEF TxRecord
<1>7. [t EXCEPT !.pc = pc, !.refs = V] \in TxRecord
  BY DEF TxRecord
<1>8. \A u \in Users : [t EXCEPT !.pc = pc, !.owns = u] \in TxRecord
  BY DEF TxRecord
<1> QED
  BY <1>1, <1>2, <1>3, <1>4, <1>5, <1>6, <1>7, <1>8

LEMMA GotoType ==
  ASSUME TxOK, NEW s \in Sessions, NEW t \in TxRecord, Goto(s, t)
  PROVE  TxOK' /\ tx'[s] = t
  BY DEF TxOK, Goto

\* how a project handler starts
LEMMA StartStep ==
  ASSUME TxOK, NEW s \in Sessions, NEW p \in Projects,
         \/ \E W \in SUBSET Users : SubmitCreate(s, p, W)
         \/ \E fields \in BOOLEAN, W \in SUBSET Users : SubmitEdit(s, p, fields, W)
         \/ SubmitPurge(s, p)
  PROVE  TxOK' /\ Starts(s)
<1>1. ASSUME NEW W \in SUBSET Users, SubmitCreate(s, p, W)
      PROVE  TxOK' /\ Starts(s)
  <2> DEFINE t == [Idle EXCEPT !.pc = "select", !.op = "create", !.prj = p, !.want = W]
  <2>1. t \in TxRecord
    BY DEF Idle, TxRecord, Steps, Ops
  <2>2. TxOK' /\ tx'[s] = t
    BY <1>1, <2>1, GotoType DEF SubmitCreate
  <2> QED
    BY ZenonT(40), <1>1, <2>2 DEF SubmitCreate, Starts, Idle, OnProject
<1>2. ASSUME NEW fields \in BOOLEAN, NEW W \in SUBSET Users, SubmitEdit(s, p, fields, W)
      PROVE  TxOK' /\ Starts(s)
  <2> DEFINE c == IF fields THEN "fields" ELSE "diff"
             t == [Idle EXCEPT !.op = "edit", !.prj = p, !.want = W, !.pc = c]
  <2>1. c \in {"fields", "diff"}
    OBVIOUS
  <2> HIDE DEF c
  <2>2. t \in TxRecord
    BY <2>1 DEF Idle, TxRecord, Steps, Ops
  <2>3. TxOK' /\ tx'[s] = t
    BY <1>2, <2>2, GotoType DEF SubmitEdit, c
  <2> QED
    BY ZenonT(40), <1>2, <2>1, <2>3 DEF SubmitEdit, Starts, Idle, OnProject
<1>3. CASE SubmitPurge(s, p)
  <2> DEFINE t == [Idle EXCEPT !.pc = "purge", !.op = "purge", !.prj = p]
  <2>1. t \in TxRecord
    BY DEF Idle, TxRecord, Steps, Ops
  <2>2. TxOK' /\ tx'[s] = t
    BY <1>3, <2>1, GotoType DEF SubmitPurge
  <2> QED
    BY <1>3, <2>2 DEF SubmitPurge, Starts, Idle, OnProject
<1> QED
  BY <1>1, <1>2, <1>3

\* how it moves on
LEMMA MoveStep ==
  ASSUME TypeOK, TxOK, NEW s \in Sessions, Assigning(s),
         \/ PreSelect(s) \/ Replay(s) \/ AssertAssignable(s) \/ InsertProject(s) \/ Reread(s)
         \/ UpdateFields(s) \/ DiffWorkers(s)
         \/ \E u \in Users : RemoveWorker(s, u)
  PROVE  TxOK' /\ (Moves(s) \/ (Quiet(s) /\ UNCHANGED data))
<1> DEFINE Ends == End(s) \/ Refuse(s)
<1>1. ASSUME Ends PROVE TxOK' /\ Quiet(s) /\ UNCHANGED data
  BY <1>1, EndQuiet DEF End, Refuse
<1>2. tx[s] \in TxRecord
  BY DEF TxOK
<1>3. ASSUME NEW pc \in OnProject, Goto(s, [tx[s] EXCEPT !.pc = pc]), UNCHANGED data,
             tx[s].pc \in OnProject, pc \in OnCreate => tx[s].pc \in OnCreate,
             pc \in {"replay", "reread"} => /\ tx[s].pc \in {"select", "insert", "reread"}
                                            /\ project[tx[s].prj].state \in Stored
      PROVE  TxOK' /\ Moves(s)
  <2>1. pc \in Steps
    BY DEF OnProject, Steps
  <2>2. TxOK' /\ tx'[s] = [tx[s] EXCEPT !.pc = pc]
    BY <1>2, <1>3, <2>1, TxFields, GotoType
  <2> QED
    BY <1>2, <1>3, <2>2 DEF Moves, TxRecord, OnCreate
<1>4. ASSUME NEW V \in SUBSET Users, NEW b \in BOOLEAN, b = TRUE, UNCHANGED data, tx[s].pc = "insert",
             Goto(s, [tx[s] EXCEPT !.pc = "assign", !.inserts = b, !.add = V, !.want = {}])
      PROVE  TxOK' /\ Moves(s)
  <2>1. [tx[s] EXCEPT !.pc = "assign", !.inserts = b, !.add = V, !.want = {}] \in TxRecord
    BY <1>2 DEF TxRecord, Steps
  <2>2. TxOK' /\ tx'[s] = [tx[s] EXCEPT !.pc = "assign", !.inserts = b, !.add = V, !.want = {}]
    BY <1>4, <2>1, GotoType
  <2>3. tx'[s].inserts = b
    BY <1>2, <2>2 DEF TxRecord
  <2>4. /\ tx'[s].pc = "assign" /\ tx'[s].op = tx[s].op /\ tx'[s].prj = tx[s].prj
        /\ tx'[s].as = tx[s].as /\ tx'[s].refs = tx[s].refs /\ tx'[s].added = tx[s].added
        /\ tx'[s].locked = tx[s].locked /\ tx'[s].owns = tx[s].owns /\ tx'[s].inv = tx[s].inv
    BY <1>2, <2>2 DEF TxRecord
  <2>5. tx'[s].inserts
    BY <1>4, <2>3
  <2> QED
    BY <1>4, <2>2, <2>4, <2>5 DEF Moves, OnProject, OnCreate
<1>5. CASE PreSelect(s)
  BY <1>1, <1>3, <1>5 DEF PreSelect, Found, OnProject, OnCreate
<1>6. CASE Replay(s)
  BY <1>1, <1>6 DEF Replay
<1>7. CASE AssertAssignable(s)
  BY <1>1, <1>3, <1>7 DEF AssertAssignable, OnProject, OnCreate
<1>8. CASE InsertProject(s)
  <2>1. tx[s].want \in SUBSET Users
    BY <1>2 DEF TxRecord
  <2>2. tx[s].pc = "insert"
    BY <1>8 DEF InsertProject
  <2>3. CASE /\ project[tx[s].prj].state \in Stored
             /\ Goto(s, [tx[s] EXCEPT !.pc = "reread"]) /\ UNCHANGED data
    BY <1>3, <2>2, <2>3 DEF OnProject, OnCreate
  <2>4. CASE /\ Goto(s, [tx[s] EXCEPT !.pc = "assign", !.inserts = TRUE, !.add = tx[s].want, !.want = {}])
             /\ UNCHANGED data
    BY <1>4, <2>1, <2>2, <2>4
  <2> QED
    BY <1>1, <1>8, <2>3, <2>4 DEF InsertProject
<1>9. CASE Reread(s)
  BY <1>1, <1>3, <1>9 DEF Reread, Found, OnProject, OnCreate
<1>10. CASE UpdateFields(s)
  <2>1. CASE End(s)
    BY <1>1, <2>1
  <2>2. CASE ~ End(s)
    <3>1. PICK pc \in {"diff", "assign"} : Goto(s, [tx[s] EXCEPT !.pc = pc, !.updates = TRUE])
      BY <1>10, <2>2 DEF UpdateFields
    <3>2. PICK b \in BOOLEAN : b = TRUE
      OBVIOUS
    <3>3. Goto(s, [tx[s] EXCEPT !.pc = pc, !.updates = b])
      BY <3>1, <3>2
    <3>4. [tx[s] EXCEPT !.pc = pc, !.updates = b] \in TxRecord
      BY <1>2 DEF TxRecord, Steps
    <3>5. TxOK' /\ tx'[s] = [tx[s] EXCEPT !.pc = pc, !.updates = b]
      BY <3>3, <3>4, GotoType
    <3>6. tx[s].pc = "fields" /\ UNCHANGED data
      BY <1>10, <2>2 DEF UpdateFields
    <3> QED
      BY <1>2, <3>5, <3>6 DEF Moves, TxRecord, OnProject, OnCreate
  <2> QED
    BY <2>1, <2>2
<1>11. CASE DiffWorkers(s)
  <2>1. CASE End(s)
    BY <1>1, <2>1
  <2>2. CASE ~ End(s)
    <3> DEFINE V == tx[s].want \ workers[tx[s].prj]
               W == workers[tx[s].prj] \ tx[s].want
    <3>1. /\ tx[s].pc = "diff" /\ UNCHANGED data
          /\ Goto(s, [tx[s] EXCEPT !.pc = "assign", !.add = V, !.del = W, !.want = {}])
      BY <1>11, <2>2 DEF DiffWorkers
    <3>2. tx[s].prj \in Projects
      BY <3>1 DEF Assigning, OnProject
    <3>3. V \in SUBSET Users /\ W \in SUBSET Users
      BY <1>2, <3>2 DEF TypeOK, Known, TxRecord
    <3> HIDE DEF V, W
    <3>4. [tx[s] EXCEPT !.pc = "assign", !.add = V, !.del = W, !.want = {}] \in TxRecord
      BY <1>2, <3>3 DEF TxRecord, Steps
    <3>5. TxOK' /\ tx'[s] = [tx[s] EXCEPT !.pc = "assign", !.add = V, !.del = W, !.want = {}]
      BY <3>1, <3>4, GotoType
    <3> QED
      BY <1>2, <3>1, <3>5 DEF Moves, TxRecord, OnProject, OnCreate
  <2> QED
    BY <2>1, <2>2
<1>12. ASSUME NEW u \in Users, RemoveWorker(s, u) PROVE TxOK' /\ Moves(s)
  <2> DEFINE V == tx[s].del \ {u}
             W == tx[s].removed \cup {u}
  <2>1. tx[s].pc = "assign" /\ UNCHANGED data /\ Goto(s, [tx[s] EXCEPT !.del = V, !.removed = W])
    BY <1>12 DEF RemoveWorker
  <2>2. V \in SUBSET Users /\ W \in SUBSET Users
    BY <1>2 DEF TxRecord
  <2> HIDE DEF V, W
  <2>3. [tx[s] EXCEPT !.del = V, !.removed = W] \in TxRecord
    BY <1>2, <2>2 DEF TxRecord
  <2>4. TxOK' /\ tx'[s] = [tx[s] EXCEPT !.del = V, !.removed = W]
    BY <2>1, <2>3, GotoType
  <2> QED
    BY <1>2, <2>1, <2>4 DEF Moves, TxRecord, OnProject, OnCreate
<1> QED
  BY <1>5, <1>6, <1>7, <1>8, <1>9, <1>10, <1>11, <1>12

\* an INSERT into project_workers
LEMMA AddStep ==
  ASSUME TypeOK, TxOK, NEW s \in Sessions, NEW u \in Users, AddWorker(s, u)
  PROVE  TxOK' /\ (Adds(s, u) \/ (Quiet(s) /\ UNCHANGED data))
<1>1. tx[s] \in TxRecord
  BY DEF TxOK
<1>2. CASE End(s)
  BY <1>2, EndQuiet DEF End
<1>3. CASE ~ End(s)
  <2> DEFINE V == tx[s].add \ {u}
             W == tx[s].added \cup {u}
             X == tx[s].refs \cup {u}
  <2>1. /\ tx[s].pc = "assign" /\ UNCHANGED data /\ u \in Known /\ ~ Owned(u, s)
        /\ tx[s].inserts \/ project[tx[s].prj].state \in Stored
        /\ Goto(s, [tx[s] EXCEPT !.add = V, !.added = W, !.refs = X])
    BY <1>3 DEF AddWorker
  <2>2. V \in SUBSET Users /\ W \in SUBSET Users /\ X \in SUBSET Users
    BY <1>1 DEF TxRecord
  <2>3. W = tx[s].added \cup {u} /\ X = tx[s].refs \cup {u}
    OBVIOUS
  <2> HIDE DEF V, W, X
  <2>4. [tx[s] EXCEPT !.add = V, !.added = W, !.refs = X] \in TxRecord
    BY <1>1, <2>2 DEF TxRecord
  <2>5. TxOK' /\ tx'[s] = [tx[s] EXCEPT !.add = V, !.added = W, !.refs = X]
    BY <2>1, <2>4, GotoType
  <2> QED
    BY <1>1, <2>1, <2>3, <2>5 DEF Adds, TxRecord
<1> QED
  BY <1>2, <1>3

-----------------------------------------------------------------------------
(* A step that commits nothing *)

\* what s holds now is at odds with nothing another handler holds
Compatible(s) ==
  /\ tx'[s].refs \subseteq Known /\ tx'[s].owns \in Known \cup {None}
  /\ \A r \in Others(s) :
       /\ tx[r].owns # None => tx'[s].owns # tx[r].owns /\ tx[r].owns \notin tx'[s].refs
       /\ tx'[s].owns # None => tx'[s].owns \notin tx[r].refs
       /\ tx'[s].locked \cap tx[r].locked = {}
       /\ tx[r].pc = "commit" /\ tx[r].op = "create draft" => tx'[s].inv # tx[r].inv

LocalStep(s) ==
  /\ UNCHANGED data
  /\ \A r \in Others(s) : tx'[r] = tx[r]

LEMMA LocalFrame ==
  ASSUME IInv, NEW s \in Sessions, TxOK', LocalStep(s), Compatible(s), SessionOK(s)'
  PROVE  IInv'
<1> USE DEF LocalStep, data
<1>1. TypeOK'
  <2>1. \A r \in Sessions : tx'[r].refs \subseteq Known /\ tx'[r].owns \in Known \cup {None}
    BY DEF IInv, TypeOK, Compatible, Others
  <2>2. Known' = Known
    BY DEF Known
  <2> QED
    BY <2>1, <2>2 DEF IInv, TypeOK
<1>2. ASSUME NEW r \in Others(s) PROVE SessionOK(r)'
  <2>1. r \in Sessions /\ tx'[r] = tx[r] /\ SessionOK(r)
    BY <1>2 DEF IInv, Others
  <2>2. Assigning(r)' /\ Replaying(r)'
    BY <2>1 DEF SessionOK, Assigning, Replaying
  <2>3. \A q \in Others(r) : q = s \/ tx'[q] = tx[q]
    BY DEF Others
  <2>4. Owning(r)'
    BY <2>1, <2>3 DEF SessionOK, Owning, Compatible
  <2>5. Writing(r)'
    BY <2>1, <2>3 DEF SessionOK, Writing, Compatible
  <2> QED
    BY <2>2, <2>4, <2>5 DEF SessionOK
<1> QED
  BY <1>1, <1>2 DEF IInv, Others

\* what the invariant says of what two handlers hold
LEMMA Held ==
  ASSUME IInv, NEW s \in Sessions
  PROVE  /\ tx[s].refs \subseteq Known /\ tx[s].owns \in Known \cup {None}
         /\ \A r \in Others(s) :
              /\ r \in Sessions
              /\ tx[r].owns # None => tx[s].owns # tx[r].owns /\ tx[r].owns \notin tx[s].refs
              /\ tx[s].owns # None => tx[s].owns \notin tx[r].refs
              /\ tx[s].locked \cap tx[r].locked = {}
              /\ tx[r].pc = "commit" => tx[r].inv \in Invoices
              /\ tx[r].pc = "commit" /\ tx[r].op = "create draft" => tx[s].inv # tx[r].inv
<1>1. tx[s].refs \subseteq Known /\ tx[s].owns \in Known \cup {None}
  BY DEF IInv, TypeOK
<1>2. ASSUME NEW r \in Others(s) PROVE r \in Sessions /\ s \in Others(r)
  BY DEF Others
<1>3. \A r \in Others(s) : SessionOK(r) /\ SessionOK(s)
  BY <1>2 DEF IInv
<1> QED
  BY ZenonT(40), <1>1, <1>2, <1>3 DEF SessionOK, Owning, Writing

LEMMA GotoLocal ==
  ASSUME TxOK, NEW s \in Sessions, NEW t, Goto(s, t), UNCHANGED data
  PROVE  LocalStep(s)
  BY DEF TxOK, Goto, LocalStep, Others

\* handlers that hold nothing yet, or no more
LEMMA NothingHeld ==
  ASSUME IInv, NEW s \in Sessions, TxOK', LocalStep(s), Quiet(s) \/ Starts(s)
  PROVE  IInv'
<1>1. /\ tx'[s].refs = {} /\ tx'[s].added = {} /\ tx'[s].locked = {}
      /\ tx'[s].owns = None /\ tx'[s].inv = None
      /\ tx'[s].pc \in {"idle", "select", "fields", "diff", "purge"}
      /\ tx'[s].pc # "idle" => tx'[s].prj \in Projects
      /\ tx'[s].pc = "select" => tx'[s].op = "create"
  BY DEF Quiet, Starts
<1>2. Compatible(s)
  <2>1. tx'[s].refs \subseteq Known /\ tx'[s].owns \in Known \cup {None}
    BY <1>1, Held
  <2>2. ASSUME NEW r \in Others(s)
        PROVE  /\ tx[r].owns # None => tx'[s].owns # tx[r].owns /\ tx[r].owns \notin tx'[s].refs
               /\ tx'[s].owns # None => tx'[s].owns \notin tx[r].refs
    BY <1>1, Held
  <2>3. ASSUME NEW r \in Others(s)
        PROVE  tx'[s].locked \cap tx[r].locked = {}
    BY <1>1, Held
  <2>4. ASSUME NEW r \in Others(s), tx[r].pc = "commit", tx[r].op = "create draft"
        PROVE  tx'[s].inv # tx[r].inv
    <3>1. tx[s].inv # tx[r].inv /\ tx[r].inv \in Invoices
      BY <2>4, Held
    <3> QED
      BY <1>1, <3>1
  <2> QED
    BY <2>1, <2>2, <2>3, <2>4 DEF Compatible
<1>3. SessionOK(s)'
  BY <1>1 DEF SessionOK, Assigning, Owning, Writing, Replaying, OnProject, OnCreate
<1> QED
  BY <1>2, <1>3, LocalFrame

LEMMA MovesIInv ==
  ASSUME IInv, NEW s \in Sessions, TxOK', LocalStep(s), Moves(s)
  PROVE  IInv'
<1>1. SessionOK(s)
  BY DEF IInv
<1>2. Compatible(s)
  <2>1. tx'[s].refs \subseteq Known /\ tx'[s].owns \in Known \cup {None}
    BY Held DEF Moves
  <2>2. ASSUME NEW r \in Others(s)
        PROVE  /\ tx[r].owns # None => tx'[s].owns # tx[r].owns /\ tx[r].owns \notin tx'[s].refs
               /\ tx'[s].owns # None => tx'[s].owns \notin tx[r].refs
    BY ZenonT(40), Held DEF Moves
  <2>3. ASSUME NEW r \in Others(s)
        PROVE  tx'[s].locked \cap tx[r].locked = {}
    BY Held DEF Moves
  <2>4. ASSUME NEW r \in Others(s), tx[r].pc = "commit", tx[r].op = "create draft"
        PROVE  tx'[s].inv # tx[r].inv
    <3>1. tx[s].inv # tx[r].inv /\ tx[r].inv \in Invoices
      BY <2>4, Held
    <3> QED
      BY <3>1 DEF Moves
  <2> QED
    BY <2>1, <2>2, <2>3, <2>4 DEF Compatible
<1>3. Assigning(s)' /\ Replaying(s)'
  BY <1>1 DEF Moves, LocalStep, data, SessionOK, Assigning, Replaying, OnProject, OnCreate
<1>4. Owning(s)' /\ Writing(s)'
  BY <1>1 DEF Moves, LocalStep, data, SessionOK, Owning, Writing, OnProject, Others
<1> QED
  BY <1>2, <1>3, <1>4, LocalFrame DEF SessionOK

LEMMA AddsIInv ==
  ASSUME IInv, NEW s \in Sessions, NEW u \in Users, TxOK', LocalStep(s), Adds(s, u)
  PROVE  IInv'
<1>1. SessionOK(s)
  BY DEF IInv
<1>2. Compatible(s)
  <2>1. tx'[s].refs \subseteq Known /\ tx'[s].owns \in Known \cup {None}
    BY Held DEF Adds, Owned, Known
  <2>2. ASSUME NEW r \in Others(s)
        PROVE  /\ tx[r].owns # None => tx'[s].owns # tx[r].owns /\ tx[r].owns \notin tx'[s].refs
               /\ tx'[s].owns # None => tx'[s].owns \notin tx[r].refs
    BY Held DEF Adds, Owned, Known
  <2>3. ASSUME NEW r \in Others(s)
        PROVE  tx'[s].locked \cap tx[r].locked = {}
    BY Held DEF Adds, Owned, Known
  <2>4. ASSUME NEW r \in Others(s), tx[r].pc = "commit", tx[r].op = "create draft"
        PROVE  tx'[s].inv # tx[r].inv
    <3>1. tx[s].inv # tx[r].inv /\ tx[r].inv \in Invoices
      BY <2>4, Held
    <3> QED
      BY <3>1 DEF Adds
  <2> QED
    BY <2>1, <2>2, <2>3, <2>4 DEF Compatible
<1>3. Assigning(s)' /\ Replaying(s)'
  BY <1>1 DEF Adds, LocalStep, data, SessionOK, Assigning, Replaying, OnProject, OnCreate
<1>4. Owning(s)' /\ Writing(s)'
  BY <1>1 DEF Adds, LocalStep, data, SessionOK, Owning, Writing, OnProject, Others
<1> QED
  BY <1>2, <1>3, <1>4, LocalFrame DEF SessionOK

\* createDraft takes its author's row and an invoice no one else writes.
LEMMA InsertDraftStep ==
  ASSUME IInv, NEW s \in Sessions, NEW i \in Invoices, NEW u \in Users, InsertDraft(s, i, u)
  PROVE  IInv'
<1> DEFINE t == [Idle EXCEPT !.pc = "commit", !.op = "create draft", !.inv = i, !.as = u, !.refs = {u}]
<1>1. t \in TxRecord
  BY DEF Idle, TxRecord, Steps, Ops
<1>2. TxOK' /\ tx'[s] = t /\ LocalStep(s)
  BY <1>1, GotoType, GotoLocal DEF InsertDraft, IInv
<1>3. /\ tx'[s].pc = "commit" /\ tx'[s].op = "create draft" /\ tx'[s].inv = i /\ tx'[s].as = u
      /\ tx'[s].refs = {u} /\ tx'[s].added = {} /\ tx'[s].locked = {} /\ tx'[s].owns = None
  BY <1>2 DEF Idle
<1>4. /\ u \in Known /\ \A r \in Others(s) : tx[r].owns # u
      /\ invoice[i].status = "none" /\ \A r \in Sessions : tx[r].inv # i
  BY DEF InsertDraft, Known, Owned
<1>5. Compatible(s)
  <2>1. \A r \in Others(s) : r \in Sessions
    BY DEF Others
  <2> QED
    BY <1>3, <1>4, <2>1 DEF Compatible
<1>6. SessionOK(s)'
  <2>1. Assigning(s)' /\ Replaying(s)'
    BY <1>3 DEF Assigning, Replaying, OnProject, OnCreate
  <2>2. Owning(s)'
    BY <1>3 DEF Owning
  <2>3. \A r \in Others(s) : tx'[r] = tx[r] /\ r \in Sessions
    BY <1>2 DEF LocalStep, Others
  <2>4. invoice'[i].status = "none"
    BY <1>2, <1>4 DEF LocalStep, data
  <2>5. Writing(s)'
    BY ZenonT(40), <1>3, <1>4, <2>3, <2>4 DEF Writing
  <2> QED
    BY <2>1, <2>2, <2>5 DEF SessionOK
<1> QED
  BY <1>2, <1>5, <1>6, LocalFrame

\* updateDraft and issueDraft take a draft's row.
LEMMA LockDraftStep ==
  ASSUME IInv, NEW s \in Sessions, NEW i \in Invoices, NEW u \in Users,
         NEW op \in {"edit draft", "issue"}, LockDraft(s, op, i, u)
  PROVE  IInv'
<1> DEFINE t == [Idle EXCEPT !.pc = "stamp", !.op = op, !.inv = i, !.as = u, !.locked = {i}]
<1>1. t \in TxRecord
  BY DEF Idle, TxRecord, Steps, Ops
<1>2. TxOK' /\ tx'[s] = t /\ LocalStep(s)
  BY <1>1, GotoType, GotoLocal DEF LockDraft, IInv
<1>3. /\ tx'[s].pc = "stamp" /\ tx'[s].op = op /\ tx'[s].inv = i /\ tx'[s].as = u
      /\ tx'[s].refs = {} /\ tx'[s].added = {} /\ tx'[s].locked = {i} /\ tx'[s].owns = None
  BY ZenonT(40), <1>2 DEF Idle
<1>4. invoice[i].status = "draft" /\ \A r \in Others(s) : i \notin tx[r].locked
  BY DEF LockDraft, Locked
<1>5. Compatible(s)
  <2>1. ASSUME NEW r \in Others(s), tx[r].pc = "commit", tx[r].op = "create draft"
        PROVE  tx[r].inv # i
    <3>1. Writing(r)
      BY DEF Others, IInv, SessionOK
    <3> QED
      BY <1>4, <2>1, <3>1 DEF Writing
  <2> QED
    BY <1>3, <1>4, <2>1 DEF Compatible
<1>6. SessionOK(s)'
  <2>1. Assigning(s)' /\ Replaying(s)'
    BY <1>3 DEF Assigning, Replaying, OnProject, OnCreate
  <2>2. Owning(s)'
    BY <1>3 DEF Owning
  <2>3. \A r \in Others(s) : tx'[r] = tx[r] /\ r \in Sessions
    BY <1>2 DEF LocalStep, Others
  <2>4. invoice'[i].status = "draft"
    BY <1>2, <1>4 DEF LocalStep, data
  <2>5. Writing(s)'
    BY <1>3, <1>4, <2>3, <2>4 DEF Writing
  <2> QED
    BY <2>1, <2>2, <2>5 DEF SessionOK
<1> QED
  BY <1>2, <1>5, <1>6, LocalFrame

\* Their UPDATE takes its author's row, unless it names it already.
LEMMA StampStep ==
  ASSUME IInv, NEW s \in Sessions, Stamp(s)
  PROVE  IInv'
<1>1. tx[s] \in TxRecord /\ TxOK /\ SessionOK(s)
  BY DEF IInv, TxOK
<1>2. CASE End(s)
  BY <1>1, <1>2, EndQuiet, GotoLocal, NothingHeld DEF End
<1>3. CASE ~ End(s)
  <2>1. PICK i \in Invoices : i = tx[s].inv
    BY <1>1 DEF Stamp, SessionOK, Writing
  <2>2. PICK u \in Users : u = tx[s].as
    BY <1>1 DEF Stamp, SessionOK, Writing
  <2>3. PICK R \in SUBSET Users :
          /\ Goto(s, [tx[s] EXCEPT !.pc = "commit", !.refs = R])
          /\ R \subseteq Known /\ \A r \in Others(s) : tx[r].owns = u => u \notin R
          /\ R \subseteq {u}
          /\ u \in R \/ invoice[i].updated = u
    <3>1. CASE invoice[i].updated = u
      <4>1. Goto(s, [tx[s] EXCEPT !.pc = "commit", !.refs = {}])
        BY <1>3, <2>1, <2>2, <3>1 DEF Stamp
      <4> WITNESS {} \in SUBSET Users
      <4> QED
        BY <3>1, <4>1
    <3>2. CASE invoice[i].updated # u
      <4>1. /\ Goto(s, [tx[s] EXCEPT !.pc = "commit", !.refs = {u}])
            /\ u \in Known /\ ~ Owned(u, s)
        BY <1>3, <2>1, <2>2, <3>2 DEF Stamp
      <4>2. {u} \in SUBSET Users /\ {u} \subseteq Known
        BY <4>1
      <4>3. \A r \in Others(s) : tx[r].owns # u
        BY <4>1 DEF Owned
      <4> QED
        BY <4>1, <4>2, <4>3
    <3> QED
      BY <3>1, <3>2
  <2>4. tx[s].pc = "stamp" /\ UNCHANGED data
    BY <1>3 DEF Stamp
  <2>5. [tx[s] EXCEPT !.pc = "commit", !.refs = R] \in TxRecord
    BY <1>1 DEF TxRecord, Steps
  <2>6. TxOK' /\ tx'[s] = [tx[s] EXCEPT !.pc = "commit", !.refs = R] /\ LocalStep(s)
    BY <1>1, <2>3, <2>4, <2>5, GotoType, GotoLocal
  <2>7. /\ tx'[s].pc = "commit" /\ tx'[s].refs = R /\ tx'[s].op = tx[s].op /\ tx'[s].inv = i
        /\ tx'[s].as = u /\ tx'[s].added = tx[s].added /\ tx'[s].locked = tx[s].locked
        /\ tx'[s].owns = tx[s].owns /\ tx'[s].prj = tx[s].prj /\ tx'[s].inserts = tx[s].inserts
    BY <1>1, <2>1, <2>2, <2>6 DEF TxRecord
  <2>8. /\ tx[s].op \in {"edit draft", "issue"} /\ i \in tx[s].locked /\ tx[s].refs = {}
        /\ invoice[i].status = "draft" /\ tx[s].added = {} /\ tx[s].owns = None
    BY <1>1, <2>1, <2>4 DEF SessionOK, Writing, Assigning, Owning
  <2>9. Compatible(s)
    <3>1. ASSUME NEW r \in Others(s), tx[r].pc = "commit", tx[r].op = "create draft"
          PROVE  tx[r].inv # i
      BY <3>1, <2>1, Held
    <3>2. ASSUME NEW r \in Others(s) PROVE tx[s].locked \cap tx[r].locked = {}
      BY <3>2, Held
    <3> QED
      BY <2>3, <2>7, <2>8, <3>1, <3>2 DEF Compatible
  <2>10. SessionOK(s)'
    <3>1. Assigning(s)' /\ Replaying(s)'
      BY <2>7, <2>8 DEF Assigning, Replaying, OnProject, OnCreate
    <3>2. Owning(s)'
      BY <2>7, <2>8 DEF Owning
    <3>3. ASSUME NEW r \in Others(s) PROVE tx'[r].locked \cap tx'[s].locked = {}
      BY <3>3, <2>6, <2>7, Held DEF LocalStep
    <3>4. invoice' = invoice
      BY <2>4 DEF data
    <3>5. Writing(s)'
      BY <2>3, <2>7, <2>8, <3>3, <3>4 DEF Writing
    <3> QED
      BY <3>1, <3>2, <3>5 DEF SessionOK
  <2> QED
    BY <2>6, <2>9, <2>10, LocalFrame
<1> QED
  BY <1>2, <1>3

\* deleteUser takes the invoices that name the user ...
LEMMA SubmitDeleteStep ==
  ASSUME IInv, NEW s \in Sessions, NEW u \in Users, SubmitDelete(s, u)
  PROVE  IInv'
<1> DEFINE t == [Idle EXCEPT !.pc = "user", !.op = "delete", !.as = u, !.locked = NamedBy(u)]
<1>1. NamedBy(u) \in SUBSET Invoices
  BY DEF NamedBy
<1>2. t \in TxRecord
  BY <1>1 DEF Idle, TxRecord, Steps, Ops
<1>3. TxOK' /\ tx'[s] = t /\ LocalStep(s)
  BY <1>2, GotoType, GotoLocal DEF SubmitDelete, IInv
<1>4. /\ tx'[s].pc = "user" /\ tx'[s].op = "delete" /\ tx'[s].inv = None /\ tx'[s].as = u
      /\ tx'[s].refs = {} /\ tx'[s].added = {} /\ tx'[s].locked = NamedBy(u) /\ tx'[s].owns = None
  BY <1>3 DEF Idle
<1>5. \A r \in Others(s) : tx[r].locked \cap NamedBy(u) = {}
  BY DEF SubmitDelete, Locked
<1>6. Compatible(s)
  <2>1. ASSUME NEW r \in Others(s), tx[r].pc = "commit" PROVE tx[r].inv \in Invoices
    BY <2>1, Held
  <2> QED
    BY <1>4, <1>5, <2>1 DEF Compatible
<1>7. SessionOK(s)'
  <2>1. Assigning(s)' /\ Replaying(s)'
    BY <1>4 DEF Assigning, Replaying, OnProject, OnCreate
  <2>2. Owning(s)'
    BY <1>4 DEF Owning
  <2>3. \A r \in Others(s) : tx'[r] = tx[r]
    BY <1>3 DEF LocalStep
  <2>4. Writing(s)'
    BY <1>4, <1>5, <2>3 DEF Writing
  <2> QED
    BY <2>1, <2>2, <2>4 DEF SessionOK
<1> QED
  BY <1>3, <1>6, <1>7, LocalFrame

\* ... and the user's row, which nobody may hold in any mode ...
LEMMA LockUserStep ==
  ASSUME IInv, NEW s \in Sessions, LockUser(s)
  PROVE  IInv'
<1>1. tx[s] \in TxRecord /\ TxOK /\ SessionOK(s)
  BY DEF IInv, TxOK
<1>2. CASE End(s)
  BY <1>1, <1>2, EndQuiet, GotoLocal, NothingHeld DEF End
<1>3. CASE ~ End(s)
  <2>1. PICK u \in Users : u = tx[s].as
    BY <1>1 DEF LockUser, SessionOK, Owning
  <2>2. /\ tx[s].pc = "user" /\ UNCHANGED data /\ u \in Known
        /\ \A r \in Others(s) : tx[r].owns # u /\ u \notin tx[r].refs
        /\ Goto(s, [tx[s] EXCEPT !.pc = "count", !.owns = u])
    BY <1>3, <2>1 DEF LockUser, Owned, Shared
  <2>3. [tx[s] EXCEPT !.pc = "count", !.owns = u] \in TxRecord
    BY <1>1 DEF TxRecord, Steps
  <2>4. TxOK' /\ tx'[s] = [tx[s] EXCEPT !.pc = "count", !.owns = u] /\ LocalStep(s)
    BY <1>1, <2>2, <2>3, GotoType, GotoLocal
  <2>5. /\ tx'[s].pc = "count" /\ tx'[s].refs = tx[s].refs /\ tx'[s].inv = tx[s].inv
        /\ tx'[s].as = u /\ tx'[s].added = tx[s].added /\ tx'[s].locked = tx[s].locked
        /\ tx'[s].owns = u
    BY <1>1, <2>1, <2>4 DEF TxRecord
  <2>6. tx[s].refs = {} /\ tx[s].added = {}
    BY <1>1, <2>2 DEF SessionOK, Owning, Assigning
  <2>7. Compatible(s)
    <3>1. ASSUME NEW r \in Others(s), tx[r].pc = "commit", tx[r].op = "create draft"
          PROVE  tx[r].inv # tx[s].inv
      BY <3>1, Held
    <3>2. ASSUME NEW r \in Others(s) PROVE tx[s].locked \cap tx[r].locked = {}
      BY <3>2, Held
    <3> QED
      BY <2>2, <2>5, <2>6, <3>1, <3>2 DEF Compatible
  <2>8. SessionOK(s)'
    <3>1. Assigning(s)' /\ Replaying(s)'
      BY <2>5, <2>6 DEF Assigning, Replaying, OnProject, OnCreate
    <3>2. \A r \in Others(s) : tx'[r] = tx[r]
      BY <2>4 DEF LocalStep
    <3>3. Owning(s)'
      BY <2>2, <2>5, <2>6, <3>2 DEF Owning
    <3>4. ASSUME NEW r \in Others(s) PROVE tx'[r].locked \cap tx'[s].locked = {}
      BY <3>4, <2>5, <3>2, Held
    <3>5. Writing(s)'
      BY <2>5, <3>4 DEF Writing
    <3> QED
      BY <3>1, <3>3, <3>5 DEF SessionOK
  <2> QED
    BY <2>4, <2>7, <2>8, LocalFrame
<1> QED
  BY <1>2, <1>3

\* ... and counts the issued ones.
LEMMA CountInvoicesStep ==
  ASSUME IInv, NEW s \in Sessions, CountInvoices(s)
  PROVE  IInv'
<1>1. tx[s] \in TxRecord /\ TxOK /\ SessionOK(s)
  BY DEF IInv, TxOK
<1>2. CASE End(s)
  BY <1>1, <1>2, EndQuiet, GotoLocal, NothingHeld DEF End
<1>3. CASE ~ End(s)
  <2>1. tx[s].pc = "count" /\ UNCHANGED data /\ Goto(s, [tx[s] EXCEPT !.pc = "erase"])
    BY <1>3 DEF CountInvoices
  <2>2. [tx[s] EXCEPT !.pc = "erase"] \in TxRecord
    BY <1>1 DEF TxRecord, Steps
  <2>3. TxOK' /\ tx'[s] = [tx[s] EXCEPT !.pc = "erase"] /\ LocalStep(s)
    BY <1>1, <2>1, <2>2, GotoType, GotoLocal
  <2>4. /\ tx'[s].pc = "erase" /\ tx'[s].refs = tx[s].refs /\ tx'[s].inv = tx[s].inv
        /\ tx'[s].as = tx[s].as /\ tx'[s].added = tx[s].added /\ tx'[s].locked = tx[s].locked
        /\ tx'[s].owns = tx[s].owns
    BY <1>1, <2>3 DEF TxRecord
  <2>5. /\ tx[s].refs = {} /\ tx[s].added = {} /\ tx[s].owns = tx[s].as /\ tx[s].as \in Users
    BY <1>1, <2>1 DEF SessionOK, Owning, Assigning
  <2>6. ASSUME NEW r \in Others(s)
        PROVE  /\ tx[r].owns # tx[s].owns /\ tx[s].owns \notin tx[r].refs
               /\ tx[r].owns # None => tx[r].owns \notin tx[s].refs
    BY ZenonT(40), <2>5, <2>6, Held
  <2>7. ASSUME NEW r \in Others(s), tx[r].pc = "commit", tx[r].op = "create draft"
        PROVE  tx[r].inv # tx[s].inv
    BY <2>7, Held
  <2>8. ASSUME NEW r \in Others(s) PROVE tx[s].locked \cap tx[r].locked = {}
    BY <2>8, Held
  <2>9. Compatible(s)
    <3>1. tx[s].refs \subseteq Known /\ tx[s].owns \in Known \cup {None}
      BY Held
    <3> QED
      BY <2>4, <2>5, <2>6, <2>7, <2>8, <3>1 DEF Compatible
  <2>10. SessionOK(s)'
    <3>1. Assigning(s)' /\ Replaying(s)'
      BY <2>4, <2>5 DEF Assigning, Replaying, OnProject, OnCreate
    <3>2. \A r \in Others(s) : tx'[r] = tx[r]
      BY <2>3 DEF LocalStep
    <3>3. Owning(s)'
      BY <2>4, <2>5, <2>6, <3>2 DEF Owning
    <3>4. Writing(s)'
      BY <2>4, <2>8, <3>2 DEF Writing
    <3> QED
      BY <3>1, <3>3, <3>4 DEF SessionOK
  <2> QED
    BY <2>3, <2>9, <2>10, LocalFrame
<1> QED
  BY <1>2, <1>3

-----------------------------------------------------------------------------
(* A step that commits *)

\* what the commit of another handler leaves of r
Kept(r) ==
  /\ tx'[r].pc = tx[r].pc /\ tx'[r].op = tx[r].op /\ tx'[r].prj = tx[r].prj
  /\ tx'[r].added = tx[r].added /\ tx'[r].inserts = tx[r].inserts
  /\ tx'[r].inv = tx[r].inv /\ tx'[r].locked = tx[r].locked /\ tx'[r].refs = tx[r].refs
  /\ tx'[r].as = tx[r].as /\ tx'[r].owns = tx[r].owns
  /\ tx'[r].refused = tx[r].refused /\ tx'[r].want = tx[r].want
  /\ tx[r].disturbed => tx'[r].disturbed

LEMMA EndChangingKeeps ==
  ASSUME TxOK, NEW s \in Sessions, NEW P, EndChanging(s, P), NEW r \in Others(s)
  PROVE  /\ Kept(r)
         /\ tx[r].op = "create" /\ tx[r].prj \in P => tx'[r].disturbed
<1>1. r \in Sessions /\ r # s /\ tx[r] \in TxRecord
  BY DEF Others, TxOK
<1>2. CASE tx[r].op = "create" /\ tx[r].prj \in P
  <2>1. PICK b \in BOOLEAN : b = TRUE
    OBVIOUS
  <2>2. tx'[r] = [tx[r] EXCEPT !.disturbed = b]
    BY <1>1, <1>2, <2>1 DEF EndChanging
  <2>3. tx'[r].disturbed = b
    BY <1>1, <2>2 DEF TxRecord
  <2>4. tx'[r].disturbed
    BY <2>1, <2>3
  <2> QED
    BY <1>1, <2>2, <2>4 DEF TxRecord, Kept
<1>3. CASE ~ (tx[r].op = "create" /\ tx[r].prj \in P)
  BY <1>1, <1>3 DEF EndChanging, Kept
<1> QED
  BY <1>2, <1>3

\* the part of TypeOK about the tables
TablesOK ==
  /\ user \in [Users -> {"active", "inactive", "gone"}]
  /\ project \in [Projects -> [state : Stored \cup {"none"}, edited : BOOLEAN]]
  /\ workers \in [Projects -> SUBSET Known]
  /\ \A p \in Projects : workers[p] # {} => project[p].state \in Stored
  /\ invoice \in [Invoices -> [status : {"none", "draft", "issued"},
                               created : Known \cup {None}, updated : Known \cup {None}]]

\* what a commit of s may not take from another handler
LeavesBe(s) ==
  \A r \in Others(s) :
    /\ tx[r].refs \subseteq Known' /\ tx[r].owns \in Known' \cup {None}
    /\ tx[r].added # {} => tx[r].inserts \/ project'[tx[r].prj].state \in Stored
    /\ tx[r].pc \in {"replay", "reread"} =>
         tx'[r].disturbed \/ project'[tx[r].prj].state \in Stored
    /\ tx[r].pc \in {"stamp", "commit"} =>
         /\ invoice'[tx[r].inv].status = invoice[tx[r].inv].status
         /\ \/ tx[r].as \in tx[r].refs
            \/ invoice'[tx[r].inv].updated = invoice[tx[r].inv].updated

LEMMA CommitFrame ==
  ASSUME IInv, NEW s \in Sessions, TxOK', Quiet(s), \A r \in Others(s) : Kept(r),
         TablesOK', LeavesBe(s)
  PROVE  IInv'
<1>1. /\ tx'[s].pc = "idle" /\ tx'[s].refs = {} /\ tx'[s].added = {} /\ tx'[s].locked = {}
      /\ tx'[s].owns = None /\ tx'[s].inv = None
  BY DEF Quiet
<1>2. SessionOK(s)'
  BY <1>1 DEF SessionOK, Assigning, Owning, Writing, Replaying, OnProject, OnCreate
<1>3. ASSUME NEW r \in Others(s) PROVE SessionOK(r)'
  <2>1. r \in Sessions /\ SessionOK(r) /\ Kept(r) /\ \A q \in Others(r) : q = s \/ Kept(q)
    BY DEF IInv, Others
  <2>2. Assigning(r)'
    BY <2>1 DEF SessionOK, Assigning, Kept, LeavesBe
  <2>3. Replaying(r)'
    BY <2>1 DEF SessionOK, Replaying, Kept, LeavesBe
  <2>4. Owning(r)'
    BY <1>1, <2>1 DEF SessionOK, Owning, Kept
  <2>5. Writing(r)'
    <3>1. ASSUME tx[r].pc \in {"stamp", "commit"} PROVE tx[r].inv # None
      BY <2>1, <3>1 DEF SessionOK, Writing
    <3>2. ASSUME NEW q \in Others(r), tx[r].pc = "commit", tx[q].inv # tx[r].inv
          PROVE  tx'[q].inv # tx'[r].inv
      BY <1>1, <2>1, <3>1, <3>2 DEF Kept
    <3>3. ASSUME NEW q \in Others(r), tx[q].locked \cap tx[r].locked = {}
          PROVE  tx'[q].locked \cap tx'[r].locked = {}
      BY <1>1, <2>1, <3>3 DEF Kept
    <3>4. Writing(r)
      BY <2>1 DEF SessionOK
    <3>5. /\ tx'[r].pc = tx[r].pc /\ tx'[r].op = tx[r].op /\ tx'[r].inv = tx[r].inv
          /\ tx'[r].as = tx[r].as /\ tx'[r].locked = tx[r].locked /\ tx'[r].refs = tx[r].refs
      BY <2>1 DEF Kept
    <3>6. tx[r].pc \in {"stamp", "commit"} =>
            /\ invoice'[tx[r].inv].status = invoice[tx[r].inv].status
            /\ \/ tx[r].as \in tx[r].refs
               \/ invoice'[tx[r].inv].updated = invoice[tx[r].inv].updated
      BY DEF LeavesBe
    <3>7. \A q \in Others(r) : tx'[q].locked \cap tx'[r].locked = {}
      BY <3>3, <3>4 DEF Writing
    <3>8. CASE tx[r].pc = "stamp"
      BY <3>4, <3>5, <3>6, <3>7, <3>8 DEF Writing
    <3>9. CASE tx[r].pc = "commit"
      <4>1. CASE tx[r].op = "create draft"
        <5>1. \A q \in Others(r) : tx'[q].inv # tx'[r].inv
          BY <3>2, <3>4, <3>9, <4>1 DEF Writing
        <5> QED
          BY <3>4, <3>5, <3>6, <3>7, <3>9, <4>1, <5>1 DEF Writing
      <4>2. CASE tx[r].op # "create draft"
        BY <3>4, <3>5, <3>6, <3>7, <3>9, <4>2 DEF Writing
      <4> QED
        BY <4>1, <4>2
    <3>10. CASE tx[r].pc \notin {"stamp", "commit"}
      BY <3>5, <3>7, <3>10 DEF Writing
    <3> QED
      BY <3>8, <3>9, <3>10
  <2> QED
    BY <2>2, <2>3, <2>4, <2>5 DEF SessionOK
<1>4. TypeOK'
  <2>1. \A r \in Sessions : tx'[r].refs \subseteq Known' /\ tx'[r].owns \in Known' \cup {None}
    BY <1>1 DEF LeavesBe, Kept, Others
  <2> QED
    BY <2>1 DEF TypeOK, TablesOK
<1> QED
  BY <1>2, <1>3, <1>4 DEF IInv, Others

\* a handler that writes an invoice, seen from another one that commits
LEMMA Writers ==
  ASSUME IInv, NEW r \in Sessions, tx[r].pc \in {"stamp", "commit"}
  PROVE  /\ tx[r].inv \in Invoices
         /\ tx[r].as \in tx[r].refs \/ tx[r].inv \in tx[r].locked
         /\ tx[r].inv \in tx[r].locked \/ \A s \in Others(r) : tx[s].inv # tx[r].inv
         /\ tx[r].as \in tx[r].refs \/ invoice[tx[r].inv].updated = tx[r].as
              \/ tx[r].pc = "stamp"
  BY DEF IInv, SessionOK, Writing

\* The COMMIT of a create or an edit: the users it assigned are still there,
\* and so is the project.
LEMMA CommitProjectStep ==
  ASSUME IInv, NEW s \in Sessions, CommitProject(s)
  PROVE  IInv' /\ UNCHANGED invoice
<1>1. TxOK /\ TypeOK /\ SessionOK(s) /\ tx[s] \in TxRecord
  BY DEF IInv, TxOK
<1>2. PICK p \in Projects : p = tx[s].prj
  BY <1>1 DEF CommitProject, SessionOK, Assigning, OnProject
<1>3. PICK row \in [state : Stored \cup {"none"}, edited : BOOLEAN] :
        /\ project' = [project EXCEPT ![p] = row]
        /\ row.state \in Stored \/ (~ tx[s].inserts /\ row.state = project[p].state)
        /\ project[p].state \in Stored => row.state \in Stored
  <2>1. CASE tx[s].inserts
    <3>1. PICK f \in BOOLEAN : f = FALSE
      OBVIOUS
    <3>2. project' = [project EXCEPT ![p] = [state |-> "active", edited |-> f]]
      <4>1. project' = [project EXCEPT ![p] = [NoProject EXCEPT !.state = "active"]]
        BY <1>2, <2>1 DEF CommitProject
      <4>2. NoProject = [state |-> "none", edited |-> f]
        BY <3>1, Zenon DEF NoProject
      <4>3. [NoProject EXCEPT !.state = "active"] = [state |-> "active", edited |-> f]
        BY <4>2
      <4> QED
        BY <4>1, <4>3
    <3>3. [state |-> "active", edited |-> f] \in [state : Stored \cup {"none"}, edited : BOOLEAN]
      BY DEF Stored
    <3>4. [state |-> "active", edited |-> f].state \in Stored
      BY DEF Stored
    <3> QED
      BY <3>2, <3>3, <3>4
  <2>2. CASE ~ tx[s].inserts
    <3>1. PICK b \in BOOLEAN : b = (project[p].edited \/ tx[s].updates)
      OBVIOUS
    <3>2. project[p] \in [state : Stored \cup {"none"}, edited : BOOLEAN]
      BY <1>1 DEF TypeOK
    <3>3. project' = [project EXCEPT ![p] = [project[p] EXCEPT !.edited = b]]
      <4>1. project' = [project EXCEPT ![p] = [project[p] EXCEPT
                                           !.edited = project[p].edited \/ tx[s].updates]]
        BY <1>2, <2>2 DEF CommitProject
      <4> QED
        BY <3>1, <4>1
    <3>4. /\ [project[p] EXCEPT !.edited = b] \in [state : Stored \cup {"none"}, edited : BOOLEAN]
          /\ [project[p] EXCEPT !.edited = b].state = project[p].state
      BY <3>2
    <3> QED
      BY <2>2, <3>3, <3>4
  <2> QED
    BY <2>1, <2>2
<1>4. /\ workers' = [workers EXCEPT ![p] = (workers[p] \ tx[s].removed) \cup tx[s].added]
      /\ UNCHANGED <<user, invoice>>
      /\ \E P : EndChanging(s, P)
  BY <1>1, <1>2 DEF CommitProject, TypeOK
<1>5. TxOK' /\ Quiet(s) /\ \A r \in Others(s) : Kept(r)
  BY <1>1, <1>4, CommitQuiet, EndChangingKeeps
<1>6. tx[s].added \subseteq Known
  BY <1>1 DEF TypeOK, SessionOK, Assigning
<1>7. \A q \in Projects : project[q].state \in Stored => project'[q].state \in Stored
  BY <1>1, <1>3 DEF TypeOK
<1>8. Known' = Known
  BY <1>4 DEF Known
<1>9. TablesOK'
  <2>1. project' \in [Projects -> [state : Stored \cup {"none"}, edited : BOOLEAN]]
    BY <1>1, <1>3 DEF TypeOK
  <2>2. workers' \in [Projects -> SUBSET Known']
    BY <1>1, <1>4, <1>6, <1>8 DEF TypeOK
  <2>3. ASSUME NEW q \in Projects, workers'[q] # {} PROVE project'[q].state \in Stored
    <3>1. CASE workers[q] # {}
      BY <1>1, <1>7, <3>1 DEF TypeOK
    <3>2. CASE workers[q] = {}
      <4>1. q = p /\ tx[s].added # {}
        BY <1>1, <1>4, <2>3, <3>2 DEF TypeOK
      <4>2. tx[s].inserts \/ project[p].state \in Stored
        BY <1>1, <1>2, <4>1 DEF SessionOK, Assigning
      <4> QED
        BY <1>1, <1>3, <4>1, <4>2 DEF TypeOK
    <3> QED
      BY <3>1, <3>2
  <2> QED
    BY <1>1, <1>4, <1>8, <2>1, <2>2, <2>3 DEF TypeOK, TablesOK
<1>10. LeavesBe(s)
  <2>1. ASSUME NEW r \in Others(s)
        PROVE  /\ tx[r].refs \subseteq Known' /\ tx[r].owns \in Known' \cup {None}
               /\ tx[r].added # {} => tx[r].inserts \/ project'[tx[r].prj].state \in Stored
               /\ tx[r].pc \in {"replay", "reread"} =>
                    tx'[r].disturbed \/ project'[tx[r].prj].state \in Stored
    <3>1. r \in Sessions /\ SessionOK(r) /\ Kept(r)
      BY <1>5 DEF IInv, Others
    <3>2. tx[r].refs \subseteq Known /\ tx[r].owns \in Known \cup {None}
      BY <1>1, <3>1 DEF TypeOK
    <3>3. tx[r].pc \in {"replay", "reread"} => tx[r].prj \in Projects
      BY <3>1 DEF SessionOK, Assigning, OnProject
    <3> QED
      BY <1>7, <1>8, <3>1, <3>2, <3>3 DEF SessionOK, Assigning, Replaying, Kept
  <2> QED
    BY <1>4, <2>1 DEF LeavesBe
<1> QED
  BY <1>4, <1>5, <1>9, <1>10, CommitFrame

\* A permanent delete waits for whoever assigns someone to the project, and the
\* creates that found the project hear of it.
LEMMA PurgeStep ==
  ASSUME IInv, NEW s \in Sessions, Purge(s)
  PROVE  IInv' /\ UNCHANGED invoice
<1>1. TxOK /\ TypeOK /\ SessionOK(s) /\ tx[s] \in TxRecord
  BY DEF IInv, TxOK
<1>2. PICK p \in Projects : p = tx[s].prj
  BY <1>1 DEF Purge, SessionOK, Assigning, OnProject
<1>3. /\ project' = [project EXCEPT ![p] = NoProject]
      /\ workers' = [workers EXCEPT ![p] = {}]
      /\ EndChanging(s, {p}) /\ UNCHANGED <<user, invoice>>
      /\ \A r \in Others(s) : tx[r].prj = p => tx[r].added = {}
  BY <1>2 DEF Purge, Referenced
<1>4. TxOK' /\ Quiet(s) /\ \A r \in Others(s) : Kept(r)
  BY <1>1, <1>3, CommitQuiet, EndChangingKeeps
<1>5. NoProject \in [state : Stored \cup {"none"}, edited : BOOLEAN]
  BY DEF NoProject
<1>6. Known' = Known
  BY <1>3 DEF Known
<1>7. TablesOK'
  <2>1. project' \in [Projects -> [state : Stored \cup {"none"}, edited : BOOLEAN]]
    BY <1>1, <1>3, <1>5 DEF TypeOK
  <2>2. workers' \in [Projects -> SUBSET Known']
    BY <1>1, <1>3, <1>6 DEF TypeOK
  <2>3. \A q \in Projects : workers'[q] # {} => project'[q].state \in Stored
    BY <1>1, <1>3 DEF TypeOK
  <2> QED
    BY <1>1, <1>3, <1>6, <2>1, <2>2, <2>3 DEF TypeOK, TablesOK
<1>8. ASSUME NEW r \in Others(s)
      PROVE  /\ tx[r].refs \subseteq Known' /\ tx[r].owns \in Known' \cup {None}
             /\ tx[r].added # {} => tx[r].inserts \/ project'[tx[r].prj].state \in Stored
             /\ tx[r].pc \in {"replay", "reread"} =>
                  tx'[r].disturbed \/ project'[tx[r].prj].state \in Stored
  <2>1. r \in Sessions /\ SessionOK(r) /\ Kept(r)
    BY <1>4 DEF IInv, Others
  <2>2. tx[r].refs \subseteq Known /\ tx[r].owns \in Known \cup {None}
    BY <1>1, <2>1 DEF TypeOK
  <2>3. \A q \in Projects \ {p} : project'[q] = project[q]
    BY <1>1, <1>3 DEF TypeOK
  <2>4. tx[r].added # {} => tx[r].inserts \/ project'[tx[r].prj].state \in Stored
    BY <1>3, <2>1, <2>3 DEF SessionOK, Assigning
  <2>5. ASSUME tx[r].pc \in {"replay", "reread"}
        PROVE  tx'[r].disturbed \/ project'[tx[r].prj].state \in Stored
    <3>1. tx[r].prj \in Projects /\ tx[r].op = "create"
      BY <2>1, <2>5 DEF SessionOK, Assigning, Replaying, OnProject, OnCreate
    <3>2. CASE tx[r].prj = p
      BY <1>1, <1>3, <3>1, <3>2, EndChangingKeeps
    <3>3. CASE tx[r].prj # p
      BY <2>1, <2>3, <2>5, <3>1, <3>3 DEF SessionOK, Replaying, Kept
    <3> QED
      BY <3>2, <3>3
  <2> QED
    BY <1>6, <2>2, <2>4, <2>5
<1> QED
  BY <1>3, <1>4, <1>7, <1>8, CommitFrame DEF LeavesBe

\* what a committed write of an invoice does, to a draft or to no row
LEMMA CommitInvoiceStep ==
  ASSUME IInv, NEW s \in Sessions, CommitInvoice(s)
  PROVE  /\ IInv'
         /\ \A i \in Invoices : invoice[i].status = "issued" => invoice'[i] = invoice[i]
<1>1. TxOK /\ TypeOK /\ SessionOK(s) /\ tx[s] \in TxRecord
  BY DEF IInv, TxOK
<1> DEFINE Row == [status : {"none", "draft", "issued"},
                   created : Known \cup {None}, updated : Known \cup {None}]
<1>2. PICK i \in Invoices : i = tx[s].inv
  BY <1>1 DEF CommitInvoice, SessionOK, Writing
<1>3. PICK u \in Known : u = tx[s].as
  BY <1>1 DEF CommitInvoice, SessionOK, Writing, TypeOK
<1>4. PICK row \in Row : invoice' = [invoice EXCEPT ![i] = row]
  <2>1. invoice[i] \in Row
    BY <1>1 DEF TypeOK
  <2>2. /\ [status |-> "draft", created |-> u, updated |-> u] \in Row
        /\ [invoice[i] EXCEPT !.updated = u] \in Row
        /\ [invoice[i] EXCEPT !.status = "issued", !.updated = u] \in Row
    BY <2>1
  <2>3. tx[s].op \in {"create draft", "edit draft", "issue"}
    BY <1>1 DEF CommitInvoice, SessionOK, Writing
  <2> QED
    BY <1>1, <1>2, <1>3, <2>2, <2>3 DEF CommitInvoice, TypeOK
<1>5. /\ UNCHANGED <<user, project, workers>> /\ Goto(s, Idle)
      /\ invoice[i].status # "issued"
  BY <1>1, <1>2 DEF CommitInvoice, SessionOK, Writing
<1>6. TxOK' /\ tx'[s] = Idle
  BY <1>1, <1>5, GotoType, IdleType
<1>7. \A r \in Others(s) : tx'[r] = tx[r] /\ r \in Sessions
  BY <1>1, <1>5 DEF Goto, TxOK, Others
<1>8. Quiet(s) /\ \A r \in Others(s) : Kept(r)
  BY <1>6, <1>7 DEF Quiet, Idle, Kept
<1>9. Known' = Known
  BY <1>5 DEF Known
<1>10. TablesOK'
  <2>1. invoice' \in [Invoices -> Row]
    BY <1>1, <1>4 DEF TypeOK
  <2> QED
    BY <1>1, <1>5, <1>9, <2>1 DEF TypeOK, TablesOK
<1>11. LeavesBe(s)
  <2>1. ASSUME NEW r \in Others(s)
        PROVE  /\ tx[r].refs \subseteq Known' /\ tx[r].owns \in Known' \cup {None}
               /\ tx[r].added # {} => tx[r].inserts \/ project'[tx[r].prj].state \in Stored
               /\ tx[r].pc \in {"replay", "reread"} =>
                    tx'[r].disturbed \/ project'[tx[r].prj].state \in Stored
    <3>1. r \in Sessions /\ SessionOK(r) /\ tx'[r] = tx[r]
      BY <1>7 DEF IInv
    <3>2. tx[r].refs \subseteq Known /\ tx[r].owns \in Known \cup {None}
      BY <1>1, <3>1 DEF TypeOK
    <3> QED
      BY <1>5, <1>9, <3>1, <3>2 DEF SessionOK, Assigning, Replaying
  <2>2. ASSUME NEW r \in Others(s), tx[r].pc \in {"stamp", "commit"}
        PROVE  invoice'[tx[r].inv] = invoice[tx[r].inv]
    <3>1. r \in Sessions /\ s \in Others(r)
      BY DEF Others
    <3>2. tx[r].inv # i
      <4>1. CASE tx[r].inv \in tx[r].locked
        <5>1. tx[s].locked \cap tx[r].locked = {}
          BY Held
        <5>2. tx[s].op = "create draft" => tx[s].inv # tx[r].inv
          BY <1>1 DEF SessionOK, Writing, CommitInvoice
        <5>3. tx[s].op # "create draft" => i \in tx[s].locked
          BY <1>1, <1>2 DEF SessionOK, Writing, CommitInvoice
        <5> QED
          BY <1>2, <4>1, <5>1, <5>2, <5>3
      <4>2. CASE tx[r].inv \notin tx[r].locked
        BY <1>2, <2>2, <3>1, <4>2, Writers
      <4> QED
        BY <4>1, <4>2
    <3> QED
      BY <1>1, <1>4, <2>2, <3>1, <3>2, Writers DEF TypeOK
  <2> QED
    BY <2>1, <2>2 DEF LeavesBe
<1>12. IInv'
  BY <1>6, <1>8, <1>10, <1>11, CommitFrame
<1>13. \A j \in Invoices : invoice[j].status = "issued" => invoice'[j] = invoice[j]
  BY <1>1, <1>4, <1>5 DEF TypeOK
<1> QED
  BY <1>12, <1>13

\* A user goes with the assignments and the author columns that name it; no
\* other handler counts on the user, and an issued invoice stops the deletion.
LEMMA EraseStep ==
  ASSUME IInv, NEW s \in Sessions, DeleteUser(s), ~ End(s)
  PROVE  /\ IInv'
         /\ \A i \in Invoices : invoice[i].status = "issued" => invoice'[i] = invoice[i]
<1>1. TxOK /\ TypeOK /\ SessionOK(s) /\ tx[s] \in TxRecord
  BY DEF IInv, TxOK
<1>2. PICK u \in Users : u = tx[s].as /\ u = tx[s].owns
  BY <1>1 DEF DeleteUser, SessionOK, Owning
<1> DEFINE Cleared(v) == IF v = u THEN None ELSE v
<1>3. /\ user' = [user EXCEPT ![u] = "gone"]
      /\ workers' = [p \in Projects |-> workers[p] \ {u}]
      /\ invoice' = [i \in Invoices |->
           [invoice[i] EXCEPT !.created = Cleared(invoice[i].created),
                              !.updated = Cleared(invoice[i].updated)]]
      /\ project' = project
      /\ \E P : EndChanging(s, P)
      /\ \A i \in NamedBy(u) : invoice[i].status # "issued" /\ ~ Locked(i, s)
  BY <1>2 DEF DeleteUser, Erase
<1>4. TxOK' /\ Quiet(s) /\ \A r \in Others(s) : Kept(r)
  BY <1>1, <1>3, CommitQuiet, EndChangingKeeps
<1>5. Known' = Known \ {u}
  BY <1>1, <1>3 DEF Known, TypeOK
<1> DEFINE Row == [status : {"none", "draft", "issued"},
                   created : Known \cup {None}, updated : Known \cup {None}]
           Row2 == [status : {"none", "draft", "issued"},
                    created : (Known \ {u}) \cup {None}, updated : (Known \ {u}) \cup {None}]
<1>6. ASSUME NEW i \in Invoices
      PROVE  /\ invoice'[i] \in Row2 /\ invoice'[i].status = invoice[i].status
             /\ i \notin NamedBy(u) => invoice'[i] = invoice[i]
  <2>1. invoice[i] \in Row
    BY <1>1 DEF TypeOK
  <2>2. PICK c, d : /\ c = Cleared(invoice[i].created) /\ d = Cleared(invoice[i].updated)
                    /\ c \in (Known \ {u}) \cup {None} /\ d \in (Known \ {u}) \cup {None}
                    /\ i \notin NamedBy(u) => c = invoice[i].created /\ d = invoice[i].updated
    BY <2>1 DEF NamedBy
  <2>3. invoice'[i] = [invoice[i] EXCEPT !.created = c, !.updated = d]
    BY <1>3, <2>2
  <2> HIDE DEF Cleared
  <2>4. invoice'[i] \in Row2 /\ invoice'[i].status = invoice[i].status
    BY <2>1, <2>2, <2>3
  <2>5. ASSUME i \notin NamedBy(u) PROVE invoice'[i] = invoice[i]
    <3>1. invoice'[i] = [invoice[i] EXCEPT !.created = invoice[i].created,
                                           !.updated = invoice[i].updated]
      BY <2>2, <2>3, <2>5
    <3> QED
      BY <2>1, <3>1
  <2> QED
    BY <2>4, <2>5
<1> HIDE DEF Cleared
<1>7. TablesOK'
  <2>1. user' \in [Users -> {"active", "inactive", "gone"}]
    BY <1>1, <1>3 DEF TypeOK
  <2>2. workers' \in [Projects -> SUBSET Known']
    BY <1>1, <1>3, <1>5 DEF TypeOK
  <2>3. \A p \in Projects : workers'[p] # {} => project'[p].state \in Stored
    BY <1>1, <1>3 DEF TypeOK
  <2>4. invoice' \in [Invoices -> Row2]
    <3>1. \A i \in Invoices : invoice'[i] \in Row2
      BY <1>6
    <3>2. invoice' = [i \in Invoices |-> invoice'[i]]
      BY <1>3
    <3> HIDE DEF Row2
    <3> QED
      BY <3>1, <3>2
  <2> QED
    BY <1>1, <1>3, <1>5, <2>1, <2>2, <2>3, <2>4 DEF TypeOK, TablesOK
<1>8. LeavesBe(s)
  <2>1. ASSUME NEW r \in Others(s)
        PROVE  /\ tx[r].refs \subseteq Known' /\ tx[r].owns \in Known' \cup {None}
               /\ tx[r].added # {} => tx[r].inserts \/ project'[tx[r].prj].state \in Stored
               /\ tx[r].pc \in {"replay", "reread"} =>
                    tx'[r].disturbed \/ project'[tx[r].prj].state \in Stored
    <3>1. r \in Sessions /\ SessionOK(r) /\ Kept(r)
      BY <1>4 DEF IInv, Others
    <3>2. tx[r].refs \subseteq Known /\ tx[r].owns \in Known \cup {None}
      BY <1>1, <3>1 DEF TypeOK
    <3>3. tx[r].owns # u /\ u \notin tx[r].refs
      <4>1. /\ tx[s].owns # None => tx[s].owns \notin tx[r].refs
            /\ tx[r].owns # None => tx[s].owns # tx[r].owns
        BY Held
      <4> QED
        BY <1>2, <4>1
    <3> QED
      BY <1>3, <1>5, <3>1, <3>2, <3>3 DEF SessionOK, Assigning, Replaying, Kept
  <2>2. ASSUME NEW r \in Others(s), tx[r].pc \in {"stamp", "commit"}
        PROVE  /\ invoice'[tx[r].inv].status = invoice[tx[r].inv].status
               /\ \/ tx[r].as \in tx[r].refs
                  \/ invoice'[tx[r].inv].updated = invoice[tx[r].inv].updated
    <3>1. r \in Sessions
      BY DEF Others
    <3>2. PICK i \in Invoices : i = tx[r].inv
      BY <2>2, <3>1, Writers
    <3>3. tx[r].as \in tx[r].refs \/ i \in tx[r].locked
      BY <2>2, <3>1, <3>2, Writers
    <3>4. i \in tx[r].locked => i \notin NamedBy(u)
      BY <1>3 DEF Locked
    <3> QED
      BY <1>6, <3>2, <3>3, <3>4
  <2> QED
    BY <2>1, <2>2 DEF LeavesBe
<1>9. IInv'
  BY <1>4, <1>7, <1>8, CommitFrame
<1>10. \A i \in Invoices : invoice[i].status = "issued" => invoice'[i] = invoice[i]
  BY <1>3, <1>6
<1> QED
  BY <1>9, <1>10

\* A one-statement change of a projects row keeps it stored, one of a users row
\* keeps the user known.
LEMMA OneStatementStep ==
  ASSUME IInv, OneStatement
  PROVE  IInv' /\ UNCHANGED invoice
<1>1. TypeOK
  BY DEF IInv
<1>2. UNCHANGED <<workers, invoice, tx>>
  BY DEF OneStatement, Archive, Restore, Flip, Deactivate, Reactivate, Toggle
<1>3. /\ project' \in [Projects -> [state : Stored \cup {"none"}, edited : BOOLEAN]]
      /\ \A p : p \in Projects => (project'[p].state \in Stored <=> project[p].state \in Stored)
      /\ user' = user
  \/  /\ user' \in [Users -> {"active", "inactive", "gone"}]
      /\ Known' = Known /\ project' = project
  <2>1. ASSUME NEW p \in Projects, NEW from \in Stored, NEW to \in Stored, Flip(p, from, to)
        PROVE  /\ project' \in [Projects -> [state : Stored \cup {"none"}, edited : BOOLEAN]]
               /\ \A q : q \in Projects => (project'[q].state \in Stored <=> project[q].state \in Stored)
               /\ user' = user
    BY <1>1, <2>1 DEF Flip, TypeOK
  <2>2. ASSUME NEW u \in Users, NEW from \in {"active", "inactive"}, NEW to \in {"active", "inactive"},
               Toggle(u, from, to)
        PROVE  /\ user' \in [Users -> {"active", "inactive", "gone"}]
               /\ Known' = Known /\ project' = project
    BY <1>1, <2>2 DEF Toggle, TypeOK, Known
  <2> QED
    BY <2>1, <2>2 DEF OneStatement, Archive, Restore, Deactivate, Reactivate, Stored
<1>4. /\ project' \in [Projects -> [state : Stored \cup {"none"}, edited : BOOLEAN]]
      /\ \A p : p \in Projects => (project'[p].state \in Stored <=> project[p].state \in Stored)
      /\ user' \in [Users -> {"active", "inactive", "gone"}]
      /\ Known' = Known
  BY <1>1, <1>3 DEF TypeOK, Known
<1>5. TypeOK' /\ TxOK'
  BY <1>1, <1>2, <1>4 DEF TypeOK, IInv, TxOK
<1>6. ASSUME NEW s \in Sessions PROVE SessionOK(s)'
  <2>1. SessionOK(s) /\ tx' = tx /\ invoice' = invoice
    BY <1>2 DEF IInv
  <2>2. Assigning(s)' /\ Replaying(s)'
    BY <1>4, <2>1 DEF SessionOK, Assigning, Replaying, OnProject
  <2>3. Owning(s)' /\ Writing(s)'
    BY <2>1 DEF SessionOK, Owning, Writing
  <2> QED
    BY <2>2, <2>3 DEF SessionOK
<1> QED
  BY <1>2, <1>5, <1>6 DEF IInv

-----------------------------------------------------------------------------
(* Every step *)

LEMMA ActsIInv ==
  ASSUME IInv, NEW s \in Sessions, Acts(s)
  PROVE  /\ IInv'
         /\ \A i \in Invoices : invoice[i].status = "issued" => invoice'[i] = invoice[i]
<1>1. TypeOK /\ TxOK /\ SessionOK(s) /\ Assigning(s)
  BY DEF IInv, SessionOK
<1>2. ASSUME IInv', invoice' = invoice
      PROVE  /\ IInv'
             /\ \A i \in Invoices : invoice[i].status = "issued" => invoice'[i] = invoice[i]
  BY <1>2
<1>3. ASSUME End(s) PROVE IInv' /\ invoice' = invoice
  BY <1>1, <1>3, EndQuiet, GotoLocal, NothingHeld DEF End, data
<1>4. ASSUME NEW p \in Projects,
             \/ \E W \in SUBSET Users : SubmitCreate(s, p, W)
             \/ \E fields \in BOOLEAN, W \in SUBSET Users : SubmitEdit(s, p, fields, W)
             \/ SubmitPurge(s, p)
      PROVE  IInv' /\ invoice' = invoice
  <2>1. TxOK' /\ Starts(s)
    BY <1>1, <1>4, StartStep
  <2>2. LocalStep(s)
    BY <1>1, <1>4, GotoLocal DEF SubmitCreate, SubmitEdit, SubmitPurge
  <2> QED
    BY <2>1, <2>2, NothingHeld DEF LocalStep, data
<1>5. ASSUME \/ PreSelect(s) \/ Replay(s) \/ AssertAssignable(s) \/ InsertProject(s) \/ Reread(s)
             \/ UpdateFields(s) \/ DiffWorkers(s)
             \/ \E u \in Users : RemoveWorker(s, u)
      PROVE  IInv' /\ invoice' = invoice
  <2>1. TxOK' /\ (Moves(s) \/ (Quiet(s) /\ UNCHANGED data))
    BY <1>1, <1>5, MoveStep
  <2>2. UNCHANGED data
    BY <2>1 DEF Moves
  <2>3. \E t : Goto(s, t)
    BY <1>5 DEF PreSelect, Found, Replay, AssertAssignable, InsertProject, Reread,
                UpdateFields, DiffWorkers, RemoveWorker, End, Refuse
  <2>4. LocalStep(s)
    BY <1>1, <2>2, <2>3, GotoLocal
  <2> QED
    BY <2>1, <2>2, <2>4, NothingHeld, MovesIInv DEF data
<1>6. ASSUME NEW u \in Users, AddWorker(s, u) PROVE IInv' /\ invoice' = invoice
  <2>1. TxOK' /\ (Adds(s, u) \/ (Quiet(s) /\ UNCHANGED data))
    BY <1>1, <1>6, AddStep
  <2>2. UNCHANGED data
    BY <2>1 DEF Adds
  <2>3. \E t : Goto(s, t)
    BY <1>6 DEF AddWorker, End
  <2>4. LocalStep(s)
    BY <1>1, <2>2, <2>3, GotoLocal
  <2> QED
    BY <2>1, <2>2, <2>4, NothingHeld, AddsIInv DEF data
<1>7. CASE CreateProject(s)
  BY <1>2, <1>4, <1>5, <1>7 DEF CreateProject
<1>8. CASE EditProject(s)
  BY <1>2, <1>4, <1>5, <1>8 DEF EditProject
<1>9. CASE \E u \in Users : RemoveWorker(s, u) \/ AddWorker(s, u)
  BY <1>2, <1>5, <1>6, <1>9
<1>10. CASE CommitProject(s)
  BY <1>2, <1>10, CommitProjectStep
<1>11. CASE \E p \in Projects : SubmitPurge(s, p)
  BY <1>2, <1>4, <1>11
<1>12. CASE Purge(s)
  BY <1>2, <1>12, PurgeStep
<1>13. CASE WriteInvoice(s)
  <2>1. ASSUME NEW i \in Invoices, NEW u \in Users, InsertDraft(s, i, u)
        PROVE  IInv' /\ invoice' = invoice
    BY <2>1, InsertDraftStep DEF InsertDraft, data
  <2>2. ASSUME NEW i \in Invoices, NEW u \in Users, NEW op \in {"edit draft", "issue"},
               LockDraft(s, op, i, u)
        PROVE  IInv' /\ invoice' = invoice
    BY <2>2, LockDraftStep DEF LockDraft, data
  <2>3. CASE Stamp(s)
    BY <1>2, <2>3, StampStep DEF Stamp, End, data
  <2>4. CASE CommitInvoice(s)
    BY <2>4, CommitInvoiceStep
  <2> QED
    BY <1>2, <1>13, <2>1, <2>2, <2>3, <2>4 DEF WriteInvoice
<1>14. CASE RemoveUser(s)
  <2>1. ASSUME NEW u \in Users, SubmitDelete(s, u) PROVE IInv' /\ invoice' = invoice
    BY <2>1, SubmitDeleteStep DEF SubmitDelete, data
  <2>2. CASE LockUser(s)
    BY <1>2, <2>2, LockUserStep DEF LockUser, End, data
  <2>3. CASE CountInvoices(s)
    BY <1>2, <2>3, CountInvoicesStep DEF CountInvoices, End, data
  <2>4. CASE DeleteUser(s)
    BY <1>2, <1>3, <2>4, EraseStep
  <2> QED
    BY <1>2, <1>14, <2>1, <2>2, <2>3, <2>4 DEF RemoveUser
<1>15. CASE Abort(s)
  BY <1>2, <1>3, <1>15 DEF Abort
<1> QED
  BY <1>7, <1>8, <1>9, <1>10, <1>11, <1>12, <1>13, <1>14, <1>15 DEF Acts

LEMMA StepIInv ==
  ASSUME IInv, [Next]_vars
  PROVE  /\ IInv'
         /\ \A i \in Invoices : invoice[i].status = "issued" => invoice'[i] = invoice[i]
<1>1. CASE UNCHANGED vars
  <2>1. TypeOK'
    BY <1>1 DEF IInv, vars, data, TypeOK, Known
  <2>2. \A s \in Sessions : SessionOK(s)'
    <3>1. project' = project /\ invoice' = invoice /\ tx' = tx
      BY <1>1 DEF vars, data
    <3>2. ASSUME NEW s \in Sessions PROVE SessionOK(s)'
      <4>1. SessionOK(s)
        BY DEF IInv
      <4>2. Assigning(s)' /\ Replaying(s)'
        BY <3>1, <4>1 DEF SessionOK, Assigning, Replaying
      <4>3. Owning(s)' /\ Writing(s)'
        BY <3>1, <4>1 DEF SessionOK, Owning, Writing
      <4> QED
        BY <4>2, <4>3 DEF SessionOK
    <3> QED
      BY <3>2
  <2> QED
    BY <1>1, <2>1, <2>2 DEF IInv, vars, data, TxOK
<1>2. CASE OneStatement
  BY <1>2, OneStatementStep
<1>3. CASE \E s \in Sessions : Acts(s)
  BY <1>3, ActsIInv
<1> QED
  BY <1>1, <1>2, <1>3, StepCases

LEMMA Invariance == Spec => []IInv
<1>1. IInv /\ [Next]_vars => IInv'
  BY StepIInv
<1> QED
  BY <1>1, InitIInv, PTL DEF Spec

\* Every variable has its type in every reachable state; an assignment, an author
\* column and an uncommitted reference always name a user that exists, and an
\* assignment a stored project, whatever is deleted meanwhile.
THEOREM TypeCorrect == Spec => []TypeOK
<1>1. IInv => TypeOK
  BY DEF IInv
<1> QED
  BY <1>1, Invariance, PTL

\* An issued invoice keeps the authors it was issued with: the deletion of one
\* of them is refused, also when it started before the invoice was issued.
THEOREM Authors == Spec => AuthorsKept
<1>1. IInv /\ [Next]_vars =>
        [\A i \in Invoices : invoice[i].status = "issued" => invoice'[i] = invoice[i]]_vars
  BY StepIInv
<1> QED
  BY <1>1, Invariance, PTL DEF Spec, AuthorsKept

-----------------------------------------------------------------------------
(* Why a create is refused *)

Reason(s) ==
  LET p == tx[s].prj
  IN \/ NumberTaken(p)
     \/ tx[s].disturbed
     \/ project[p].state \in Stored /\ (project[p].edited \/ workers[p] # tx[s].want)

\* only Refuse tells a client that its create is refused
LEMMA KeepsAnswer ==
  ASSUME TxOK, NEW s \in Sessions, NEW t, Goto(s, t), t.refused = tx[s].refused \/ ~ t.refused
  PROVE  tx'[s].refused => tx[s].refused
  BY DEF TxOK, Goto

LEMMA IdleAnswer == ~ Idle.refused
  BY Zenon DEF Idle

LEMMA RefusalReason ==
  ASSUME IInv, NEW s \in Sessions, Acts(s), ~ tx[s].refused, tx'[s].refused
  PROVE  Reason(s)
<1>1. TxOK /\ SessionOK(s) /\ tx[s] \in TxRecord
  BY DEF IInv, TxOK
<1>2. ASSUME NEW t, Goto(s, t), t.refused = tx[s].refused \/ ~ t.refused PROVE FALSE
  BY <1>1, <1>2, KeepsAnswer
<1>3. ~ End(s)
  BY <1>2, IdleAnswer DEF End
\* a handler that goes on keeps the field
<1>4. ASSUME NEW pc, NEW b, NEW V, NEW W PROVE ~ Goto(s, [tx[s] EXCEPT !.pc = pc, !.inserts = b, !.add = V, !.want = W])
  <2> DEFINE t == [tx[s] EXCEPT !.pc = pc, !.inserts = b, !.add = V, !.want = W]
  <2>1. t.refused = tx[s].refused
    BY <1>1 DEF TxRecord
  <2> HIDE DEF t
  <2>2. ~ Goto(s, t)
    BY <1>2, <2>1
  <2> QED
    BY <2>2 DEF t
<1>5. ASSUME NEW pc, NEW V, NEW W, NEW X PROVE ~ Goto(s, [tx[s] EXCEPT !.pc = pc, !.add = V, !.del = W, !.want = X])
  <2> DEFINE t == [tx[s] EXCEPT !.pc = pc, !.add = V, !.del = W, !.want = X]
  <2>1. t.refused = tx[s].refused
    BY <1>1 DEF TxRecord
  <2> HIDE DEF t
  <2>2. ~ Goto(s, t)
    BY <1>2, <2>1
  <2> QED
    BY <2>2 DEF t
<1>6. ASSUME NEW V, NEW W PROVE ~ Goto(s, [tx[s] EXCEPT !.del = V, !.removed = W])
  <2> DEFINE t == [tx[s] EXCEPT !.del = V, !.removed = W]
  <2>1. t.refused = tx[s].refused
    BY <1>1 DEF TxRecord
  <2> HIDE DEF t
  <2>2. ~ Goto(s, t)
    BY <1>2, <2>1
  <2> QED
    BY <2>2 DEF t
<1>7. ASSUME NEW V, NEW W, NEW X PROVE ~ Goto(s, [tx[s] EXCEPT !.add = V, !.added = W, !.refs = X])
  <2> DEFINE t == [tx[s] EXCEPT !.add = V, !.added = W, !.refs = X]
  <2>1. t.refused = tx[s].refused
    BY <1>1 DEF TxRecord
  <2> HIDE DEF t
  <2>2. ~ Goto(s, t)
    BY <1>2, <2>1
  <2> QED
    BY <2>2 DEF t
<1>8. ASSUME NEW pc, NEW R PROVE ~ Goto(s, [tx[s] EXCEPT !.pc = pc, !.refs = R])
  <2> DEFINE t == [tx[s] EXCEPT !.pc = pc, !.refs = R]
  <2>1. t.refused = tx[s].refused
    BY <1>1 DEF TxRecord
  <2> HIDE DEF t
  <2>2. ~ Goto(s, t)
    BY <1>2, <2>1
  <2> QED
    BY <2>2 DEF t
<1>9. ASSUME NEW pc, NEW u PROVE ~ Goto(s, [tx[s] EXCEPT !.pc = pc, !.owns = u])
  <2> DEFINE t == [tx[s] EXCEPT !.pc = pc, !.owns = u]
  <2>1. t.refused = tx[s].refused
    BY <1>1 DEF TxRecord
  <2> HIDE DEF t
  <2>2. ~ Goto(s, t)
    BY <1>2, <2>1
  <2> QED
    BY <2>2 DEF t
<1>10. ASSUME NEW pc, NEW b PROVE ~ Goto(s, [tx[s] EXCEPT !.pc = pc, !.updates = b])
  <2> DEFINE t == [tx[s] EXCEPT !.pc = pc, !.updates = b]
  <2>1. t.refused = tx[s].refused
    BY <1>1 DEF TxRecord
  <2> HIDE DEF t
  <2>2. ~ Goto(s, t)
    BY <1>2, <2>1
  <2> QED
    BY <2>2 DEF t
<1>11. ASSUME NEW pc PROVE ~ Goto(s, [tx[s] EXCEPT !.pc = pc])
  <2> DEFINE t == [tx[s] EXCEPT !.pc = pc]
  <2>1. t.refused = tx[s].refused
    BY <1>1 DEF TxRecord
  <2> HIDE DEF t
  <2>2. ~ Goto(s, t)
    BY <1>2, <2>1
  <2> QED
    BY <2>2 DEF t
<1>12. CASE CreateProject(s)
  <2>1. ASSUME NEW p \in Projects, NEW W \in SUBSET Users, SubmitCreate(s, p, W) PROVE FALSE
    <3>1. ~ [Idle EXCEPT !.pc = "select", !.op = "create", !.prj = p, !.want = W].refused
      BY IdleAnswer DEF Idle
    <3> QED
      BY <1>2, <2>1, <3>1 DEF SubmitCreate
  <2>2. CASE PreSelect(s)
    <3>1. project[tx[s].prj].state \in Stored
      BY <1>11, <2>2 DEF PreSelect, Found
    <3>2. project[tx[s].prj].edited
      BY <1>11, <2>2, <3>1 DEF PreSelect, Found
    <3> QED
      BY <3>1, <3>2 DEF Reason
  <2>3. CASE Replay(s)
    <3>1. tx[s].pc = "replay" /\ workers[tx[s].prj] # tx[s].want
      BY <1>3, <2>3 DEF Replay
    <3> QED
      BY <1>1, <3>1 DEF SessionOK, Replaying, Reason
  <2>4. CASE AssertAssignable(s)
    BY <1>3, <1>11, <2>4 DEF AssertAssignable
  <2>5. CASE InsertProject(s)
    <3>1. ~ Goto(s, [tx[s] EXCEPT !.pc = "assign", !.inserts = TRUE, !.add = tx[s].want, !.want = {}])
      BY <1>4, Zenon
    <3> QED
      BY <1>11, <2>5, <3>1 DEF InsertProject, Reason
  <2>6. CASE Reread(s)
    <3>1. CASE project[tx[s].prj].state \in Stored
      <4>1. project[tx[s].prj].edited
        BY <1>11, <2>6, <3>1 DEF Reread, Found
      <4> QED
        BY <3>1, <4>1 DEF Reason
    <3>2. CASE project[tx[s].prj].state \notin Stored
      BY <1>1, <2>6, <3>2 DEF Reread, SessionOK, Replaying, Reason
    <3> QED
      BY <3>1, <3>2
  <2> QED
    BY <1>12, <2>1, <2>2, <2>3, <2>4, <2>5, <2>6 DEF CreateProject
<1>13. CASE EditProject(s)
  <2>1. ASSUME NEW p \in Projects, NEW fields \in BOOLEAN, NEW W \in SUBSET Users,
               SubmitEdit(s, p, fields, W)
        PROVE  FALSE
    <3>1. \A pc : ~ [Idle EXCEPT !.op = "edit", !.prj = p, !.want = W, !.pc = pc].refused
      BY IdleAnswer DEF Idle
    <3> QED
      BY <1>2, <2>1, <3>1 DEF SubmitEdit
  <2>2. ~ UpdateFields(s)
    <3>1. \A pc : ~ Goto(s, [tx[s] EXCEPT !.pc = pc, !.updates = TRUE])
      BY <1>10, Zenon
    <3> QED
      BY <1>3, <3>1 DEF UpdateFields
  <2>3. ~ DiffWorkers(s)
    BY <1>3, <1>5 DEF DiffWorkers
  <2> QED
    BY <1>13, <2>1, <2>2, <2>3 DEF EditProject
<1>14. ASSUME NEW u \in Users PROVE ~ RemoveWorker(s, u) /\ ~ AddWorker(s, u)
  BY <1>3, <1>6, <1>7 DEF RemoveWorker, AddWorker
\* a commit leaves the answer of an idle session
<1>15. ASSUME NEW P PROVE ~ EndChanging(s, P)
  BY IdleAnswer DEF EndChanging
<1>16. ~ CommitProject(s) /\ ~ Purge(s)
  BY <1>15 DEF CommitProject, Purge
<1>17. ASSUME NEW p \in Projects PROVE ~ SubmitPurge(s, p)
  <2>1. ~ [Idle EXCEPT !.pc = "purge", !.op = "purge", !.prj = p].refused
    BY IdleAnswer DEF Idle
  <2> QED
    BY <1>2, <2>1 DEF SubmitPurge
<1>18. ~ WriteInvoice(s)
  <2>1. ASSUME NEW i \in Invoices, NEW u \in Users PROVE ~ InsertDraft(s, i, u)
    <3>1. ~ [Idle EXCEPT !.pc = "commit", !.op = "create draft", !.inv = i,
                         !.as = u, !.refs = {u}].refused
      BY IdleAnswer DEF Idle
    <3> QED
      BY <1>2, <3>1 DEF InsertDraft
  <2>2. ASSUME NEW i \in Invoices, NEW u \in Users, NEW op PROVE ~ LockDraft(s, op, i, u)
    <3>1. ~ [Idle EXCEPT !.pc = "stamp", !.op = op, !.inv = i, !.as = u, !.locked = {i}].refused
      BY IdleAnswer DEF Idle
    <3> QED
      BY <1>2, <3>1 DEF LockDraft
  <2>3. ~ Stamp(s)
    BY <1>3, <1>8 DEF Stamp
  <2>4. ~ CommitInvoice(s)
    BY <1>2, IdleAnswer DEF CommitInvoice
  <2> QED
    BY <2>1, <2>2, <2>3, <2>4 DEF WriteInvoice
<1>19. ~ RemoveUser(s)
  <2>1. ASSUME NEW u \in Users PROVE ~ SubmitDelete(s, u)
    <3>1. ~ [Idle EXCEPT !.pc = "user", !.op = "delete", !.as = u, !.locked = NamedBy(u)].refused
      BY IdleAnswer DEF Idle
    <3> QED
      BY <1>2, <3>1 DEF SubmitDelete
  <2>2. ~ LockUser(s) /\ ~ CountInvoices(s)
    BY <1>3, <1>11, <1>9 DEF LockUser, CountInvoices
  <2>3. ~ DeleteUser(s)
    BY <1>3, <1>15 DEF DeleteUser, Erase
  <2> QED
    BY <2>1, <2>2, <2>3 DEF RemoveUser
<1>20. ~ Abort(s)
  BY <1>3 DEF Abort
<1> QED
  BY <1>12, <1>13, <1>14, <1>16, <1>17, <1>18, <1>19, <1>20 DEF Acts

\* Who does not act is told nothing.
LEMMA OthersUntold ==
  ASSUME IInv, NEW s \in Sessions, Acts(s), NEW r \in Others(s)
  PROVE  tx'[r].refused = tx[r].refused
<1>1. TxOK /\ r \in Sessions /\ r # s
  BY DEF IInv, Others
<1>2. ASSUME NEW t, Goto(s, t) PROVE tx'[r].refused = tx[r].refused
  BY <1>1, <1>2 DEF Goto, TxOK
<1>3. ASSUME NEW P, EndChanging(s, P) PROVE tx'[r].refused = tx[r].refused
  BY <1>1, <1>3, EndChangingKeeps DEF Kept
<1>4. (\E t : Goto(s, t)) \/ (\E P : EndChanging(s, P))
  BY DEF Acts, CreateProject, SubmitCreate, PreSelect, Found, Replay, AssertAssignable,
         InsertProject, Reread, EditProject, SubmitEdit, UpdateFields, DiffWorkers,
         RemoveWorker, AddWorker, CommitProject, SubmitPurge, Purge, WriteInvoice,
         InsertDraft, LockDraft, Stamp, CommitInvoice, RemoveUser, SubmitDelete, LockUser,
         CountInvoices, DeleteUser, Erase, Abort, End, Refuse
<1> QED
  BY <1>2, <1>3, <1>4

\* A create is refused as a conflict or a duplicate number only for a reason: so
\* the retry of a create, also one that runs while the first attempt does, never
\* collides with its own project.
THEOREM Retry == Spec => RetryAnswered
<1>1. ASSUME IInv, [Next]_vars, NEW s \in Sessions, ~ tx[s].refused, tx'[s].refused
      PROVE  Reason(s)
  <2>1. CASE UNCHANGED vars
    BY <1>1, <2>1 DEF vars
  <2>2. CASE OneStatement
    BY <1>1, <2>2 DEF OneStatement, Archive, Restore, Flip, Deactivate, Reactivate, Toggle
  <2>3. CASE \E r \in Sessions : Acts(r)
    <3>1. PICK r \in Sessions : Acts(r)
      BY <2>3
    <3>2. r = s
      BY <1>1, <3>1, OthersUntold DEF Others
    <3> QED
      BY <1>1, <3>1, <3>2, RefusalReason
  <2> QED
    BY <1>1, <2>1, <2>2, <2>3, StepCases
<1>2. IInv /\ [Next]_vars =>
        [\A s \in Sessions : ~ tx[s].refused /\ tx'[s].refused => Reason(s)]_vars
  BY <1>1
<1> QED
  BY <1>2, Invariance, PTL DEF Spec, RetryAnswered, Reason
===========================================================================
