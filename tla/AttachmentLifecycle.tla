------------------------ MODULE AttachmentLifecycle ------------------------
(***************************************************************************)
(* Attachments: rows in Postgres, bytes in a versioned bucket that takes   *)
(* no part in any transaction.  Upload (init, presigned PUT, complete),    *)
(* hide into the Papierkorb, restore, the invoice PDFs that share the      *)
(* table, permanent delete of the project, the two row reapers, the        *)
(* bucket-orphan sweep and the provider's lifecycle rule.                  *)
(*                                                                         *)
(* A handler is a sequence of database statements and storage calls; `pc`  *)
(* names the one a session runs next.  A compare-and-set is an UPDATE or   *)
(* DELETE with a predicate on the status: at READ COMMITTED one whose      *)
(* predicate is false of the committed row returns no row at once, one     *)
(* whose predicate is true waits for the row lock.  Only a restore holds   *)
(* such a lock over several steps; what it has written meanwhile is        *)
(* invisible, so `row` keeps the committed values until it commits.        *)
(*                                                                         *)
(* An operator commented "faulty:" is a plausible bug of the definition    *)
(* that follows it; no behaviour uses it.                                  *)
(***************************************************************************)
EXTENDS Integers, FiniteSets

CONSTANTS
  Sessions,     \* request handlers that can run at the same time
  Projects,
  Attachments,  \* ids of rows of `attachments` (random UUIDs)
  ProjectOf,    \* the project an attachment belongs to
  Photos,       \* attachments with a thumbnail beside the original
  Pdfs,         \* rendered invoices: rows no attachment request can name
  Requests,     \* the kinds of request the clients of this instance send
  MaxVersion,   \* bound: versions a key can get
  None          \* an absent id, a lock nobody holds

ASSUME NamesAssumption ==
  /\ None \notin Sessions \cup Projects \cup Attachments
  /\ ProjectOf \in [Attachments -> Projects]
  /\ Photos \subseteq Attachments
  /\ Pdfs \subseteq Attachments \ Photos
ASSUME VersionAssumption == MaxVersion \in Nat \ {0}

VARIABLES
  project,  \* a project row: active, archived, gone
  row,      \* attachment rows; "gone" is a deleted one
  object,   \* the bucket, by key
  puts,     \* keys with a presigned PUT the client may still make arrive
  lock,     \* row locks held over several steps, by a restore
  tx,       \* per session: the handler it runs and its local state
  reaping,  \* orphan reaper: keys of deleted rows not yet hidden
  expired,  \* hidden reaper: rows of its listing not yet tried
  sweep,    \* bucket sweep: what it has listed and what it means to hide
  trouble   \* ghost: how the last storage calls on an attachment went wrong

jobs == <<reaping, expired, sweep>>
vars == <<project, row, object, puts, lock, tx, jobs, trouble>>

-----------------------------------------------------------------------------
(* Rows, keys and objects *)

Parts == {"orig", "thumb"}
PartsOf(a) == IF a \in Photos THEN Parts ELSE {"orig"}

\* storageKey(projectId, attachmentId, part)
KeysOf(a) == {<<a, part>> : part \in PartsOf(a)}
Keys == UNION {KeysOf(a) : a \in Attachments}

Live == {"pending", "ready", "hidden"}

\* the keys some row refers to, in any status
Referenced == UNION {KeysOf(a) : a \in {b \in Attachments : row[b].status \in Live}}

\* a row's version_id pair, NULL being 0
NoVersions == [part \in Parts |-> 0]

\* `aged`: created_at of a pending row, hidden_at of a hidden one, is past
\* the reaper's cutoff
NewRow(st) == [status |-> st, version |-> NoVersions, aged |-> FALSE]

\* A key's history: `top` versions were written; `kept` are those the
\* lifecycle rule has not reaped; `shown`: the newest entry is version `top`
\* and not a delete marker; versions up to `old` were written before the
\* sweep's min-age cutoff; those in `stale` have been noncurrent for L days.
NoObject == [top |-> 0, shown |-> FALSE, kept |-> {}, old |-> 0, stale |-> {}]

\* faulty: the id of the version before is handed out
WrittenBefore(o) == [o EXCEPT !.top = @ + 1, !.shown = TRUE, !.kept = @ \cup {o.top}]

Written(o) == [o EXCEPT !.top = @ + 1, !.shown = TRUE, !.kept = @ \cup {o.top + 1}]
Hidden(o)  == [o EXCEPT !.shown = FALSE]

Noncurrent(o) == IF o.shown THEN o.kept \ {o.top} ELSE o.kept

\* storage.putObject, a presigned PUT, a CopyObject: a new current version
Write(k) == object[k].top < MaxVersion /\ object' = [object EXCEPT ![k] = Written(@)]

\* storage.hide: DeleteObject without a version id writes a delete marker
HideObject(k) == object' = [object EXCEPT ![k] = Hidden(@)]

-----------------------------------------------------------------------------
(* Sessions *)

Ops == {"init", "complete", "hide", "restore", "issue", "purge"}

Idle == [op |-> "none", pc |-> "idle", att |-> None, prj |-> None,
         todo |-> {}, seen |-> NoVersions, keys |-> {}]

NoSweep == [pc |-> "idle", listed |-> {}, old |-> {}, orphans |-> {}]

Init ==
  /\ project = [p \in Projects |-> "active"]
  /\ row = [a \in Attachments |-> NewRow("none")]
  /\ object = [k \in Keys |-> NoObject]
  /\ puts = {}
  /\ lock = [a \in Attachments |-> None]
  /\ tx = [s \in Sessions |-> Idle]
  /\ reaping = {}
  /\ expired = {}
  /\ sweep = NoSweep
  /\ trouble = [a \in Attachments |-> {}]

\* a step that changes nothing but its session's local state
OnlySession == UNCHANGED <<project, row, object, puts, lock, jobs, trouble>>

Goto(s, t) == tx' = [tx EXCEPT ![s] = t]
Running(s, op, pc) == tx[s].op = op /\ tx[s].pc = pc

\* A handler on a's objects has made some of its storage calls.
Midway(op, a) ==
  \E s \in Sessions : tx[s].op = op /\ tx[s].att = a /\ tx[s].todo # PartsOf(a)

\* original first, then thumbnail
NextPart(t) == IF "orig" \in t.todo THEN "orig" ELSE "thumb"

\* COMMIT or ROLLBACK: the locks go, the session is free
EndTx(s) ==
  /\ Goto(s, Idle)
  /\ lock' = [a \in Attachments |-> IF lock[a] = s THEN None ELSE lock[a]]

\* a request ends in a rejection or a thrown error; what it did to the bucket
\* stays.  The ghost remembers it.
Fail(s, what) ==
  /\ EndTx(s)
  /\ trouble' = [a \in Attachments |->
       IF a = tx[s].att /\ tx[s].todo # PartsOf(a)
       THEN trouble[a] \cup what ELSE trouble[a]]
  /\ UNCHANGED <<project, row, object, puts, jobs>>

\* a request that has not touched the bucket is turned down
Reject(s) == Fail(s, {})

\* storage or database fault, process crash: at any step
Abort(s) == tx[s].pc # "idle" /\ Fail(s, {tx[s].op} \cap {"hide", "restore"})

Start(s, op, pc, a) ==
  /\ op \in Requests
  /\ tx[s].pc = "idle"
  /\ Goto(s, [Idle EXCEPT !.op = op, !.pc = pc, !.att = a, !.prj = ProjectOf[a],
                          !.todo = PartsOf(a)])
  /\ OnlySession

\* a UUID nobody has used
FreshId(a) ==
  /\ row[a].status = "none"
  /\ \A k \in KeysOf(a) : object[k].top = 0
  /\ \A s \in Sessions : tx[s].att # a

-----------------------------------------------------------------------------
(* Upload: init, the client's PUTs, complete *)

\* initUpload sees an active project ...
SubmitInit(s, a) ==
  /\ a \notin Pdfs /\ FreshId(a)
  /\ project[ProjectOf[a]] = "active"
  /\ Start(s, "init", "insert", a)

\* ... inserts the pending row and only then signs the URLs
InsertPending(s) ==
  LET a == tx[s].att
  IN /\ Running(s, "init", "insert")
     /\ \/ /\ project[ProjectOf[a]] # "gone"
           /\ row' = [row EXCEPT ![a] = NewRow("pending")]
           /\ puts' = puts \cup KeysOf(a)
           /\ EndTx(s)
           /\ UNCHANGED <<project, object, jobs, trouble>>
        \/ project[ProjectOf[a]] = "gone" /\ Reject(s)

\* The bytes arrive.  The URL must still be valid when the PUT starts, which
\* bounds nothing about when a slow one ends.
PutArrives(k) ==
  /\ k \in puts
  /\ Write(k)
  /\ puts' = puts \ {k}
  /\ UNCHANGED <<project, row, lock, tx, jobs, trouble>>

SubmitComplete(s, a) ==
  /\ a \notin Pdfs /\ row[a].status # "none"
  /\ project[ProjectOf[a]] = "active"
  /\ Start(s, "complete", "row", a)

\* completeUpload turns down an absent and a ready row, not a hidden one
ReadForComplete(s) ==
  /\ Running(s, "complete", "row")
  /\ \/ /\ row[tx[s].att].status \in {"pending", "hidden"}
        /\ Goto(s, [tx[s] EXCEPT !.pc = "head"])
        /\ OnlySession
     \/ row[tx[s].att].status \notin {"pending", "hidden"} /\ Reject(s)

\* faulty: the thumbnail is not looked at
HeadOriginal(s) ==
  LET o == object[<<tx[s].att, "orig">>]
  IN /\ Running(s, "complete", "head")
     /\ \/ /\ o.shown
           /\ Goto(s, [tx[s] EXCEPT !.todo = {}, !.pc = "flip",
                                    !.seen = [part \in Parts |-> o.top]])
           /\ OnlySession
        \/ ~ o.shown /\ Reject(s)

\* HEAD of each part: its current version, or 404 for none or a delete marker
Head(s) ==
  LET part == NextPart(tx[s])
      o    == object[<<tx[s].att, part>>]
      rest == tx[s].todo \ {part}
  IN /\ Running(s, "complete", "head")
     /\ \/ /\ o.shown
           /\ Goto(s, [tx[s] EXCEPT !.todo = rest, !.seen[part] = o.top,
                                    !.pc = IF rest = {} THEN "flip" ELSE "head"])
           /\ OnlySession
        \/ ~ o.shown /\ Reject(s)

\* markReady: compare-and-set pending -> ready with the versions of the HEADs
MarkReady(s) ==
  LET a == tx[s].att
  IN /\ Running(s, "complete", "flip")
     /\ \/ /\ row[a].status = "pending"
           /\ row' = [row EXCEPT ![a] = [NewRow("ready") EXCEPT !.version = tx[s].seen]]
           /\ EndTx(s)
           /\ UNCHANGED <<project, object, puts, jobs, trouble>>
        \/ row[a].status # "pending" /\ Reject(s)

-----------------------------------------------------------------------------
(* Hide: the bucket first, then the row *)

\* The interface offers it for a row the client was shown as ready: one that
\* is ready now, or was.
SubmitHide(s, a) ==
  /\ a \notin Pdfs /\ row[a].status \in {"ready", "hidden", "gone"}
  /\ project[ProjectOf[a]] = "active"
  /\ Start(s, "hide", "row", a)

\* hideAttachment looks for the row, not at its status
ReadForHide(s) ==
  /\ Running(s, "hide", "row")
  /\ \/ /\ row[tx[s].att].status \in Live
        /\ Goto(s, [tx[s] EXCEPT !.pc = "mark"])
        /\ OnlySession
     \/ row[tx[s].att].status \notin Live /\ Reject(s)

\* faulty: the thumbnail keeps its current version
HideOriginal(s) ==
  /\ Running(s, "hide", "mark")
  /\ HideObject(<<tx[s].att, "orig">>)
  /\ Goto(s, [tx[s] EXCEPT !.todo = {}, !.pc = "flip"])
  /\ UNCHANGED <<project, row, puts, lock, jobs, trouble>>

\* storage.hide of each part
HidePart(s) ==
  LET part == NextPart(tx[s])
      rest == tx[s].todo \ {part}
  IN /\ Running(s, "hide", "mark")
     /\ HideObject(<<tx[s].att, part>>)
     /\ Goto(s, [tx[s] EXCEPT !.todo = rest,
                              !.pc = IF rest = {} THEN "flip" ELSE "mark"])
     /\ UNCHANGED <<project, row, puts, lock, jobs, trouble>>

\* markHidden: compare-and-set ready -> hidden; losing it is a 409, the delete
\* markers stay
MarkHidden(s) ==
  LET a == tx[s].att
  IN /\ Running(s, "hide", "flip")
     /\ \/ /\ row[a].status = "ready"
           /\ row' = [row EXCEPT ![a].status = "hidden", ![a].aged = FALSE]
           /\ trouble' = [trouble EXCEPT ![a] = @ \ {"hide", "rejected"}]
           /\ EndTx(s)
           /\ UNCHANGED <<project, object, puts, jobs>>
        \/ row[a].status # "ready" /\ Fail(s, {"rejected"})

-----------------------------------------------------------------------------
(* Restore: the row first, locked, then copies of the recorded versions *)

\* allowed on an archived project too
SubmitRestore(s, a) ==
  /\ a \notin Pdfs /\ row[a].status # "none"
  /\ project[ProjectOf[a]] # "gone"
  /\ Start(s, "restore", "row", a)

ReadForRestore(s) ==
  LET r  == row[tx[s].att]
      ok == r.status = "hidden" /\ \A part \in PartsOf(tx[s].att) : r.version[part] # 0
  IN /\ Running(s, "restore", "row")
     /\ \/ /\ ok
           /\ Goto(s, [tx[s] EXCEPT !.pc = "flip", !.seen = r.version])
           /\ OnlySession
        \/ ~ ok /\ Reject(s)

\* markRestored: compare-and-set hidden -> ready, uncommitted.  A restore that
\* starts now repairs what failed before; the ghost forgets it.
MarkRestored(s) ==
  LET a == tx[s].att
  IN /\ Running(s, "restore", "flip")
     /\ \/ /\ row[a].status = "hidden"
           /\ lock[a] = None
           /\ lock' = [lock EXCEPT ![a] = s]
           /\ Goto(s, [tx[s] EXCEPT !.pc = "copy"])
           /\ trouble' = [trouble EXCEPT ![a] = @ \ {"hide", "rejected"}]
           /\ UNCHANGED <<project, row, object, puts, jobs>>
        \/ row[a].status # "hidden" /\ Reject(s)

\* copyFromVersion of each part; a reaped source is 410 and rolls back.  A key
\* at the bound MaxVersion counts as a storage fault.
Copy(s) ==
  LET part == NextPart(tx[s])
      k    == <<tx[s].att, part>>
      rest == tx[s].todo \ {part}
      ok   == tx[s].seen[part] \in object[k].kept /\ object[k].top < MaxVersion
  IN /\ Running(s, "restore", "copy")
     /\ \/ /\ ok
           /\ Write(k)
           /\ Goto(s, [tx[s] EXCEPT !.todo = rest, !.seen[part] = object[k].top + 1,
                                    !.pc = IF rest = {} THEN "record" ELSE "copy"])
           /\ UNCHANGED <<project, row, puts, lock, jobs, trouble>>
        \/ ~ ok /\ Fail(s, {"restore"})

\* faulty: the row keeps the versions it was hidden with
ForgetVersionIds(s) ==
  LET a == tx[s].att
  IN /\ Running(s, "restore", "record")
     /\ row' = [row EXCEPT ![a].status = "ready", ![a].aged = FALSE]
     /\ trouble' = [trouble EXCEPT ![a] = (@ \cap {"hide", "rejected"})
                      \cup IF Midway("hide", a) THEN {"overlap"} ELSE {}]
     /\ EndTx(s)
     /\ UNCHANGED <<project, object, puts, jobs>>

\* setVersionIds and COMMIT
SetVersionIds(s) ==
  LET a == tx[s].att
  IN /\ Running(s, "restore", "record")
     /\ row' = [row EXCEPT ![a] = [NewRow("ready") EXCEPT !.version = tx[s].seen]]
     /\ trouble' = [trouble EXCEPT ![a] = (@ \cap {"hide", "rejected"})
                      \cup IF Midway("hide", a) THEN {"overlap"} ELSE {}]
     /\ EndTx(s)
     /\ UNCHANGED <<project, object, puts, jobs>>

-----------------------------------------------------------------------------
(* Rendered invoices: the bucket first, the row with the issuance *)

SubmitIssue(s, a) ==
  /\ a \in Pdfs /\ FreshId(a)
  /\ project[ProjectOf[a]] = "active"
  /\ Start(s, "issue", "put", a)

\* persistRendered: putObject, and a HEAD for the version
PutPdf(s) ==
  LET k == <<tx[s].att, "orig">>
  IN /\ Running(s, "issue", "put")
     /\ Write(k)
     /\ Goto(s, [tx[s] EXCEPT !.pc = "commit", !.seen.orig = object[k].top + 1])
     /\ UNCHANGED <<project, row, puts, lock, jobs, trouble>>

\* the insert of a ready row becomes visible when the issuance commits
CommitPdf(s) ==
  LET a == tx[s].att
  IN /\ Running(s, "issue", "commit")
     /\ \/ /\ project[ProjectOf[a]] # "gone"
           /\ row' = [row EXCEPT ![a] = [NewRow("ready") EXCEPT !.version = tx[s].seen]]
           /\ EndTx(s)
           /\ UNCHANGED <<project, object, puts, jobs, trouble>>
        \/ project[ProjectOf[a]] = "gone" /\ Reject(s)

-----------------------------------------------------------------------------
(* Projects: archive, restore, permanent delete *)

Flip(p, from, to) ==
  /\ project[p] = from
  /\ project' = [project EXCEPT ![p] = to]
  /\ UNCHANGED <<row, object, puts, lock, tx, jobs, trouble>>

Archive(p)   == "archive" \in Requests /\ Flip(p, "active", "archived")
Unarchive(p) == "archive" \in Requests /\ Flip(p, "archived", "active")

RowsOf(p) == {a \in Attachments : ProjectOf[a] = p /\ row[a].status \in Live}

SubmitPurge(s, p) ==
  /\ "purge" \in Requests
  /\ project[p] # "gone"
  /\ tx[s].pc = "idle"
  /\ Goto(s, [Idle EXCEPT !.op = "purge", !.pc = "list", !.prj = p])
  /\ OnlySession

\* listKeysForProject
ListKeys(s) ==
  /\ Running(s, "purge", "list")
  /\ Goto(s, [tx[s] EXCEPT !.pc = "check", !.keys = UNION {KeysOf(a) : a \in RowsOf(tx[s].prj)}])
  /\ OnlySession

\* hardDeleteProject: 404 or 409 unless archived ...
CheckArchived(s) ==
  /\ Running(s, "purge", "check")
  /\ \/ /\ project[tx[s].prj] = "archived"
        /\ Goto(s, [tx[s] EXCEPT !.pc = "delete"])
        /\ OnlySession
     \/ project[tx[s].prj] # "archived" /\ Reject(s)

\* ... and a DELETE by id, whose cascade takes every row the project has by
\* then and waits for those a restore has locked.  COMMIT.
DeleteProject(s) ==
  LET p == tx[s].prj
  IN /\ Running(s, "purge", "delete")
     /\ \A a \in RowsOf(p) : lock[a] = None
     /\ project' = [project EXCEPT ![p] = "gone"]
     /\ row' = [a \in Attachments |->
                  IF a \in RowsOf(p) THEN NewRow("gone") ELSE row[a]]
     /\ Goto(s, IF tx[s].keys = {} THEN Idle ELSE [tx[s] EXCEPT !.pc = "hide"])
     /\ UNCHANGED <<object, puts, lock, jobs, trouble>>

\* one key, best effort: a storage fault is logged and the loop goes on
TryHide(k) == HideObject(k) \/ UNCHANGED object

\* bestEffortHideStorageKeys after the COMMIT
HidePurged(s) ==
  /\ Running(s, "purge", "hide")
  /\ \E k \in tx[s].keys :
       /\ TryHide(k)
       /\ Goto(s, IF tx[s].keys = {k} THEN Idle ELSE [tx[s] EXCEPT !.keys = @ \ {k}])
  /\ UNCHANGED <<project, row, puts, lock, jobs, trouble>>

-----------------------------------------------------------------------------
(* Reapers: one of each kind, never two runs at once *)

\* deleteOrphans: one DELETE of the pending rows past the TTL ...
ReapPending ==
  LET D == {a \in Attachments : row[a].status = "pending" /\ row[a].aged}
  IN /\ reaping = {} /\ D # {}
     /\ row' = [a \in Attachments |-> IF a \in D THEN NewRow("gone") ELSE row[a]]
     /\ reaping' = UNION {KeysOf(a) : a \in D}
     /\ UNCHANGED <<project, object, puts, lock, tx, expired, sweep, trouble>>

\* ... then their objects, best effort
HideReaped ==
  /\ \E k \in reaping : TryHide(k) /\ reaping' = reaping \ {k}
  /\ UNCHANGED <<project, row, puts, lock, tx, expired, sweep, trouble>>

\* findHiddenForReap
ListExpired ==
  LET E == {a \in Attachments : row[a].status = "hidden" /\ row[a].aged}
  IN /\ expired = {} /\ E # {}
     /\ expired' = E
     /\ UNCHANGED <<project, row, object, puts, lock, tx, reaping, sweep, trouble>>

\* faulty: the DELETE goes by id alone
ReapUnchecked(a) ==
  /\ a \in expired
  /\ lock[a] = None
  /\ row' = [row EXCEPT ![a] = NewRow("gone")]
  /\ expired' = expired \ {a}
  /\ UNCHANGED <<project, object, puts, lock, tx, reaping, sweep, trouble>>

\* deleteHiddenForReap: the status is compared again, hidden_at is not.  The
\* bytes are left to the provider's lifecycle rule.
ReapHidden(a) ==
  /\ a \in expired
  /\ \/ /\ row[a].status = "hidden"
        /\ lock[a] = None
        /\ row' = [row EXCEPT ![a] = NewRow("gone")]
     \/ row[a].status # "hidden" /\ UNCHANGED row
  /\ expired' = expired \ {a}
  /\ UNCHANGED <<project, object, puts, lock, tx, reaping, sweep, trouble>>

-----------------------------------------------------------------------------
(* The bucket sweep *)

\* faulty: only the first page of the listing is read
ListFirstPage ==
  LET shown == {k \in Keys : object[k].shown}
      L     == {CHOOSE k \in shown : TRUE}
  IN /\ sweep.pc = "idle" /\ shown # {}
     /\ sweep' = [NoSweep EXCEPT !.pc = "rows", !.listed = L,
                                 !.old = {k \in L : object[k].top <= object[k].old}]
     /\ UNCHANGED <<project, row, object, puts, lock, tx, reaping, expired, trouble>>

\* the listing: keys with a current version, and which of them are old
ListBucket ==
  LET L == {k \in Keys : object[k].shown}
  IN /\ sweep.pc = "idle" /\ L # {}
     /\ sweep' = [NoSweep EXCEPT !.pc = "rows", !.listed = L,
                                 !.old = {k \in L : object[k].top <= object[k].old}]
     /\ UNCHANGED <<project, row, object, puts, lock, tx, reaping, expired, trouble>>

\* faulty: a young object without a row is an orphan as well
JudgeYoung ==
  LET orphans == sweep.listed \ Referenced
  IN /\ sweep.pc = "rows"
     /\ sweep' = IF sweep.listed \cap Referenced = {} \/ orphans = {} THEN NoSweep
                 ELSE [NoSweep EXCEPT !.pc = "hide", !.orphans = orphans]
     /\ UNCHANGED <<project, row, object, puts, lock, tx, reaping, expired, trouble>>

\* the rows, read after the listing; a listing none of whose keys has a row
\* means the wrong database, and nothing is hidden
Judge ==
  LET orphans == sweep.old \ Referenced
  IN /\ sweep.pc = "rows"
     /\ sweep' = IF sweep.listed \cap Referenced = {} \/ orphans = {} THEN NoSweep
                 ELSE [NoSweep EXCEPT !.pc = "hide", !.orphans = orphans]
     /\ UNCHANGED <<project, row, object, puts, lock, tx, reaping, expired, trouble>>

SweepKey(k) ==
  /\ k \in sweep.orphans
  /\ HideObject(k)
  /\ sweep' = IF sweep.orphans = {k} THEN NoSweep ELSE [sweep EXCEPT !.orphans = @ \ {k}]
  /\ UNCHANGED <<project, row, puts, lock, tx, reaping, expired, trouble>>

-----------------------------------------------------------------------------
(* Time, the provider, faults *)

Quiet ==
  /\ \A s \in Sessions : tx[s].pc = "idle"
  /\ reaping = {} /\ expired = {} /\ sweep.pc = "idle"

\* All cutoffs pass.  They are minutes to days, a handler or a sweep takes
\* seconds: none is running meanwhile.
TimePasses ==
  /\ Quiet
  /\ row' = [a \in Attachments |->
       [row[a] EXCEPT !.aged = row[a].status \in {"pending", "hidden"}]]
  /\ object' = [k \in Keys |->
       [object[k] EXCEPT !.old = object[k].top, !.stale = Noncurrent(object[k])]]
  /\ trouble' = [a \in Attachments |->
       IF trouble[a] = {} THEN {} ELSE trouble[a] \cup {"old"}]
  /\ UNCHANGED <<project, puts, lock, tx, jobs>>

\* the lifecycle rule reaps a version that has been noncurrent for L days
ReapVersion(k) ==
  /\ \E v \in object[k].stale \cap Noncurrent(object[k]) :
       object' = [object EXCEPT ![k].kept = @ \ {v}, ![k].stale = @ \ {v}]
  /\ UNCHANGED <<project, row, puts, lock, tx, jobs, trouble>>

\* a background run dies: process restart, or a fault its loop does not catch
JobsDie ==
  /\ reaping' = {}
  /\ expired' = {}
  /\ sweep' = NoSweep
  /\ UNCHANGED <<project, row, object, puts, lock, tx, trouble>>

-----------------------------------------------------------------------------
(* The system *)

Submit(s) ==
  \/ \E a \in Attachments :
       SubmitInit(s, a) \/ SubmitComplete(s, a) \/ SubmitHide(s, a)
         \/ SubmitRestore(s, a) \/ SubmitIssue(s, a)
  \/ \E p \in Projects : SubmitPurge(s, p)

\* what a running handler does next when nothing fails around it
Step(s) ==
  \/ InsertPending(s)
  \/ ReadForComplete(s) \/ Head(s) \/ MarkReady(s)
  \/ ReadForHide(s) \/ HidePart(s) \/ MarkHidden(s)
  \/ ReadForRestore(s) \/ MarkRestored(s) \/ Copy(s) \/ SetVersionIds(s)
  \/ PutPdf(s) \/ CommitPdf(s)
  \/ ListKeys(s) \/ CheckArchived(s) \/ DeleteProject(s) \/ HidePurged(s)

Next ==
  \/ \E s \in Sessions : Submit(s) \/ Step(s) \/ Abort(s)
  \/ \E p \in Projects : Archive(p) \/ Unarchive(p)
  \/ \E k \in Keys : PutArrives(k) \/ SweepKey(k) \/ ReapVersion(k)
  \/ \E a \in Attachments : ReapHidden(a)
  \/ ReapPending \/ HideReaped \/ ListExpired
  \/ ListBucket \/ Judge
  \/ TimePasses \/ JobsDie

Spec == Init /\ [][Next]_vars

\* The schedulers keep ticking, a sweep is not killed for ever, time goes on.
Fairness ==
  /\ \A s \in Sessions : SF_vars(Step(s))
  /\ SF_vars(TimePasses)
  /\ SF_vars(ListBucket) /\ SF_vars(Judge)
  /\ \A k \in Keys : SF_vars(SweepKey(k))

FairSpec == Spec /\ Fairness

-----------------------------------------------------------------------------
(* Properties *)

TxRecord ==
  [op : Ops \cup {"none"},
   pc : {"idle", "insert", "row", "head", "flip", "mark", "copy", "record",
         "put", "commit", "list", "check", "delete", "hide"},
   att : Attachments \cup {None}, prj : Projects \cup {None},
   todo : SUBSET Parts, seen : [Parts -> 0 .. MaxVersion], keys : SUBSET Keys]

\* Every variable has its type.
TypeOK ==
  /\ project \in [Projects -> {"active", "archived", "gone"}]
  /\ row \in [Attachments -> [status : Live \cup {"none", "gone"},
                              version : [Parts -> 0 .. MaxVersion], aged : BOOLEAN]]
  /\ object \in [Keys -> [top : 0 .. MaxVersion, shown : BOOLEAN,
                          kept : SUBSET (1 .. MaxVersion), old : 0 .. MaxVersion,
                          stale : SUBSET (1 .. MaxVersion)]]
  /\ puts \in SUBSET Keys
  /\ lock \in [Attachments -> Sessions \cup {None}]
  /\ tx \in [Sessions -> TxRecord]
  /\ reaping \in SUBSET Keys
  /\ expired \in SUBSET Attachments
  /\ sweep \in [pc : {"idle", "rows", "hide"}, listed : SUBSET Keys,
                old : SUBSET Keys, orphans : SUBSET Keys]
  /\ trouble \in [Attachments -> SUBSET {"hide", "rejected", "restore", "overlap", "old"}]

Shown(a) == {k \in KeysOf(a) : object[k].shown}

\* A row that is listed as ready can be downloaded, original and thumbnail,
\* whatever completes, restores, reapers and sweeps have done around it;
\* except while a hide of it runs, or after one that did not end well.
ReadyReadable ==
  \A a \in Attachments :
    row[a].status = "ready" /\ ~ Midway("hide", a) /\ trouble[a] \cap {"hide", "rejected"} = {}
      => Shown(a) = KeysOf(a)

\* hideAttachment puts its markers before the compare-and-set and says of a
\* lost one: "The storage delete marker we just wrote is harmless".  So a
\* ready row is unreadable only after a hide that broke off.
LostHideHarmless ==
  \A a \in Attachments :
    row[a].status = "ready" /\ ~ Midway("hide", a) /\ "hide" \notin trouble[a]
      => Shown(a) = KeysOf(a)

\* What is in the Papierkorb is not current in the bucket, so that the
\* lifecycle rule, which takes noncurrent versions only, reaches it; except
\* after a restore that broke off or that ran beside a hide.
HiddenNotCurrent ==
  \A a \in Attachments :
    row[a].status = "hidden" /\ ~ Midway("restore", a)
      /\ trouble[a] \cap {"restore", "overlap"} = {}
      => Shown(a) = {}

\* ADR-0022: for L days after a hide the versions the row names are there to
\* be restored; the rule may be ahead of the row only where an earlier hide or
\* restore broke off L days before.
HiddenRestorable ==
  \A a \in Attachments :
    row[a].status = "hidden" /\ ~ row[a].aged /\ "old" \notin trouble[a]
      => \A part \in PartsOf(a) : row[a].version[part] \in object[<<a, part>>].kept

\* AC-408, AC-426: the reapers and the clients race for the same rows, yet a
\* ready row goes only when its project does.
ReadyNeverReaped ==
  [][\A a \in Attachments : row[a].status = "ready" /\ row'[a].status = "gone"
       => project'[ProjectOf[a]] = "gone"]_vars

\* pruneBucketOrphans: whatever commits between its listing, its read of the
\* rows and its hides, it takes the current version only from keys whose row has
\* been deleted, or was never inserted and will not be: an object without a row
\* that was written within the min-age may be an upload under way.
SweepSparesRows ==
  [][\A a \in Attachments : \A k \in KeysOf(a) :
       k \in sweep.orphans /\ object[k].shown /\ ~ object'[k].shown /\ sweep' # sweep
         => \/ row[a].status = "gone"
            \/ row[a].status = "none" /\ object[k].top <= object[k].old]_vars

\* Objects whose row never committed, was reaped or was purged do not stay
\* current: provided the service is quiet now and then, every such object is
\* hidden in the end, unless the sweep's coherence gate holds it back because
\* no listed key has a row.
OrphansSwept ==
  []<>Quiet =>
    \A k \in Keys :
      []<>(\/ ~ object[k].shown
           \/ k \in Referenced
           \/ \A j \in Referenced : ~ object[j].shown)
=============================================================================
