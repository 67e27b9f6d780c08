---------------------------- MODULE DataExchange ----------------------------
(***************************************************************************)
(* Full-account takeout: export and import jobs, the resumable upload of   *)
(* an archive, its restore into the database and the bucket, and the       *)
(* staging files on the server's disk.                                     *)
(*                                                                         *)
(* A job is a database row; what works on it lives in memory and dies with *)
(* the process: the request that creates it (`post`), the PATCH requests   *)
(* that append its bytes and the restore the last of them starts (`proc`), *)
(* the build of an export (`build`).  Consecutive statements that no other *)
(* actor can tell apart are one step.                                      *)
(*                                                                         *)
(* `trouble` remembers, for the properties, the faults a job has met; no   *)
(* action reads it.  An operator commented "faulty:" is a plausible bug of *)
(* the definition that follows it, which no behaviour uses.                *)
(***************************************************************************)
EXTENDS Integers, FiniteSets

CONSTANTS
  Imports, Exports,  \* job ids (random UUIDs), by data_exchange_job.kind
  Posters,           \* requests that can be creating a job at the same time
  Handlers,          \* PATCH requests, each with the restore it may start
  Atts,              \* attachment ids
  Carried,           \* the attachments of the archive an operator uploads
  CarriedInvs, CarriedSeq,  \* its numbered invoices and its counter
  InitInvs, InitSeq, InitAtts,  \* what a database in use holds at first
  Filled,            \* whether the database is in use at first: TRUE, FALSE or both
  Len,               \* Upload-Length, in chunks
  MaxSeq,            \* bound: no number beyond this one is issued
  Sweeping,          \* whether the bucket sweep runs in this instance
  None

Jobs == Imports \cup Exports

ASSUME JobsAssumption ==
  /\ Imports \cap Exports = {}
  /\ None \notin Jobs \cup Atts \cup Handlers
ASSUME ArchiveAssumption ==
  /\ Carried \subseteq Atts /\ InitAtts \subseteq Atts
  /\ CarriedSeq \in Nat /\ InitSeq \in Nat /\ MaxSeq \in Nat
  /\ CarriedInvs \subseteq 1 .. CarriedSeq /\ InitInvs \subseteq 1 .. InitSeq
  /\ IsFiniteSet(Atts) /\ Len \in Nat \ {0} /\ Filled \subseteq BOOLEAN /\ Sweeping \in BOOLEAN

VARIABLES
  job,      \* data_exchange_job rows: status, archiveRef set or null
  file,     \* staged files: their size, whether they begin as the archive does
  work,     \* some customer, project or assignment row exists
  invs,     \* numbers of the issued and cancelled invoices
  seq,      \* invoice_sequence
  rows,     \* attachment rows: None, or who sealed the object they describe
  object,   \* their objects: current or not, sealed by whom, young or old
  invLock,  \* ACCESS EXCLUSIVE on invoices
  post, proc, build,   \* requests and background work in memory
  sweep,    \* a run of the bucket sweep
  audits,   \* data_import audit rows per job
  trouble   \* ghost: faults per job

db   == <<work, invs, seq, rows>>
mem  == <<post, proc, build>>
vars == <<job, file, db, object, invLock, mem, sweep, audits, trouble>>

-----------------------------------------------------------------------------

Active   == {"pending", "running"}
Terminal == {"ready", "failed"}
Mint     == "upload"   \* sealed by the upload path, not by an import
Sealers  == Imports \cup {Mint}

NoJob    == [status |-> "none", ref |-> FALSE]
NoFile   == [size |-> 0, good |-> TRUE]
IdlePost == [pc |-> "idle", kind |-> "none"]
IdleProc == [pc |-> "idle", job |-> None, off |-> 0, n |-> 0, alien |-> FALSE,
             present |-> FALSE, seq |-> 0, keys |-> {}, todo |-> {}, att |-> None]
NoBuild  == [pc |-> "idle", envelope |-> {}, keys |-> [a \in Atts |-> None],
             todo |-> {}, done |-> {}, total |-> 0]
NoSweep  == [pc |-> "idle", listed |-> {}, orphans |-> {}]
NoObject == [shown |-> FALSE, seal |-> None, old |-> FALSE]

OfKind(k) == IF k = "import" THEN Imports ELSE Exports
Present   == {a \in Atts : rows[a] # None}

\* ImportService.isTargetNonEmpty and the probe of import()
NonEmpty  == work \/ invs # {} \/ Present # {}

Init ==
  /\ job = [j \in Jobs |-> NoJob]
  /\ file = [j \in Jobs |-> NoFile]
  /\ work \in Filled
  /\ invs = (IF work THEN InitInvs ELSE {})
  /\ seq = (IF work THEN InitSeq ELSE 0)
  /\ rows = [a \in Atts |-> IF work /\ a \in InitAtts THEN Mint ELSE None]
  /\ object = [a \in Atts |-> IF work /\ a \in InitAtts
                 THEN [shown |-> TRUE, seal |-> Mint, old |-> TRUE] ELSE NoObject]
  /\ invLock = None
  /\ post = [p \in Posters |-> IdlePost]
  /\ proc = [h \in Handlers |-> IdleProc]
  /\ build = [e \in Exports |-> NoBuild]
  /\ sweep = NoSweep
  /\ audits = [j \in Jobs |-> 0]
  /\ trouble = [j \in Jobs |-> {}]

-----------------------------------------------------------------------------
(* DataExchangeJobService: every update names the row by id alone *)

ActiveOfKind(k) == {j \in OfKind(k) : job[j].status \in Active}

\* terminal jobs whose archiveRef the next create, or the reaper, sweeps
PriorStaged(k) ==
  {j \in OfKind(k) :
     /\ job[j].ref
     /\ job[j].status \in IF k = "import" THEN Terminal ELSE {"ready"}}

\* one transaction: the terminal status and the job's audit row
MarkReady(j) ==
  /\ job' = [job EXCEPT ![j] = [status |-> "ready", ref |-> TRUE]]
  /\ audits' = [audits EXCEPT ![j] = @ + 1]

\* faulty: the audit row is left to a second statement that never ran
MarkFailedUnaudited(j) ==
  /\ job' = [job EXCEPT ![j].status = "failed"]
  /\ UNCHANGED audits

MarkFailed(j) ==
  /\ job' = [job EXCEPT ![j].status = "failed"]
  /\ audits' = [audits EXCEPT ![j] = @ + 1]

-----------------------------------------------------------------------------
(* POST /api/import-jobs, POST /api/export-jobs *)

\* no active job of the kind; the destructive guard (override and phrase over
\* a non-empty target) is about the request alone
PostCheck(p, k) ==
  /\ post[p].pc = "idle"
  /\ ActiveOfKind(k) = {}
  /\ post' = [post EXCEPT ![p] = [pc |-> "sweep", kind |-> k]]
  /\ UNCHANGED <<job, file, db, object, invLock, proc, build, sweep, audits, trouble>>

\* prior staged archives of the kind go: the file, then the reference to it
PostSweep(p) ==
  LET prior == PriorStaged(post[p].kind)
  IN /\ post[p].pc = "sweep"
     /\ file' = [j \in Jobs |-> IF j \in prior THEN NoFile ELSE file[j]]
     /\ job' = [j \in Jobs |-> IF j \in prior THEN [job[j] EXCEPT !.ref = FALSE] ELSE job[j]]
     /\ post' = [post EXCEPT ![p].pc = "create"]
     /\ UNCHANGED <<db, object, invLock, proc, build, sweep, audits, trouble>>

\* the row; an export starts building, an import waits for its bytes
PostCreate(p) ==
  /\ post[p].pc = "create"
  /\ \E j \in OfKind(post[p].kind) :
       /\ job[j].status = "none"
       /\ job' = [job EXCEPT ![j].status = "pending"]
       /\ build' = IF j \in Exports THEN [build EXCEPT ![j].pc = "start"] ELSE build
  /\ post' = [post EXCEPT ![p] = IdlePost]
  /\ UNCHANGED <<file, db, object, invLock, proc, sweep, audits, trouble>>

-----------------------------------------------------------------------------
(* PATCH /api/import-jobs/:id/archive *)

InFlight(j) == {h \in Handlers : proc[h].pc # "idle" /\ proc[h].job = j}

\* the job is pending and the client's offset is the size of the file; the
\* bytes may come from another file than the one uploaded so far
PatchBegin(h, j, alien) ==
  /\ proc[h].pc = "idle"
  /\ job[j].status = "pending" /\ file[j].size < Len
  /\ proc' = [proc EXCEPT ![h] = [IdleProc EXCEPT !.pc = "append", !.job = j,
                                                  !.off = file[j].size, !.alien = alien]]
  /\ trouble' = [trouble EXCEPT ![j] =
                   IF InFlight(j) # {} THEN @ \cup {"overlap"} ELSE @]
  /\ UNCHANGED <<job, file, db, object, invLock, post, build, sweep, audits>>

\* one chunk goes to the end of the file, wherever that is by now
Append(h) ==
  LET j == proc[h].job
      at == proc[h].off + proc[h].n
  IN /\ proc[h].pc = "append" /\ at < Len
     /\ file' = [file EXCEPT ![j] = [size |-> @.size + 1,
                   good |-> @.good /\ (@.size < Len => ~ proc[h].alien /\ @.size = at)]]
     /\ proc' = [proc EXCEPT ![h].n = @ + 1]
     /\ UNCHANGED <<job, db, object, invLock, post, build, sweep, audits, trouble>>

\* the body ends short of Upload-Length, or the connection breaks
PatchEnd(h) ==
  /\ proc[h].pc = "append"
  /\ proc' = [proc EXCEPT ![h] = IdleProc]
  /\ UNCHANGED <<job, file, db, object, invLock, post, build, sweep, audits, trouble>>

\* faulty: the reference waits for the end of the restore
PatchCompleteUnstamped(h) ==
  LET j == proc[h].job
  IN /\ proc[h].pc = "append" /\ proc[h].off + proc[h].n >= Len
     /\ job' = [job EXCEPT ![j].status = "running"]
     /\ proc' = [proc EXCEPT ![h] = [IdleProc EXCEPT !.pc = "validate", !.job = j]]
     /\ UNCHANGED <<file, db, object, invLock, post, build, sweep, audits, trouble>>

\* what this request counted reaches Upload-Length: markRunning stamps the
\* archiveRef and the restore starts
PatchComplete(h) ==
  LET j == proc[h].job
  IN /\ proc[h].pc = "append" /\ proc[h].off + proc[h].n >= Len
     /\ job' = [job EXCEPT ![j] = [status |-> "running", ref |-> TRUE]]
     /\ proc' = [proc EXCEPT ![h] = [IdleProc EXCEPT !.pc = "validate", !.job = j]]
     /\ UNCHANGED <<file, db, object, invLock, post, build, sweep, audits, trouble>>

-----------------------------------------------------------------------------
(* runTakeoutImport *)

Enter(h, pc) == proc' = [proc EXCEPT ![h].pc = pc]

\* faulty: the archive is trusted
ValidateNothing(h) ==
  /\ proc[h].pc = "validate"
  /\ Enter(h, "probe")
  /\ UNCHANGED <<job, file, db, object, invLock, post, build, sweep, audits, trouble>>

\* Pass 1: hashes, ids, coverage, before anything is written
Validate(h) ==
  /\ proc[h].pc = "validate"
  /\ Enter(h, IF file[proc[h].job] = [size |-> Len, good |-> TRUE] THEN "probe" ELSE "fail")
  /\ UNCHANGED <<job, file, db, object, invLock, post, build, sweep, audits, trouble>>

\* ImportService.import: the presence probe
Probe(h) ==
  /\ proc[h].pc = "probe"
  /\ proc' = [proc EXCEPT ![h].pc = "check", ![h].present = NonEmpty]
  /\ UNCHANGED <<job, file, db, object, invLock, post, build, sweep, audits, trouble>>

\* faulty: the numbers are compared without the lock
CheckUnlocked(h) ==
  /\ proc[h].pc = "check"
  /\ Enter(h, IF invs \subseteq CarriedInvs THEN "read" ELSE "fail")
  /\ UNCHANGED <<job, file, db, object, invLock, post, build, sweep, audits, trouble>>

\* assertKeepsNumberedInvoices: lock, then compare; skipped over an empty target
CheckKeepsNumbered(h) ==
  /\ proc[h].pc = "check"
  /\ IF proc[h].present
     THEN /\ invLock = None
          /\ IF invs \subseteq CarriedInvs
             THEN invLock' = h /\ Enter(h, "read")
             ELSE UNCHANGED invLock /\ Enter(h, "fail")
     ELSE UNCHANGED invLock /\ Enter(h, "read")
  /\ UNCHANGED <<job, file, db, object, post, build, sweep, audits, trouble>>

\* mergeSequence and listAllKeys
ReadTarget(h) ==
  /\ proc[h].pc = "read"
  /\ proc' = [proc EXCEPT ![h].pc = "wipe", ![h].keys = Present,
                ![h].seq = IF seq > CarriedSeq THEN seq ELSE CarriedSeq]
  /\ UNCHANGED <<job, file, db, object, invLock, post, build, sweep, audits, trouble>>

\* faulty: the counters are wiped and not written back
WipeForgetsSeq(h) ==
  /\ proc[h].pc = "wipe" /\ invLock \in {None, h}
  /\ work' = TRUE /\ invs' = CarriedInvs /\ seq' = 0
  /\ rows' = [a \in Atts |-> None]
  /\ invLock' = None
  /\ Enter(h, "hide")
  /\ UNCHANGED <<job, file, object, post, build, sweep, audits, trouble>>

\* TRUNCATE, DELETE FROM users, the inserts, COMMIT; no attachment row yet
WipeAndInsert(h) ==
  /\ proc[h].pc = "wipe" /\ invLock \in {None, h}
  /\ work' = TRUE /\ invs' = CarriedInvs /\ seq' = proc[h].seq
  /\ rows' = [a \in Atts |-> None]
  /\ invLock' = None
  /\ Enter(h, "hide")
  /\ UNCHANGED <<job, file, object, post, build, sweep, audits, trouble>>

\* bestEffortHideStorageKeys; then Pass 2 over the entries of the archive
HideWiped(h) ==
  /\ proc[h].pc = "hide"
  /\ \E hidden \in SUBSET proc[h].keys :
       object' = [a \in Atts |->
         IF a \in hidden THEN [object[a] EXCEPT !.shown = FALSE] ELSE object[a]]
  /\ proc' = [proc EXCEPT ![h].pc = "put", ![h].keys = {}, ![h].todo = Carried]
  /\ UNCHANGED <<job, file, db, invLock, post, build, sweep, audits, trouble>>

\* the entry is sealed under a fresh key and uploaded ...
PutEntry(h, a) ==
  /\ proc[h].pc = "put" /\ a \in proc[h].todo
  /\ object' = [object EXCEPT ![a] = [shown |-> TRUE, seal |-> proc[h].job, old |-> FALSE]]
  /\ proc' = [proc EXCEPT ![h].pc = "insert", ![h].att = a]
  /\ UNCHANGED <<job, file, db, invLock, post, build, sweep, audits, trouble>>

\* ... and its row inserted, unless one with the id exists
InsertRow(h) ==
  LET a == proc[h].att
  IN /\ proc[h].pc = "insert"
     /\ IF rows[a] = None
        THEN /\ rows' = [rows EXCEPT ![a] = proc[h].job]
             /\ proc' = [proc EXCEPT ![h].pc = "put", ![h].att = None,
                                     ![h].todo = @ \ {a}]
        ELSE UNCHANGED rows /\ Enter(h, "fail")
     /\ UNCHANGED <<job, file, work, invs, seq, object, invLock, post, build, sweep,
                    audits, trouble>>

\* faulty: a restore that skipped entries is ready all the same
RestoredSome(h) ==
  LET j == proc[h].job
  IN /\ proc[h].pc = "put"
     /\ MarkReady(j)
     /\ proc' = [proc EXCEPT ![h] = IdleProc]
     /\ UNCHANGED <<file, db, object, invLock, post, build, sweep, trouble>>

\* every entry landed: ready
Restored(h) ==
  LET j == proc[h].job
  IN /\ proc[h].pc = "put" /\ proc[h].todo = {}
     /\ MarkReady(j)
     /\ proc' = [proc EXCEPT ![h] = IdleProc]
     /\ UNCHANGED <<file, db, object, invLock, post, build, sweep, trouble>>

\* a statement, an upload or a read of the staged file throws; an open
\* transaction rolls back
RestoreThrows(h) ==
  /\ proc[h].pc \in {"probe", "check", "read", "wipe", "put", "insert"}
  /\ Enter(h, "fail")
  /\ invLock' = IF invLock = h THEN None ELSE invLock
  /\ UNCHANGED <<job, file, db, object, post, build, sweep, audits, trouble>>

\* faulty: what the failed run uploaded is hidden again
RestoreFailedRollback(h) ==
  /\ proc[h].pc = "fail"
  /\ MarkFailed(proc[h].job)
  /\ object' = [a \in Atts |-> IF rows[a] = proc[h].job
                               THEN [object[a] EXCEPT !.shown = FALSE] ELSE object[a]]
  /\ proc' = [proc EXCEPT ![h] = IdleProc]
  /\ UNCHANGED <<file, db, invLock, post, build, sweep, trouble>>

\* the catch of runTakeoutImport; what it uploaded stays for its rows
RestoreFailed(h) ==
  /\ proc[h].pc = "fail"
  /\ MarkFailed(proc[h].job)
  /\ proc' = [proc EXCEPT ![h] = IdleProc]
  /\ UNCHANGED <<file, db, object, invLock, post, build, sweep, trouble>>

\* ... and a markFailed that fails itself: only logged
FailureLost(h) ==
  /\ proc[h].pc = "fail"
  /\ trouble' = [trouble EXCEPT ![proc[h].job] = @ \cup {"lost"}]
  /\ proc' = [proc EXCEPT ![h] = IdleProc]
  /\ UNCHANGED <<job, file, db, object, invLock, post, build, sweep, audits>>

-----------------------------------------------------------------------------
(* runExportBuild and buildExportArchive *)

ToBuild(e, pc) == build' = [build EXCEPT ![e].pc = pc]

StartBuild(e) ==
  /\ build[e].pc = "start"
  /\ job' = [job EXCEPT ![e].status = "running"]
  /\ ToBuild(e, "snapshot")
  /\ UNCHANGED <<file, db, object, invLock, post, proc, sweep, audits, trouble>>

\* ExportService: one REPEATABLE READ snapshot
Snapshot(e) ==
  /\ build[e].pc = "snapshot"
  /\ build' = [build EXCEPT ![e].pc = "keys", ![e].envelope = Present,
                             ![e].todo = Present, ![e].total = Cardinality(Present)]
  /\ UNCHANGED <<job, file, db, object, invLock, post, proc, sweep, audits, trouble>>

\* loadAttachmentKeys, outside the snapshot; then the staged file is opened
LoadKeys(e) ==
  /\ build[e].pc = "keys"
  /\ build' = [build EXCEPT ![e].pc = "append",
                 ![e].keys = [a \in Atts |-> IF a \in build[e].todo THEN rows[a] ELSE None]]
  /\ file' = [file EXCEPT ![e].size = 1]
  /\ UNCHANGED <<job, db, object, invLock, post, proc, sweep, audits, trouble>>

Opens(e, a) ==
  build[e].keys[a] # None /\ object[a].shown /\ object[a].seal = build[e].keys[a]

\* faulty: a row that cannot be read is skipped and not counted
ArchiveEntryOrSkip(e, a) ==
  /\ build[e].pc = "append" /\ a \in build[e].todo
  /\ build' = IF Opens(e, a)
              THEN [build EXCEPT ![e].todo = @ \ {a}, ![e].done = @ \cup {a}]
              ELSE [build EXCEPT ![e].todo = @ \ {a}, ![e].total = @ - 1]
  /\ UNCHANGED <<job, file, db, object, invLock, post, proc, sweep, audits, trouble>>

\* the object opens with the key the row had, or the build fails
ArchiveEntry(e, a) ==
  /\ build[e].pc = "append" /\ a \in build[e].todo
  /\ build' = IF Opens(e, a)
              THEN [build EXCEPT ![e].todo = @ \ {a}, ![e].done = @ \cup {a}]
              ELSE [build EXCEPT ![e].pc = "fail"]
  /\ UNCHANGED <<job, file, db, object, invLock, post, proc, sweep, audits, trouble>>

\* the count tripwire, the manifest, finalize, the last progress, markReady
Built(e) ==
  /\ build[e].pc = "append" /\ build[e].todo = {}
  /\ Cardinality(build[e].done) = build[e].total
  /\ MarkReady(e)
  /\ ToBuild(e, "done")
  /\ UNCHANGED <<file, db, object, invLock, post, proc, sweep, trouble>>

BuildThrows(e) ==
  /\ build[e].pc \in {"start", "snapshot", "keys", "append"}
  /\ ToBuild(e, "fail")
  /\ UNCHANGED <<job, file, db, object, invLock, post, proc, sweep, audits, trouble>>

BuildFailed(e) ==
  /\ build[e].pc = "fail"
  /\ \/ MarkFailed(e) /\ UNCHANGED trouble
     \/ /\ trouble' = [trouble EXCEPT ![e] = @ \cup {"lost"}]
        /\ UNCHANGED <<job, audits>>
  /\ ToBuild(e, "unlink")
  /\ UNCHANGED <<file, db, object, invLock, post, proc, sweep>>

\* a failed export has no archiveRef: the partial archive goes here or never
Unlink(e) ==
  /\ build[e].pc = "unlink"
  /\ file' = [file EXCEPT ![e] = NoFile]
  /\ ToBuild(e, "done")
  /\ UNCHANGED <<job, db, object, invLock, post, proc, sweep, audits, trouble>>

-----------------------------------------------------------------------------
(* Staging reaper, restart *)

\* runTakeoutStagingReaper, past the TTL, with sweepStagedArtifact
SweepStaged(j) ==
  /\ j \in PriorStaged("import") \cup PriorStaged("export")
  /\ file' = [file EXCEPT ![j] = NoFile]
  /\ job' = [job EXCEPT ![j].ref = FALSE]
  /\ UNCHANGED <<db, object, invLock, mem, sweep, audits, trouble>>

\* faulty: the boot reaper takes abandoned uploads only
ReapAtBootPending == {j \in Jobs : job[j].status = "pending"}

\* reapAbandonedDataExchangeJobs: pending and running alike
ReapAtBoot == {j \in Jobs : job[j].status \in Active}

\* The process dies and boots: memory and open transactions are gone, the
\* jobs they worked on fail without an audit row and their staged files are
\* removed.  A file a dead build had still to remove stays.
Restart ==
  LET reaped == ReapAtBoot
  IN /\ job' = [j \in Jobs |-> IF j \in reaped THEN [job[j] EXCEPT !.status = "failed"]
                               ELSE job[j]]
     /\ file' = [j \in Jobs |-> IF j \in reaped THEN NoFile ELSE file[j]]
     /\ trouble' = [j \in Jobs |->
          trouble[j] \cup (IF j \in reaped THEN {"boot"} ELSE {})
                    \cup (IF j \in Exports /\ build[j].pc = "unlink" THEN {"unlink"} ELSE {})]
     /\ invLock' = None
     /\ post' = [p \in Posters |-> IdlePost]
     /\ proc' = [h \in Handlers |-> IdleProc]
     /\ build' = [e \in Exports |-> IF build[e].pc = "done" THEN build[e] ELSE NoBuild]
     /\ sweep' = NoSweep
     /\ UNCHANGED <<db, object, audits>>

-----------------------------------------------------------------------------
(* What users and the bucket sweep do meanwhile *)

\* an invoice is issued: the counter and the number in one transaction, after
\* a row lock on the draft
Issue ==
  /\ work /\ invLock = None /\ seq < MaxSeq
  /\ seq' = seq + 1
  /\ invs' = invs \cup {seq + 1}
  /\ UNCHANGED <<job, file, work, rows, object, invLock, mem, sweep, audits, trouble>>

\* a customer and a project are entered
EnterWork ==
  /\ ~ work
  /\ work' = TRUE
  /\ UNCHANGED <<job, file, invs, seq, rows, object, invLock, mem, sweep, audits, trouble>>

\* the sweep lists the bucket and remembers which objects are past the min-age
SweepList ==
  /\ Sweeping /\ sweep.pc = "idle"
  /\ sweep' = [NoSweep EXCEPT !.pc = "rows",
                 !.listed = {a \in Atts : object[a].shown /\ object[a].old}]
  /\ UNCHANGED <<job, file, db, object, invLock, mem, audits, trouble>>

\* it reads the rows; a listing without any row is the wrong database
SweepJudge ==
  /\ sweep.pc = "rows"
  /\ sweep' = IF sweep.listed \cap Present = {} THEN NoSweep
              ELSE [sweep EXCEPT !.pc = "hide", !.orphans = sweep.listed \ Present]
  /\ UNCHANGED <<job, file, db, object, invLock, mem, audits, trouble>>

\* it hides the orphans one by one
SweepHide ==
  /\ sweep.pc = "hide"
  /\ IF sweep.orphans = {} THEN sweep' = NoSweep /\ UNCHANGED object
     ELSE \E a \in sweep.orphans :
            /\ sweep' = [sweep EXCEPT !.orphans = @ \ {a}]
            /\ object' = [object EXCEPT ![a].shown = FALSE]
  /\ UNCHANGED <<job, file, db, invLock, mem, audits, trouble>>

-----------------------------------------------------------------------------

Create(p) ==
  \/ \E k \in {"import", "export"} : PostCheck(p, k)
  \/ PostSweep(p) \/ PostCreate(p)

Patch(h) ==
  \/ \E j \in Imports, alien \in BOOLEAN : PatchBegin(h, j, alien)
  \/ Append(h) \/ PatchEnd(h)

\* what a running restore does next
Restore(h) ==
  \/ PatchComplete(h)
  \/ Validate(h) \/ Probe(h) \/ CheckKeepsNumbered(h) \/ ReadTarget(h)
  \/ WipeAndInsert(h) \/ HideWiped(h)
  \/ (\E a \in Atts : PutEntry(h, a)) \/ InsertRow(h)
  \/ Restored(h) \/ RestoreFailed(h)

Build(e) ==
  \/ StartBuild(e) \/ Snapshot(e) \/ LoadKeys(e)
  \/ (\E a \in Atts : ArchiveEntry(e, a))
  \/ Built(e) \/ BuildFailed(e) \/ Unlink(e)

Next ==
  \/ \E p \in Posters : Create(p)
  \/ \E h \in Handlers : Patch(h) \/ Restore(h) \/ RestoreThrows(h) \/ FailureLost(h)
  \/ \E e \in Exports : Build(e) \/ BuildThrows(e)
  \/ \E j \in Jobs : SweepStaged(j)
  \/ Restart \/ Issue \/ EnterWork
  \/ SweepList \/ SweepJudge \/ SweepHide

Spec == Init /\ [][Next]_vars

\* Background work goes on once started; the staging reaper keeps ticking.
\* Nothing is assumed of clients, faults and restarts.
Fairness ==
  /\ \A h \in Handlers : WF_vars(Restore(h))
  /\ \A e \in Exports : WF_vars(Build(e))
  /\ \A j \in Jobs : WF_vars(SweepStaged(j))

FairSpec == Spec /\ Fairness

-----------------------------------------------------------------------------
(* Properties *)

\* Every variable has its type.
TypeOK ==
  /\ job \in [Jobs -> [status : Active \cup Terminal \cup {"none"}, ref : BOOLEAN]]
  /\ file \in [Jobs -> [size : Nat, good : BOOLEAN]]
  /\ work \in BOOLEAN
  /\ invs \subseteq 1 .. seq
  /\ seq \in Nat
  /\ rows \in [Atts -> Sealers \cup {None}]
  /\ object \in [Atts -> [shown : BOOLEAN, seal : Sealers \cup {None}, old : BOOLEAN]]
  /\ invLock \in Handlers \cup {None}
  /\ post \in [Posters -> [pc : {"idle", "sweep", "create"},
                           kind : {"none", "import", "export"}]]
  /\ proc \in [Handlers ->
       [pc : {"idle", "append", "validate", "probe", "check", "read", "wipe", "hide",
              "put", "insert", "fail"},
        job : Imports \cup {None}, off : Nat, n : Nat, alien : BOOLEAN,
        present : BOOLEAN, seq : Nat, keys : SUBSET Atts, todo : SUBSET Atts,
        att : Atts \cup {None}]]
  /\ build \in [Exports ->
       [pc : {"idle", "start", "snapshot", "keys", "append", "fail", "unlink", "done"},
        envelope : SUBSET Atts, keys : [Atts -> Sealers \cup {None}],
        todo : SUBSET Atts, done : SUBSET Atts, total : Nat]]
  /\ sweep \in [pc : {"idle", "rows", "hide"}, listed : SUBSET Atts, orphans : SUBSET Atts]
  /\ audits \in [Jobs -> Nat]
  /\ trouble \in [Jobs -> SUBSET {"overlap", "unlink", "lost", "boot"}]

\* AC-367, AC-369: whatever is issued while an archive uploads, validates and
\* restores, no import drops a number that reached a customer and none lowers
\* the counter.  This holds of a database in use, one that has rows from the
\* start (InUse): an import that finds it empty compares no numbers and takes
\* no lock, so what is issued between its probe and its wipe is dropped.
NumbersKept == [][invs \subseteq invs' /\ seq' >= seq]_vars

\* Two PATCH requests of one import were appending at the same time; the
\* route leaves that unserialized and calls it unreachable for its client.
Overlap == \E j \in Jobs : "overlap" \in trouble[j]

\* AC-328: an import is ready only with every attachment of its archive in
\* place and sealed by its own run, after crashes and failed runs before it.
ReadyRestored ==
  [][\A j \in Imports : job[j].status # "ready" /\ job'[j].status = "ready"
       => Overlap \/ \A a \in Carried : rows[a] = j]_vars

\* The database is wiped only for an archive that arrived whole, in order and
\* from one file, however often its upload broke off, was resumed from the
\* wrong file or was appended to twice; unless another restore of the same
\* upload has already ended the job, whose file a sweep may then have taken.
WipesOnlyIntact ==
  [][\A h \in Handlers : proc[h].pc = "wipe" /\ proc'[h].pc = "hide"
       => \/ file[proc[h].job].good /\ file[proc[h].job].size >= Len
          \/ audits[proc[h].job] > 0]_vars

\* A row can be read: its object is current and sealed with its key.  An
\* import wipes rows, hides their objects and writes the same keys again.
RowsReadable ==
  Overlap \/ \A a \in Present : object[a].shown /\ object[a].seal = rows[a]

\* AC-325: a ready export holds every attachment of its own snapshot, though
\* imports replace rows and objects while it is built.
ExportWhole ==
  \A e \in Exports : job[e].status = "ready" /\ build[e].pc = "done"
    => build[e].done = build[e].envelope

\* No plaintext archive is forgotten on the disk: its job is active, or holds
\* the reference the sweeps go by, or its build is about to remove it; unless
\* a restart cut that removal short, or two appends overlapped.
StagedReachable ==
  \A j \in Jobs : file[j].size > 0 =>
    \/ job[j].status \in Active \/ job[j].ref
    \/ j \in Exports /\ build[j].pc = "unlink"
    \/ trouble[j] \cap {"unlink", "overlap"} # {}

\* AC-332: a terminal status is final and comes with exactly one audit row;
\* except for the jobs a boot reaped, and overlapping uploads.
AuditedOnce ==
  \A j \in Jobs : trouble[j] \cap {"boot", "overlap"} = {}
    => audits[j] = IF job[j].status \in Terminal THEN 1 ELSE 0

\* A job that runs comes to an end, with the worker it has or at the next boot,
\* unless the record of its failure is lost.
JobsEnd ==
  \A j \in Jobs :
    job[j].status = "running" ~> job[j].status \in Terminal \/ "lost" \in trouble[j]
=============================================================================
