------------------------- MODULE DataExchangeProofs -------------------------
(***************************************************************************)
(* Theorems about DataExchange, for any number of jobs, requests and       *)
(* attachments and any upload length.                                      *)
(***************************************************************************)
EXTENDS DataExchange, FiniteSetTheorems, TLAPS

-----------------------------------------------------------------------------
(* Types, one operator per variable or group of them *)

JobOK  == job \in [Jobs -> [status : Active \cup Terminal \cup {"none"}, ref : BOOLEAN]]
FileOK == file \in [Jobs -> [size : Nat, good : BOOLEAN]]
DbOK   == /\ work \in BOOLEAN /\ seq \in Nat /\ invs \subseteq 1 .. seq
          /\ rows \in [Atts -> Sealers \cup {None}]
ObjectRecord == [shown : BOOLEAN, seal : Sealers \cup {None}, old : BOOLEAN]
ObjectOK == object \in [Atts -> ObjectRecord]
LockOK == invLock \in Handlers \cup {None}
PostOK == post \in [Posters -> [pc : {"idle", "sweep", "create"},
                                kind : {"none", "import", "export"}]]

ProcSteps == {"idle", "append", "validate", "probe", "check", "read", "wipe", "hide",
              "put", "insert", "fail"}
ProcRecord == [pc : ProcSteps, job : Imports \cup {None}, off : Nat, n : Nat, alien : BOOLEAN,
               present : BOOLEAN, seq : Nat, keys : SUBSET Atts, todo : SUBSET Atts,
               att : Atts \cup {None}]

\* what a handler that works knows
Working(h) ==
  /\ proc[h].pc # "idle" => proc[h].job \in Imports
  /\ proc[h].pc = "wipe" => proc[h].seq >= CarriedSeq
  /\ proc[h].pc = "insert" => proc[h].att \in proc[h].todo

ProcOK == proc \in [Handlers -> ProcRecord] /\ \A h \in Handlers : Working(h)

BuildSteps  == {"idle", "start", "snapshot", "keys", "append", "fail", "unlink", "done"}
BuildRecord == [pc : BuildSteps, envelope : SUBSET Atts, keys : [Atts -> Sealers \cup {None}],
                todo : SUBSET Atts, done : SUBSET Atts, total : Nat]
BuildOK == build \in [Exports -> BuildRecord]

SweepOK == sweep \in [pc : {"idle", "rows", "hide"}, listed : SUBSET Atts, orphans : SUBSET Atts]
GhostOK == /\ audits \in [Jobs -> Nat]
           /\ trouble \in [Jobs -> SUBSET {"overlap", "unlink", "lost", "boot"}]

TInv == /\ JobOK /\ FileOK /\ DbOK /\ ObjectOK /\ LockOK /\ PostOK /\ ProcOK /\ BuildOK
        /\ SweepOK /\ GhostOK

USE JobsAssumption, ArchiveAssumption DEF Jobs

LEMMA TInvTypes == TInv => TypeOK
  BY DEF TInv, JobOK, FileOK, DbOK, ObjectOK, ObjectRecord, LockOK, PostOK, ProcOK, ProcSteps,
         ProcRecord, BuildOK, BuildSteps, BuildRecord, SweepOK, GhostOK, TypeOK

LEMMA IdleTypes ==
  /\ IdleProc \in ProcRecord /\ IdleProc.pc = "idle"
  /\ NoBuild \in BuildRecord /\ NoBuild.pc = "idle"
  /\ NoFile \in [size : Nat, good : BOOLEAN] /\ NoFile.size = 0
  /\ NoObject \in ObjectRecord
<1>1. IdleProc \in ProcRecord /\ IdleProc.pc = "idle"
  BY DEF IdleProc, ProcRecord, ProcSteps
<1>2. NoBuild \in BuildRecord /\ NoBuild.pc = "idle"
  BY DEF NoBuild, BuildRecord, BuildSteps
<1>3. NoFile \in [size : Nat, good : BOOLEAN] /\ NoFile.size = 0
  BY DEF NoFile
<1>4. NoObject \in ObjectRecord
  BY DEF NoObject, ObjectRecord
<1> QED
  BY <1>1, <1>2, <1>3, <1>4

LEMMA InitTInv == Init => TInv
<1> SUFFICES ASSUME Init PROVE TInv
  OBVIOUS
<1>1. JobOK /\ FileOK /\ LockOK /\ PostOK /\ SweepOK /\ GhostOK
  BY DEF Init, JobOK, FileOK, LockOK, PostOK, SweepOK, GhostOK, NoJob, NoFile, IdlePost,
         NoSweep, Active, Terminal
<1>2. DbOK
  BY DEF Init, DbOK, Sealers
<1>3. ObjectOK
  <2>1. PICK t \in BOOLEAN : t = TRUE
    OBVIOUS
  <2>2. [shown |-> t, seal |-> Mint, old |-> t] \in ObjectRecord
    BY DEF ObjectRecord, Sealers
  <2> QED
    BY <2>1, <2>2, IdleTypes DEF Init, ObjectOK
<1>4. ProcOK
  BY IdleTypes DEF Init, ProcOK, Working
<1>5. BuildOK
  BY IdleTypes DEF Init, BuildOK
<1> QED
  BY <1>1, <1>2, <1>3, <1>4, <1>5 DEF TInv

-----------------------------------------------------------------------------
(* A step of a handler, seen as what becomes of its local state *)

Becomes(h, t) == proc' = [proc EXCEPT ![h] = t]

LEMMA BecomesOK ==
  ASSUME ProcOK, NEW h \in Handlers, NEW t \in ProcRecord, Becomes(h, t),
         t.pc # "idle" => t.job \in Imports,
         t.pc = "wipe" => t.seq >= CarriedSeq,
         t.pc = "insert" => t.att \in t.todo
  PROVE  ProcOK' /\ proc'[h] = t
<1>1. proc'[h] = t /\ \A g \in Handlers \ {h} : proc'[g] = proc[g]
  BY DEF Becomes, ProcOK
<1>2. \A g \in Handlers : Working(g)'
  BY <1>1 DEF Working, ProcOK
<1>3. proc' \in [Handlers -> ProcRecord]
  BY DEF Becomes, ProcOK
<1> QED
  BY <1>1, <1>2, <1>3 DEF ProcOK

\* a handler that is done
LEMMA BecomesIdle ==
  ASSUME ProcOK, NEW h \in Handlers, Becomes(h, IdleProc)
  PROVE  ProcOK' /\ proc'[h] = IdleProc
  BY IdleTypes, BecomesOK

\* one that goes on to another statement
LEMMA EnterOK ==
  ASSUME ProcOK, NEW h \in Handlers, NEW pc \in ProcSteps, Enter(h, pc),
         proc[h].pc # "idle", pc \notin {"wipe", "insert"}
  PROVE  ProcOK' /\ proc'[h] = [proc[h] EXCEPT !.pc = pc] /\ Becomes(h, [proc[h] EXCEPT !.pc = pc])
<1>1. proc[h] \in ProcRecord /\ Working(h)
  BY DEF ProcOK
<1>2. [proc[h] EXCEPT !.pc = pc] \in ProcRecord
  BY <1>1 DEF ProcRecord
<1>3. Becomes(h, [proc[h] EXCEPT !.pc = pc])
  BY DEF Enter, Becomes
<1>4. /\ [proc[h] EXCEPT !.pc = pc].pc = pc
      /\ [proc[h] EXCEPT !.pc = pc].job \in Imports
  BY <1>1 DEF ProcRecord, Working
<1> QED
  BY <1>2, <1>3, <1>4, BecomesOK

\* uploads
LEMMA PatchTypes ==
  ASSUME TInv, NEW h \in Handlers
  PROVE  /\ \A j \in Imports, alien \in BOOLEAN :
              PatchBegin(h, j, alien) =>
                 /\ TInv'
                 /\ proc'[h].pc = "append" /\ proc'[h].job = j
         /\ Append(h) => /\ TInv'
                         /\ proc'[h].pc = "append" /\ proc'[h].job = proc[h].job
         /\ PatchEnd(h) => TInv' /\ proc'[h].pc = "idle"
         /\ PatchComplete(h) => /\ TInv'
                                /\ proc'[h].pc = "validate" /\ proc'[h].job = proc[h].job
<1> USE DEF TInv, mem, db
<1>1. proc[h] \in ProcRecord /\ Working(h) /\ ProcOK
  BY DEF ProcOK
<1>2. ASSUME NEW j \in Imports, NEW alien \in BOOLEAN, PatchBegin(h, j, alien)
      PROVE  TInv' /\ proc'[h].pc = "append" /\ proc'[h].job = j
  <2> DEFINE t == [IdleProc EXCEPT !.pc = "append", !.job = j, !.off = file[j].size, !.alien = alien]
  <2>1. t \in ProcRecord /\ t.pc = "append" /\ t.job = j
    BY DEF IdleProc, ProcRecord, ProcSteps, FileOK
  <2>2. Becomes(h, t)
    BY <1>2 DEF PatchBegin, Becomes
  <2> HIDE DEF t
  <2>3. ProcOK' /\ proc'[h] = t
    BY <1>1, <2>1, <2>2, BecomesOK
  <2>4. GhostOK'
    BY <1>2 DEF PatchBegin, GhostOK
  <2> QED
    BY <1>2, <2>1, <2>3, <2>4 DEF PatchBegin, JobOK, FileOK, DbOK, ObjectOK, LockOK, PostOK, BuildOK, SweepOK
<1>3. ASSUME Append(h)
      PROVE  TInv' /\ proc'[h].pc = "append" /\ proc'[h].job = proc[h].job
  <2> DEFINE t == [proc[h] EXCEPT !.n = @ + 1]
  <2>1. t \in ProcRecord /\ t.pc = "append" /\ t.job = proc[h].job /\ t.job \in Imports
    BY <1>1, <1>3 DEF ProcRecord, Working, Append
  <2>2. Becomes(h, t)
    BY <1>3 DEF Append, Becomes
  <2> HIDE DEF t
  <2>3. ProcOK' /\ proc'[h] = t
    BY <1>1, <2>1, <2>2, BecomesOK
  <2>4. FileOK'
    <3>1. PICK j \in Imports : j = proc[h].job
      BY <2>1
    <3>2. PICK b \in BOOLEAN : file' = [file EXCEPT ![j] = [size |-> file[j].size + 1, good |-> b]]
      BY <1>3, <3>1 DEF Append
    <3>3. [size |-> file[j].size + 1, good |-> b] \in [size : Nat, good : BOOLEAN]
      BY DEF FileOK
    <3> QED
      BY <3>2, <3>3 DEF FileOK
  <2> QED
    BY <1>3, <2>1, <2>3, <2>4 DEF Append, JobOK, DbOK, ObjectOK, LockOK, PostOK, BuildOK, SweepOK, GhostOK
<1>4. ASSUME PatchEnd(h) PROVE TInv' /\ proc'[h].pc = "idle"
  <2>1. ProcOK' /\ proc'[h] = IdleProc
    BY <1>1, <1>4, BecomesIdle DEF PatchEnd, Becomes
  <2> QED
    BY <1>4, <2>1, IdleTypes DEF PatchEnd, JobOK, FileOK, DbOK, ObjectOK, LockOK, PostOK, BuildOK, SweepOK, GhostOK
<1>5. ASSUME PatchComplete(h)
      PROVE  TInv' /\ proc'[h].pc = "validate" /\ proc'[h].job = proc[h].job
  <2> DEFINE t == [IdleProc EXCEPT !.pc = "validate", !.job = proc[h].job]
  <2>1. proc[h].job \in Imports
    BY <1>1, <1>5 DEF Working, PatchComplete
  <2>2. t \in ProcRecord /\ t.pc = "validate" /\ t.job = proc[h].job
    BY <2>1 DEF IdleProc, ProcRecord, ProcSteps
  <2>3. Becomes(h, t)
    BY <1>5 DEF PatchComplete, Becomes
  <2> HIDE DEF t
  <2>4. ProcOK' /\ proc'[h] = t
    BY <1>1, <2>1, <2>2, <2>3, BecomesOK
  <2>5. JobOK'
    <3>1. PICK b \in BOOLEAN : b = TRUE
      OBVIOUS
    <3>2. [status |-> "running", ref |-> b] \in [status : Active \cup Terminal \cup {"none"}, ref : BOOLEAN]
      BY DEF Active
    <3>3. job' = [job EXCEPT ![proc[h].job] = [status |-> "running", ref |-> b]]
      BY <1>5, <3>1 DEF PatchComplete
    <3> QED
      BY <3>2, <3>3 DEF JobOK
  <2> QED
    BY <1>5, <2>2, <2>4, <2>5 DEF PatchComplete, FileOK, DbOK, ObjectOK, LockOK, PostOK, BuildOK, SweepOK, GhostOK
<1> QED
  BY <1>2, <1>3, <1>4, <1>5

\* the terminal writes of a job
LEMMA MarkTypes ==
  ASSUME JobOK, GhostOK, NEW j \in Jobs, MarkReady(j) \/ MarkFailed(j), UNCHANGED trouble
  PROVE  JobOK' /\ GhostOK'
<1>1. GhostOK'
  BY DEF GhostOK, MarkReady, MarkFailed
<1>2. CASE MarkReady(j)
  <2>1. PICK b \in BOOLEAN : b = TRUE
    OBVIOUS
  <2>2. [status |-> "ready", ref |-> b] \in [status : Active \cup Terminal \cup {"none"}, ref : BOOLEAN]
    BY DEF Terminal
  <2>3. job' = [job EXCEPT ![j] = [status |-> "ready", ref |-> b]]
    BY <1>2, <2>1 DEF MarkReady
  <2> QED
    BY <1>1, <2>2, <2>3 DEF JobOK
<1>3. CASE MarkFailed(j)
  <2>1. [job[j] EXCEPT !.status = "failed"] \in [status : Active \cup Terminal \cup {"none"}, ref : BOOLEAN]
    BY DEF JobOK, Terminal
  <2>2. job' = [job EXCEPT ![j] = [job[j] EXCEPT !.status = "failed"]]
    BY <1>3 DEF MarkFailed
  <2> QED
    BY <1>1, <2>1, <2>2 DEF JobOK
<1> QED
  BY <1>2, <1>3

\* the restore
LEMMA RestoreTypes ==
  ASSUME TInv, NEW h \in Handlers,
         Restore(h) \/ RestoreThrows(h) \/ FailureLost(h), ~ PatchComplete(h)
  PROVE  TInv'
<1> USE DEF TInv, mem, db
<1>1. proc[h] \in ProcRecord /\ Working(h) /\ ProcOK
  BY DEF ProcOK
<1>2. Present \subseteq Atts
  BY DEF Present
<1>3. CASE Validate(h)
  <2>1. PICK pc \in {"probe", "fail"} : Enter(h, pc)
    BY <1>3 DEF Validate
  <2>2. ProcOK'
    BY <1>1, <1>3, <2>1, EnterOK DEF ProcSteps, Validate
  <2> QED
    BY <1>3, <2>2 DEF Validate, JobOK, FileOK, DbOK, ObjectOK, LockOK, PostOK, BuildOK, SweepOK, GhostOK
<1>4. CASE Probe(h)
  <2> DEFINE t == [proc[h] EXCEPT !.pc = "check", !.present = NonEmpty]
  <2>1. PICK b \in BOOLEAN : b = NonEmpty
    BY DEF NonEmpty, DbOK
  <2>2. [proc[h] EXCEPT !.pc = "check", !.present = b] \in ProcRecord
    BY <1>1 DEF ProcRecord, ProcSteps
  <2>3. t = [proc[h] EXCEPT !.pc = "check", !.present = b]
    BY <2>1
  <2>4. t.pc = "check" /\ t.job \in Imports
    BY <1>1, <1>4 DEF ProcRecord, Working, Probe
  <2>5. Becomes(h, t)
    BY <1>4 DEF Probe, Becomes
  <2> HIDE DEF t
  <2>6. ProcOK'
    BY <1>1, <2>2, <2>3, <2>4, <2>5, BecomesOK
  <2> QED
    BY <1>4, <2>6 DEF Probe, JobOK, FileOK, DbOK, ObjectOK, LockOK, PostOK, BuildOK, SweepOK, GhostOK
<1>5. CASE CheckKeepsNumbered(h)
  <2>1. PICK pc \in {"read", "fail"} : Enter(h, pc)
    BY <1>5 DEF CheckKeepsNumbered
  <2>2. ProcOK'
    BY <1>1, <1>5, <2>1, EnterOK DEF ProcSteps, CheckKeepsNumbered
  <2>3. LockOK'
    BY <1>5 DEF CheckKeepsNumbered, LockOK
  <2> QED
    BY <1>5, <2>2, <2>3 DEF CheckKeepsNumbered, JobOK, FileOK, DbOK, ObjectOK, PostOK, BuildOK, SweepOK, GhostOK
<1>6. CASE ReadTarget(h)
  <2> DEFINE m == IF seq > CarriedSeq THEN seq ELSE CarriedSeq
             t == [proc[h] EXCEPT !.pc = "wipe", !.keys = Present, !.seq = m]
  <2>1. m \in Nat /\ m >= CarriedSeq
    BY DEF DbOK
  <2>2. Becomes(h, t)
    BY <1>6 DEF ReadTarget, Becomes
  <2> HIDE DEF m
  <2>3. t \in ProcRecord /\ t.pc = "wipe" /\ t.job \in Imports /\ t.seq >= CarriedSeq
    BY <1>1, <1>2, <1>6, <2>1 DEF ProcRecord, ProcSteps, Working, ReadTarget
  <2> HIDE DEF t
  <2>4. ProcOK'
    BY <1>1, <2>2, <2>3, BecomesOK
  <2> QED
    BY <1>6, <2>4 DEF ReadTarget, JobOK, FileOK, DbOK, ObjectOK, LockOK, PostOK, BuildOK, SweepOK, GhostOK
<1>7. CASE WipeAndInsert(h)
  <2>1. ProcOK'
    BY <1>1, <1>7, EnterOK DEF ProcSteps, WipeAndInsert
  <2>2. DbOK' /\ LockOK'
    BY <1>1, <1>7 DEF WipeAndInsert, DbOK, LockOK, Working, ProcRecord
  <2> QED
    BY <1>7, <2>1, <2>2 DEF WipeAndInsert, JobOK, FileOK, ObjectOK, PostOK, BuildOK, SweepOK, GhostOK
<1>8. CASE HideWiped(h)
  <2> DEFINE t == [proc[h] EXCEPT !.pc = "put", !.keys = {}, !.todo = Carried]
  <2>1. t \in ProcRecord /\ t.pc = "put" /\ t.job \in Imports
    BY <1>1, <1>8 DEF ProcRecord, ProcSteps, Working, HideWiped
  <2>2. Becomes(h, t)
    BY <1>8 DEF HideWiped, Becomes
  <2> HIDE DEF t
  <2>3. ProcOK'
    BY <1>1, <2>1, <2>2, BecomesOK
  <2>4. ObjectOK'
    <3>1. PICK b \in BOOLEAN : b = FALSE
      OBVIOUS
    <3>2. \A a \in Atts : [object[a] EXCEPT !.shown = b] \in ObjectRecord
      BY DEF ObjectOK, ObjectRecord
    <3>3. \A a \in Atts : [object[a] EXCEPT !.shown = FALSE] \in ObjectRecord
      BY <3>1, <3>2
    <3>4. PICK hidden \in SUBSET proc[h].keys :
            object' = [a \in Atts |->
              IF a \in hidden THEN [object[a] EXCEPT !.shown = FALSE] ELSE object[a]]
      BY <1>8 DEF HideWiped
    <3> QED
      BY <3>3, <3>4 DEF ObjectOK
  <2> QED
    BY <1>8, <2>3, <2>4 DEF HideWiped, JobOK, FileOK, DbOK, LockOK, PostOK, BuildOK, SweepOK, GhostOK
<1>9. ASSUME NEW a \in Atts, PutEntry(h, a) PROVE TInv'
  <2> DEFINE t == [proc[h] EXCEPT !.pc = "insert", !.att = a]
  <2>1. t \in ProcRecord /\ t.pc = "insert" /\ t.job \in Imports /\ t.att \in t.todo
    BY <1>1, <1>9 DEF ProcRecord, ProcSteps, Working, PutEntry
  <2>2. Becomes(h, t)
    BY <1>9 DEF PutEntry, Becomes
  <2> HIDE DEF t
  <2>3. ProcOK'
    BY <1>1, <2>1, <2>2, BecomesOK
  <2>4. ObjectOK'
    <3>1. PICK b \in BOOLEAN : b = TRUE
      OBVIOUS
    <3>2. PICK c \in BOOLEAN : c = FALSE
      OBVIOUS
    <3>3. proc[h].job \in Imports
      BY <1>1, <1>9 DEF Working, PutEntry
    <3>4. [shown |-> b, seal |-> proc[h].job, old |-> c] \in ObjectRecord
      BY <3>3 DEF ObjectRecord, Sealers
    <3>5. object' = [object EXCEPT ![a] = [shown |-> b, seal |-> proc[h].job, old |-> c]]
      BY <1>9, <3>1, <3>2 DEF PutEntry
    <3> QED
      BY <3>4, <3>5 DEF ObjectOK
  <2> QED
    BY <1>9, <2>3, <2>4 DEF PutEntry, JobOK, FileOK, DbOK, LockOK, PostOK, BuildOK, SweepOK, GhostOK
<1>10. CASE InsertRow(h)
  <2>1. PICK a \in Atts : a = proc[h].att
    BY <1>1, <1>10 DEF InsertRow, Working, ProcRecord
  <2>2. proc[h].job \in Imports
    BY <1>1, <1>10 DEF InsertRow, Working
  <2>3. CASE rows[a] = None
    <3> DEFINE t == [proc[h] EXCEPT !.pc = "put", !.att = None, !.todo = proc[h].todo \ {a}]
    <3>1. t \in ProcRecord /\ t.pc = "put" /\ t.job \in Imports
      BY <1>1, <2>2 DEF ProcRecord, ProcSteps
    <3>2. Becomes(h, t) /\ rows' = [rows EXCEPT ![a] = proc[h].job]
      BY <1>10, <2>1, <2>3 DEF InsertRow, Becomes
    <3> HIDE DEF t
    <3>3. ProcOK'
      BY <1>1, <3>1, <3>2, BecomesOK
    <3>4. DbOK'
      BY <1>10, <2>2, <3>2 DEF InsertRow, DbOK, Sealers
    <3> QED
      BY <1>10, <3>3, <3>4 DEF InsertRow, JobOK, FileOK, ObjectOK, LockOK, PostOK, BuildOK, SweepOK, GhostOK
  <2>4. CASE rows[a] # None
    <3>1. Enter(h, "fail") /\ rows' = rows
      BY <1>10, <2>1, <2>4 DEF InsertRow
    <3>2. ProcOK'
      BY <1>1, <1>10, <3>1, EnterOK DEF ProcSteps, InsertRow
    <3> QED
      BY <1>10, <3>1, <3>2 DEF InsertRow, JobOK, FileOK, DbOK, ObjectOK, LockOK, PostOK, BuildOK, SweepOK, GhostOK
  <2> QED
    BY <2>3, <2>4
<1>11. CASE Restored(h) \/ RestoreFailed(h)
  <2>1. proc[h].job \in Jobs
    BY <1>1, <1>11 DEF Restored, RestoreFailed, Working
  <2>2. ProcOK'
    BY <1>1, <1>11, BecomesIdle DEF Restored, RestoreFailed, Becomes
  <2>3. JobOK' /\ GhostOK'
    BY <1>11, <2>1, MarkTypes DEF Restored, RestoreFailed
  <2> QED
    BY <1>11, <2>2, <2>3 DEF Restored, RestoreFailed, FileOK, DbOK, ObjectOK, LockOK, PostOK, BuildOK, SweepOK
<1>12. CASE RestoreThrows(h)
  <2>1. ProcOK'
    BY <1>1, <1>12, EnterOK DEF ProcSteps, RestoreThrows
  <2> QED
    BY <1>12, <2>1 DEF RestoreThrows, JobOK, FileOK, DbOK, ObjectOK, LockOK, PostOK, BuildOK, SweepOK, GhostOK
<1>13. CASE FailureLost(h)
  <2>1. ProcOK'
    BY <1>1, <1>13, BecomesIdle DEF FailureLost, Becomes
  <2>2. GhostOK'
    BY <1>13 DEF FailureLost, GhostOK
  <2> QED
    BY <1>13, <2>1, <2>2 DEF FailureLost, JobOK, FileOK, DbOK, ObjectOK, LockOK, PostOK, BuildOK, SweepOK
<1> QED
  BY <1>3, <1>4, <1>5, <1>6, <1>7, <1>8, <1>9, <1>10, <1>11, <1>12, <1>13 DEF Restore

\* the creation of a job, and the sweep of the archives before it
LEMMA CreateTypes ==
  ASSUME TInv, NEW p \in Posters, Create(p)
  PROVE  TInv'
<1> USE DEF TInv, mem, db
<1>1. ASSUME NEW k \in {"import", "export"}, PostCheck(p, k) PROVE TInv'
  <2>1. PostOK'
    BY <1>1 DEF PostCheck, PostOK
  <2> QED
    BY <1>1, <2>1 DEF PostCheck, JobOK, FileOK, DbOK, ObjectOK, LockOK, ProcOK, Working, BuildOK, SweepOK, GhostOK
<1>2. CASE PostSweep(p)
  <2>1. PostOK'
    BY <1>2 DEF PostSweep, PostOK
  <2>2. FileOK'
    BY <1>2, IdleTypes DEF PostSweep, FileOK
  <2>3. JobOK'
    <3>1. PICK b \in BOOLEAN : b = FALSE
      OBVIOUS
    <3>2. \A j \in Jobs : [job[j] EXCEPT !.ref = b] \in [status : Active \cup Terminal \cup {"none"}, ref : BOOLEAN]
      BY DEF JobOK
    <3>3. \A j \in Jobs : [job[j] EXCEPT !.ref = FALSE] \in [status : Active \cup Terminal \cup {"none"}, ref : BOOLEAN]
      BY <3>1, <3>2
    <3> QED
      BY <1>2, <3>3 DEF PostSweep, JobOK
  <2> QED
    BY <1>2, <2>1, <2>2, <2>3 DEF PostSweep, DbOK, ObjectOK, LockOK, ProcOK, Working, BuildOK, SweepOK, GhostOK
<1>3. CASE PostCreate(p)
  <2>1. PICK j \in Jobs : /\ job' = [job EXCEPT ![j].status = "pending"]
                          /\ build' = IF j \in Exports THEN [build EXCEPT ![j].pc = "start"] ELSE build
    BY <1>3 DEF PostCreate, OfKind
  <2>2. JobOK'
    <3>1. [job[j] EXCEPT !.status = "pending"] \in [status : Active \cup Terminal \cup {"none"}, ref : BOOLEAN]
      BY DEF JobOK, Active
    <3> QED
      BY <2>1, <3>1 DEF JobOK
  <2>3. BuildOK'
    <3>1. \A e \in Exports : [build[e] EXCEPT !.pc = "start"] \in BuildRecord
      BY DEF BuildOK, BuildRecord, BuildSteps
    <3> QED
      BY <2>1, <3>1 DEF BuildOK
  <2>4. PostOK'
    BY <1>3 DEF PostCreate, PostOK, IdlePost
  <2> QED
    BY <1>3, <2>2, <2>3, <2>4 DEF PostCreate, FileOK, DbOK, ObjectOK, LockOK, ProcOK, Working, SweepOK, GhostOK
<1> QED
  BY <1>1, <1>2, <1>3 DEF Create

LEMMA ToBuildOK ==
  ASSUME BuildOK, NEW e \in Exports, NEW pc \in BuildSteps, ToBuild(e, pc)
  PROVE  BuildOK' /\ build'[e] = [build[e] EXCEPT !.pc = pc]
<1>1. [build[e] EXCEPT !.pc = pc] \in BuildRecord
  BY DEF BuildOK, BuildRecord
<1> QED
  BY <1>1 DEF ToBuild, BuildOK

LEMMA PresentFinite == /\ IsFiniteSet(Present) /\ Cardinality(Present) \in Nat
                       /\ Present \subseteq Atts
<1>1. Present \subseteq Atts
  BY DEF Present
<1>2. IsFiniteSet(Present)
  BY <1>1, FS_Subset
<1> QED
  BY <1>1, <1>2, FS_CardinalityType

\* the build of an export
LEMMA BuildTypes ==
  ASSUME TInv, NEW e \in Exports, Build(e) \/ BuildThrows(e)
  PROVE  TInv'
<1> USE DEF TInv, mem, db
<1>1. build[e] \in BuildRecord /\ BuildOK
  BY DEF BuildOK
<1>2. CASE StartBuild(e)
  <2>1. BuildOK'
    BY <1>1, <1>2, ToBuildOK DEF StartBuild, BuildSteps
  <2>2. JobOK'
    <3>1. [job[e] EXCEPT !.status = "running"] \in [status : Active \cup Terminal \cup {"none"}, ref : BOOLEAN]
      BY DEF JobOK, Active
    <3> QED
      BY <1>2, <3>1 DEF StartBuild, JobOK
  <2> QED
    BY <1>2, <2>1, <2>2 DEF StartBuild, FileOK, DbOK, ObjectOK, LockOK, PostOK, ProcOK, Working, SweepOK, GhostOK
<1>3. CASE Snapshot(e)
  <2> DEFINE t == [build[e] EXCEPT !.pc = "keys", !.envelope = Present, !.todo = Present,
                                   !.total = Cardinality(Present)]
  <2>1. t \in BuildRecord
    BY <1>1, PresentFinite DEF BuildRecord, BuildSteps
  <2>2. build' = [build EXCEPT ![e] = t]
    BY <1>3 DEF Snapshot
  <2> HIDE DEF t
  <2>3. BuildOK'
    BY <1>1, <2>1, <2>2 DEF BuildOK
  <2> QED
    BY <1>3, <2>3 DEF Snapshot, JobOK, FileOK, DbOK, ObjectOK, LockOK, PostOK, ProcOK, Working, SweepOK, GhostOK
<1>4. CASE LoadKeys(e)
  <2> DEFINE K == [a \in Atts |-> IF a \in build[e].todo THEN rows[a] ELSE None]
             t == [build[e] EXCEPT !.pc = "append", !.keys = K]
  <2>1. K \in [Atts -> Sealers \cup {None}]
    BY DEF DbOK
  <2>2. build' = [build EXCEPT ![e] = t]
    BY <1>4 DEF LoadKeys
  <2> HIDE DEF K
  <2>3. t \in BuildRecord
    BY <1>1, <2>1 DEF BuildRecord, BuildSteps
  <2> HIDE DEF t
  <2>4. BuildOK'
    BY <1>1, <2>2, <2>3 DEF BuildOK
  <2>5. FileOK'
    BY <1>4 DEF LoadKeys, FileOK
  <2> QED
    BY <1>4, <2>4, <2>5 DEF LoadKeys, JobOK, DbOK, ObjectOK, LockOK, PostOK, ProcOK, Working, SweepOK, GhostOK
<1>5. ASSUME NEW a \in Atts, ArchiveEntry(e, a) PROVE TInv'
  <2>1. [build[e] EXCEPT !.todo = @ \ {a}, !.done = @ \cup {a}] \in BuildRecord
    BY <1>1 DEF BuildRecord
  <2>2. [build[e] EXCEPT !.pc = "fail"] \in BuildRecord
    BY <1>1 DEF BuildRecord, BuildSteps
  <2>3. PICK t \in BuildRecord : build' = [build EXCEPT ![e] = t]
    BY <1>5, <2>1, <2>2 DEF ArchiveEntry
  <2>4. BuildOK'
    BY <1>1, <2>3 DEF BuildOK
  <2> QED
    BY <1>5, <2>4 DEF ArchiveEntry, JobOK, FileOK, DbOK, ObjectOK, LockOK, PostOK, ProcOK, Working, SweepOK, GhostOK
<1>6. CASE Built(e)
  <2>1. BuildOK'
    BY <1>1, <1>6, ToBuildOK DEF Built, BuildSteps
  <2>2. JobOK' /\ GhostOK'
    BY <1>6, MarkTypes DEF Built
  <2> QED
    BY <1>6, <2>1, <2>2 DEF Built, FileOK, DbOK, ObjectOK, LockOK, PostOK, ProcOK, Working, SweepOK
<1>7. CASE BuildThrows(e)
  <2>1. BuildOK'
    BY <1>1, <1>7, ToBuildOK DEF BuildThrows, BuildSteps
  <2> QED
    BY <1>7, <2>1 DEF BuildThrows, JobOK, FileOK, DbOK, ObjectOK, LockOK, PostOK, ProcOK, Working, SweepOK, GhostOK
<1>8. CASE BuildFailed(e)
  <2>1. BuildOK'
    BY <1>1, <1>8, ToBuildOK DEF BuildFailed, BuildSteps
  <2>2. JobOK' /\ GhostOK'
    <3>1. CASE MarkFailed(e) /\ UNCHANGED trouble
      BY <3>1, MarkTypes
    <3>2. CASE trouble' = [trouble EXCEPT ![e] = @ \cup {"lost"}] /\ UNCHANGED <<job, audits>>
      BY <3>2 DEF JobOK, GhostOK
    <3> QED
      BY <1>8, <3>1, <3>2 DEF BuildFailed
  <2> QED
    BY <1>8, <2>1, <2>2 DEF BuildFailed, FileOK, DbOK, ObjectOK, LockOK, PostOK, ProcOK, Working, SweepOK
<1>9. CASE Unlink(e)
  <2>1. BuildOK'
    BY <1>1, <1>9, ToBuildOK DEF Unlink, BuildSteps
  <2>2. FileOK'
    BY <1>9, IdleTypes DEF Unlink, FileOK
  <2> QED
    BY <1>9, <2>1, <2>2 DEF Unlink, JobOK, DbOK, ObjectOK, LockOK, PostOK, ProcOK, Working, SweepOK, GhostOK
<1> QED
  BY <1>2, <1>3, <1>4, <1>5, <1>6, <1>7, <1>8, <1>9 DEF Build

\* the reaper, a restart, users and the bucket sweep
LEMMA OtherTypes ==
  ASSUME TInv,
         (\E j \in Jobs : SweepStaged(j)) \/ Restart \/ Issue \/ EnterWork
           \/ SweepList \/ SweepJudge \/ SweepHide
  PROVE  TInv'
<1> USE DEF TInv, mem, db
<1>1. ASSUME NEW j \in Jobs, SweepStaged(j) PROVE TInv'
  <2>1. FileOK'
    BY <1>1, IdleTypes DEF SweepStaged, FileOK
  <2>2. JobOK'
    <3>1. PICK b \in BOOLEAN : b = FALSE
      OBVIOUS
    <3>2. [job[j] EXCEPT !.ref = b] \in [status : Active \cup Terminal \cup {"none"}, ref : BOOLEAN]
      BY DEF JobOK
    <3>3. job' = [job EXCEPT ![j] = [job[j] EXCEPT !.ref = b]]
      BY <1>1, <3>1 DEF SweepStaged
    <3> QED
      BY <3>2, <3>3 DEF JobOK
  <2> QED
    BY <1>1, <2>1, <2>2 DEF SweepStaged, DbOK, ObjectOK, LockOK, PostOK, ProcOK, Working, BuildOK, SweepOK, GhostOK
<1>2. CASE Restart
  <2>1. JobOK'
    <3>1. \A j \in Jobs : [job[j] EXCEPT !.status = "failed"] \in [status : Active \cup Terminal \cup {"none"}, ref : BOOLEAN]
      BY DEF JobOK, Terminal
    <3> QED
      BY <1>2, <3>1 DEF Restart, JobOK
  <2>2. FileOK'
    BY <1>2, IdleTypes DEF Restart, FileOK
  <2>3. GhostOK'
    <3>1. \A j \in Jobs : trouble'[j] \subseteq {"overlap", "unlink", "lost", "boot"}
      BY <1>2 DEF Restart, GhostOK
    <3>2. trouble' = [j \in Jobs |-> trouble'[j]] /\ audits' = audits
      BY <1>2 DEF Restart
    <3> QED
      BY <3>1, <3>2 DEF GhostOK
  <2>4. ProcOK' /\ PostOK' /\ LockOK'
    BY <1>2, IdleTypes DEF Restart, ProcOK, Working, PostOK, IdlePost, LockOK
  <2>5. BuildOK'
    BY <1>2, IdleTypes DEF Restart, BuildOK
  <2>6. SweepOK'
    BY <1>2 DEF Restart, SweepOK, NoSweep
  <2> QED
    BY <1>2, <2>1, <2>2, <2>3, <2>4, <2>5, <2>6 DEF Restart, DbOK, ObjectOK
<1>3. CASE Issue \/ EnterWork
  <2>1. DbOK'
    <3>1. CASE Issue
      <4>1. invs' \subseteq 1 .. seq' /\ seq' \in Nat
        BY <3>1 DEF Issue, DbOK
      <4> QED
        BY <3>1, <4>1 DEF Issue, DbOK
    <3>2. CASE EnterWork
      BY <3>2 DEF EnterWork, DbOK
    <3> QED
      BY <1>3, <3>1, <3>2
  <2> QED
    BY <1>3, <2>1 DEF Issue, EnterWork, JobOK, FileOK, ObjectOK, LockOK, PostOK, ProcOK, Working, BuildOK, SweepOK, GhostOK
<1>4. CASE SweepList \/ SweepJudge
  <2>1. SweepOK'
    <3> DEFINE Record == [pc : {"idle", "rows", "hide"}, listed : SUBSET Atts, orphans : SUBSET Atts]
    <3>1. NoSweep \in Record
      BY DEF NoSweep
    <3>2. CASE SweepList
      <4> DEFINE L == {a \in Atts : object[a].shown /\ object[a].old}
      <4>1. sweep' = [NoSweep EXCEPT !.pc = "rows", !.listed = L] /\ L \in SUBSET Atts
        BY <3>2 DEF SweepList
      <4> HIDE DEF L
      <4> QED
        BY <3>1, <4>1 DEF SweepOK
    <3>3. CASE SweepJudge
      <4> DEFINE O == sweep.listed \ Present
      <4>1. sweep' = NoSweep \/ sweep' = [sweep EXCEPT !.pc = "hide", !.orphans = O]
        BY <3>3 DEF SweepJudge
      <4>2. O \in SUBSET Atts
        BY DEF SweepOK
      <4> HIDE DEF O
      <4> QED
        BY <3>1, <4>1, <4>2 DEF SweepOK
    <3> QED
      BY <1>4, <3>2, <3>3
  <2> QED
    BY <1>4, <2>1 DEF SweepList, SweepJudge, JobOK, FileOK, DbOK, ObjectOK, LockOK, PostOK, ProcOK, Working, BuildOK, GhostOK
<1>5. CASE SweepHide
  <2>1. SweepOK'
    BY <1>5 DEF SweepHide, SweepOK, NoSweep
  <2>2. ObjectOK'
    <3>1. PICK b \in BOOLEAN : b = FALSE
      OBVIOUS
    <3>2. \A a \in Atts : [object[a] EXCEPT !.shown = b] \in ObjectRecord
      BY DEF ObjectOK, ObjectRecord
    <3>3. object' = object \/ \E a \in Atts : object' = [object EXCEPT ![a] = [object[a] EXCEPT !.shown = b]]
      BY <1>5, <3>1 DEF SweepHide, SweepOK
    <3> QED
      BY <3>2, <3>3 DEF ObjectOK
  <2> QED
    BY <1>5, <2>1, <2>2 DEF SweepHide, JobOK, FileOK, DbOK, LockOK, PostOK, ProcOK, Working, BuildOK, GhostOK
<1> QED
  BY <1>1, <1>2, <1>3, <1>4, <1>5

LEMMA StepTInv ==
  ASSUME TInv, [Next]_vars
  PROVE  TInv'
<1>1. CASE UNCHANGED vars
  BY <1>1 DEF vars, mem, db, TInv, JobOK, FileOK, DbOK, ObjectOK, LockOK, PostOK, ProcOK, Working,
              BuildOK, SweepOK, GhostOK
<1>2. ASSUME NEW h \in Handlers, Patch(h) PROVE TInv'
  BY <1>2, PatchTypes DEF Patch
<1>3. ASSUME NEW h \in Handlers, Restore(h) \/ RestoreThrows(h) \/ FailureLost(h) PROVE TInv'
  BY <1>3, PatchTypes, RestoreTypes
<1> QED
  BY <1>1, <1>2, <1>3, CreateTypes, BuildTypes, OtherTypes DEF Next

LEMMA Types == Spec => []TInv
<1>1. TInv /\ [Next]_vars => TInv'
  BY StepTInv
<1> QED
  BY <1>1, InitTInv, PTL DEF Spec

\* Every variable has its type; the numbers of the invoices are below the counter.
THEOREM TypeCorrect == Spec => []TypeOK
  BY Types, TInvTypes, PTL

-----------------------------------------------------------------------------
(* What a step leaves of a handler's local state *)

Alone(h) == \A g \in Handlers \ {h} : proc'[g] = proc[g]

Same(h) == proc'[h].job = proc[h].job /\ proc'[h].present = proc[h].present
             /\ proc'[h].seq = proc[h].seq /\ proc'[h].todo = proc[h].todo

\* a step of h is one of these, as far as h and the locks are concerned
LEMMA HandlerSteps ==
  ASSUME TInv, NEW h \in Handlers
  PROVE  /\ \A j \in Imports, alien \in BOOLEAN :
              PatchBegin(h, j, alien) => /\ Alone(h)
                                         /\ proc'[h].pc = "append" /\ proc'[h].job = j
         /\ Append(h) => Alone(h) /\ proc'[h].pc = "append" /\ Same(h)
         /\ PatchEnd(h) \/ Restored(h) \/ RestoreFailed(h) \/ FailureLost(h) =>
              Alone(h) /\ proc'[h].pc = "idle"
         /\ PatchComplete(h) =>
              Alone(h) /\ proc'[h].pc = "validate" /\ proc'[h].job = proc[h].job
         /\ Validate(h) => Alone(h) /\ proc'[h].pc \in {"probe", "fail"} /\ Same(h)
         /\ Probe(h) => /\ Alone(h) /\ proc'[h].pc = "check" /\ proc'[h].job = proc[h].job
                        /\ proc'[h].present = NonEmpty
         /\ CheckKeepsNumbered(h) => Alone(h) /\ proc'[h].pc \in {"read", "fail"} /\ Same(h)
         /\ ReadTarget(h) =>
              /\ Alone(h) /\ proc'[h].pc = "wipe" /\ proc'[h].job = proc[h].job
              /\ proc'[h].present = proc[h].present
              /\ proc'[h].seq >= seq
         /\ WipeAndInsert(h) => Alone(h) /\ proc'[h].pc = "hide" /\ Same(h)
         /\ HideWiped(h) => /\ Alone(h) /\ proc'[h].pc = "put" /\ proc'[h].job = proc[h].job
                            /\ proc'[h].todo = Carried
         /\ \A a \in Atts : PutEntry(h, a) =>
              Alone(h) /\ proc'[h].pc = "insert" /\ Same(h) /\ proc'[h].att = a
         /\ InsertRow(h) =>
              /\ Alone(h) /\ proc'[h].job = proc[h].job
              /\ \/ /\ proc'[h].pc = "put" /\ rows[proc[h].att] = None
                    /\ proc'[h].todo = proc[h].todo \ {proc[h].att}
                 \/ proc'[h].pc = "fail" /\ rows' = rows
         /\ RestoreThrows(h) => Alone(h) /\ proc'[h].pc = "fail" /\ Same(h)
<1> USE DEF Alone, Same
<1>1. proc[h] \in ProcRecord /\ proc \in [Handlers -> ProcRecord]
  BY DEF TInv, ProcOK
<1>2. ASSUME NEW j \in Imports, NEW alien \in BOOLEAN, PatchBegin(h, j, alien)
      PROVE  Alone(h) /\ proc'[h].pc = "append" /\ proc'[h].job = j
  BY <1>1, <1>2 DEF PatchBegin, IdleProc
<1>3. Append(h) => Alone(h) /\ proc'[h].pc = "append" /\ Same(h)
  BY <1>1 DEF Append, ProcRecord
<1>4. PatchEnd(h) \/ Restored(h) \/ RestoreFailed(h) \/ FailureLost(h) =>
        Alone(h) /\ proc'[h].pc = "idle"
  BY <1>1 DEF PatchEnd, Restored, RestoreFailed, FailureLost, IdleProc
<1>5. PatchComplete(h) =>
        Alone(h) /\ proc'[h].pc = "validate" /\ proc'[h].job = proc[h].job
  BY <1>1 DEF PatchComplete, IdleProc
<1>6. Validate(h) => Alone(h) /\ proc'[h].pc \in {"probe", "fail"} /\ Same(h)
  BY <1>1 DEF Validate, Enter, ProcRecord
<1>7. Probe(h) => /\ Alone(h) /\ proc'[h].pc = "check" /\ proc'[h].job = proc[h].job
                  /\ proc'[h].present = NonEmpty
  BY <1>1 DEF Probe, ProcRecord
<1>8. CheckKeepsNumbered(h) => Alone(h) /\ proc'[h].pc \in {"read", "fail"} /\ Same(h)
  BY <1>1 DEF CheckKeepsNumbered, Enter, ProcRecord
<1>9. ReadTarget(h) =>
        /\ Alone(h) /\ proc'[h].pc = "wipe" /\ proc'[h].job = proc[h].job
        /\ proc'[h].present = proc[h].present /\ proc'[h].seq >= seq
  BY <1>1 DEF ReadTarget, ProcRecord, TInv, DbOK
<1>10. WipeAndInsert(h) => Alone(h) /\ proc'[h].pc = "hide" /\ Same(h)
  BY <1>1 DEF WipeAndInsert, Enter, ProcRecord
<1>11. HideWiped(h) => /\ Alone(h) /\ proc'[h].pc = "put" /\ proc'[h].job = proc[h].job
                       /\ proc'[h].todo = Carried
  BY <1>1 DEF HideWiped, ProcRecord
<1>12. ASSUME NEW a \in Atts, PutEntry(h, a)
       PROVE  Alone(h) /\ proc'[h].pc = "insert" /\ Same(h) /\ proc'[h].att = a
  BY <1>1, <1>12 DEF PutEntry, ProcRecord
<1>13. InsertRow(h) =>
         /\ Alone(h) /\ proc'[h].job = proc[h].job
         /\ \/ /\ proc'[h].pc = "put" /\ rows[proc[h].att] = None
               /\ proc'[h].todo = proc[h].todo \ {proc[h].att}
            \/ proc'[h].pc = "fail" /\ rows' = rows
  BY <1>1 DEF InsertRow, Enter, ProcRecord
<1>14. RestoreThrows(h) => Alone(h) /\ proc'[h].pc = "fail" /\ Same(h)
  BY <1>1 DEF RestoreThrows, Enter, ProcRecord
<1> QED
  BY <1>2, <1>3, <1>4, <1>5, <1>6, <1>7, <1>8, <1>9, <1>10, <1>11, <1>12, <1>13, <1>14

-----------------------------------------------------------------------------
(* Numbers *)

\* Over a database in use an import compares numbers and counter under the lock
\* that its wipe takes anyway, so what it compared is what it wipes.  Over an empty
\* one it compares nothing, and drops what is entered and issued between its probe
\* and its wipe.
InUse == Filled = {TRUE}

Comparing(h) ==
  /\ proc[h].pc \in {"check", "read", "wipe"} => proc[h].present
  /\ proc[h].pc \in {"read", "wipe"} => invLock = h /\ invs \subseteq CarriedInvs
  /\ proc[h].pc = "wipe" => proc[h].seq >= seq

KeepInv == work /\ \A h \in Handlers : Comparing(h)

LEMMA InitKeepInv == ASSUME InUse, Init PROVE KeepInv
  BY DEF InUse, Init, KeepInv, Comparing, IdleProc

\* A handler that is not about to wipe, or does not compare, keeps nothing from
\* the others.
LEMMA KeepFrame ==
  ASSUME TInv, KeepInv, NEW h \in Handlers, Alone(h), UNCHANGED <<work, invs, seq, invLock>>,
         Comparing(h)'
  PROVE  KeepInv' /\ UNCHANGED <<invs, seq>>
<1>1. ASSUME NEW g \in Handlers \ {h} PROVE Comparing(g)'
  BY DEF KeepInv, Comparing, Alone
<1> QED
  BY <1>1 DEF KeepInv

LEMMA StepKeepInv ==
  ASSUME TInv, KeepInv, [Next]_vars
  PROVE  KeepInv' /\ invs \subseteq invs' /\ seq' >= seq
<1> USE DEF mem, db
<1>1. ASSUME UNCHANGED <<work, invs, seq, invLock, proc>>
      PROVE  KeepInv' /\ invs \subseteq invs' /\ seq' >= seq
  BY <1>1 DEF KeepInv, Comparing, TInv, DbOK
<1>2. seq \in Nat /\ invLock \in Handlers \cup {None}
  BY DEF TInv, DbOK, LockOK
<1>3. CASE \/ UNCHANGED vars \/ \E p \in Posters : Create(p)
           \/ \E e \in Exports : Build(e) \/ BuildThrows(e)
           \/ \E j \in Jobs : SweepStaged(j)
           \/ SweepList \/ SweepJudge \/ SweepHide
  <2>1. UNCHANGED <<work, invs, seq, invLock, proc>>
    BY <1>3 DEF vars, Create, PostCheck, PostSweep, PostCreate, Build, StartBuild, Snapshot,
                LoadKeys, ArchiveEntry, Built, BuildFailed, Unlink, BuildThrows, SweepStaged,
                SweepList, SweepJudge, SweepHide
  <2> QED
    BY <1>1, <2>1
<1>4. ASSUME NEW h \in Handlers, Patch(h) PROVE KeepInv' /\ UNCHANGED <<invs, seq>>
  <2>1. UNCHANGED <<work, invs, seq, invLock>> /\ Alone(h) /\ proc'[h].pc \in {"append", "idle"}
    BY <1>4, HandlerSteps DEF Patch, PatchBegin, Append, PatchEnd
  <2> QED
    BY <2>1, KeepFrame DEF Comparing
<1>5. ASSUME NEW h \in Handlers, Restore(h) \/ RestoreThrows(h) \/ FailureLost(h)
      PROVE  KeepInv' /\ invs \subseteq invs' /\ seq' >= seq
  <2>1. Comparing(h)
    BY DEF KeepInv
  <2>2. CASE \/ PatchComplete(h) \/ Validate(h) \/ Probe(h) \/ ReadTarget(h) \/ HideWiped(h)
             \/ (\E a \in Atts : PutEntry(h, a)) \/ InsertRow(h)
             \/ Restored(h) \/ RestoreFailed(h) \/ FailureLost(h)
    <3>1. UNCHANGED <<work, invs, seq, invLock>>
      BY <2>2 DEF PatchComplete, Validate, Probe, ReadTarget, HideWiped, PutEntry, InsertRow,
                  Restored, RestoreFailed, FailureLost
    <3>2. Alone(h) /\ Comparing(h)'
      <4>1. CASE ReadTarget(h)
        BY ZenonT(40), <2>1, <3>1, <4>1, HandlerSteps DEF ReadTarget, Comparing
      <4>2. CASE Probe(h)
        BY <3>1, <4>2, HandlerSteps DEF Comparing, NonEmpty, KeepInv
      <4>3. CASE ~ ReadTarget(h) /\ ~ Probe(h)
        <5>1. Alone(h) /\ proc'[h].pc \in {"idle", "validate", "probe", "fail", "put", "insert"}
          BY <2>2, <4>3, HandlerSteps
        <5> QED
          BY <5>1 DEF Comparing
      <4> QED
        BY <4>1, <4>2, <4>3
    <3> QED
      BY <1>2, <3>1, <3>2, KeepFrame
  <2>3. CASE CheckKeepsNumbered(h)
    <3>1. Alone(h) /\ Same(h) /\ proc'[h].pc \in {"read", "fail"}
      BY <2>3, HandlerSteps
    <3>2. UNCHANGED <<work, invs, seq>> /\ proc[h].pc = "check" /\ proc[h].present
      BY <2>1, <2>3 DEF CheckKeepsNumbered, Comparing
    <3>3. /\ invLock = None
          /\ \/ invLock' = h /\ invs \subseteq CarriedInvs
             \/ invLock' = invLock /\ proc'[h].pc = "fail"
      <4>1. CASE invs \subseteq CarriedInvs
        BY <2>3, <3>2, <4>1 DEF CheckKeepsNumbered
      <4>2. CASE ~ invs \subseteq CarriedInvs
        <5>1. invLock = None /\ invLock' = invLock /\ Enter(h, "fail")
          BY <2>3, <3>2, <4>2 DEF CheckKeepsNumbered
        <5> QED
          <6>1. proc'[h] = [proc[h] EXCEPT !.pc = "fail"]
            BY <3>2, <5>1, EnterOK DEF TInv, ProcSteps
          <6>2. proc[h] \in ProcRecord
            BY DEF TInv, ProcOK
          <6> QED
            BY <5>1, <6>1, <6>2 DEF ProcRecord
      <4> QED
        BY <4>1, <4>2
    <3>4. \A g \in Handlers : proc[g].pc \notin {"read", "wipe"}
      BY <3>3 DEF KeepInv, Comparing
    <3>5. \A g \in Handlers \ {h} : Comparing(g)'
      BY <3>1, <3>2, <3>4 DEF KeepInv, Comparing, Alone
    <3>6. Comparing(h)'
      BY <3>1, <3>2, <3>3 DEF Comparing, Same
    <3> QED
      BY <1>2, <3>2, <3>5, <3>6 DEF KeepInv
  <2>4. CASE WipeAndInsert(h)
    <3>1. invLock = h /\ invs \subseteq CarriedInvs /\ proc[h].seq >= seq /\ proc[h].seq \in Nat
      BY <2>1, <2>4 DEF WipeAndInsert, Comparing, TInv, ProcOK, ProcRecord
    <3>2. work' /\ invs' = CarriedInvs /\ seq' = proc[h].seq
      BY <2>4 DEF WipeAndInsert
    <3>3. Alone(h) /\ proc'[h].pc = "hide"
      BY <2>4, HandlerSteps
    <3>4. \A g \in Handlers \ {h} : proc[g].pc \notin {"read", "wipe"}
      BY <3>1 DEF KeepInv, Comparing
    <3>5. \A g \in Handlers : Comparing(g)'
      BY <3>3, <3>4 DEF KeepInv, Comparing, Alone
    <3> QED
      BY <3>1, <3>2, <3>5 DEF KeepInv
  <2>5. CASE RestoreThrows(h)
    <3>1. Alone(h) /\ proc'[h].pc = "fail"
      BY <2>5, HandlerSteps
    <3>2. UNCHANGED <<work, invs, seq>> /\ invLock' = IF invLock = h THEN None ELSE invLock
      BY <2>5 DEF RestoreThrows
    <3>3. \A g \in Handlers : Comparing(g)'
      BY <3>1, <3>2 DEF KeepInv, Comparing, Alone
    <3> QED
      BY <1>2, <3>2, <3>3 DEF KeepInv
  <2> QED
    BY <1>5, <2>2, <2>3, <2>4, <2>5 DEF Restore
<1>6. CASE Issue
  <2>1. /\ invLock = None /\ UNCHANGED <<work, invLock, proc>>
        /\ seq' = seq + 1 /\ invs \subseteq invs'
    BY <1>6 DEF Issue
  <2>2. \A g \in Handlers : proc[g].pc \notin {"read", "wipe"}
    BY <2>1 DEF KeepInv, Comparing
  <2> QED
    BY <1>2, <2>1, <2>2 DEF KeepInv, Comparing
<1>7. CASE EnterWork
  BY <1>7 DEF EnterWork, KeepInv
<1>8. CASE Restart
  <2>1. UNCHANGED <<work, invs, seq>> /\ \A g \in Handlers : proc'[g].pc = "idle"
    BY <1>8, IdleTypes DEF Restart
  <2> QED
    BY <1>2, <2>1 DEF KeepInv, Comparing
<1> QED
  BY <1>2, <1>3, <1>4, <1>5, <1>6, <1>7, <1>8 DEF Next

\* An import into a database in use drops no number that reached a customer, and
\* lowers no counter, whatever is issued while it runs (AC-367, AC-369).
THEOREM Numbers == ASSUME InUse PROVE Spec => NumbersKept
<1>1. Init => KeepInv
  BY InitKeepInv
<1>2. TInv /\ KeepInv /\ [Next]_vars =>
        KeepInv' /\ [invs \subseteq invs' /\ seq' >= seq]_vars
  BY StepKeepInv
<1> QED
  BY <1>1, <1>2, Types, PTL DEF Spec, NumbersKept

-----------------------------------------------------------------------------
(* Jobs, what works on them and their staged files *)

Untangled(j) == "overlap" \notin trouble[j]
Audited(j)   == audits[j] = IF job[j].status \in Terminal THEN 1 ELSE 0
Intact(j)    == file[j].good /\ file[j].size >= Len

Checked == {"probe", "check", "read", "wipe"}   \* past Pass 1, before the wipe

\* Without overlapping uploads one request at a time works on an import, and the
\* status says how far it got.
Single(j) ==
  /\ \A h \in InFlight(j) :
       /\ job[j].status = IF proc[h].pc = "append" THEN "pending" ELSE "running"
       /\ proc[h].pc # "append" => job[j].ref
       /\ \A g \in InFlight(j) : g = h
  /\ file[j].size > 0 => (job[j].status \in Active \/ job[j].ref)
  /\ "boot" \notin trouble[j] => Audited(j)

\* Even with them, a file is swept only once its job has been audited.
Validated(j) ==
  \A h \in InFlight(j) : /\ job[j].status \in Terminal => audits[j] > 0
                         /\ proc[h].pc \in Checked => (Intact(j) \/ audits[j] > 0)

Importing(j) == (Untangled(j) => Single(j)) /\ Validated(j)

\* How far a build got, what it has archived, and where its file is remembered.
Building(e) ==
  /\ job[e].status = "none" => build[e].pc = "idle"
  /\ build[e].pc = "start" => job[e].status = "pending"
  /\ build[e].pc \in {"snapshot", "keys", "append"} => job[e].status = "running"
  /\ build[e].pc = "fail" => job[e].status \in Active
  /\ build[e].pc \in {"idle", "start", "snapshot", "keys"} => build[e].done = {}
  /\ build[e].pc \in {"keys", "append"} => build[e].done \cup build[e].todo = build[e].envelope
  /\ job[e].status = "ready" => build[e].pc = "done" /\ build[e].done = build[e].envelope
  /\ file[e].size > 0 => \/ job[e].status \in Active \/ job[e].ref
                         \/ build[e].pc = "unlink" \/ "unlink" \in trouble[e]
  /\ trouble[e] \cap {"boot", "overlap"} = {} => Audited(e)

JInv == (\A j \in Imports : Importing(j)) /\ (\A e \in Exports : Building(e))

LEMMA InitJInv == Init => JInv
<1> SUFFICES ASSUME Init PROVE JInv
  OBVIOUS
<1>1. ASSUME NEW j \in Imports PROVE Importing(j)
  <2>1. job[j] = NoJob /\ file[j] = NoFile /\ audits[j] = 0 /\ InFlight(j) = {}
    BY DEF Init, InFlight, IdleProc
  <2> QED
    BY <2>1 DEF Importing, Single, Validated, Audited, NoJob, NoFile, Terminal
<1>2. ASSUME NEW e \in Exports PROVE Building(e)
  <2>1. job[e] = NoJob /\ file[e] = NoFile /\ audits[e] = 0 /\ build[e] = NoBuild
    BY DEF Init
  <2> QED
    BY <2>1 DEF Building, Audited, NoJob, NoFile, NoBuild, Terminal
<1> QED
  BY <1>1, <1>2 DEF JInv

\* faults are not forgotten
Remembers(j) == trouble[j] \subseteq trouble'[j]

\* An import that no step touches, though a request may have left it.
LEMMA ImportFrame ==
  ASSUME NEW j \in Imports, Importing(j), Remembers(j),
         job'[j] = job[j], file'[j] = file[j], audits'[j] = audits[j],
         \A g \in Handlers : proc'[g].pc # "idle" /\ proc'[g].job = j =>
            proc[g].pc # "idle" /\ proc[g].job = j /\ proc'[g].pc = proc[g].pc
  PROVE  Importing(j)'
<1>1. \A g \in InFlight(j)' : g \in InFlight(j) /\ proc'[g].pc = proc[g].pc
  BY DEF InFlight
<1>2. Untangled(j)' => Single(j)'
  BY <1>1 DEF Importing, Untangled, Single, Audited, Remembers
<1>3. Validated(j)'
  BY <1>1 DEF Importing, Validated, Intact
<1> QED
  BY <1>2, <1>3 DEF Importing

\* An export that no step touches.
LEMMA ExportFrame ==
  ASSUME NEW e \in Exports, Building(e), Remembers(e),
         job'[e] = job[e], file'[e] = file[e], audits'[e] = audits[e], build'[e] = build[e]
  PROVE  Building(e)'
  BY DEF Building, Audited, Remembers

\* A restore that goes on in memory or stops without a word about it.
LEMMA RestoreGoesOn ==
  ASSUME JInv, NEW h \in Handlers, UNCHANGED <<job, file, audits, build>>,
         \A j \in Jobs : Remembers(j), Alone(h),
         \/ proc'[h].pc = "idle"
         \/ /\ proc'[h].job = proc[h].job
            /\ proc[h].pc \notin {"idle", "append"} /\ proc'[h].pc # "append"
            /\ proc'[h].pc \in Checked => (proc[h].pc \in Checked \/ Intact(proc[h].job))
  PROVE  JInv'
<1>1. ASSUME NEW j \in Imports PROVE Importing(j)'
  <2>1. CASE proc'[h].pc = "idle" \/ proc[h].job # j
    <3>1. \A g \in Handlers : proc'[g].pc # "idle" /\ proc'[g].job = j =>
            proc[g].pc # "idle" /\ proc[g].job = j /\ proc'[g].pc = proc[g].pc
      BY <2>1 DEF Alone
    <3> QED
      BY <3>1, ImportFrame DEF JInv
  <2>2. CASE proc'[h].pc # "idle" /\ proc[h].job = j
    <3>1. InFlight(j)' = InFlight(j) /\ h \in InFlight(j)
      BY <2>2 DEF InFlight, Alone
    <3>2. \A g \in InFlight(j) : proc'[g].pc = "append" <=> proc[g].pc = "append"
      BY <2>2 DEF Alone, InFlight
    <3>3. Untangled(j)' => Single(j)'
      BY <3>1, <3>2 DEF JInv, Importing, Untangled, Single, Audited, Remembers
    <3>4. Validated(j)'
      <4>1. \A g \in InFlight(j) : proc'[g].pc \in Checked => (proc[g].pc \in Checked \/ Intact(j))
        BY <2>2 DEF Alone, InFlight
      <4> QED
        BY <3>1, <4>1 DEF JInv, Importing, Validated, Intact
    <3> QED
      BY <3>3, <3>4 DEF Importing
  <2> QED
    BY <2>1, <2>2
<1>2. ASSUME NEW e \in Exports PROVE Building(e)'
  BY ExportFrame DEF JInv
<1> QED
  BY <1>1, <1>2 DEF JInv

LEMMA RestoreJInv ==
  ASSUME TInv, JInv, NEW h \in Handlers,
         \/ PatchEnd(h) \/ Validate(h) \/ Probe(h) \/ CheckKeepsNumbered(h) \/ ReadTarget(h)
         \/ WipeAndInsert(h) \/ HideWiped(h) \/ (\E a \in Atts : PutEntry(h, a))
         \/ InsertRow(h) \/ RestoreThrows(h) \/ FailureLost(h)
  PROVE  JInv'
<1> USE DEF mem, db
<1>1. UNCHANGED <<job, file, audits, build>>
  BY DEF PatchEnd, Validate, Probe, CheckKeepsNumbered, ReadTarget, WipeAndInsert, HideWiped,
         PutEntry, InsertRow, RestoreThrows, FailureLost
<1>2. \A j \in Jobs : Remembers(j)
  <2>1. CASE FailureLost(h)
    BY <2>1 DEF FailureLost, Remembers, TInv, GhostOK
  <2>2. CASE ~ FailureLost(h)
    BY <2>2 DEF PatchEnd, Validate, Probe, CheckKeepsNumbered, ReadTarget, WipeAndInsert,
                HideWiped, PutEntry, InsertRow, RestoreThrows, Remembers
  <2> QED
    BY <2>1, <2>2
<1>3. Alone(h)
  BY HandlerSteps
<1>4. CASE PatchEnd(h) \/ FailureLost(h)
  BY <1>1, <1>2, <1>3, <1>4, HandlerSteps, RestoreGoesOn
<1>5. CASE Validate(h)
  <2>1. proc[h].pc = "validate" /\ proc'[h].pc \in {"probe", "fail"} /\ Same(h)
    BY <1>5, HandlerSteps DEF Validate
  <2>2. proc'[h].pc = "probe" => Intact(proc[h].job)
    <3>1. proc[h] \in ProcRecord /\ proc[h].pc # "idle"
      BY <2>1 DEF TInv, ProcOK
    <3>2. CASE file[proc[h].job] = [size |-> Len, good |-> TRUE]
      BY <3>2 DEF Intact
    <3>3. CASE file[proc[h].job] # [size |-> Len, good |-> TRUE]
      <4>1. Enter(h, "fail")
        BY <1>5, <3>3 DEF Validate
      <4>2. proc'[h] = [proc[h] EXCEPT !.pc = "fail"]
        BY <3>1, <4>1, EnterOK DEF TInv, ProcSteps
      <4> QED
        BY <3>1, <4>2 DEF ProcRecord
    <3> QED
      BY <3>2, <3>3
  <2> QED
    BY <1>1, <1>2, <1>3, <2>1, <2>2, RestoreGoesOn DEF Checked, Same
<1>6. CASE Probe(h) \/ CheckKeepsNumbered(h) \/ ReadTarget(h)
  <2>1. proc[h].pc \in Checked /\ proc'[h].job = proc[h].job /\ proc'[h].pc # "append"
    BY <1>6, HandlerSteps DEF Probe, CheckKeepsNumbered, ReadTarget, Checked, Same
  <2> QED
    BY <1>1, <1>2, <1>3, <2>1, RestoreGoesOn DEF Checked
<1>7. CASE \/ WipeAndInsert(h) \/ HideWiped(h) \/ (\E a \in Atts : PutEntry(h, a))
           \/ InsertRow(h) \/ RestoreThrows(h)
  <2>1. /\ proc[h].pc \notin {"idle", "append"} /\ proc'[h].job = proc[h].job
        /\ proc'[h].pc \notin Checked \cup {"append"}
    BY <1>7, HandlerSteps DEF WipeAndInsert, HideWiped, PutEntry, InsertRow, RestoreThrows,
                              Checked, Same
  <2> QED
    BY <1>1, <1>2, <1>3, <2>1, RestoreGoesOn
<1> QED
  BY <1>4, <1>5, <1>6, <1>7

\* an upload begins, goes on, or is complete
LEMMA UploadJInv ==
  ASSUME TInv, JInv, NEW h \in Handlers,
         \/ \E j \in Imports, alien \in BOOLEAN : PatchBegin(h, j, alien)
         \/ Append(h) \/ PatchComplete(h)
  PROVE  JInv'
<1> USE DEF mem, db
<1>1. \A e \in Exports : /\ job'[e] = job[e] /\ file'[e] = file[e] /\ audits'[e] = audits[e]
                         /\ build'[e] = build[e] /\ Remembers(e)
  <2>1. proc[h].pc # "idle" => proc[h].job \in Imports
    BY DEF TInv, ProcOK, Working
  <2>2. ASSUME NEW j \in Imports, NEW alien \in BOOLEAN, PatchBegin(h, j, alien), NEW e \in Exports
        PROVE  /\ UNCHANGED <<job, file, audits, build>> /\ Remembers(e)
    BY <2>2 DEF PatchBegin, Remembers, TInv, GhostOK
  <2>3. ASSUME Append(h), NEW e \in Exports
        PROVE  UNCHANGED <<job, audits, build, trouble>> /\ file'[e] = file[e]
    BY <2>1, <2>3 DEF Append, TInv, FileOK
  <2>4. ASSUME PatchComplete(h), NEW e \in Exports
        PROVE  UNCHANGED <<file, audits, build, trouble>> /\ job'[e] = job[e]
    BY <2>1, <2>4 DEF PatchComplete, TInv, JobOK
  <2> QED
    BY <2>2, <2>3, <2>4 DEF Remembers
<1>2. \A e \in Exports : Building(e)'
  BY <1>1, ExportFrame DEF JInv
<1>3. ASSUME NEW j \in Imports, NEW alien \in BOOLEAN, PatchBegin(h, j, alien),
             NEW i \in Imports
      PROVE  Importing(i)'
  <2>1. /\ proc[h].pc = "idle" /\ proc'[h].pc = "append" /\ proc'[h].job = j /\ Alone(h)
        /\ UNCHANGED <<job, file, audits>> /\ job[j].status = "pending"
    BY <1>3, HandlerSteps DEF PatchBegin
  <2>2. Remembers(i) /\ (i = j /\ InFlight(j) # {} => "overlap" \in trouble'[j])
    BY <1>3 DEF PatchBegin, Remembers, TInv, GhostOK
  <2>3. CASE i # j
    BY <2>1, <2>2, <2>3, ImportFrame DEF JInv, Alone
  <2>4. CASE i = j
    <3>1. InFlight(j)' = InFlight(j) \cup {h} /\ \A g \in InFlight(j) : proc'[g] = proc[g]
      BY <2>1 DEF InFlight, Alone
    <3>2. Untangled(j)' => Single(j)'
      <4> HAVE Untangled(j)'
      <4>1. InFlight(j) = {} /\ Single(j)
        BY <2>2, <2>4 DEF Untangled, JInv, Importing, Remembers
      <4> QED
        BY <2>1, <2>2, <2>4, <3>1, <4>1 DEF Single, Audited, Remembers
    <3>3. Validated(j)'
      BY <2>1, <3>1 DEF JInv, Importing, Validated, Intact, Checked, Terminal
    <3> QED
      BY <2>4, <3>2, <3>3 DEF Importing
  <2> QED
    BY <2>3, <2>4
<1>4. ASSUME Append(h), NEW i \in Imports PROVE Importing(i)'
  <2>1. PICK j \in Imports : j = proc[h].job
    BY <1>4 DEF Append, TInv, ProcOK, Working
  <2>2. /\ proc[h].pc = "append" /\ proc'[h].pc = "append" /\ proc'[h].job = j /\ Alone(h)
        /\ UNCHANGED <<job, audits, trouble>>
    BY <1>4, <2>1, HandlerSteps DEF Append, Same
  <2>3. CASE i # j
    <3>1. file'[i] = file[i]
      BY <1>4, <2>1, <2>3 DEF Append, TInv, FileOK
    <3> QED
      BY <2>1, <2>2, <2>3, <3>1, ImportFrame DEF JInv, Alone, Remembers
  <2>4. CASE i = j
    <3>1. InFlight(j)' = InFlight(j) /\ h \in InFlight(j)
          /\ \A g \in InFlight(j) : proc'[g].pc = proc[g].pc
      BY <2>1, <2>2 DEF InFlight, Alone
    <3>2. Untangled(j) => Single(j)'
      BY <2>2, <3>1 DEF JInv, Importing, Single, Audited, Active
    <3>3. Intact(j) => Intact(j)'
      <4>1. file[j].size \in Nat
        BY DEF TInv, FileOK
      <4>2. file'[j].size = file[j].size + 1
        BY <1>4, <2>1 DEF Append, TInv, FileOK
      <4>3. file[j].good /\ file[j].size >= Len => file'[j].good
        BY <1>4, <2>1, <4>1 DEF Append, TInv, FileOK
      <4> QED
        BY <4>1, <4>2, <4>3 DEF Intact
    <3>4. Validated(j)'
      BY <2>2, <3>1, <3>3 DEF JInv, Importing, Validated
    <3> QED
      BY <2>2, <2>4, <3>2, <3>4 DEF Importing, Untangled
  <2> QED
    BY <2>3, <2>4
<1>5. ASSUME PatchComplete(h), NEW i \in Imports PROVE Importing(i)'
  <2>1. PICK j \in Imports : j = proc[h].job
    BY <1>5 DEF PatchComplete, TInv, ProcOK, Working
  <2>2. /\ proc[h].pc = "append" /\ proc'[h].pc = "validate" /\ proc'[h].job = j /\ Alone(h)
        /\ UNCHANGED <<file, audits, trouble>>
        /\ job' = [job EXCEPT ![j] = [status |-> "running", ref |-> TRUE]]
    BY <1>5, <2>1, HandlerSteps DEF PatchComplete
  <2>3. CASE i # j
    <3>1. job'[i] = job[i]
      BY <2>2, <2>3 DEF TInv, JobOK
    <3> QED
      BY <2>1, <2>2, <2>3, <3>1, ImportFrame DEF JInv, Alone, Remembers
  <2>4. CASE i = j
    <3>1. InFlight(j)' = InFlight(j) /\ h \in InFlight(j)
          /\ \A g \in InFlight(j) \ {h} : proc'[g].pc = proc[g].pc
      BY <2>1, <2>2 DEF InFlight, Alone
    <3>2. job'[j].status = "running" /\ job'[j].ref
      BY <2>2 DEF TInv, JobOK
    <3>3. Untangled(j) => Single(j)'
      <4> HAVE Untangled(j)
      <4>1. job[j].status = "pending" /\ InFlight(j) = {h}
        BY <2>2, <3>1 DEF JInv, Importing, Single
      <4> QED
        BY <2>2, <3>1, <3>2, <4>1 DEF JInv, Importing, Single, Audited, Active, Terminal
    <3>4. Validated(j)'
      BY <2>2, <3>1, <3>2 DEF JInv, Importing, Validated, Intact, Checked, Terminal
    <3> QED
      BY <2>2, <2>4, <3>3, <3>4 DEF Importing, Untangled
  <2> QED
    BY <2>3, <2>4
<1> QED
  BY <1>2, <1>3, <1>4, <1>5 DEF JInv

\* a staged archive is swept with the reference to it
Swept(j) == /\ job[j].ref /\ job[j].status \in Terminal
            /\ file'[j].size = 0 /\ job'[j] = [job[j] EXCEPT !.ref = FALSE]

LEMMA SweepJInv ==
  ASSUME TInv, JInv, UNCHANGED <<proc, build, audits, trouble>>,
         \A j \in Jobs : Swept(j) \/ (job'[j] = job[j] /\ file'[j] = file[j])
  PROVE  JInv'
<1>1. \A j \in Jobs : Swept(j) => job'[j].status = job[j].status /\ job'[j].ref = FALSE
  BY DEF Swept, TInv, JobOK
<1>2. ASSUME NEW j \in Imports, Swept(j) PROVE Importing(j)'
  <2>1. InFlight(j)' = InFlight(j)
    BY DEF InFlight
  <2>2. Untangled(j) => InFlight(j) = {}
    BY <1>2 DEF JInv, Importing, Single, Swept, Terminal
  <2>3. \A g \in InFlight(j) : audits[j] > 0
    BY <1>2 DEF JInv, Importing, Validated, Swept
  <2> QED
    BY <1>1, <1>2, <2>1, <2>2, <2>3
       DEF JInv, Importing, Single, Validated, Audited, Untangled, Swept
<1>3. ASSUME NEW j \in Imports, ~ Swept(j) PROVE Importing(j)'
  BY <1>3, ImportFrame DEF JInv, Remembers
<1>4. ASSUME NEW e \in Exports, Swept(e) PROVE Building(e)'
  BY <1>1, <1>4 DEF JInv, Building, Audited, Swept, Terminal, Active
<1>5. ASSUME NEW e \in Exports, ~ Swept(e) PROVE Building(e)'
  BY <1>5, ExportFrame DEF JInv, Remembers
<1> QED
  BY <1>2, <1>3, <1>4, <1>5 DEF JInv

LEMMA CreateJInv ==
  ASSUME TInv, JInv, (\E p \in Posters : Create(p)) \/ (\E j \in Jobs : SweepStaged(j))
  PROVE  JInv'
<1> USE DEF mem, db
<1>1. ASSUME NEW p \in Posters, NEW k, PostCheck(p, k) PROVE JInv'
  <2>1. UNCHANGED <<job, file, audits, trouble, proc, build>>
    BY <1>1 DEF PostCheck
  <2> QED
    BY <2>1, SweepJInv
<1>2. \A k \in {"import", "export", "none"} :
        PriorStaged(k) \subseteq {j \in Jobs : job[j].ref /\ job[j].status \in Terminal}
  BY DEF PriorStaged, OfKind, Terminal
<1>3. ASSUME NEW p \in Posters, PostSweep(p) PROVE JInv'
  <2>1. PICK k \in {"import", "export", "none"} : k = post[p].kind
    BY DEF TInv, PostOK
  <2>2. \A j \in PriorStaged(k) : Swept(j)
    BY <1>2, <1>3, <2>1, IdleTypes DEF PostSweep, Swept
  <2>3. \A j \in Jobs \ PriorStaged(k) : job'[j] = job[j] /\ file'[j] = file[j]
    BY <1>3, <2>1 DEF PostSweep
  <2>4. UNCHANGED <<proc, build, audits, trouble>>
    BY <1>3 DEF PostSweep
  <2> QED
    BY <2>2, <2>3, <2>4, SweepJInv
<1>4. ASSUME NEW j \in Jobs, SweepStaged(j) PROVE JInv'
  <2>1. job[j].ref /\ job[j].status \in Terminal
    BY <1>2, <1>4 DEF SweepStaged
  <2>2. Swept(j) /\ \A i \in Jobs \ {j} : job'[i] = job[i] /\ file'[i] = file[i]
    BY <1>4, <2>1, IdleTypes DEF SweepStaged, Swept, TInv, JobOK, FileOK
  <2>3. UNCHANGED <<proc, build, audits, trouble>>
    BY <1>4 DEF SweepStaged
  <2> QED
    BY <2>2, <2>3, SweepJInv
<1>5. ASSUME NEW p \in Posters, PostCreate(p) PROVE JInv'
  <2>1. PICK j \in Jobs :
          /\ job[j].status = "none" /\ job' = [job EXCEPT ![j].status = "pending"]
          /\ build' = IF j \in Exports THEN [build EXCEPT ![j].pc = "start"] ELSE build
    BY <1>5 DEF PostCreate, OfKind
  <2>2. UNCHANGED <<file, audits, trouble, proc>>
    BY <1>5 DEF PostCreate
  <2>3. job'[j].status = "pending" /\ job'[j].ref = job[j].ref
        /\ \A i \in Jobs \ {j} : job'[i] = job[i]
    BY <2>1 DEF TInv, JobOK
  <2>4. \A e \in Exports \ {j} : build'[e] = build[e]
    BY <2>1 DEF TInv, BuildOK
  <2>5. ASSUME NEW i \in Imports PROVE Importing(i)'
    <3>1. CASE i # j
      BY <2>2, <2>3, <3>1, ImportFrame DEF JInv, Remembers
    <3>2. CASE i = j
      <4>1. InFlight(j)' = InFlight(j) /\ (Untangled(j) => InFlight(j) = {})
        BY <2>1, <2>2, <3>2 DEF InFlight, JInv, Importing, Single
      <4> QED
        BY <2>1, <2>2, <2>3, <3>2, <4>1
           DEF JInv, Importing, Single, Validated, Audited, Untangled, Intact, Active, Terminal
    <3> QED
      BY <3>1, <3>2
  <2>6. ASSUME NEW e \in Exports PROVE Building(e)'
    <3>1. CASE e # j
      BY <2>2, <2>3, <2>4, <3>1, ExportFrame DEF JInv, Remembers
    <3>2. CASE e = j
      <4>1. build'[e].pc = "start" /\ build'[e].done = build[e].done /\ build[e].pc = "idle"
        BY <2>1, <3>2 DEF TInv, BuildOK, BuildRecord, JInv, Building
      <4> QED
        BY <2>1, <2>2, <2>3, <3>2, <4>1 DEF JInv, Building, Audited, Active, Terminal
    <3> QED
      BY <3>1, <3>2
  <2> QED
    BY <2>5, <2>6 DEF JInv
<1> QED
  BY <1>1, <1>3, <1>4, <1>5 DEF Create

\* a restore records how it ended
LEMMA EndJInv ==
  ASSUME TInv, JInv, NEW h \in Handlers, Restored(h) \/ RestoreFailed(h)
  PROVE  JInv'
<1> USE DEF mem, db
<1>1. PICK j \in Imports : j = proc[h].job
  BY DEF Restored, RestoreFailed, TInv, ProcOK, Working
<1>2. /\ UNCHANGED <<file, build, trouble>>
      /\ audits'[j] = audits[j] + 1 /\ \A i \in Jobs \ {j} : audits'[i] = audits[i]
      /\ job'[j].status \in Terminal /\ (job[j].ref => job'[j].ref)
      /\ \A i \in Jobs \ {j} : job'[i] = job[i]
  BY <1>1 DEF Restored, RestoreFailed, MarkReady, MarkFailed, TInv, JobOK, GhostOK, Terminal
<1>3. Alone(h) /\ proc'[h].pc = "idle" /\ proc[h].pc \notin {"idle", "append"}
  BY HandlerSteps DEF Restored, RestoreFailed
<1>4. ASSUME NEW i \in Imports PROVE Importing(i)'
  <2>1. CASE i # j
    BY <1>1, <1>2, <1>3, <2>1, ImportFrame DEF JInv, Alone, Remembers
  <2>2. CASE i = j
    <3>1. h \in InFlight(j) /\ InFlight(j)' = InFlight(j) \ {h}
      BY <1>1, <1>3 DEF InFlight, Alone
    <3>2. audits'[j] > 0
      BY <1>2 DEF TInv, GhostOK
    <3>3. Validated(j)'
      BY <3>1, <3>2 DEF Validated
    <3>4. Untangled(j) => Single(j)'
      <4> HAVE Untangled(j)
      <4>1. Single(j) /\ job[j].status = "running" /\ job[j].ref /\ InFlight(j)' = {}
        BY <1>3, <3>1 DEF JInv, Importing, Single
      <4> QED
        BY <1>2, <4>1 DEF Single, Audited, Terminal
    <3> QED
      BY <1>2, <2>2, <3>3, <3>4 DEF Importing, Untangled
  <2> QED
    BY <2>1, <2>2
<1>5. \A e \in Exports : Building(e)'
  BY <1>2, ExportFrame DEF JInv, Remembers
<1> QED
  BY <1>4, <1>5 DEF JInv

\* a build touches its own job, file and memory
LEMMA BuildAlone ==
  ASSUME TInv, NEW e \in Exports, Build(e) \/ BuildThrows(e)
  PROVE  /\ proc' = proc /\ Remembers(e)
         /\ \A j \in Jobs \ {e} : /\ job'[j] = job[j] /\ file'[j] = file[j]
                                  /\ audits'[j] = audits[j] /\ trouble'[j] = trouble[j]
         /\ \A f \in Exports \ {e} : build'[f] = build[f]
<1> USE DEF mem, db, Remembers
<1>1. proc' = proc
  BY DEF Build, BuildThrows, StartBuild, Snapshot, LoadKeys, ArchiveEntry, Built, BuildFailed, Unlink
<1>2. \A j \in Jobs \ {e} : job'[j] = job[j] /\ audits'[j] = audits[j]
  BY DEF Build, BuildThrows, StartBuild, Snapshot, LoadKeys, ArchiveEntry, Built, BuildFailed, Unlink,
         MarkReady, MarkFailed, TInv, JobOK, GhostOK
<1>3. \A j \in Jobs \ {e} : file'[j] = file[j]
  BY DEF Build, BuildThrows, StartBuild, Snapshot, LoadKeys, ArchiveEntry, Built, BuildFailed, Unlink,
         TInv, FileOK
<1>4. Remembers(e) /\ \A j \in Jobs \ {e} : trouble'[j] = trouble[j]
  BY ZenonT(40) DEF Build, BuildThrows, StartBuild, Snapshot, LoadKeys, ArchiveEntry, Built, BuildFailed, Unlink,
         TInv, GhostOK
<1>5. \A f \in Exports \ {e} : build'[f] = build[f]
  BY DEF Build, BuildThrows, StartBuild, Snapshot, LoadKeys, ArchiveEntry, Built, BuildFailed, Unlink,
         ToBuild, TInv, BuildOK
<1> QED
  BY <1>1, <1>2, <1>3, <1>4, <1>5

LEMMA BuildJInv ==
  ASSUME TInv, JInv, NEW e \in Exports, Build(e) \/ BuildThrows(e)
  PROVE  JInv'
<1> USE DEF mem, db
<1>1. \A j \in Imports : Importing(j)'
  BY BuildAlone, ImportFrame DEF JInv, Remembers
<1>2. \A f \in Exports \ {e} : Building(f)'
  BY BuildAlone, ExportFrame DEF JInv, Remembers
<1>3. /\ Building(e) /\ build[e] \in BuildRecord /\ file[e].size \in Nat /\ audits[e] \in Nat
      /\ job[e] \in [status : Active \cup Terminal \cup {"none"}, ref : BOOLEAN]
  BY DEF JInv, TInv, BuildOK, FileOK, GhostOK, JobOK
<1>4. ASSUME StartBuild(e) PROVE Building(e)'
  <2>1. /\ build'[e] = [build[e] EXCEPT !.pc = "snapshot"]
        /\ job'[e] = [job[e] EXCEPT !.status = "running"]
        /\ UNCHANGED <<file, audits, trouble>> /\ build[e].pc = "start"
    BY <1>4 DEF StartBuild, ToBuild, TInv, BuildOK, JobOK
  <2> QED
    BY <1>3, <2>1 DEF Building, Audited, BuildRecord, Active, Terminal
<1>5. ASSUME Snapshot(e) PROVE Building(e)'
  <2>1. /\ build'[e].pc = "keys" /\ build'[e].done = build[e].done
        /\ build'[e].envelope = build'[e].todo
        /\ UNCHANGED <<job, file, audits, trouble>> /\ build[e].pc = "snapshot"
    BY <1>5 DEF Snapshot, TInv, BuildOK, BuildRecord
  <2> QED
    BY <1>3, <2>1 DEF Building, Audited, Active
<1>6. ASSUME LoadKeys(e) PROVE Building(e)'
  <2>1. /\ build'[e].pc = "append" /\ build'[e].done = build[e].done
        /\ build'[e].envelope = build[e].envelope /\ build'[e].todo = build[e].todo
        /\ UNCHANGED <<job, audits, trouble>> /\ build[e].pc = "keys"
    BY <1>6 DEF LoadKeys, TInv, BuildOK, BuildRecord
  <2> QED
    BY <1>3, <2>1 DEF Building, Audited, Active
<1>7. ASSUME NEW a \in Atts, ArchiveEntry(e, a) PROVE Building(e)'
  <2>1. /\ UNCHANGED <<job, file, audits, trouble>> /\ build[e].pc = "append"
        /\ build'[e].envelope = build[e].envelope
        /\ \/ /\ build'[e].pc = "append"
              /\ build'[e].done = build[e].done \cup {a}
              /\ build'[e].todo = build[e].todo \ {a} /\ a \in build[e].todo
           \/ build'[e].pc = "fail"
    BY <1>7 DEF ArchiveEntry, TInv, BuildOK, BuildRecord
  <2> QED
    BY <1>3, <2>1 DEF Building, Audited, Active
<1>8. ASSUME Built(e) PROVE Building(e)'
  <2>1. /\ UNCHANGED <<file, trouble>> /\ build[e].pc = "append" /\ build[e].todo = {}
        /\ build'[e].pc = "done" /\ build'[e].done = build[e].done
        /\ build'[e].envelope = build[e].envelope
        /\ job'[e].status = "ready" /\ job'[e].ref /\ audits'[e] = audits[e] + 1
    BY <1>8 DEF Built, MarkReady, ToBuild, TInv, BuildOK, BuildRecord, JobOK, GhostOK
  <2> QED
    BY <1>3, <2>1 DEF Building, Audited, Terminal
<1>9. ASSUME BuildThrows(e) PROVE Building(e)'
  <2>1. UNCHANGED <<job, file, audits, trouble>> /\ build'[e].pc = "fail"
        /\ build[e].pc \in {"start", "snapshot", "keys", "append"}
    BY <1>9 DEF BuildThrows, ToBuild, TInv, BuildOK, BuildRecord
  <2> QED
    BY <1>3, <2>1 DEF Building, Audited, Active
<1>10. ASSUME BuildFailed(e) PROVE Building(e)'
  <2>1. build[e].pc = "fail" /\ build'[e].pc = "unlink" /\ file' = file
    BY <1>10 DEF BuildFailed, ToBuild, TInv, BuildOK, BuildRecord
  <2>2. \/ /\ job'[e].status = "failed" /\ audits'[e] = audits[e] + 1 /\ trouble' = trouble
        \/ /\ UNCHANGED <<job, audits>> /\ trouble'[e] = trouble[e] \cup {"lost"}
    BY <1>10 DEF BuildFailed, MarkFailed, TInv, JobOK, GhostOK
  <2> QED
    BY <1>3, <2>1, <2>2 DEF Building, Audited, Active, Terminal
<1>11. ASSUME Unlink(e) PROVE Building(e)'
  <2>1. /\ build[e].pc = "unlink" /\ build'[e].pc = "done" /\ UNCHANGED <<job, audits, trouble>>
        /\ file'[e].size = 0
    BY <1>11, IdleTypes DEF Unlink, ToBuild, TInv, BuildOK, BuildRecord, FileOK
  <2> QED
    BY <1>3, <2>1 DEF Building, Audited
<1> QED
  BY <1>1, <1>2, <1>4, <1>5, <1>6, <1>7, <1>8, <1>9, <1>10, <1>11 DEF Build, JInv

LEMMA RestartJInv ==
  ASSUME TInv, JInv, Restart
  PROVE  JInv'
<1>1. \A j \in Jobs : Remembers(j)
  BY DEF Restart, Remembers
<1>2. \A j \in Jobs : InFlight(j)' = {}
  BY IdleTypes DEF Restart, InFlight
<1>3. ASSUME NEW j \in Jobs, job[j].status \in Active
      PROVE  /\ job'[j].status = "failed" /\ job'[j].ref = job[j].ref /\ file'[j].size = 0
             /\ "boot" \in trouble'[j]
  BY <1>3, IdleTypes DEF Restart, ReapAtBoot, TInv, JobOK
<1>4. ASSUME NEW j \in Jobs, job[j].status \notin Active
      PROVE  job'[j] = job[j] /\ file'[j] = file[j]
  BY <1>4 DEF Restart, ReapAtBoot
<1>5. audits' = audits
  BY DEF Restart
<1>6. ASSUME NEW j \in Imports PROVE Importing(j)'
  <2>1. Validated(j)'
    BY <1>2 DEF Validated
  <2>2. Untangled(j)' => Single(j)'
    <3> HAVE Untangled(j)'
    <3>1. Single(j)
      BY <1>1 DEF JInv, Importing, Untangled, Remembers
    <3>2. CASE job[j].status \in Active
      BY <1>2, <1>3, <3>2 DEF Single
    <3>3. CASE job[j].status \notin Active
      BY <1>1, <1>2, <1>4, <1>5, <3>1, <3>3 DEF Single, Audited, Remembers
    <3> QED
      BY <3>2, <3>3
  <2> QED
    BY <2>1, <2>2 DEF Importing
<1>7. ASSUME NEW e \in Exports PROVE Building(e)'
  <2>1. /\ build'[e] = IF build[e].pc = "done" THEN build[e] ELSE NoBuild
        /\ build[e].pc = "unlink" => "unlink" \in trouble'[e]
    BY DEF Restart
  <2>2. NoBuild.pc = "idle" /\ NoBuild.done = {}
    BY DEF NoBuild
  <2>3. CASE job[e].status \in Active
    BY <1>3, <2>1, <2>2, <2>3 DEF JInv, Building, Active
  <2>4. CASE job[e].status \notin Active
    <3>1. Audited(e)' <=> Audited(e)
      BY <1>4, <1>5, <2>4 DEF Audited
    <3> QED
      BY <1>1, <1>4, <2>1, <2>2, <2>4, <3>1 DEF JInv, Building, Remembers, Active
  <2> QED
    BY <2>3, <2>4
<1> QED
  BY <1>6, <1>7 DEF JInv

LEMMA StepJInv ==
  ASSUME TInv, JInv, [Next]_vars
  PROVE  JInv'
<1> USE DEF mem, db
<1>1. CASE UNCHANGED <<job, file, proc, build, audits, trouble>>
  BY <1>1, SweepJInv
<1>2. CASE UNCHANGED vars \/ Issue \/ EnterWork \/ SweepList \/ SweepJudge \/ SweepHide
  <2>1. UNCHANGED <<job, file, proc, build, audits, trouble>>
    BY <1>2 DEF vars, Issue, EnterWork, SweepList, SweepJudge, SweepHide
  <2> QED
    BY <1>1, <2>1
<1>3. ASSUME NEW h \in Handlers, Patch(h) \/ Restore(h) \/ RestoreThrows(h) \/ FailureLost(h)
      PROVE  JInv'
  BY <1>3, UploadJInv, RestoreJInv, EndJInv DEF Patch, Restore
<1> QED
  BY <1>2, <1>3, CreateJInv, BuildJInv, RestartJInv DEF Next

LEMMA JobsHold == Spec => [](TInv /\ JInv)
<1>1. Init => TInv /\ JInv
  BY InitTInv, InitJInv
<1>2. TInv /\ JInv /\ [Next]_vars => (TInv /\ JInv)'
  BY StepTInv, StepJInv
<1> QED
  BY <1>1, <1>2, PTL DEF Spec

\* A ready export holds every attachment of its own snapshot, whatever imports
\* replace while it is built (AC-325).
THEOREM Exported == Spec => []ExportWhole
<1>1. JInv => ExportWhole
  BY DEF JInv, Building, ExportWhole
<1> QED
  BY <1>1, JobsHold, PTL

\* No plaintext archive is forgotten on the disk, except by the two ways the
\* property names: a restart in the middle of a removal, overlapping uploads.
THEOREM Staged == Spec => []StagedReachable
<1>1. JInv => StagedReachable
  BY DEF JInv, Importing, Untangled, Single, Building, StagedReachable
<1> QED
  BY <1>1, JobsHold, PTL

\* A terminal status comes with exactly one audit row, except for the jobs a
\* boot reaped and overlapping uploads (AC-332).
THEOREM Audits == Spec => []AuditedOnce
<1>1. JInv => AuditedOnce
  BY DEF JInv, Importing, Untangled, Single, Building, Audited, AuditedOnce
<1> QED
  BY <1>1, JobsHold, PTL

\* The database is wiped for an intact archive only, also when uploads of it
\* overlapped, were resumed from another file or were restored twice.
THEOREM Wipes == Spec => WipesOnlyIntact
<1>1. TInv /\ JInv /\ [Next]_vars =>
        [\A h \in Handlers : proc[h].pc = "wipe" /\ proc'[h].pc = "hide"
           => \/ file[proc[h].job].good /\ file[proc[h].job].size >= Len
              \/ audits[proc[h].job] > 0]_vars
  <2> SUFFICES ASSUME TInv, JInv, NEW h \in Handlers, proc[h].pc = "wipe"
               PROVE  Intact(proc[h].job) \/ audits[proc[h].job] > 0
    BY DEF Intact
  <2>1. PICK j \in Imports : j = proc[h].job
    BY DEF TInv, ProcOK, Working
  <2>2. h \in InFlight(j) /\ Validated(j)
    BY <2>1 DEF InFlight, JInv, Importing
  <2> QED
    BY <2>1, <2>2 DEF Validated, Checked
<1> QED
  BY <1>1, JobsHold, PTL DEF Spec, WipesOnlyIntact

-----------------------------------------------------------------------------
(* One restore at a time *)

\* The requests that create jobs come one after another: the check for an active
\* job and the insert of the new one are two statements (import-jobs.ts), and what
\* keeps them apart is the deployment (ImportService.ts:738).  With two posters at
\* once two imports wipe and insert in turns: neither theorem that assumes this
\* holds then.
OnePoster == \A p, q \in Posters : p = q

Lone ==
  /\ \A i, j \in ActiveOfKind("import") : i = j
  /\ \A p \in Posters : post[p].pc # "idle" /\ post[p].kind = "import" =>
        ActiveOfKind("import") = {}

\* What a restore finds of its own work at each of its statements.
Restoring(h) ==
  /\ proc[h].pc = "hide" => Present = {}
  /\ proc[h].pc \in {"put", "insert"} =>
       /\ proc[h].todo \subseteq Carried
       /\ Present = Carried \ proc[h].todo
       /\ \A a \in Present : rows[a] = proc[h].job
  /\ proc[h].pc = "insert" /\ ~ Sweeping =>
       object[proc[h].att].shown /\ object[proc[h].att].seal = proc[h].job

Readable == \A a \in Present : object[a].shown /\ object[a].seal = rows[a]

RInv ==
  /\ ~ Overlap => /\ Lone
                  /\ \A h \in Handlers : Restoring(h)
                  /\ ~ Sweeping => Readable
  /\ ~ Sweeping => sweep.pc = "idle"

LEMMA InitRInv == Init => RInv
<1> SUFFICES ASSUME Init PROVE RInv
  OBVIOUS
<1>1. ActiveOfKind("import") = {}
  BY DEF Init, ActiveOfKind, OfKind, NoJob, Active
<1>2. \A h \in Handlers : Restoring(h)
  BY DEF Init, Restoring, IdleProc
<1>3. Readable
  <2>1. \A a \in Present : work /\ a \in InitAtts
    BY DEF Init, Present
  <2> QED
    BY <2>1 DEF Init, Readable, Present
<1>4. sweep.pc = "idle"
  BY DEF Init, NoSweep
<1> QED
  BY <1>1, <1>2, <1>3, <1>4 DEF RInv, Lone

\* Two handlers that work are the same one.
LEMMA Sole ==
  ASSUME TInv, JInv, Lone, ~ Overlap,
         NEW h \in Handlers, NEW g \in Handlers, proc[h].pc # "idle", proc[g].pc # "idle"
  PROVE  g = h /\ proc[h].job \in ActiveOfKind("import")
<1>1. proc[h].job \in Imports /\ proc[g].job \in Imports
  BY DEF TInv, ProcOK, Working
<1>2. ASSUME NEW f \in Handlers, proc[f].pc # "idle", proc[f].job \in Imports
      PROVE  f \in InFlight(proc[f].job) /\ proc[f].job \in ActiveOfKind("import")
             /\ Single(proc[f].job)
  <2>1. PICK j \in Imports : j = proc[f].job
    BY <1>2
  <2>2. f \in InFlight(j) /\ Single(j)
    BY <1>2, <2>1 DEF InFlight, JInv, Importing, Untangled, Overlap
  <2> QED
    BY <2>1, <2>2 DEF Single, ActiveOfKind, OfKind, Active
<1>3. proc[h].job = proc[g].job
  BY <1>1, <1>2 DEF Lone
<1> QED
  BY <1>1, <1>2, <1>3 DEF Single

\* Overlaps are remembered.
LEMMA OverlapStays ==
  ASSUME TInv, [Next]_vars
  PROVE  Overlap => Overlap'
<1>1. \A j \in Jobs : Remembers(j)
  <2>1. ASSUME NEW p \in Posters, Create(p) PROVE trouble' = trouble
    BY <2>1 DEF Create, PostCheck, PostSweep, PostCreate
  <2>2. ASSUME NEW h \in Handlers, Patch(h) PROVE \A j \in Jobs : Remembers(j)
    <3>1. ASSUME NEW i \in Imports, NEW alien \in BOOLEAN, PatchBegin(h, i, alien), NEW j \in Jobs
          PROVE  Remembers(j)
      BY <3>1 DEF PatchBegin, Remembers, TInv, GhostOK
    <3>2. Append(h) \/ PatchEnd(h) => trouble' = trouble
      BY DEF Append, PatchEnd
    <3> QED
      BY <2>2, <3>1, <3>2 DEF Patch, Remembers
  <2>3. ASSUME NEW h \in Handlers, Restore(h) \/ RestoreThrows(h) PROVE trouble' = trouble
    BY <2>3 DEF Restore, RestoreThrows, PatchComplete, Validate, Probe, CheckKeepsNumbered,
                ReadTarget, WipeAndInsert, HideWiped, PutEntry, InsertRow, Restored, RestoreFailed
  <2>4. ASSUME NEW h \in Handlers, FailureLost(h) PROVE \A j \in Jobs : Remembers(j)
    BY <2>4 DEF FailureLost, Remembers, TInv, GhostOK
  <2>5. ASSUME NEW e \in Exports, Build(e) \/ BuildThrows(e) PROVE \A j \in Jobs : Remembers(j)
    BY <2>5, BuildAlone DEF Remembers
  <2>6. Restart => \A j \in Jobs : Remembers(j)
    BY DEF Restart, Remembers
  <2>7. UNCHANGED vars \/ (\E j \in Jobs : SweepStaged(j)) \/ Issue \/ EnterWork
          \/ SweepList \/ SweepJudge \/ SweepHide => trouble' = trouble
    BY DEF vars, SweepStaged, Issue, EnterWork, SweepList, SweepJudge, SweepHide
  <2> QED
    BY <2>1, <2>2, <2>3, <2>4, <2>5, <2>6, <2>7 DEF Next, Remembers
<1> QED
  BY <1>1 DEF Overlap, Remembers

LEMMA StepLone ==
  ASSUME OnePoster, TInv, JInv, Lone, ~ Overlap, [Next]_vars
  PROVE  Lone'
<1> USE DEF mem, db
<1>1. ASSUME ActiveOfKind("import")' \subseteq ActiveOfKind("import"),
             \A p \in Posters : post'[p].pc # "idle" /\ post'[p].kind = "import" =>
                (post[p].pc # "idle" /\ post[p].kind = "import") \/ ActiveOfKind("import") = {}
      PROVE  Lone'
  BY <1>1 DEF Lone
<1>2. ASSUME UNCHANGED post,
             \A j \in Imports : job'[j].status \in Active => job[j].status \in Active
      PROVE  Lone'
  <2>1. ActiveOfKind("import")' \subseteq ActiveOfKind("import")
    BY <1>2 DEF ActiveOfKind, OfKind
  <2> QED
    BY <1>1, <1>2, <2>1
<1>3. ASSUME NEW p \in Posters, NEW k, PostCheck(p, k) PROVE Lone'
  <2>1. ActiveOfKind("import")' = ActiveOfKind("import")
    BY <1>3 DEF PostCheck, ActiveOfKind
  <2>2. \A q \in Posters \ {p} : post'[q] = post[q]
    BY <1>3 DEF PostCheck, TInv, PostOK
  <2>3. post'[p].kind = k /\ ActiveOfKind(k) = {}
    BY <1>3 DEF PostCheck, TInv, PostOK
  <2> QED
    BY <1>1, <2>1, <2>2, <2>3
<1>4. ASSUME NEW p \in Posters, PostSweep(p) PROVE Lone'
  <2>1. \A j \in Imports : job'[j].status \in Active => job[j].status \in Active
    BY <1>4 DEF PostSweep, TInv, JobOK
  <2>2. ActiveOfKind("import")' \subseteq ActiveOfKind("import")
    BY <2>1 DEF ActiveOfKind, OfKind
  <2>3. \A q \in Posters : post'[q].kind = post[q].kind /\ (post'[q].pc # "idle" => post[q].pc # "idle")
    BY <1>4 DEF PostSweep, TInv, PostOK
  <2> QED
    BY <1>1, <2>2, <2>3
<1>5. ASSUME NEW p \in Posters, PostCreate(p) PROVE Lone'
  <2>1. \A q \in Posters : q = p /\ post'[q].pc = "idle"
    BY <1>5 DEF OnePoster, PostCreate, TInv, PostOK, IdlePost
  <2>2. PICK j \in OfKind(post[p].kind) : job' = [job EXCEPT ![j].status = "pending"]
    BY <1>5 DEF PostCreate
  <2>3. CASE post[p].kind = "import"
    <3>1. \A i \in Imports : job[i].status \notin Active
      BY <1>5, <2>3 DEF Lone, PostCreate, ActiveOfKind, OfKind
    <3>2. \A i \in Imports \ {j} : job'[i] = job[i]
      BY <2>2 DEF TInv, JobOK
    <3>3. ActiveOfKind("import")' \subseteq {j}
      BY <3>1, <3>2 DEF ActiveOfKind, OfKind
    <3> QED
      BY <2>1, <3>3 DEF Lone
  <2>4. CASE post[p].kind # "import"
    <3>1. \A i \in Imports : job'[i] = job[i]
      BY <2>2, <2>4 DEF TInv, JobOK, OfKind
    <3>2. ActiveOfKind("import")' = ActiveOfKind("import")
      BY <3>1 DEF ActiveOfKind, OfKind
    <3> QED
      BY <1>1, <2>1, <3>2
  <2> QED
    BY <2>3, <2>4
<1>6. ASSUME NEW h \in Handlers, PatchComplete(h) PROVE Lone'
  <2>1. PICK j \in Imports : j = proc[h].job
    BY <1>6 DEF PatchComplete, TInv, ProcOK, Working
  <2>2. job[j].status \in Active
    BY <1>6, <2>1, Sole DEF PatchComplete, ActiveOfKind, OfKind
  <2>3. UNCHANGED post /\ \A i \in Imports \ {j} : job'[i] = job[i]
    BY <1>6, <2>1 DEF PatchComplete, TInv, JobOK
  <2> QED
    BY <1>2, <2>2, <2>3
<1>7. ASSUME NEW h \in Handlers,
             Patch(h) \/ Restore(h) \/ RestoreThrows(h) \/ FailureLost(h), ~ PatchComplete(h)
      PROVE  Lone'
  <2>1. UNCHANGED post
    BY <1>7 DEF Patch, PatchBegin, Append, PatchEnd, Restore, RestoreThrows, FailureLost, Validate,
                Probe, CheckKeepsNumbered, ReadTarget, WipeAndInsert, HideWiped, PutEntry, InsertRow,
                Restored, RestoreFailed
  <2>2. job' = job \/ Restored(h) \/ RestoreFailed(h)
    BY <1>7 DEF Patch, PatchBegin, Append, PatchEnd, Restore, RestoreThrows, FailureLost, Validate,
                Probe, CheckKeepsNumbered, ReadTarget, WipeAndInsert, HideWiped, PutEntry, InsertRow
  <2>3. \A j \in Imports : job'[j].status \in Active => job[j].status \in Active
    BY <2>2 DEF Restored, RestoreFailed, MarkReady, MarkFailed, TInv, JobOK, Active
  <2> QED
    BY <1>2, <2>1, <2>3
<1>8. ASSUME NEW e \in Exports, Build(e) \/ BuildThrows(e) PROVE Lone'
  <2>1. UNCHANGED post
    BY <1>8 DEF Build, BuildThrows, StartBuild, Snapshot, LoadKeys, ArchiveEntry, Built,
                BuildFailed, Unlink
  <2> QED
    BY <1>2, <1>8, <2>1, BuildAlone
<1>9. ASSUME NEW j \in Jobs, SweepStaged(j) PROVE Lone'
  BY <1>2, <1>9 DEF SweepStaged, TInv, JobOK
<1>10. CASE Restart
  <2>1. \A j \in Imports : job'[j].status \notin Active
    BY <1>10 DEF Restart, ReapAtBoot, TInv, JobOK, Active
  <2>2. ActiveOfKind("import")' = {}
    BY <2>1 DEF ActiveOfKind, OfKind
  <2> QED
    BY <2>2 DEF Lone
<1>11. CASE UNCHANGED vars \/ Issue \/ EnterWork \/ SweepList \/ SweepJudge \/ SweepHide
  <2>1. UNCHANGED <<job, post>>
    BY <1>11 DEF vars, Issue, EnterWork, SweepList, SweepJudge, SweepHide
  <2> QED
    BY <1>2, <2>1
<1> QED
  BY <1>3, <1>4, <1>5, <1>6, <1>7, <1>8, <1>9, <1>10, <1>11 DEF Next, Create

\* what a restore and the rows promise, without overlapping uploads
RestoreInv == /\ \A h \in Handlers : Restoring(h)
              /\ ~ Sweeping => Readable

\* A step that leaves rows and objects alone, and the handlers as they are or idle.
LEMMA RestoreFrame ==
  ASSUME RestoreInv, rows' = rows, ~ Sweeping => object' = object,
         \A h \in Handlers : Restoring(h) =>
            proc'[h] = proc[h] \/ proc'[h].pc \notin {"hide", "put", "insert"}
  PROVE  RestoreInv'
<1>1. Present' = Present
  BY DEF Present
<1>2. ASSUME NEW h \in Handlers PROVE Restoring(h)'
  BY <1>1 DEF RestoreInv, Restoring
<1>3. ~ Sweeping => Readable'
  BY <1>1 DEF RestoreInv, Readable
<1> QED
  BY <1>2, <1>3 DEF RestoreInv

\* A step of the only handler that works.
LEMMA StepRestoring ==
  ASSUME TInv, JInv, Lone, ~ Overlap, RestoreInv, NEW h \in Handlers,
         Restore(h) \/ RestoreThrows(h) \/ FailureLost(h)
  PROVE  RestoreInv'
<1> USE DEF mem, db
<1>1. proc[h].pc # "idle"
  BY DEF Restore, RestoreThrows, FailureLost, PatchComplete, Validate, Probe, CheckKeepsNumbered,
         ReadTarget, WipeAndInsert, HideWiped, PutEntry, InsertRow, Restored, RestoreFailed
<1>2. Alone(h)
  BY HandlerSteps DEF Restore
<1>3. \A g \in Handlers \ {h} : Restoring(g)'
  BY <1>1, <1>2, Sole DEF Alone, Restoring
<1>4. Restoring(h) /\ Working(h) /\ proc[h] \in ProcRecord
  BY DEF RestoreInv, TInv, ProcOK
<1>5. CASE \/ PatchComplete(h) \/ Validate(h) \/ Probe(h) \/ CheckKeepsNumbered(h) \/ ReadTarget(h)
           \/ Restored(h) \/ RestoreFailed(h) \/ RestoreThrows(h) \/ FailureLost(h)
  <2>1. UNCHANGED <<rows, object>>
    BY <1>5 DEF RestoreThrows, FailureLost, PatchComplete, Validate, Probe, CheckKeepsNumbered,
                ReadTarget, Restored, RestoreFailed
  <2>2. proc'[h].pc \notin {"hide", "put", "insert"}
    BY <1>5, HandlerSteps
  <2> QED
    BY <1>2, <2>1, <2>2, RestoreFrame DEF Alone
<1>6. CASE WipeAndInsert(h)
  <2>1. Present' = {}
    BY <1>6 DEF WipeAndInsert, Present
  <2>2. proc'[h].pc = "hide"
    BY <1>6, HandlerSteps
  <2> QED
    BY <1>3, <2>1, <2>2 DEF RestoreInv, Restoring, Readable
<1>7. CASE HideWiped(h)
  <2>1. Present' = {}
    BY <1>4, <1>7 DEF HideWiped, Present, Restoring
  <2>2. proc'[h].pc = "put" /\ proc'[h].todo = Carried
    BY <1>7, HandlerSteps
  <2> QED
    BY <1>3, <2>1, <2>2 DEF RestoreInv, Restoring, Readable
<1>8. ASSUME NEW a \in Atts, PutEntry(h, a) PROVE RestoreInv'
  <2>1. rows' = rows /\ Present' = Present /\ proc[h].pc = "put" /\ a \in proc[h].todo
    BY <1>8 DEF PutEntry, Present
  <2>2. proc'[h].pc = "insert" /\ Same(h) /\ proc'[h].att = a
    BY <1>8, HandlerSteps
  <2>3. /\ object'[a].shown /\ object'[a].seal = proc[h].job
        /\ \A b \in Atts \ {a} : object'[b] = object[b]
    BY <1>8 DEF PutEntry, TInv, ObjectOK
  <2>4. Present = Carried \ proc[h].todo
    BY <1>4, <2>1 DEF Restoring
  <2>5. Restoring(h)'
    BY <1>4, <2>1, <2>2, <2>3 DEF Restoring, Same
  <2>6. Readable => Readable'
    BY <2>1, <2>3, <2>4 DEF Readable, Present
  <2> QED
    BY <1>3, <2>5, <2>6 DEF RestoreInv
<1>9. CASE InsertRow(h)
  <2>1. PICK a \in Atts : a = proc[h].att /\ a \in proc[h].todo
    BY <1>4, <1>9 DEF InsertRow, Working, ProcRecord
  <2>2. PICK j \in Imports : j = proc[h].job
    BY <1>4, <1>9 DEF InsertRow, Working
  <2>3. proc[h].pc = "insert" /\ object' = object
    BY <1>9 DEF InsertRow
  <2>4. CASE rows[a] # None
    <3>1. rows' = rows /\ Enter(h, "fail")
      BY <1>9, <2>1, <2>4 DEF InsertRow
    <3>2. proc'[h].pc = "fail"
      BY <3>1 DEF Enter, TInv, ProcOK, ProcRecord
    <3> QED
      BY <1>2, <2>3, <3>1, <3>2, RestoreFrame DEF Alone
  <2>5. CASE rows[a] = None
    <3>1. rows' = [rows EXCEPT ![a] = j]
      BY <1>9, <2>1, <2>2, <2>5 DEF InsertRow
    <3>2. rows'[a] = j /\ j # None /\ \A b \in Atts \ {a} : rows'[b] = rows[b]
      BY <3>1 DEF TInv, DbOK
    <3>3. Present' = Present \cup {a}
      BY <3>2 DEF Present
    <3>4. proc'[h].pc = "put" /\ proc'[h].todo = proc[h].todo \ {a} /\ proc'[h].job = j
      <4>1. proc' = [proc EXCEPT ![h].pc = "put", ![h].att = None, ![h].todo = @ \ {a}]
        BY <1>9, <2>1, <2>5 DEF InsertRow
      <4> QED
        BY <1>4, <2>2, <4>1 DEF TInv, ProcOK, ProcRecord
    <3>5. Restoring(h)'
      BY <1>4, <2>1, <2>2, <2>3, <3>2, <3>3, <3>4 DEF Restoring
    <3>6. ~ Sweeping => Readable'
      BY <1>4, <2>1, <2>2, <2>3, <3>2, <3>3 DEF RestoreInv, Readable, Restoring
    <3> QED
      BY <1>3, <3>5, <3>6 DEF RestoreInv
  <2> QED
    BY <2>4, <2>5
<1> QED
  BY <1>5, <1>6, <1>7, <1>8, <1>9 DEF Restore

LEMMA StepRInv ==
  ASSUME OnePoster, TInv, JInv, RInv, [Next]_vars
  PROVE  RInv'
<1> USE DEF mem, db
<1>1. ~ Sweeping => sweep'.pc = "idle"
  <2> SUFFICES ASSUME ~ Sweeping, sweep.pc = "idle" PROVE sweep'.pc = "idle"
    BY DEF RInv
  <2>1. ASSUME NEW h \in Handlers, Patch(h) \/ Restore(h) \/ RestoreThrows(h) \/ FailureLost(h)
        PROVE  sweep' = sweep
    BY <2>1 DEF Patch, PatchBegin, Append, PatchEnd, Restore, RestoreThrows, FailureLost,
                PatchComplete, Validate, Probe, CheckKeepsNumbered, ReadTarget, WipeAndInsert,
                HideWiped, PutEntry, InsertRow, Restored, RestoreFailed
  <2>2. (\E p \in Posters : Create(p)) \/ (\E e \in Exports : Build(e) \/ BuildThrows(e))
          \/ (\E j \in Jobs : SweepStaged(j)) \/ Issue \/ EnterWork \/ UNCHANGED vars =>
             sweep' = sweep
    BY DEF vars, Create, PostCheck, PostSweep, PostCreate, Build, BuildThrows, StartBuild,
           Snapshot, LoadKeys, ArchiveEntry, Built, BuildFailed, Unlink, SweepStaged, Issue,
           EnterWork
  <2>3. Restart \/ SweepList \/ SweepJudge \/ SweepHide => sweep'.pc = "idle"
    BY DEF Restart, SweepList, SweepJudge, SweepHide, NoSweep
  <2> QED
    BY <2>1, <2>2, <2>3 DEF Next
<1>2. ASSUME ~ Overlap' PROVE Lone' /\ RestoreInv'
  <2>1. Lone /\ RestoreInv /\ ~ Overlap
    BY <1>2, OverlapStays DEF RInv, RestoreInv
  <2>2. Lone'
    BY <2>1, StepLone
  <2>3. ASSUME NEW h \in Handlers, Patch(h) PROVE RestoreInv'
    <3>1. UNCHANGED <<rows, object>>
      BY <2>3 DEF Patch, PatchBegin, Append, PatchEnd
    <3>2. Alone(h) /\ proc'[h].pc \in {"append", "idle"}
      BY <2>3, HandlerSteps DEF Patch
    <3> QED
      BY <2>1, <3>1, <3>2, RestoreFrame DEF Alone
  <2>4. ASSUME NEW h \in Handlers, Restore(h) \/ RestoreThrows(h) \/ FailureLost(h)
        PROVE  RestoreInv'
    BY <2>1, <2>4, StepRestoring
  <2>5. CASE Restart
    <3>1. UNCHANGED <<rows, object>> /\ \A h \in Handlers : proc'[h].pc = "idle"
      BY <2>5, IdleTypes DEF Restart
    <3> QED
      BY <2>1, <2>2, <3>1, RestoreFrame
  <2>6. CASE \/ UNCHANGED vars \/ (\E p \in Posters : Create(p))
             \/ (\E e \in Exports : Build(e) \/ BuildThrows(e))
             \/ (\E j \in Jobs : SweepStaged(j))
             \/ Issue \/ EnterWork \/ SweepList \/ SweepJudge \/ SweepHide
    <3>1. UNCHANGED <<rows, proc>>
      BY <2>6 DEF vars, Create, PostCheck, PostSweep, PostCreate, Build, BuildThrows, StartBuild,
                  Snapshot, LoadKeys, ArchiveEntry, Built, BuildFailed, Unlink, SweepStaged,
                  Issue, EnterWork, SweepList, SweepJudge, SweepHide
    <3>2. ~ Sweeping => object' = object
      <4>1. ~ Sweeping => ~ SweepHide
        BY DEF RInv, SweepHide
      <4> QED
        BY <2>6, <4>1
           DEF vars, Create, PostCheck, PostSweep, PostCreate, Build, BuildThrows, StartBuild,
               Snapshot, LoadKeys, ArchiveEntry, Built, BuildFailed, Unlink, SweepStaged,
               Issue, EnterWork, SweepList, SweepJudge
    <3> QED
      BY <2>1, <2>2, <3>1, <3>2, RestoreFrame
  <2> QED
    BY <2>2, <2>3, <2>4, <2>5, <2>6 DEF Next
<1> QED
  BY <1>1, <1>2 DEF RInv, RestoreInv

LEMMA RestoresHold == ASSUME OnePoster PROVE Spec => [](TInv /\ JInv /\ RInv)
<1>1. Init => RInv
  BY InitRInv
<1>2. TInv /\ JInv /\ RInv /\ [Next]_vars => RInv'
  BY StepRInv
<1> QED
  BY <1>1, <1>2, JobsHold, PTL DEF Spec

\* An import is ready only with every attachment of its archive in place and
\* sealed by its own run, after crashes and failed runs before it (AC-328).
THEOREM Restores == ASSUME OnePoster PROVE Spec => ReadyRestored
<1>1. TInv /\ JInv /\ RInv /\ [Next]_vars =>
        [\A j \in Imports : job[j].status # "ready" /\ job'[j].status = "ready"
           => Overlap \/ \A a \in Carried : rows[a] = j]_vars
  <2> SUFFICES ASSUME TInv, JInv, RInv, Next, ~ Overlap, NEW j \in Imports,
                      job[j].status # "ready", job'[j].status = "ready"
               PROVE  \A a \in Carried : rows[a] = j
    OBVIOUS
  <2>1. PICK h \in Handlers : Restored(h) /\ proc[h].job = j
    <3>1. ASSUME NEW h \in Handlers, Restored(h) PROVE proc[h].job = j
      BY <3>1 DEF Restored, MarkReady, TInv, JobOK
    <3>2. job[j] \in [status : Active \cup Terminal \cup {"none"}, ref : BOOLEAN]
      BY DEF TInv, JobOK
    <3>3. ASSUME NEW h \in Handlers,
                 Patch(h) \/ Restore(h) \/ RestoreThrows(h) \/ FailureLost(h), ~ Restored(h)
          PROVE  FALSE
      <4>1. job' = job \/ PatchComplete(h) \/ RestoreFailed(h)
        BY <3>3 DEF Patch, PatchBegin, Append, PatchEnd, Restore, RestoreThrows, FailureLost,
                    Validate, Probe, CheckKeepsNumbered, ReadTarget, WipeAndInsert, HideWiped,
                    PutEntry, InsertRow
      <4> QED
        BY <4>1 DEF PatchComplete, RestoreFailed, MarkFailed, TInv, JobOK
    <3>4. ASSUME NEW p \in Posters, Create(p) PROVE FALSE
      BY <3>2, <3>4 DEF Create, PostCheck, PostSweep, PostCreate, TInv, JobOK
    <3>5. ASSUME NEW e \in Exports, Build(e) \/ BuildThrows(e) PROVE FALSE
      BY <3>5, BuildAlone
    <3>6. ASSUME NEW i \in Jobs, SweepStaged(i) PROVE FALSE
      BY <3>2, <3>6 DEF SweepStaged, TInv, JobOK
    <3>7. CASE Restart
      BY <3>2, <3>7 DEF Restart
    <3>8. CASE Issue \/ EnterWork \/ SweepList \/ SweepJudge \/ SweepHide
      BY <3>8 DEF Issue, EnterWork, SweepList, SweepJudge, SweepHide
    <3> QED
      BY <3>1, <3>3, <3>4, <3>5, <3>6, <3>7, <3>8 DEF Next
  <2>2. proc[h].pc = "put" /\ proc[h].todo = {}
    BY <2>1 DEF Restored
  <2>3. Restoring(h)
    BY DEF RInv
  <2>4. Present = Carried
    BY <2>2, <2>3 DEF Restoring
  <2> QED
    BY <2>1, <2>2, <2>3, <2>4 DEF Restoring
<1> QED
  BY <1>1, RestoresHold, PTL DEF Spec, ReadyRestored

\* Whatever fails or restarts in the middle of an import, every attachment row
\* can be read, as long as no bucket sweep decides on a listing older than the
\* wipe: the run restore_sweep shows what happens then.
THEOREM Readability == ASSUME OnePoster, Sweeping = FALSE PROVE Spec => []RowsReadable
<1>1. RInv => RowsReadable
  BY DEF RInv, Readable, RowsReadable
<1> QED
  BY <1>1, RestoresHold, PTL
===========================================================================
