--------------------------- MODULE AttachmentProofs ---------------------------
(***************************************************************************)
(* Theorems about AttachmentLifecycle, for any number of sessions,         *)
(* projects, attachments and versions.                                     *)
(***************************************************************************)
EXTENDS AttachmentLifecycle, TLAPS

-----------------------------------------------------------------------------
(* Types *)

Status       == Live \cup {"none", "gone"}
Troubles     == {"hide", "rejected", "restore", "overlap", "old"}
Versions     == 0 .. MaxVersion
VersionPair  == [Parts -> Versions]
RowRecord    == [status : Status, version : VersionPair, aged : BOOLEAN]
ObjectRecord == [top : 0 .. MaxVersion, shown : BOOLEAN, kept : SUBSET (1 .. MaxVersion),
                 old : 0 .. MaxVersion, stale : SUBSET (1 .. MaxVersion)]
SweepRecord  == [pc : {"idle", "rows", "hide"}, listed : SUBSET Keys,
                 old : SUBSET Keys, orphans : SUBSET Keys]

\* what a handler on an attachment has still to do at each of its steps
Doing(t) ==
  \/ t.op = "init" /\ t.pc = "insert" /\ t.att \notin Pdfs
  \/ t.op \in {"complete", "hide"} /\ t.pc = "row" /\ t.todo = PartsOf(t.att)
  \/ t.op = "complete" /\ t.pc = "head" /\ t.todo # {}
  \/ t.op = "hide" /\ t.pc = "mark" /\ t.todo # {}
  \/ t.op \in {"complete", "hide"} /\ t.pc = "flip" /\ t.todo = {}
  \/ t.op = "restore" /\ t.pc \in {"row", "flip"} /\ t.todo = PartsOf(t.att)
  \/ t.op = "restore" /\ t.pc = "copy" /\ t.todo # {}
  \/ t.op = "restore" /\ t.pc = "record" /\ t.todo = {}
  \/ t.op = "issue" /\ t.pc \in {"put", "commit"} /\ t.att \in Pdfs

Resting(t) == t.op = "none" /\ t.pc = "idle" /\ t.att = None /\ t.keys = {}
Purging(t) == /\ t.op = "purge" /\ t.pc \in {"list", "check", "delete", "hide"}
              /\ t.att = None /\ t.prj \in Projects /\ (t.pc = "list" => t.keys = {})
Working(t) == t.att \in Attachments /\ t.todo \subseteq PartsOf(t.att) /\ t.keys = {} /\ Doing(t)

SessionOK(t) == t \in TxRecord /\ (Resting(t) \/ Purging(t) \/ Working(t))

\* the current version is there, and the lifecycle rule has no claim on it
ObjectOK(o) ==
  /\ o \in ObjectRecord /\ o.old <= o.top
  /\ o.kept \subseteq 1 .. o.top /\ o.stale \subseteq 1 .. o.old
  /\ o.shown => o.top \in o.kept /\ o.top \notin o.stale

RowsOK   == /\ project \in [Projects -> {"active", "archived", "gone"}]
            /\ row \in [Attachments -> RowRecord]
BucketOK == object \in [Keys -> ObjectRecord] /\ \A k \in Keys : ObjectOK(object[k])
SessionsOK == tx \in [Sessions -> TxRecord] /\ \A s \in Sessions : SessionOK(tx[s])
OthersOK == /\ puts \in SUBSET Keys /\ lock \in [Attachments -> Sessions \cup {None}]
            /\ trouble \in [Attachments -> SUBSET Troubles]
JobsOK   == reaping \in SUBSET Keys /\ expired \in SUBSET Attachments /\ sweep \in SweepRecord

TInv == RowsOK /\ BucketOK /\ SessionsOK /\ OthersOK /\ JobsOK

USE NamesAssumption, VersionAssumption

LEMMA TInvTypes == TInv => TypeOK
  BY DEF TInv, RowsOK, BucketOK, SessionsOK, OthersOK, JobsOK, TypeOK, RowRecord, ObjectRecord,
         SweepRecord, Status, Troubles, VersionPair, Versions

LEMMA PartFacts ==
  ASSUME NEW a \in Attachments
  PROVE  /\ PartsOf(a) \subseteq Parts /\ "orig" \in PartsOf(a)
         /\ a \in Pdfs => PartsOf(a) = {"orig"}
         /\ \A p \in PartsOf(a) : <<a, p>> \in KeysOf(a) /\ <<a, p>> \in Keys
         /\ \A k \in KeysOf(a) : \E p \in PartsOf(a) : k = <<a, p>>
  BY DEF PartsOf, Parts, KeysOf, Keys

LEMMA KeyFacts ==
  ASSUME NEW k \in Keys
  PROVE  \E a \in Attachments : k \in KeysOf(a) /\ \E p \in PartsOf(a) : k = <<a, p>>
  BY DEF KeysOf, Keys

LEMMA NextPartOK ==
  ASSUME NEW t, NEW a \in Attachments, t.todo \subseteq PartsOf(a), t.todo # {}
  PROVE  NextPart(t) \in t.todo /\ NextPart(t) \in PartsOf(a)
  BY DEF NextPart, PartsOf, Parts

\* a new version
LEMMA WrittenOK ==
  ASSUME NEW o, ObjectOK(o), o.top < MaxVersion, NEW w, w = Written(o)
  PROVE  /\ ObjectOK(w) /\ w.top = o.top + 1 /\ w.shown = TRUE /\ w.kept = o.kept \cup {o.top + 1}
         /\ w.old = o.old /\ w.stale = o.stale
<1>1. PICK b \in BOOLEAN : b = TRUE
  OBVIOUS
<1>2. w = [o EXCEPT !.top = o.top + 1, !.shown = b, !.kept = o.kept \cup {o.top + 1}]
  BY <1>1, Zenon DEF Written
<1>3. o \in ObjectRecord /\ o.top + 1 \in 0 .. MaxVersion
      /\ o.kept \cup {o.top + 1} \in SUBSET (1 .. MaxVersion)
  BY DEF ObjectOK, ObjectRecord
<1>4. /\ w \in ObjectRecord /\ w.top = o.top + 1 /\ w.shown = b /\ w.kept = o.kept \cup {o.top + 1}
      /\ w.old = o.old /\ w.stale = o.stale
  BY <1>2, <1>3 DEF ObjectRecord
<1>5. w.shown = TRUE
  BY <1>1, <1>4, Zenon
<1>6. w.old <= w.top /\ w.kept \subseteq 1 .. w.top /\ w.stale \subseteq 1 .. w.old
      /\ w.top \in w.kept /\ w.top \notin w.stale
  BY <1>3, <1>4 DEF ObjectOK, ObjectRecord
<1> QED
  BY <1>4, <1>5, <1>6 DEF ObjectOK

\* a delete marker
LEMMA MarkerOK ==
  ASSUME NEW o, ObjectOK(o), NEW w, w = Hidden(o)
  PROVE  /\ ObjectOK(w) /\ w.shown = FALSE /\ w.top = o.top /\ w.kept = o.kept
         /\ w.old = o.old /\ w.stale = o.stale
<1>1. PICK b \in BOOLEAN : b = FALSE
  OBVIOUS
<1>2. w = [o EXCEPT !.shown = b]
  BY <1>1, Zenon DEF Hidden
<1>3. /\ w \in ObjectRecord /\ w.shown = b /\ w.top = o.top /\ w.kept = o.kept
      /\ w.old = o.old /\ w.stale = o.stale
  BY <1>2 DEF ObjectOK, ObjectRecord
<1>4. w.shown = FALSE
  BY <1>1, <1>3, Zenon
<1> QED
  BY <1>3, <1>4 DEF ObjectOK

\* cutoffs pass
LEMMA TimeOK ==
  ASSUME NEW o, ObjectOK(o), NEW w, w = [o EXCEPT !.old = o.top, !.stale = Noncurrent(o)]
  PROVE  /\ ObjectOK(w) /\ w.shown = o.shown /\ w.top = o.top /\ w.kept = o.kept
         /\ w.old = o.top /\ w.stale = Noncurrent(o)
<1>1. Noncurrent(o) \subseteq o.kept /\ (o.shown => o.top \notin Noncurrent(o))
  BY DEF Noncurrent
<1>2. /\ w \in ObjectRecord /\ w.shown = o.shown /\ w.top = o.top /\ w.kept = o.kept
      /\ w.old = o.top /\ w.stale = Noncurrent(o)
  BY <1>1 DEF ObjectOK, ObjectRecord
<1> QED
  BY <1>1, <1>2 DEF ObjectOK, ObjectRecord

LEMMA NewRowOK ==
  ASSUME NEW st \in Status
  PROVE  /\ NewRow(st) \in RowRecord /\ NewRow(st).status = st /\ NewRow(st).aged = FALSE
<1>1. PICK b \in BOOLEAN : b = FALSE
  OBVIOUS
<1>2. NewRow(st) = [status |-> st, version |-> NoVersions, aged |-> b]
  BY <1>1, Zenon DEF NewRow
<1>3. NoVersions \in VersionPair
  BY DEF NoVersions, VersionPair, Versions
<1>4. /\ NewRow(st) \in RowRecord /\ NewRow(st).status = st /\ NewRow(st).aged = b
  BY <1>2, <1>3 DEF RowRecord
<1> QED
  BY <1>1, <1>4, Zenon

LEMMA GoneRow == NewRow("gone") \in RowRecord /\ NewRow("gone").status = "gone"
<1>1. NoVersions \in VersionPair /\ "gone" \in Status
  BY DEF NoVersions, VersionPair, Versions, Status
<1> QED
  BY <1>1, NewRowOK

-----------------------------------------------------------------------------
(* What a step does to the session that takes it *)

Steps == {"idle", "insert", "row", "head", "flip", "mark", "copy", "record",
          "put", "commit", "list", "check", "delete", "hide"}

\* session s goes on with t
Turn(s, t) == SessionOK(t) /\ tx' = [tx EXCEPT ![s] = t]

LEMMA IdleOK == SessionOK(Idle) /\ Resting(Idle)
<1>1. NoVersions \in VersionPair
  BY DEF NoVersions, VersionPair, Versions
<1>2. Idle \in TxRecord /\ Resting(Idle)
  BY <1>1 DEF Idle, TxRecord, Resting, VersionPair, Versions, Ops
<1> QED
  BY <1>2 DEF SessionOK

LEMMA PcTurn ==
  ASSUME NEW t0 \in TxRecord, NEW pc \in Steps, NEW t, t = [t0 EXCEPT !.pc = pc]
  PROVE  /\ t \in TxRecord /\ t.pc = pc /\ t.op = t0.op /\ t.att = t0.att /\ t.prj = t0.prj
         /\ t.todo = t0.todo /\ t.seen = t0.seen /\ t.keys = t0.keys
  BY DEF TxRecord, Steps

\* a handler on an attachment is one
LEMMA Worker ==
  ASSUME TInv, NEW s \in Sessions, tx[s].op \in Ops \ {"purge"}
  PROVE  /\ tx[s] \in TxRecord /\ Working(tx[s]) /\ tx[s].att \in Attachments
         /\ tx[s].todo \subseteq PartsOf(tx[s].att) /\ tx[s].keys = {}
  BY DEF TInv, SessionsOK, SessionOK, Resting, Purging, Working, Ops

LEMMA Purger ==
  ASSUME TInv, NEW s \in Sessions, tx[s].op = "purge"
  PROVE  tx[s] \in TxRecord /\ Purging(tx[s]) /\ tx[s].prj \in Projects
  BY DEF TInv, SessionsOK, SessionOK, Resting, Purging, Working, Doing

LEMMA Rester ==
  ASSUME TInv, NEW s \in Sessions, tx[s].pc = "idle"
  PROVE  tx[s] \in TxRecord /\ Resting(tx[s])
  BY DEF TInv, SessionsOK, SessionOK, Resting, Purging, Working, Doing

LEMMA StartFacts ==
  ASSUME TInv, NEW s \in Sessions, NEW a \in Attachments, NEW op \in Ops, NEW pc \in Steps,
         Start(s, op, pc, a),
         \/ op = "init" /\ pc = "insert" /\ a \notin Pdfs
         \/ op \in {"complete", "hide", "restore"} /\ pc = "row"
         \/ op = "issue" /\ pc = "put" /\ a \in Pdfs
  PROVE  /\ Resting(tx[s]) /\ OnlySession
         /\ \E t : /\ Turn(s, t) /\ t.op = op /\ t.pc = pc /\ t.att = a
                   /\ t.todo = PartsOf(a) /\ t.keys = {}
<1> DEFINE t == [Idle EXCEPT !.op = op, !.pc = pc, !.att = a, !.prj = ProjectOf[a],
                             !.todo = PartsOf(a)]
<1>1. Idle \in TxRecord /\ Idle.keys = {}
  BY IdleOK DEF SessionOK, Resting
<1>2. PartsOf(a) \subseteq Parts /\ ProjectOf[a] \in Projects
  BY PartFacts
<1>3. /\ t \in TxRecord /\ t.op = op /\ t.pc = pc /\ t.att = a /\ t.todo = PartsOf(a) /\ t.keys = {}
  BY <1>1, <1>2 DEF TxRecord, Steps
<1>4. tx' = [tx EXCEPT ![s] = t] /\ OnlySession /\ tx[s].pc = "idle"
  BY DEF Start, Goto
<1> HIDE DEF t
<1>5. SessionOK(t)
  BY <1>3 DEF SessionOK, Working, Doing
<1> QED
  BY <1>3, <1>4, <1>5, Rester DEF Turn

\* a handler on an attachment looks at its row
LEMMA ReadFacts ==
  ASSUME TInv, NEW s \in Sessions, ReadForComplete(s) \/ ReadForHide(s) \/ ReadForRestore(s),
         NEW a, a = tx[s].att
  PROVE  /\ a \in Attachments /\ tx[s].pc = "row" /\ tx[s].todo = PartsOf(a)
         /\ tx[s].op \in {"complete", "hide", "restore"}
         /\ \/ Reject(s)
            \/ /\ OnlySession
               /\ \E t : /\ Turn(s, t) /\ t.op = tx[s].op /\ t.att = a /\ t.todo = PartsOf(a)
                         /\ t.keys = {}
                         /\ \/ t.op = "complete" /\ t.pc = "head"
                            \/ t.op = "hide" /\ t.pc = "mark" /\ row[a].status \in Live
                            \/ t.op = "restore" /\ t.pc = "flip"
<1>1. tx[s].pc = "row" /\ tx[s].op \in {"complete", "hide", "restore"}
  BY DEF ReadForComplete, ReadForHide, ReadForRestore, Running
<1>2. /\ tx[s] \in TxRecord /\ a \in Attachments /\ tx[s].keys = {} /\ Doing(tx[s])
  BY <1>1, Worker DEF Ops, Working
<1>3. tx[s].todo = PartsOf(a) /\ PartsOf(a) # {}
  BY <1>1, <1>2, PartFacts DEF Doing
<1>4. CASE ReadForComplete(s) /\ ~ Reject(s)
  <2>1. PICK t : t = [tx[s] EXCEPT !.pc = "head"]
    OBVIOUS
  <2>2. tx' = [tx EXCEPT ![s] = t] /\ OnlySession /\ tx[s].op = "complete"
    BY <1>4, <2>1 DEF ReadForComplete, Goto, Running
  <2>3. /\ t \in TxRecord /\ t.pc = "head" /\ t.op = tx[s].op /\ t.att = tx[s].att
        /\ t.todo = tx[s].todo /\ t.keys = tx[s].keys
    BY <1>2, <2>1, PcTurn DEF Steps
  <2>4. SessionOK(t)
    BY <1>2, <1>3, <2>2, <2>3 DEF SessionOK, Working, Doing
  <2> QED
    BY <1>1, <1>2, <1>3, <2>2, <2>3, <2>4 DEF Turn
<1>5. CASE ReadForHide(s) /\ ~ Reject(s)
  <2>1. PICK t : t = [tx[s] EXCEPT !.pc = "mark"]
    OBVIOUS
  <2>2. tx' = [tx EXCEPT ![s] = t] /\ OnlySession /\ tx[s].op = "hide" /\ row[a].status \in Live
    BY <1>5, <2>1 DEF ReadForHide, Goto, Running
  <2>3. /\ t \in TxRecord /\ t.pc = "mark" /\ t.op = tx[s].op /\ t.att = tx[s].att
        /\ t.todo = tx[s].todo /\ t.keys = tx[s].keys
    BY <1>2, <2>1, PcTurn DEF Steps
  <2>4. SessionOK(t)
    BY <1>2, <1>3, <2>2, <2>3 DEF SessionOK, Working, Doing
  <2> QED
    BY <1>1, <1>2, <1>3, <2>2, <2>3, <2>4 DEF Turn
<1>6. CASE ReadForRestore(s) /\ ~ Reject(s)
  <2>1. PICK t : t = [tx[s] EXCEPT !.pc = "flip", !.seen = row[a].version]
    OBVIOUS
  <2>2. tx' = [tx EXCEPT ![s] = t] /\ OnlySession /\ tx[s].op = "restore"
    BY <1>6, <2>1 DEF ReadForRestore, Goto, Running
  <2>3. row[a].version \in VersionPair
    BY <1>2 DEF TInv, RowsOK, RowRecord
  <2>4. /\ t \in TxRecord /\ t.pc = "flip" /\ t.op = tx[s].op /\ t.att = tx[s].att
        /\ t.todo = tx[s].todo /\ t.keys = tx[s].keys
    BY <1>2, <2>1, <2>3 DEF TxRecord, VersionPair, Versions
  <2>5. SessionOK(t)
    BY <1>2, <1>3, <2>2, <2>4 DEF SessionOK, Working, Doing
  <2> QED
    BY <1>1, <1>2, <1>3, <2>2, <2>4, <2>5 DEF Turn
<1> QED
  BY <1>1, <1>2, <1>3, <1>4, <1>5, <1>6

\* one part's turn
LEMMA PartOf ==
  ASSUME TInv, NEW s \in Sessions, tx[s].pc \in {"head", "mark", "copy"}, NEW a, a = tx[s].att,
         NEW p, p = NextPart(tx[s]), NEW k, k = <<a, p>>
  PROVE  /\ tx[s] \in TxRecord /\ a \in Attachments /\ tx[s].keys = {} /\ Doing(tx[s])
         /\ tx[s].todo \subseteq PartsOf(a) /\ p \in tx[s].todo /\ p \in Parts /\ p \in PartsOf(a)
         /\ tx[s].todo \ {p} \in SUBSET Parts
         /\ k \in Keys /\ ObjectOK(object[k]) /\ object[k].top \in Versions
<1>1. tx[s].op \in Ops \ {"purge"} /\ tx[s].todo # {}
  BY DEF TInv, SessionsOK, SessionOK, Resting, Purging, Working, Doing, Ops
<1>2. /\ tx[s] \in TxRecord /\ a \in Attachments /\ tx[s].keys = {} /\ Doing(tx[s])
      /\ tx[s].todo \subseteq PartsOf(a)
  BY <1>1, Worker DEF Working
<1>3. p \in tx[s].todo /\ p \in PartsOf(a)
  BY <1>1, <1>2, NextPartOK
<1>4. p \in Parts /\ k \in Keys /\ tx[s].todo \ {p} \in SUBSET Parts
  BY <1>2, <1>3, PartFacts
<1>5. ObjectOK(object[k]) /\ object[k].top \in Versions
  BY <1>4 DEF TInv, BucketOK, ObjectRecord, Versions
<1> QED
  BY <1>2, <1>3, <1>4, <1>5

LEMMA TurnIs ==
  ASSUME TInv, NEW s \in Sessions, NEW t, Turn(s, t)
  PROVE  tx'[s] = t
  BY DEF TInv, SessionsOK, Turn

LEMMA HeadFacts ==
  ASSUME TInv, NEW s \in Sessions, Head(s), NEW a, a = tx[s].att,
         NEW p, p = NextPart(tx[s])
  PROVE  /\ a \in Attachments /\ tx[s].op = "complete" /\ tx[s].pc = "head"
         /\ p \in PartsOf(a)
         /\ \/ Reject(s)
            \/ /\ Turn(s, tx'[s]) /\ OnlySession /\ object[<<a, p>>].shown
               /\ tx'[s].op = "complete" /\ tx'[s].pc \in {"head", "flip"} /\ tx'[s].att = a
               /\ tx'[s].todo = tx[s].todo \ {p}
               /\ tx'[s].seen[p] = object[<<a, p>>].top
               /\ \A q \in Parts \ {p} : tx'[s].seen[q] = tx[s].seen[q]
<1>1. tx[s].op = "complete" /\ tx[s].pc = "head"
  BY DEF Head, Running
<1> PICK k : k = <<a, p>>
  OBVIOUS
<1> PICK rest : rest = tx[s].todo \ {p}
  OBVIOUS
<1>2. /\ tx[s] \in TxRecord /\ a \in Attachments /\ tx[s].keys = {} /\ Doing(tx[s])
      /\ tx[s].todo \subseteq PartsOf(a) /\ p \in tx[s].todo /\ p \in Parts /\ p \in PartsOf(a)
      /\ rest \in SUBSET Parts /\ k \in Keys /\ object[k].top \in Versions
  BY <1>1, PartOf
<1>3. CASE ~ Reject(s)
  <2>1. PICK pc \in {"head", "flip"} : pc = IF rest = {} THEN "flip" ELSE "head"
    OBVIOUS
  <2>2. PICK t : t = [tx[s] EXCEPT !.todo = rest, !.seen[p] = object[k].top, !.pc = pc]
    OBVIOUS
  <2>3. /\ tx' = [tx EXCEPT ![s] = t] /\ OnlySession /\ object[k].shown
    BY <1>3, <2>1, <2>2 DEF Head, Goto
  <2>4. /\ t \in TxRecord /\ t.pc = pc /\ t.op = tx[s].op /\ t.att = tx[s].att
        /\ t.todo = rest /\ t.seen = [tx[s].seen EXCEPT ![p] = object[k].top]
        /\ t.keys = tx[s].keys
    <3>1. /\ tx[s] \in TxRecord /\ rest \in SUBSET Parts /\ pc \in Steps /\ p \in Parts
          /\ object[k].top \in Versions
      BY <1>2 DEF Steps
    <3> QED
      BY <2>2, <3>1 DEF TxRecord, Steps, Versions
  <2>5. SessionOK(t)
    BY <1>1, <1>2, <2>1, <2>4 DEF SessionOK, Working, Doing
  <2>6. Turn(s, t)
    BY <2>3, <2>5 DEF Turn
  <2>7. t.seen[p] = object[k].top /\ \A q \in Parts \ {p} : t.seen[q] = tx[s].seen[q]
    BY <1>2, <2>4 DEF TxRecord
  <2>8. tx'[s] = t
    BY <2>6, TurnIs
  <2> QED
    BY ZenonT(40), <1>1, <1>2, <2>1, <2>3, <2>4, <2>6, <2>7, <2>8
<1> QED
  BY <1>1, <1>2, <1>3

LEMMA HidePartFacts ==
  ASSUME TInv, NEW s \in Sessions, HidePart(s), NEW a, a = tx[s].att,
         NEW p, p = NextPart(tx[s])
  PROVE  /\ a \in Attachments /\ tx[s].op = "hide" /\ tx[s].pc = "mark"
         /\ UNCHANGED <<project, row, puts, lock, jobs, trouble>>
         /\ p \in PartsOf(a) /\ Turn(s, tx'[s]) /\ HideObject(<<a, p>>)
         /\ tx'[s].op = "hide" /\ tx'[s].pc \in {"mark", "flip"} /\ tx'[s].att = a
         /\ tx'[s].todo = tx[s].todo \ {p}
<1>1. tx[s].op = "hide" /\ tx[s].pc = "mark"
  BY DEF HidePart, Running
<1> PICK k : k = <<a, p>>
  OBVIOUS
<1> PICK rest : rest = tx[s].todo \ {p}
  OBVIOUS
<1>2. /\ tx[s] \in TxRecord /\ a \in Attachments /\ tx[s].keys = {} /\ Doing(tx[s])
      /\ tx[s].todo \subseteq PartsOf(a) /\ p \in tx[s].todo /\ p \in Parts /\ p \in PartsOf(a)
      /\ rest \in SUBSET Parts
  BY <1>1, PartOf
<1>3. PICK pc \in {"mark", "flip"} : pc = IF rest = {} THEN "flip" ELSE "mark"
  OBVIOUS
<1>4. PICK t : t = [tx[s] EXCEPT !.todo = rest, !.pc = pc]
  OBVIOUS
<1>5. /\ tx' = [tx EXCEPT ![s] = t] /\ HideObject(k)
      /\ UNCHANGED <<project, row, puts, lock, jobs, trouble>>
  BY <1>3, <1>4 DEF HidePart, Goto
<1>6. /\ t \in TxRecord /\ t.pc = pc /\ t.op = tx[s].op /\ t.att = tx[s].att
      /\ t.todo = rest /\ t.keys = tx[s].keys
  <2>1. tx[s] \in TxRecord /\ rest \in SUBSET Parts /\ pc \in Steps
    BY <1>2 DEF Steps
  <2> QED
    BY <1>4, <2>1 DEF TxRecord, Steps
<1>7. SessionOK(t)
  BY <1>1, <1>2, <1>3, <1>6 DEF SessionOK, Working, Doing
<1>8. Turn(s, t)
  BY <1>5, <1>7 DEF Turn
<1>9. tx'[s] = t
  BY <1>8, TurnIs
<1> QED
  BY <1>1, <1>2, <1>3, <1>5, <1>6, <1>8, <1>9

LEMMA CopyFacts ==
  ASSUME TInv, NEW s \in Sessions, Copy(s), NEW a, a = tx[s].att,
         NEW p, p = NextPart(tx[s])
  PROVE  /\ a \in Attachments /\ tx[s].op = "restore" /\ tx[s].pc = "copy"
         /\ p \in PartsOf(a) /\ p \in tx[s].todo
         /\ \/ Fail(s, {"restore"})
            \/ /\ UNCHANGED <<project, row, puts, lock, jobs, trouble>>
               /\ Turn(s, tx'[s]) /\ Write(<<a, p>>)
               /\ tx'[s].op = "restore" /\ tx'[s].pc \in {"copy", "record"} /\ tx'[s].att = a
               /\ tx'[s].todo = tx[s].todo \ {p}
               /\ tx'[s].seen[p] = object[<<a, p>>].top + 1
               /\ \A q \in Parts \ {p} : tx'[s].seen[q] = tx[s].seen[q]
<1>1. tx[s].op = "restore" /\ tx[s].pc = "copy"
  BY DEF Copy, Running
<1> PICK k : k = <<a, p>>
  OBVIOUS
<1> PICK rest : rest = tx[s].todo \ {p}
  OBVIOUS
<1>2. /\ tx[s] \in TxRecord /\ a \in Attachments /\ tx[s].keys = {} /\ Doing(tx[s])
      /\ tx[s].todo \subseteq PartsOf(a) /\ p \in tx[s].todo /\ p \in Parts /\ p \in PartsOf(a)
      /\ rest \in SUBSET Parts /\ k \in Keys /\ object[k].top \in Versions
  BY <1>1, PartOf
<1>3. CASE ~ Fail(s, {"restore"})
  <2>1. PICK pc \in {"copy", "record"} : pc = IF rest = {} THEN "record" ELSE "copy"
    OBVIOUS
  <2>2. PICK t : t = [tx[s] EXCEPT !.todo = rest, !.seen[p] = object[k].top + 1, !.pc = pc]
    OBVIOUS
  <2>3. /\ tx' = [tx EXCEPT ![s] = t] /\ Write(k)
        /\ UNCHANGED <<project, row, puts, lock, jobs, trouble>>
    BY <1>3, <2>1, <2>2 DEF Copy, Goto
  <2>4. object[k].top + 1 \in Versions
    BY <1>2, <2>3 DEF Write, Versions
  <2>5. /\ t \in TxRecord /\ t.pc = pc /\ t.op = tx[s].op /\ t.att = tx[s].att
        /\ t.todo = rest /\ t.seen = [tx[s].seen EXCEPT ![p] = object[k].top + 1]
        /\ t.keys = tx[s].keys
    <3>1. /\ tx[s] \in TxRecord /\ rest \in SUBSET Parts /\ pc \in Steps /\ p \in Parts
      BY <1>2 DEF Steps
    <3> QED
      BY <2>2, <2>4, <3>1 DEF TxRecord, Steps, Versions
  <2>6. SessionOK(t)
    BY <1>1, <1>2, <2>1, <2>5 DEF SessionOK, Working, Doing
  <2>7. Turn(s, t)
    BY <2>3, <2>6 DEF Turn
  <2>8. t.seen[p] = object[k].top + 1 /\ \A q \in Parts \ {p} : t.seen[q] = tx[s].seen[q]
    BY <1>2, <2>5 DEF TxRecord
  <2>9. tx'[s] = t
    BY <2>7, TurnIs
  <2> QED
    BY <1>1, <1>2, <2>1, <2>3, <2>5, <2>7, <2>8, <2>9
<1> QED
  BY <1>1, <1>2, <1>3

LEMMA MarkRestoredFacts ==
  ASSUME TInv, NEW s \in Sessions, MarkRestored(s), NEW a, a = tx[s].att
  PROVE  /\ a \in Attachments /\ tx[s].op = "restore" /\ tx[s].pc = "flip"
         /\ tx[s].todo = PartsOf(a)
         /\ \/ Reject(s)
            \/ /\ UNCHANGED <<project, row, object, puts, jobs>>
               /\ row[a].status = "hidden" /\ lock[a] = None /\ lock' = [lock EXCEPT ![a] = s]
               /\ trouble' = [trouble EXCEPT ![a] = trouble[a] \ {"hide", "rejected"}]
               /\ \E t : /\ Turn(s, t) /\ t.op = "restore" /\ t.pc = "copy" /\ t.att = a
                         /\ t.keys = {} /\ t.todo = PartsOf(a)
<1>1. tx[s].op = "restore" /\ tx[s].pc = "flip"
  BY DEF MarkRestored, Running
<1>2. /\ tx[s] \in TxRecord /\ a \in Attachments /\ tx[s].keys = {} /\ Doing(tx[s])
  BY <1>1, Worker DEF Ops, Working
<1>3. tx[s].todo = PartsOf(a) /\ PartsOf(a) # {}
  BY <1>1, <1>2, PartFacts DEF Doing
<1>4. CASE ~ Reject(s)
  <2>1. PICK t : t = [tx[s] EXCEPT !.pc = "copy"]
    OBVIOUS
  <2>2. /\ tx' = [tx EXCEPT ![s] = t] /\ UNCHANGED <<project, row, object, puts, jobs>>
        /\ row[a].status = "hidden" /\ lock[a] = None /\ lock' = [lock EXCEPT ![a] = s]
        /\ trouble' = [trouble EXCEPT ![a] = trouble[a] \ {"hide", "rejected"}]
    BY <1>4, <2>1 DEF MarkRestored, Goto
  <2>3. /\ t \in TxRecord /\ t.pc = "copy" /\ t.op = tx[s].op /\ t.att = tx[s].att
        /\ t.todo = tx[s].todo /\ t.keys = tx[s].keys
    BY <1>2, <2>1, PcTurn DEF Steps
  <2>4. SessionOK(t)
    BY <1>1, <1>2, <1>3, <2>3 DEF SessionOK, Working, Doing
  <2> QED
    BY <1>1, <1>2, <1>3, <2>2, <2>3, <2>4 DEF Turn
<1> QED
  BY <1>1, <1>2, <1>3, <1>4

LEMMA PutPdfFacts ==
  ASSUME TInv, NEW s \in Sessions, PutPdf(s), NEW a, a = tx[s].att
  PROVE  /\ a \in Attachments /\ a \in Pdfs /\ tx[s].op = "issue" /\ tx[s].pc = "put"
         /\ UNCHANGED <<project, row, puts, lock, jobs, trouble>> /\ Write(<<a, "orig">>)
         /\ \E t : /\ Turn(s, t) /\ t.op = "issue" /\ t.pc = "commit" /\ t.att = a
                   /\ t.keys = {} /\ t.seen["orig"] = object[<<a, "orig">>].top + 1
<1>1. tx[s].op = "issue" /\ tx[s].pc = "put"
  BY DEF PutPdf, Running
<1>2. /\ tx[s] \in TxRecord /\ a \in Attachments /\ tx[s].keys = {} /\ Doing(tx[s])
      /\ tx[s].todo \subseteq PartsOf(a)
  BY <1>1, Worker DEF Ops, Working
<1>3. a \in Pdfs
  BY <1>1, <1>2 DEF Doing
<1> PICK k : k = <<a, "orig">>
  OBVIOUS
<1>4. k \in Keys
  BY <1>2, PartFacts
<1>5. UNCHANGED <<project, row, puts, lock, jobs, trouble>> /\ Write(k)
  BY DEF PutPdf
<1>6. object[k].top + 1 \in Versions
  BY <1>4, <1>5 DEF Write, TInv, BucketOK, ObjectRecord, Versions
<1>7. PICK t : t = [tx[s] EXCEPT !.pc = "commit", !.seen.orig = object[k].top + 1]
  OBVIOUS
<1>8. tx' = [tx EXCEPT ![s] = t]
  BY <1>7 DEF PutPdf, Goto
<1>9. /\ t \in TxRecord /\ t.pc = "commit" /\ t.op = tx[s].op /\ t.att = tx[s].att
      /\ t.todo = tx[s].todo /\ t.keys = tx[s].keys /\ t.seen["orig"] = object[k].top + 1
  BY <1>2, <1>6, <1>7 DEF TxRecord, Versions, Parts
<1>10. Turn(s, t)
  BY <1>1, <1>2, <1>3, <1>8, <1>9 DEF Turn, SessionOK, Working, Doing
<1> QED
  BY <1>1, <1>2, <1>3, <1>5, <1>9, <1>10

LEMMA IdleTurn ==
  ASSUME TInv, NEW s \in Sessions, EndTx(s)
  PROVE  /\ Turn(s, Idle) /\ lock' \in [Attachments -> Sessions \cup {None}]
         /\ \A a \in Attachments : lock'[a] = IF lock[a] = s THEN None ELSE lock[a]
  BY IdleOK DEF EndTx, Goto, Turn, TInv, OthersOK

\* a failed request leaves the rows and the bucket alone
LEMMA FailFacts ==
  ASSUME TInv, NEW s \in Sessions, NEW what \in SUBSET {"hide", "rejected", "restore"},
         Fail(s, what)
  PROVE  /\ EndTx(s) /\ UNCHANGED <<project, row, object, puts, jobs>>
         /\ trouble' \in [Attachments -> SUBSET Troubles]
         /\ \A a \in Attachments :
              trouble'[a] = IF a = tx[s].att /\ tx[s].todo # PartsOf(a)
                            THEN trouble[a] \cup what ELSE trouble[a]
<1>1. /\ EndTx(s) /\ UNCHANGED <<project, row, object, puts, jobs>>
      /\ trouble' = [a \in Attachments |->
           IF a = tx[s].att /\ tx[s].todo # PartsOf(a)
           THEN trouble[a] \cup what ELSE trouble[a]]
  BY DEF Fail
<1>2. trouble \in [Attachments -> SUBSET Troubles] /\ what \subseteq Troubles
  BY DEF TInv, OthersOK, Troubles
<1> QED
  BY <1>1, <1>2

\* the purge of a project
LEMMA SubmitPurgeFacts ==
  ASSUME TInv, NEW s \in Sessions, NEW p \in Projects, SubmitPurge(s, p)
  PROVE  /\ OnlySession /\ Resting(tx[s])
         /\ \E t : Turn(s, t) /\ t.op = "purge" /\ t.att = None /\ t.pc = "list" /\ t.keys = {}
<1>1. PICK t : t = [Idle EXCEPT !.op = "purge", !.pc = "list", !.prj = p]
  OBVIOUS
<1>2. tx' = [tx EXCEPT ![s] = t] /\ OnlySession /\ tx[s].pc = "idle"
  BY <1>1 DEF SubmitPurge, Goto
<1>3. Idle \in TxRecord /\ Idle.keys = {} /\ Idle.att = None
  BY IdleOK DEF SessionOK, Resting
<1>4. /\ t \in TxRecord /\ t.op = "purge" /\ t.pc = "list" /\ t.prj = p /\ t.att = None /\ t.keys = {}
  BY <1>1, <1>3 DEF TxRecord, Ops
<1>5. Turn(s, t)
  BY <1>2, <1>4 DEF Turn, SessionOK, Purging
<1> QED
  BY <1>2, <1>4, <1>5, Rester

LEMMA ListKeysFacts ==
  ASSUME TInv, NEW s \in Sessions, ListKeys(s)
  PROVE  /\ OnlySession /\ tx[s].att = None /\ tx[s].op = "purge"
         /\ \E t : /\ Turn(s, t) /\ t.op = "purge" /\ t.att = None /\ t.pc = "check"
                   /\ t.prj = tx[s].prj
                   /\ t.keys = UNION {KeysOf(a) : a \in RowsOf(tx[s].prj)}
<1>1. tx[s].op = "purge" /\ OnlySession
  BY DEF ListKeys, Running
<1>2. tx[s] \in TxRecord /\ tx[s].att = None /\ tx[s].prj \in Projects
  BY <1>1, Purger DEF Purging
<1>3. PICK L : L = UNION {KeysOf(a) : a \in RowsOf(tx[s].prj)}
  OBVIOUS
<1>4. L \in SUBSET Keys
  BY <1>3 DEF RowsOf, Keys
<1>5. PICK t : t = [tx[s] EXCEPT !.pc = "check", !.keys = L]
  OBVIOUS
<1>6. tx' = [tx EXCEPT ![s] = t]
  BY <1>3, <1>5 DEF ListKeys, Goto
<1>7. /\ t \in TxRecord /\ t.op = "purge" /\ t.pc = "check" /\ t.prj = tx[s].prj /\ t.att = None
      /\ t.keys = L
  BY <1>1, <1>2, <1>4, <1>5 DEF TxRecord
<1>8. Turn(s, t)
  BY <1>2, <1>6, <1>7 DEF Turn, SessionOK, Purging
<1> QED
  BY <1>1, <1>2, <1>3, <1>7, <1>8

LEMMA CheckArchivedFacts ==
  ASSUME TInv, NEW s \in Sessions, CheckArchived(s)
  PROVE  /\ tx[s].att = None /\ tx[s].op = "purge" /\ tx[s].pc = "check"
         /\ \/ Reject(s)
            \/ /\ OnlySession
               /\ \E t : /\ Turn(s, t) /\ t.op = "purge" /\ t.att = None /\ t.pc = "delete"
                         /\ t.prj = tx[s].prj /\ t.keys = tx[s].keys
<1>1. tx[s].op = "purge" /\ tx[s].pc = "check"
  BY DEF CheckArchived, Running
<1>2. tx[s] \in TxRecord /\ tx[s].att = None /\ tx[s].prj \in Projects
  BY <1>1, Purger DEF Purging
<1>3. CASE ~ Reject(s)
  <2>1. PICK t : t = [tx[s] EXCEPT !.pc = "delete"]
    OBVIOUS
  <2>2. tx' = [tx EXCEPT ![s] = t] /\ OnlySession
    BY <1>3, <2>1 DEF CheckArchived, Goto
  <2>3. /\ t \in TxRecord /\ t.pc = "delete" /\ t.op = tx[s].op /\ t.att = tx[s].att
        /\ t.prj = tx[s].prj /\ t.keys = tx[s].keys
    BY <1>2, <2>1, PcTurn DEF Steps
  <2>4. Turn(s, t)
    BY <1>1, <1>2, <2>2, <2>3 DEF Turn, SessionOK, Purging
  <2> QED
    BY <1>1, <1>2, <2>2, <2>3, <2>4
<1> QED
  BY <1>1, <1>2, <1>3

LEMMA DeleteFacts ==
  ASSUME TInv, NEW s \in Sessions, DeleteProject(s), NEW p, p = tx[s].prj
  PROVE  /\ tx[s].att = None /\ tx[s].op = "purge" /\ tx[s].pc = "delete" /\ p \in Projects
         /\ UNCHANGED <<object, puts, lock, jobs, trouble>>
         /\ \A a \in RowsOf(p) : lock[a] = None
         /\ project' = [project EXCEPT ![p] = "gone"]
         /\ row' \in [Attachments -> RowRecord]
         /\ \A a \in Attachments : row'[a] = IF a \in RowsOf(p) THEN NewRow("gone") ELSE row[a]
         /\ \E t : /\ Turn(s, t) /\ t.att = None /\ t.op \in {"none", "purge"}
                   /\ t.keys = {} \/ (t.keys = tx[s].keys /\ t.pc = "hide")
<1>1. tx[s].op = "purge" /\ tx[s].pc = "delete"
  BY DEF DeleteProject, Running
<1>2. tx[s] \in TxRecord /\ tx[s].att = None /\ tx[s].prj \in Projects
  BY <1>1, Purger DEF Purging
<1>3. /\ UNCHANGED <<object, puts, lock, jobs, trouble>>
      /\ \A a \in RowsOf(p) : lock[a] = None
      /\ project' = [project EXCEPT ![p] = "gone"]
      /\ row' = [a \in Attachments |-> IF a \in RowsOf(p) THEN NewRow("gone") ELSE row[a]]
  BY DEF DeleteProject
<1>4. NewRow("gone") \in RowRecord
  BY GoneRow
<1>5. /\ row' \in [Attachments -> RowRecord]
      /\ \A a \in Attachments : row'[a] = IF a \in RowsOf(p) THEN NewRow("gone") ELSE row[a]
  BY <1>3, <1>4 DEF TInv, RowsOK
<1>6. \E t : /\ Turn(s, t) /\ t.att = None /\ t.op \in {"none", "purge"}
             /\ t.keys = {} \/ (t.keys = tx[s].keys /\ t.pc = "hide")
  <2>1. CASE tx[s].keys = {}
    <3>1. tx' = [tx EXCEPT ![s] = Idle]
      BY <2>1 DEF DeleteProject, Goto
    <3>2. Idle.att = None /\ Idle.op = "none" /\ Idle.keys = {}
      BY IdleOK DEF Resting
    <3> QED
      BY <3>1, <3>2, IdleOK DEF Turn
  <2>2. CASE tx[s].keys # {}
    <3>1. PICK t : t = [tx[s] EXCEPT !.pc = "hide"]
      OBVIOUS
    <3>2. tx' = [tx EXCEPT ![s] = t]
      BY <2>2, <3>1 DEF DeleteProject, Goto
    <3>3. /\ t \in TxRecord /\ t.pc = "hide" /\ t.op = tx[s].op /\ t.att = tx[s].att
          /\ t.prj = tx[s].prj /\ t.keys = tx[s].keys
      BY <1>2, <3>1, PcTurn DEF Steps
    <3>4. Turn(s, t)
      BY <1>1, <1>2, <3>2, <3>3 DEF Turn, SessionOK, Purging
    <3> QED
      BY <1>1, <1>2, <3>3, <3>4
  <2> QED
    BY <2>1, <2>2
<1> QED
  BY <1>1, <1>2, <1>3, <1>5, <1>6

LEMMA HidePurgedFacts ==
  ASSUME TInv, NEW s \in Sessions, HidePurged(s)
  PROVE  /\ tx[s].att = None /\ tx[s].op = "purge" /\ tx[s].pc = "hide"
         /\ UNCHANGED <<project, row, puts, lock, jobs, trouble>>
         /\ \E k \in tx[s].keys : TryHide(k)
         /\ \E t : /\ Turn(s, t) /\ t.att = None /\ t.op \in {"none", "purge"}
                   /\ t.keys = {} \/ (t.keys \subseteq tx[s].keys /\ t.pc = "hide")
<1>1. /\ tx[s].op = "purge" /\ tx[s].pc = "hide"
      /\ UNCHANGED <<project, row, puts, lock, jobs, trouble>>
  BY DEF HidePurged, Running
<1>2. tx[s] \in TxRecord /\ tx[s].att = None /\ tx[s].prj \in Projects
  BY <1>1, Purger DEF Purging
<1>3. PICK k \in tx[s].keys :
        /\ TryHide(k)
        /\ Goto(s, IF tx[s].keys = {k} THEN Idle ELSE [tx[s] EXCEPT !.keys = @ \ {k}])
  BY DEF HidePurged
<1>4. \E t : /\ Turn(s, t) /\ t.att = None /\ t.op \in {"none", "purge"}
             /\ t.keys = {} \/ (t.keys \subseteq tx[s].keys /\ t.pc = "hide")
  <2>1. CASE tx[s].keys = {k}
    <3>1. tx' = [tx EXCEPT ![s] = Idle]
      BY <1>3, <2>1 DEF Goto
    <3>2. Idle.att = None /\ Idle.op = "none" /\ Idle.keys = {}
      BY IdleOK DEF Resting
    <3> QED
      BY <3>1, <3>2, IdleOK DEF Turn
  <2>2. CASE tx[s].keys # {k}
    <3>1. PICK L : L = tx[s].keys \ {k}
      OBVIOUS
    <3>2. PICK t : t = [tx[s] EXCEPT !.keys = L]
      OBVIOUS
    <3>3. tx' = [tx EXCEPT ![s] = t]
      BY <1>3, <2>2, <3>1, <3>2 DEF Goto
    <3>4. tx[s].keys \in SUBSET Keys
      BY <1>2 DEF TxRecord
    <3>5. L \in SUBSET Keys /\ L \subseteq tx[s].keys
      BY <3>1, <3>4
    <3>6. /\ t \in TxRecord /\ t.pc = tx[s].pc /\ t.op = tx[s].op /\ t.att = tx[s].att
          /\ t.prj = tx[s].prj /\ t.keys = L
      BY <1>2, <3>2, <3>5 DEF TxRecord
    <3>7. Turn(s, t)
      BY <1>1, <1>2, <3>3, <3>6 DEF Turn, SessionOK, Purging
    <3> QED
      BY <1>1, <1>2, <3>5, <3>6, <3>7
  <2> QED
    BY <2>1, <2>2
<1> QED
  BY <1>1, <1>2, <1>3, <1>4

-----------------------------------------------------------------------------
(* The types are kept *)

LEMMA TurnTypes ==
  ASSUME TInv, NEW s \in Sessions, NEW t, Turn(s, t)
  PROVE  SessionsOK' /\ tx'[s] = t /\ \A r \in Sessions \ {s} : tx'[r] = tx[r]
<1>1. tx \in [Sessions -> TxRecord] /\ t \in TxRecord /\ SessionOK(t)
      /\ \A r \in Sessions : SessionOK(tx[r])
  BY DEF TInv, SessionsOK, Turn, SessionOK
<1>2. tx' \in [Sessions -> TxRecord] /\ tx'[s] = t /\ \A r \in Sessions \ {s} : tx'[r] = tx[r]
  BY <1>1 DEF Turn
<1>3. \A r \in Sessions : SessionOK(tx'[r])
  BY <1>1, <1>2
<1> QED
  BY <1>2, <1>3 DEF SessionsOK, SessionOK, Resting, Purging, Working, Doing

LEMMA ObjectTypes ==
  ASSUME TInv, NEW k \in Keys, NEW o, ObjectOK(o), object' = [object EXCEPT ![k] = o]
  PROVE  BucketOK' /\ object'[k] = o /\ \A j \in Keys \ {k} : object'[j] = object[j]
<1>1. object \in [Keys -> ObjectRecord] /\ o \in ObjectRecord /\ \A j \in Keys : ObjectOK(object[j])
  BY DEF TInv, BucketOK, ObjectOK
<1>2. object' \in [Keys -> ObjectRecord] /\ object'[k] = o /\ \A j \in Keys \ {k} : object'[j] = object[j]
  BY <1>1
<1>3. \A j \in Keys : ObjectOK(object'[j])
  BY <1>1, <1>2
<1> QED
  BY <1>2, <1>3 DEF BucketOK, ObjectOK

\* what a write, a delete marker and a hide that may fail do to the bucket
LEMMA WriteFacts ==
  ASSUME TInv, NEW k \in Keys, Write(k)
  PROVE  /\ BucketOK' /\ \A j \in Keys \ {k} : object'[j] = object[j]
         /\ object'[k].top = object[k].top + 1 /\ object'[k].shown = TRUE
         /\ object'[k].kept = object[k].kept \cup {object[k].top + 1}
         /\ object'[k].old = object[k].old /\ object'[k].stale = object[k].stale
<1>1. ObjectOK(object[k]) /\ object[k].top < MaxVersion
      /\ object' = [object EXCEPT ![k] = Written(object[k])]
  BY DEF TInv, BucketOK, Write
<1>2. PICK w : w = Written(object[k])
  OBVIOUS
<1>3. /\ ObjectOK(w) /\ w.top = object[k].top + 1 /\ w.shown = TRUE
      /\ w.kept = object[k].kept \cup {object[k].top + 1}
      /\ w.old = object[k].old /\ w.stale = object[k].stale
  BY <1>1, <1>2, WrittenOK
<1>4. BucketOK' /\ object'[k] = w /\ \A j \in Keys \ {k} : object'[j] = object[j]
  BY <1>1, <1>2, <1>3, ObjectTypes
<1> QED
  BY <1>3, <1>4

LEMMA HideFacts ==
  ASSUME TInv, NEW k \in Keys, HideObject(k)
  PROVE  /\ BucketOK' /\ \A j \in Keys \ {k} : object'[j] = object[j]
         /\ object'[k].shown = FALSE /\ object'[k].top = object[k].top
         /\ object'[k].kept = object[k].kept
         /\ object'[k].old = object[k].old /\ object'[k].stale = object[k].stale
<1>1. ObjectOK(object[k]) /\ object' = [object EXCEPT ![k] = Hidden(object[k])]
  BY DEF TInv, BucketOK, HideObject
<1>2. PICK w : w = Hidden(object[k])
  OBVIOUS
<1>3. /\ ObjectOK(w) /\ w.shown = FALSE /\ w.top = object[k].top /\ w.kept = object[k].kept
      /\ w.old = object[k].old /\ w.stale = object[k].stale
  BY <1>1, <1>2, MarkerOK
<1>4. BucketOK' /\ object'[k] = w /\ \A j \in Keys \ {k} : object'[j] = object[j]
  BY <1>1, <1>2, <1>3, ObjectTypes
<1> QED
  BY <1>3, <1>4

LEMMA SameBucket ==
  ASSUME TInv, UNCHANGED object
  PROVE  BucketOK'
  BY DEF TInv, BucketOK, ObjectOK, ObjectRecord, Keys, KeysOf

LEMMA ReapVersionFacts ==
  ASSUME TInv, NEW k \in Keys, ReapVersion(k)
  PROVE  /\ BucketOK' /\ \A j \in Keys \ {k} : object'[j] = object[j]
         /\ UNCHANGED <<project, row, puts, lock, tx, jobs, trouble>>
         /\ \E v \in object[k].stale :
              /\ object'[k].kept = object[k].kept \ {v} /\ object'[k].stale = object[k].stale \ {v}
              /\ object'[k].shown = object[k].shown /\ object'[k].top = object[k].top
              /\ object'[k].old = object[k].old
              /\ object[k].shown => v # object[k].top
<1>1. PICK v \in object[k].stale \cap Noncurrent(object[k]) :
        object' = [object EXCEPT ![k].kept = @ \ {v}, ![k].stale = @ \ {v}]
  BY DEF ReapVersion
<1>2. PICK o : o = object[k]
  OBVIOUS
<1>3. object \in [Keys -> ObjectRecord] /\ ObjectOK(o) /\ o \in ObjectRecord
      /\ v \in o.stale /\ v \in Noncurrent(o)
  BY <1>1, <1>2 DEF TInv, BucketOK
<1>4. PICK w : w = [o EXCEPT !.kept = o.kept \ {v}, !.stale = o.stale \ {v}]
  OBVIOUS
<1>5. /\ object' = [object EXCEPT ![k] = w] /\ ObjectOK(w)
      /\ w.shown = object[k].shown /\ w.top = object[k].top
      /\ w.kept = object[k].kept \ {v} /\ w.old = object[k].old /\ w.stale = object[k].stale \ {v}
  <2>1. object' = [object EXCEPT ![k] = w]
    BY <1>1, <1>2, <1>3, <1>4 DEF ObjectRecord
  <2>2. /\ ObjectOK(w) /\ w.shown = o.shown /\ w.top = o.top /\ w.kept = o.kept \ {v}
        /\ w.old = o.old /\ w.stale = o.stale \ {v}
    <3>1. /\ w \in ObjectRecord /\ w.shown = o.shown /\ w.top = o.top /\ w.kept = o.kept \ {v}
          /\ w.old = o.old /\ w.stale = o.stale \ {v}
      BY <1>3, <1>4 DEF ObjectOK, ObjectRecord
    <3> QED
      BY <1>3, <3>1 DEF ObjectOK, Noncurrent
  <2> QED
    BY <1>2, <2>1, <2>2
<1>6. BucketOK' /\ object'[k] = w /\ \A j \in Keys \ {k} : object'[j] = object[j]
  BY <1>5, ObjectTypes
<1>7. UNCHANGED <<project, row, puts, lock, tx, jobs, trouble>>
  BY DEF ReapVersion
<1>8. object[k].shown => v # object[k].top
  BY <1>2, <1>3 DEF ObjectOK
<1> QED
  BY <1>1, <1>3, <1>5, <1>6, <1>7, <1>8, <1>2

LEMMA TimeFacts ==
  ASSUME TInv, TimePasses
  PROVE  /\ Quiet /\ UNCHANGED <<project, puts, lock, tx, jobs>>
         /\ RowsOK' /\ BucketOK' /\ trouble' \in [Attachments -> SUBSET Troubles]
         /\ \A a \in Attachments :
              /\ row'[a].status = row[a].status /\ row'[a].version = row[a].version
              /\ row[a].status = "hidden" => row'[a].aged = TRUE
              /\ trouble'[a] = IF trouble[a] = {} THEN {} ELSE trouble[a] \cup {"old"}
         /\ \A k \in Keys :
              /\ object'[k].top = object[k].top /\ object'[k].shown = object[k].shown
              /\ object'[k].kept = object[k].kept /\ object'[k].old = object[k].top
              /\ object'[k].stale = Noncurrent(object[k])
<1>1. /\ Quiet /\ UNCHANGED <<project, puts, lock, tx, jobs>>
      /\ row' = [a \in Attachments |->
           [row[a] EXCEPT !.aged = row[a].status \in {"pending", "hidden"}]]
      /\ object' = [k \in Keys |->
           [object[k] EXCEPT !.old = object[k].top, !.stale = Noncurrent(object[k])]]
      /\ trouble' = [a \in Attachments |->
           IF trouble[a] = {} THEN {} ELSE trouble[a] \cup {"old"}]
  BY DEF TimePasses
<1>2. \A a \in Attachments :
        /\ row'[a] \in RowRecord
        /\ row'[a].status = row[a].status /\ row'[a].version = row[a].version
        /\ row[a].status = "hidden" => row'[a].aged = TRUE
  <2> TAKE a \in Attachments
  <2>1. row[a] \in RowRecord
    BY DEF TInv, RowsOK
  <2>2. (row[a].status \in {"pending", "hidden"}) \in BOOLEAN
    OBVIOUS
  <2>3. PICK b : b = (row[a].status \in {"pending", "hidden"})
    BY Zenon
  <2>4. b \in BOOLEAN /\ row'[a] = [row[a] EXCEPT !.aged = b]
    BY <1>1, <2>2, <2>3, Zenon
  <2>5. row'[a] \in RowRecord /\ row'[a].status = row[a].status
        /\ row'[a].version = row[a].version /\ row'[a].aged = b
    BY <2>1, <2>4 DEF RowRecord
  <2>6. row[a].status = "hidden" => row'[a].aged = TRUE
    <3> SUFFICES ASSUME row[a].status = "hidden" PROVE row'[a].aged = TRUE
      OBVIOUS
    <3>1. row[a].status \in {"pending", "hidden"}
      OBVIOUS
    <3>2. b = TRUE
      BY <2>3, <3>1, Zenon
    <3> QED
      BY <2>5, <3>2, Zenon
  <2> QED
    BY <2>5, <2>6, Zenon
<1>3. \A k \in Keys : /\ ObjectOK(object'[k])
        /\ object'[k].top = object[k].top /\ object'[k].shown = object[k].shown
        /\ object'[k].kept = object[k].kept /\ object'[k].old = object[k].top
        /\ object'[k].stale = Noncurrent(object[k])
  <2> TAKE k \in Keys
  <2>1. ObjectOK(object[k])
    BY DEF TInv, BucketOK
  <2>2. PICK w : w = [object[k] EXCEPT !.old = object[k].top, !.stale = Noncurrent(object[k])]
    OBVIOUS
  <2>3. object'[k] = w
    BY <1>1, <2>2, Zenon
  <2> QED
    BY ZenonT(40), <2>1, <2>2, <2>3, TimeOK
<1>4. \A a \in Attachments :
        trouble'[a] = IF trouble[a] = {} THEN {} ELSE trouble[a] \cup {"old"}
  BY <1>1
<1>5. trouble' \in [Attachments -> SUBSET Troubles]
  BY <1>1 DEF TInv, OthersOK, Troubles
<1>6. RowsOK'
  <2>1. row' = [a \in Attachments |-> row'[a]]
    BY <1>1, Zenon
  <2>2. \A a \in Attachments : row'[a] \in RowRecord
    BY <1>2, Zenon
  <2>3. row' \in [Attachments -> RowRecord]
    BY <2>1, <2>2
  <2> QED
    BY <1>1, <2>3 DEF RowsOK, TInv, RowRecord
<1>7. BucketOK'
  <2>1. object' \in [Keys -> ObjectRecord]
    BY <1>1, <1>3 DEF ObjectOK
  <2> QED
    BY <1>3, <2>1 DEF BucketOK, ObjectOK
<1>8. \A a \in Attachments :
        /\ row'[a].status = row[a].status /\ row'[a].version = row[a].version
        /\ row[a].status = "hidden" => row'[a].aged = TRUE
        /\ trouble'[a] = IF trouble[a] = {} THEN {} ELSE trouble[a] \cup {"old"}
  BY <1>2, <1>4, Zenon
<1>9. \A k \in Keys :
        /\ object'[k].top = object[k].top /\ object'[k].shown = object[k].shown
        /\ object'[k].kept = object[k].kept /\ object'[k].old = object[k].top
        /\ object'[k].stale = Noncurrent(object[k])
  BY <1>3, Zenon
<1> QED
  BY <1>1, <1>5, <1>6, <1>7, <1>8, <1>9, Zenon

\* a request for an attachment starts
LEMMA SubmitFacts ==
  ASSUME TInv, NEW s \in Sessions, NEW a \in Attachments,
         \/ SubmitInit(s, a) \/ SubmitComplete(s, a) \/ SubmitHide(s, a)
         \/ SubmitRestore(s, a) \/ SubmitIssue(s, a)
  PROVE  /\ Resting(tx[s]) /\ OnlySession
         /\ \E t : /\ Turn(s, t) /\ t.att = a /\ t.todo = PartsOf(a) /\ t.keys = {}
                   /\ \/ t.op = "init" /\ t.pc = "insert" /\ FreshId(a)
                      \/ t.op = "issue" /\ t.pc = "put" /\ FreshId(a)
                      \/ t.op = "complete" /\ t.pc = "row" /\ row[a].status # "none"
                      \/ t.op = "hide" /\ t.pc = "row" /\ row[a].status \in {"ready", "hidden", "gone"}
                      \/ t.op = "restore" /\ t.pc = "row" /\ row[a].status # "none"
<1>1. CASE SubmitInit(s, a)
  <2>1. Start(s, "init", "insert", a) /\ a \notin Pdfs /\ FreshId(a)
    BY <1>1 DEF SubmitInit
  <2>2. "init" \in Ops /\ "insert" \in Steps
    BY DEF Ops, Steps
  <2> QED
    BY <2>1, <2>2, StartFacts
<1>2. CASE SubmitComplete(s, a)
  <2>1. Start(s, "complete", "row", a) /\ row[a].status # "none"
    BY <1>2 DEF SubmitComplete
  <2>2. "complete" \in Ops /\ "row" \in Steps
    BY DEF Ops, Steps
  <2> QED
    BY <2>1, <2>2, StartFacts
<1>3. CASE SubmitHide(s, a)
  <2>1. Start(s, "hide", "row", a) /\ row[a].status \in {"ready", "hidden", "gone"}
    BY <1>3 DEF SubmitHide
  <2>2. "hide" \in Ops /\ "row" \in Steps
    BY DEF Ops, Steps
  <2> QED
    BY <2>1, <2>2, StartFacts
<1>4. CASE SubmitRestore(s, a)
  <2>1. Start(s, "restore", "row", a) /\ row[a].status # "none"
    BY <1>4 DEF SubmitRestore
  <2>2. "restore" \in Ops /\ "row" \in Steps
    BY DEF Ops, Steps
  <2> QED
    BY <2>1, <2>2, StartFacts
<1>5. CASE SubmitIssue(s, a)
  <2>1. Start(s, "issue", "put", a) /\ a \in Pdfs /\ FreshId(a)
    BY <1>5 DEF SubmitIssue
  <2>2. "issue" \in Ops /\ "put" \in Steps
    BY DEF Ops, Steps
  <2> QED
    BY <2>1, <2>2, StartFacts
<1> QED
  BY <1>1, <1>2, <1>3, <1>4, <1>5

LEMMA RowTypes ==
  ASSUME TInv, NEW a \in Attachments, NEW r \in RowRecord, row' = [row EXCEPT ![a] = r],
         UNCHANGED project
  PROVE  RowsOK' /\ row'[a] = r /\ \A b \in Attachments \ {a} : row'[b] = row[b]
<1>1. row \in [Attachments -> RowRecord]
  BY DEF TInv, RowsOK
<1>2. row' \in [Attachments -> RowRecord] /\ row'[a] = r /\ \A b \in Attachments \ {a} : row'[b] = row[b]
  BY <1>1
<1> QED
  BY <1>2 DEF TInv, RowsOK, RowRecord

LEMMA SameRows ==
  ASSUME TInv, UNCHANGED <<project, row>>
  PROVE  RowsOK'
  BY DEF TInv, RowsOK, RowRecord, Status, Live, VersionPair, Versions

LEMMA SameOthers ==
  ASSUME TInv, UNCHANGED <<puts, lock, trouble>>
  PROVE  OthersOK'
  BY DEF TInv, OthersOK, Keys, KeysOf

LEMMA SameJobs ==
  ASSUME TInv, UNCHANGED jobs
  PROVE  JobsOK'
  BY DEF TInv, JobsOK, jobs, SweepRecord, Keys, KeysOf

LEMMA SameSessions ==
  ASSUME TInv, UNCHANGED tx
  PROVE  SessionsOK'
  BY DEF TInv, SessionsOK, SessionOK, Resting, Purging, Working, Doing

LEMMA InsertFacts ==
  ASSUME TInv, NEW s \in Sessions, InsertPending(s), NEW a, a = tx[s].att
  PROVE  /\ a \in Attachments /\ a \notin Pdfs /\ tx[s].op = "init"
         /\ \/ Reject(s)
            \/ /\ EndTx(s) /\ UNCHANGED <<project, object, jobs, trouble>>
               /\ puts' = puts \cup KeysOf(a)
               /\ RowsOK' /\ row'[a].status = "pending"
               /\ \A b \in Attachments \ {a} : row'[b] = row[b]
<1>1. tx[s].op = "init" /\ tx[s].pc = "insert"
  BY DEF InsertPending, Running
<1>2. a \in Attachments /\ a \notin Pdfs
  BY <1>1, Worker DEF Ops, Working, Doing
<1>3. CASE ~ Reject(s)
  <2>1. PICK r : r = NewRow("pending")
    OBVIOUS
  <2>2. /\ EndTx(s) /\ UNCHANGED <<project, object, jobs, trouble>>
        /\ puts' = puts \cup KeysOf(a) /\ row' = [row EXCEPT ![a] = r]
    BY <1>3, <2>1 DEF InsertPending
  <2>3. NoVersions \in VersionPair /\ "pending" \in Status
    BY DEF NoVersions, VersionPair, Versions, Status, Live
  <2>4. r \in RowRecord /\ r.status = "pending"
    BY <2>1, <2>3, NewRowOK
  <2>5. RowsOK' /\ row'[a] = r /\ \A b \in Attachments \ {a} : row'[b] = row[b]
    BY <1>2, <2>2, <2>4, RowTypes
  <2> QED
    BY <1>1, <1>2, <2>2, <2>4, <2>5
<1> QED
  BY <1>1, <1>2, <1>3

\* a row becomes ready with the versions its handler has seen
LEMMA ReadyRow ==
  ASSUME TInv, NEW s \in Sessions, NEW a \in Attachments, tx[s] \in TxRecord,
         row' = [row EXCEPT ![a] = [NewRow("ready") EXCEPT !.version = tx[s].seen]],
         UNCHANGED project
  PROVE  /\ RowsOK' /\ row'[a].status = "ready" /\ row'[a].version = tx[s].seen
         /\ \A b \in Attachments \ {a} : row'[b] = row[b]
<1> PICK v : v = tx[s].seen
  OBVIOUS
<1>1. PICK r : r = [NewRow("ready") EXCEPT !.version = v]
  OBVIOUS
<1>2. "ready" \in Status /\ v \in VersionPair
  BY DEF Status, Live, TxRecord, VersionPair, Versions
<1>3. r \in RowRecord /\ r.status = "ready" /\ r.version = v
  <2>1. NewRow("ready") \in RowRecord /\ NewRow("ready").status = "ready"
    BY <1>2, NewRowOK
  <2>2. v \in VersionPair
    BY <1>2
  <2> QED
    BY <1>1, <2>1, <2>2 DEF RowRecord
<1>4. row' = [row EXCEPT ![a] = r]
  BY <1>1
<1> QED
  BY <1>3, <1>4, RowTypes

LEMMA MarkReadyFacts ==
  ASSUME TInv, NEW s \in Sessions, MarkReady(s), NEW a, a = tx[s].att
  PROVE  /\ a \in Attachments /\ tx[s].op = "complete" /\ tx[s].pc = "flip" /\ tx[s].todo = {}
         /\ \/ Reject(s)
            \/ /\ EndTx(s) /\ UNCHANGED <<project, object, puts, jobs, trouble>>
               /\ row[a].status = "pending"
               /\ RowsOK' /\ row'[a].status = "ready" /\ row'[a].version = tx[s].seen
               /\ \A b \in Attachments \ {a} : row'[b] = row[b]
<1>1. tx[s].op = "complete" /\ tx[s].pc = "flip"
  BY DEF MarkReady, Running
<1>2. tx[s] \in TxRecord /\ a \in Attachments /\ tx[s].todo = {}
  BY <1>1, Worker DEF Ops, Working, Doing
<1>3. CASE ~ Reject(s)
  <2>1. /\ EndTx(s) /\ UNCHANGED <<project, object, puts, jobs, trouble>>
        /\ row[a].status = "pending"
        /\ row' = [row EXCEPT ![a] = [NewRow("ready") EXCEPT !.version = tx[s].seen]]
    BY <1>3 DEF MarkReady
  <2> QED
    BY ZenonT(40), <1>1, <1>2, <2>1, ReadyRow
<1> QED
  BY <1>1, <1>2, <1>3

LEMMA SetVersionFacts ==
  ASSUME TInv, NEW s \in Sessions, SetVersionIds(s), NEW a, a = tx[s].att
  PROVE  /\ a \in Attachments /\ tx[s].op = "restore" /\ tx[s].pc = "record" /\ tx[s].todo = {}
         /\ EndTx(s) /\ UNCHANGED <<project, object, puts, jobs>>
         /\ RowsOK' /\ row'[a].status = "ready" /\ row'[a].version = tx[s].seen
         /\ \A b \in Attachments \ {a} : row'[b] = row[b]
         /\ trouble' \in [Attachments -> SUBSET Troubles]
         /\ trouble'[a] = (trouble[a] \cap {"hide", "rejected"})
                            \cup IF Midway("hide", a) THEN {"overlap"} ELSE {}
         /\ \A b \in Attachments \ {a} : trouble'[b] = trouble[b]
<1>1. tx[s].op = "restore" /\ tx[s].pc = "record"
  BY DEF SetVersionIds, Running
<1>2. tx[s] \in TxRecord /\ a \in Attachments /\ tx[s].todo = {}
  BY <1>1, Worker DEF Ops, Working, Doing
<1>3. PICK g : g = (trouble[a] \cap {"hide", "rejected"})
                     \cup IF Midway("hide", a) THEN {"overlap"} ELSE {}
  OBVIOUS
<1>4. /\ EndTx(s) /\ UNCHANGED <<project, object, puts, jobs>>
      /\ row' = [row EXCEPT ![a] = [NewRow("ready") EXCEPT !.version = tx[s].seen]]
      /\ trouble' = [trouble EXCEPT ![a] = g]
  BY <1>3 DEF SetVersionIds
<1>5. g \in SUBSET Troubles
  BY <1>3 DEF Troubles
<1>6. /\ trouble' \in [Attachments -> SUBSET Troubles] /\ trouble'[a] = g
      /\ \A b \in Attachments \ {a} : trouble'[b] = trouble[b]
  BY <1>2, <1>4, <1>5 DEF TInv, OthersOK
<1>7. /\ RowsOK' /\ row'[a].status = "ready" /\ row'[a].version = tx[s].seen
      /\ \A b \in Attachments \ {a} : row'[b] = row[b]
  BY <1>2, <1>4, ReadyRow
<1> QED
  BY <1>1, <1>2, <1>3, <1>4, <1>6, <1>7

LEMMA CommitPdfFacts ==
  ASSUME TInv, NEW s \in Sessions, CommitPdf(s), NEW a, a = tx[s].att
  PROVE  /\ a \in Attachments /\ a \in Pdfs /\ tx[s].op = "issue" /\ tx[s].pc = "commit"
         /\ \/ Reject(s)
            \/ /\ EndTx(s) /\ UNCHANGED <<project, object, puts, jobs, trouble>>
               /\ RowsOK' /\ row'[a].status = "ready" /\ row'[a].version = tx[s].seen
               /\ \A b \in Attachments \ {a} : row'[b] = row[b]
<1>1. tx[s].op = "issue" /\ tx[s].pc = "commit"
  BY DEF CommitPdf, Running
<1>2. tx[s] \in TxRecord /\ a \in Attachments /\ a \in Pdfs
  BY <1>1, Worker DEF Ops, Working, Doing
<1>3. CASE ~ Reject(s)
  <2>1. /\ EndTx(s) /\ UNCHANGED <<project, object, puts, jobs, trouble>>
        /\ row' = [row EXCEPT ![a] = [NewRow("ready") EXCEPT !.version = tx[s].seen]]
    BY <1>3 DEF CommitPdf
  <2> QED
    BY <1>1, <1>2, <2>1, ReadyRow
<1> QED
  BY <1>1, <1>2, <1>3

LEMMA MarkHiddenFacts ==
  ASSUME TInv, NEW s \in Sessions, MarkHidden(s), NEW a, a = tx[s].att
  PROVE  /\ a \in Attachments /\ tx[s].op = "hide" /\ tx[s].pc = "flip" /\ tx[s].todo = {}
         /\ \/ Fail(s, {"rejected"})
            \/ /\ EndTx(s) /\ UNCHANGED <<project, object, puts, jobs>>
               /\ row[a].status = "ready"
               /\ RowsOK' /\ row'[a].status = "hidden" /\ row'[a].version = row[a].version
               /\ \A b \in Attachments \ {a} : row'[b] = row[b]
               /\ trouble' \in [Attachments -> SUBSET Troubles]
               /\ trouble'[a] = trouble[a] \ {"hide", "rejected"}
               /\ \A b \in Attachments \ {a} : trouble'[b] = trouble[b]
<1>1. tx[s].op = "hide" /\ tx[s].pc = "flip"
  BY DEF MarkHidden, Running
<1>2. tx[s] \in TxRecord /\ a \in Attachments /\ tx[s].todo = {}
  BY <1>1, Worker DEF Ops, Working, Doing
<1>3. CASE ~ Fail(s, {"rejected"})
  <2>1. PICK b \in BOOLEAN : b = FALSE
    OBVIOUS
  <2>2. /\ EndTx(s) /\ UNCHANGED <<project, object, puts, jobs>> /\ row[a].status = "ready"
        /\ trouble' = [trouble EXCEPT ![a] = trouble[a] \ {"hide", "rejected"}]
    BY <1>3 DEF MarkHidden
  <2>3. row' = [row EXCEPT ![a].status = "hidden", ![a].aged = b]
    BY <1>3, <2>1, Zenon DEF MarkHidden
  <2>4. row \in [Attachments -> RowRecord] /\ "hidden" \in Status
    BY DEF TInv, RowsOK, Status, Live
  <2>5. PICK r : r = [row[a] EXCEPT !.status = "hidden", !.aged = b]
    OBVIOUS
  <2>6. row' = [row EXCEPT ![a] = r]
    BY <1>2, <2>3, <2>4, <2>5 DEF RowRecord
  <2>7. r \in RowRecord /\ r.status = "hidden" /\ r.version = row[a].version
    BY ZenonT(40), <1>2, <2>4, <2>5 DEF RowRecord
  <2>8. /\ trouble' \in [Attachments -> SUBSET Troubles]
        /\ trouble'[a] = trouble[a] \ {"hide", "rejected"}
        /\ \A c \in Attachments \ {a} : trouble'[c] = trouble[c]
    BY <1>2, <2>2 DEF TInv, OthersOK
  <2>9. RowsOK' /\ row'[a] = r /\ \A c \in Attachments \ {a} : row'[c] = row[c]
    BY <1>2, <2>2, <2>6, <2>7, RowTypes
  <2> QED
    BY <1>1, <1>2, <2>2, <2>7, <2>8, <2>9
<1> QED
  BY <1>1, <1>2, <1>3

\* the jobs
LEMMA SweepFacts ==
  /\ NoSweep \in SweepRecord /\ NoSweep.pc = "idle" /\ NoSweep.orphans = {} /\ NoSweep.old = {}
  BY DEF NoSweep, SweepRecord

LEMMA ListBucketFacts ==
  ASSUME TInv, ListBucket
  PROVE  /\ UNCHANGED <<project, row, object, puts, lock, tx, reaping, expired, trouble>>
         /\ sweep' \in SweepRecord /\ sweep'.pc = "rows" /\ sweep'.orphans = {}
         /\ \A k \in sweep'.old : k \in Keys /\ object[k].shown /\ object[k].top <= object[k].old
<1>1. PICK L : L = {k \in Keys : object[k].shown}
  OBVIOUS
<1>2. PICK D : D = {k \in L : object[k].top <= object[k].old}
  OBVIOUS
<1>3. /\ UNCHANGED <<project, row, object, puts, lock, tx, reaping, expired, trouble>>
      /\ sweep' = [NoSweep EXCEPT !.pc = "rows", !.listed = L, !.old = D]
  BY <1>1, <1>2 DEF ListBucket
<1>4. L \in SUBSET Keys /\ D \in SUBSET Keys
  BY <1>1, <1>2
<1>5. sweep' \in SweepRecord /\ sweep'.pc = "rows" /\ sweep'.orphans = {} /\ sweep'.old = D
  BY <1>3, <1>4 DEF NoSweep, SweepRecord
<1> QED
  BY <1>1, <1>2, <1>3, <1>5

LEMMA JudgeFacts ==
  ASSUME TInv, Judge
  PROVE  /\ UNCHANGED <<project, row, object, puts, lock, tx, reaping, expired, trouble>>
         /\ sweep.pc = "rows" /\ sweep' \in SweepRecord /\ sweep'.pc \in {"idle", "hide"}
         /\ sweep'.orphans \subseteq sweep.old \ Referenced
         /\ sweep'.orphans # {} => sweep'.pc = "hide"
<1>1. PICK D : D = sweep.old \ Referenced
  OBVIOUS
<1>2. /\ UNCHANGED <<project, row, object, puts, lock, tx, reaping, expired, trouble>>
      /\ sweep.pc = "rows"
      /\ sweep' = NoSweep \/ sweep' = [NoSweep EXCEPT !.pc = "hide", !.orphans = D]
  BY <1>1 DEF Judge
<1>3. D \in SUBSET Keys
  BY <1>1 DEF TInv, JobsOK, SweepRecord
<1>4. /\ sweep' \in SweepRecord
      /\ \/ sweep'.pc = "idle" /\ sweep'.orphans = {}
         \/ sweep'.pc = "hide" /\ sweep'.orphans = D
  <2>1. CASE sweep' = NoSweep
    BY <2>1, SweepFacts
  <2>2. CASE sweep' = [NoSweep EXCEPT !.pc = "hide", !.orphans = D]
    <3>1. /\ [NoSweep EXCEPT !.pc = "hide", !.orphans = D] \in SweepRecord
          /\ [NoSweep EXCEPT !.pc = "hide", !.orphans = D].orphans = D
          /\ [NoSweep EXCEPT !.pc = "hide", !.orphans = D].pc = "hide"
      BY <1>3 DEF NoSweep, SweepRecord
    <3> QED
      BY <2>2, <3>1
  <2> QED
    BY <1>2, <2>1, <2>2
<1> QED
  BY <1>1, <1>2, <1>4

LEMMA SweepKeyFacts ==
  ASSUME TInv, NEW k \in Keys, SweepKey(k)
  PROVE  /\ UNCHANGED <<project, row, puts, lock, tx, reaping, expired, trouble>>
         /\ k \in sweep.orphans /\ HideObject(k)
         /\ sweep' \in SweepRecord /\ sweep'.orphans \subseteq sweep.orphans
         /\ sweep'.pc \in {"idle", sweep.pc} /\ (sweep'.orphans # {} => sweep'.pc = sweep.pc)
         /\ sweep'.pc = "rows" => sweep'.old = sweep.old
<1>1. PICK D : D = sweep.orphans \ {k}
  OBVIOUS
<1>2. /\ UNCHANGED <<project, row, puts, lock, tx, reaping, expired, trouble>>
      /\ k \in sweep.orphans /\ HideObject(k)
      /\ sweep' = NoSweep \/ sweep' = [sweep EXCEPT !.orphans = D]
  BY <1>1 DEF SweepKey
<1>3. sweep \in SweepRecord
  BY DEF TInv, JobsOK
<1>4. D \in SUBSET Keys
  BY <1>1, <1>3 DEF SweepRecord
<1>5. CASE sweep' = NoSweep
  BY <1>2, <1>5, SweepFacts
<1>6. CASE sweep' = [sweep EXCEPT !.orphans = D]
  <2>1. sweep' \in SweepRecord /\ sweep'.pc = sweep.pc /\ sweep'.orphans = D /\ sweep'.old = sweep.old
    BY <1>3, <1>4, <1>6 DEF SweepRecord
  <2> QED
    BY <1>1, <1>2, <2>1
<1> QED
  BY <1>2, <1>5, <1>6

LEMMA ReapPendingFacts ==
  ASSUME TInv, ReapPending
  PROVE  /\ UNCHANGED <<project, object, puts, lock, tx, expired, sweep, trouble>>
         /\ RowsOK' /\ JobsOK' /\ reaping' \subseteq Keys
         /\ \A a \in Attachments :
              \/ row'[a] = row[a] /\ reaping' \cap KeysOf(a) = {}
              \/ row[a].status = "pending" /\ row'[a].status = "gone"
<1>1. PICK D : D = {a \in Attachments : row[a].status = "pending" /\ row[a].aged}
  OBVIOUS
<1>2. /\ UNCHANGED <<project, object, puts, lock, tx, expired, sweep, trouble>>
      /\ row' = [a \in Attachments |-> IF a \in D THEN NewRow("gone") ELSE row[a]]
      /\ reaping' = UNION {KeysOf(a) : a \in D}
  BY <1>1 DEF ReapPending
<1>3. \A a \in D : a \in Attachments /\ row[a].status = "pending"
  BY <1>1
<1>4. row' \in [Attachments -> RowRecord]
  BY <1>2, GoneRow DEF TInv, RowsOK
<1>5. reaping' \subseteq Keys
  BY <1>2, <1>3 DEF Keys
<1>6. \A a \in Attachments \ D : reaping' \cap KeysOf(a) = {}
  BY <1>2 DEF KeysOf
<1>7. RowsOK' /\ JobsOK'
  BY <1>2, <1>4, <1>5 DEF TInv, RowsOK, JobsOK, RowRecord, SweepRecord, Keys, KeysOf
<1> QED
  BY <1>2, <1>3, <1>5, <1>6, <1>7, GoneRow

LEMMA ReapHiddenFacts ==
  ASSUME TInv, NEW a \in Attachments, ReapHidden(a)
  PROVE  /\ UNCHANGED <<project, object, puts, lock, tx, reaping, sweep, trouble>>
         /\ RowsOK' /\ JobsOK' /\ \A b \in Attachments \ {a} : row'[b] = row[b]
         /\ \/ row'[a] = row[a]
            \/ row[a].status = "hidden" /\ lock[a] = None /\ row'[a].status = "gone"
<1>1. /\ UNCHANGED <<project, object, puts, lock, tx, reaping, sweep, trouble>>
      /\ expired' = expired \ {a}
      /\ \/ row[a].status = "hidden" /\ lock[a] = None /\ row' = [row EXCEPT ![a] = NewRow("gone")]
         \/ UNCHANGED row
  BY DEF ReapHidden
<1>2. JobsOK'
  BY <1>1 DEF TInv, JobsOK, SweepRecord, Keys, KeysOf
<1>3. CASE row[a].status = "hidden" /\ lock[a] = None /\ row' = [row EXCEPT ![a] = NewRow("gone")]
  <2>1. RowsOK' /\ row'[a] = NewRow("gone") /\ \A b \in Attachments \ {a} : row'[b] = row[b]
    BY <1>1, <1>3, GoneRow, RowTypes
  <2> QED
    BY <1>1, <1>2, <1>3, <2>1, GoneRow
<1>4. CASE UNCHANGED row
  BY <1>1, <1>2, <1>4, SameRows
<1> QED
  BY <1>1, <1>3, <1>4

LEMMA SessionTypes ==
  ASSUME TInv, NEW s \in Sessions, Submit(s) \/ Step(s) \/ Abort(s)
  PROVE  TInv'
<1>1. CASE \E what \in SUBSET {"hide", "rejected", "restore"} : Fail(s, what)
  <2>1. PICK what \in SUBSET {"hide", "rejected", "restore"} : Fail(s, what)
    BY <1>1
  <2>2. /\ EndTx(s) /\ UNCHANGED <<project, row, object, puts, jobs>>
        /\ trouble' \in [Attachments -> SUBSET Troubles]
    BY <2>1, FailFacts
  <2>3. Turn(s, Idle) /\ lock' \in [Attachments -> Sessions \cup {None}]
    BY <2>2, IdleTurn
  <2>4. RowsOK' /\ BucketOK' /\ SessionsOK' /\ JobsOK'
    BY <2>2, <2>3, SameRows, SameBucket, SameJobs, TurnTypes
  <2>5. OthersOK'
    BY <2>2, <2>3 DEF TInv, OthersOK, Keys, KeysOf
  <2> QED
    BY <2>4, <2>5 DEF TInv
<1>2. Reject(s) => \E what \in SUBSET {"hide", "rejected", "restore"} : Fail(s, what)
  BY DEF Reject
<1>3. CASE OnlySession /\ \E t : Turn(s, t)
  <2>1. UNCHANGED <<project, row, object, puts, lock, jobs, trouble>>
    BY <1>3 DEF OnlySession
  <2>2. RowsOK' /\ BucketOK' /\ OthersOK' /\ JobsOK'
    BY <2>1, SameRows, SameBucket, SameJobs, SameOthers
  <2>3. SessionsOK'
    BY <1>3, TurnTypes
  <2> QED
    BY <2>2, <2>3 DEF TInv
<1>4. CASE EndTx(s) /\ RowsOK' /\ UNCHANGED <<object, jobs>> /\ puts' \in SUBSET Keys
           /\ trouble' \in [Attachments -> SUBSET Troubles]
  <2>1. Turn(s, Idle) /\ lock' \in [Attachments -> Sessions \cup {None}]
    BY <1>4, IdleTurn
  <2>2. SessionsOK' /\ BucketOK' /\ JobsOK'
    BY <1>4, <2>1, SameBucket, SameJobs, TurnTypes
  <2>3. OthersOK'
    BY <1>4, <2>1 DEF TInv, OthersOK, Keys, KeysOf
  <2> QED
    BY <1>4, <2>2, <2>3 DEF TInv
<1>5. CASE UNCHANGED <<project, row, puts, lock, jobs, trouble>> /\ BucketOK' /\ \E t : Turn(s, t)
  <2>1. RowsOK' /\ OthersOK' /\ JobsOK' /\ SessionsOK'
    BY <1>5, SameRows, SameJobs, SameOthers, TurnTypes
  <2> QED
    BY <1>5, <2>1 DEF TInv
<1>6. ASSUME Submit(s) PROVE OnlySession /\ \E t : Turn(s, t)
  <2>1. CASE \E a \in Attachments : SubmitInit(s, a) \/ SubmitComplete(s, a) \/ SubmitHide(s, a)
               \/ SubmitRestore(s, a) \/ SubmitIssue(s, a)
    BY <2>1, SubmitFacts
  <2>2. CASE \E p \in Projects : SubmitPurge(s, p)
    BY <2>2, SubmitPurgeFacts
  <2> QED
    BY <1>6, <2>1, <2>2 DEF Submit
<1>7. ASSUME Abort(s) PROVE \E what \in SUBSET {"hide", "rejected", "restore"} : Fail(s, what)
  <2>1. {tx[s].op} \cap {"hide", "restore"} \in SUBSET {"hide", "rejected", "restore"}
    OBVIOUS
  <2> QED
    BY <1>7, <2>1 DEF Abort
<1>8. CASE InsertPending(s)
  <2>1. PICK a : a = tx[s].att
    OBVIOUS
  <2>2. CASE Reject(s)
    BY <1>1, <1>2, <2>2
  <2>3. CASE ~ Reject(s)
    <3>1. /\ a \in Attachments /\ EndTx(s) /\ UNCHANGED <<project, object, jobs, trouble>>
          /\ puts' = puts \cup KeysOf(a) /\ RowsOK'
      BY <1>8, <2>1, <2>3, InsertFacts
    <3>2. puts' \in SUBSET Keys /\ trouble' \in [Attachments -> SUBSET Troubles]
      BY <3>1 DEF TInv, OthersOK, Keys
    <3> QED
      BY <1>4, <3>1, <3>2
  <2> QED
    BY <2>2, <2>3
<1>9. CASE ReadForComplete(s) \/ ReadForHide(s) \/ ReadForRestore(s)
  <2>1. Reject(s) \/ (OnlySession /\ \E t : Turn(s, t))
    BY <1>9, ReadFacts
  <2> QED
    BY <1>1, <1>2, <1>3, <2>1
<1>10. CASE Head(s)
  <2>1. PICK p : p = NextPart(tx[s])
    OBVIOUS
  <2>2. Reject(s) \/ (OnlySession /\ Turn(s, tx'[s]))
    BY <1>10, <2>1, HeadFacts
  <2> QED
    BY <1>1, <1>2, <1>3, <2>2
<1>11. puts \in SUBSET Keys /\ trouble \in [Attachments -> SUBSET Troubles]
  BY DEF TInv, OthersOK
<1>12. CASE MarkReady(s)
  <2>1. \/ Reject(s)
        \/ EndTx(s) /\ UNCHANGED <<project, object, puts, jobs, trouble>> /\ RowsOK'
    BY <1>12, MarkReadyFacts
  <2> QED
    BY <1>1, <1>2, <1>4, <1>11, <2>1
<1>13. CASE HidePart(s)
  <2>1. PICK p : p = NextPart(tx[s])
    OBVIOUS
  <2>2. /\ p \in PartsOf(tx[s].att) /\ tx[s].att \in Attachments
        /\ Turn(s, tx'[s]) /\ HideObject(<<tx[s].att, p>>)
        /\ UNCHANGED <<project, row, puts, lock, jobs, trouble>>
    BY <1>13, <2>1, HidePartFacts
  <2>3. BucketOK'
    BY <2>2, PartFacts, HideFacts
  <2> QED
    BY <1>5, <2>2, <2>3
<1>14. CASE MarkHidden(s)
  <2>1. \/ Fail(s, {"rejected"})
        \/ /\ EndTx(s) /\ UNCHANGED <<project, object, puts, jobs>> /\ RowsOK'
           /\ trouble' \in [Attachments -> SUBSET Troubles]
    BY <1>14, MarkHiddenFacts
  <2> QED
    BY <1>1, <1>4, <1>11, <2>1
<1>15. CASE MarkRestored(s)
  <2>1. CASE Reject(s)
    BY <1>1, <1>2, <2>1
  <2>2. CASE ~ Reject(s)
    <3>1. PICK a : a = tx[s].att
      OBVIOUS
    <3>2. /\ a \in Attachments /\ UNCHANGED <<project, row, object, puts, jobs>>
          /\ lock' = [lock EXCEPT ![a] = s]
          /\ trouble' = [trouble EXCEPT ![a] = trouble[a] \ {"hide", "rejected"}]
          /\ \E t : Turn(s, t)
      BY <1>15, <2>2, <3>1, MarkRestoredFacts
    <3>3. RowsOK' /\ BucketOK' /\ JobsOK' /\ SessionsOK'
      BY <3>2, SameRows, SameBucket, SameJobs, TurnTypes
    <3>4. OthersOK'
      BY <3>2 DEF TInv, OthersOK, Keys, KeysOf
    <3> QED
      BY <3>3, <3>4 DEF TInv
  <2> QED
    BY <2>1, <2>2
<1>16. CASE Copy(s)
  <2>1. CASE Fail(s, {"restore"})
    BY <1>1, <2>1
  <2>2. CASE ~ Fail(s, {"restore"})
    <3>1. PICK p : p = NextPart(tx[s])
      OBVIOUS
    <3>2. /\ p \in PartsOf(tx[s].att) /\ tx[s].att \in Attachments
          /\ Turn(s, tx'[s]) /\ Write(<<tx[s].att, p>>)
          /\ UNCHANGED <<project, row, puts, lock, jobs, trouble>>
      BY <1>16, <2>2, <3>1, CopyFacts
    <3>3. BucketOK'
      BY <3>2, PartFacts, WriteFacts
    <3> QED
      BY <1>5, <3>2, <3>3
  <2> QED
    BY <2>1, <2>2
<1>17. CASE SetVersionIds(s)
  <2>1. /\ EndTx(s) /\ UNCHANGED <<project, object, puts, jobs>> /\ RowsOK'
        /\ trouble' \in [Attachments -> SUBSET Troubles]
    BY <1>17, SetVersionFacts
  <2> QED
    BY <1>4, <1>11, <2>1
<1>18. CASE PutPdf(s)
  <2>1. PICK t : /\ tx[s].att \in Attachments
                 /\ Turn(s, t) /\ Write(<<tx[s].att, "orig">>)
                 /\ UNCHANGED <<project, row, puts, lock, jobs, trouble>>
    BY <1>18, PutPdfFacts
  <2>2. BucketOK'
    BY <2>1, PartFacts, WriteFacts
  <2> QED
    BY <1>5, <2>1, <2>2
<1>19. CASE CommitPdf(s)
  <2>1. \/ Reject(s)
        \/ EndTx(s) /\ UNCHANGED <<project, object, puts, jobs, trouble>> /\ RowsOK'
    BY <1>19, CommitPdfFacts
  <2> QED
    BY <1>1, <1>2, <1>4, <1>11, <2>1
<1>20. CASE ListKeys(s)
  BY <1>3, <1>20, ListKeysFacts
<1>21. CASE CheckArchived(s)
  <2>1. Reject(s) \/ (OnlySession /\ \E t : Turn(s, t))
    BY <1>21, CheckArchivedFacts
  <2> QED
    BY <1>1, <1>2, <1>3, <2>1
<1>22. CASE DeleteProject(s)
  <2>1. PICK p, t : /\ p \in Projects /\ project' = [project EXCEPT ![p] = "gone"] /\ Turn(s, t)
                    /\ UNCHANGED <<object, puts, lock, jobs, trouble>>
                    /\ row' \in [Attachments -> RowRecord]
    BY <1>22, DeleteFacts
  <2>2. RowsOK'
    BY <2>1 DEF TInv, RowsOK, RowRecord
  <2>3. BucketOK' /\ OthersOK' /\ JobsOK' /\ SessionsOK'
    BY <2>1, SameBucket, SameJobs, SameOthers, TurnTypes
  <2> QED
    BY <2>2, <2>3 DEF TInv
<1>23. CASE HidePurged(s)
  <2>1. PICK k, t : /\ k \in tx[s].keys /\ TryHide(k) /\ Turn(s, t)
                    /\ UNCHANGED <<project, row, puts, lock, jobs, trouble>>
    BY <1>23, HidePurgedFacts
  <2>2. k \in Keys
    BY <2>1 DEF TInv, SessionsOK, TxRecord
  <2>3. BucketOK'
    BY <2>1, <2>2, HideFacts, SameBucket DEF TryHide
  <2> QED
    BY <1>5, <2>1, <2>3
<1> QED
  BY <1>1, <1>3, <1>6, <1>7, <1>8, <1>9, <1>10, <1>12, <1>13, <1>14, <1>15, <1>16, <1>17, <1>18,
     <1>19, <1>20, <1>21, <1>22, <1>23 DEF Step

LEMMA PutArrivesFacts ==
  ASSUME TInv, NEW k \in Keys, PutArrives(k)
  PROVE  /\ UNCHANGED <<project, row, lock, tx, jobs, trouble>>
         /\ k \in puts /\ Write(k) /\ puts' = puts \ {k}
  BY DEF PutArrives

LEMMA StepTInv == TInv /\ [Next]_vars => TInv'
<1> SUFFICES ASSUME TInv, [Next]_vars PROVE TInv'
  OBVIOUS
<1>1. CASE \E s \in Sessions : Submit(s) \/ Step(s) \/ Abort(s)
  BY <1>1, SessionTypes
<1>2. CASE \E p \in Projects : Archive(p) \/ Unarchive(p)
  <2>1. PICK p \in Projects, st \in {"active", "archived"} :
          /\ project' = [project EXCEPT ![p] = st]
          /\ UNCHANGED <<row, object, puts, lock, tx, jobs, trouble>>
    BY <1>2 DEF Archive, Unarchive, Flip
  <2>2. RowsOK'
    BY <2>1 DEF TInv, RowsOK, RowRecord
  <2>3. BucketOK' /\ SessionsOK' /\ OthersOK' /\ JobsOK'
    BY <2>1, SameBucket, SameSessions, SameOthers, SameJobs
  <2> QED
    BY <2>2, <2>3 DEF TInv
<1>3. CASE \E k \in Keys : PutArrives(k)
  <2>1. PICK k \in Keys : /\ UNCHANGED <<project, row, lock, tx, jobs, trouble>>
                          /\ puts' = puts \ {k} /\ Write(k)
    BY <1>3, PutArrivesFacts
  <2>2. RowsOK' /\ BucketOK' /\ SessionsOK' /\ JobsOK'
    BY <2>1, SameRows, SameSessions, SameJobs, WriteFacts
  <2>3. OthersOK'
    BY <2>1 DEF TInv, OthersOK, Keys, KeysOf
  <2> QED
    BY <2>2, <2>3 DEF TInv
<1>4. CASE \E k \in Keys : SweepKey(k)
  <2>1. PICK k \in Keys : SweepKey(k)
    BY <1>4
  <2>2. /\ UNCHANGED <<project, row, puts, lock, tx, reaping, expired, trouble>>
        /\ HideObject(k) /\ sweep' \in SweepRecord
    BY <2>1, SweepKeyFacts
  <2>3. RowsOK' /\ BucketOK' /\ SessionsOK' /\ OthersOK'
    BY <2>2, SameRows, SameSessions, SameOthers, HideFacts
  <2>4. JobsOK'
    BY <2>2 DEF TInv, JobsOK, SweepRecord, Keys, KeysOf
  <2> QED
    BY <2>3, <2>4 DEF TInv
<1>5. CASE \E k \in Keys : ReapVersion(k)
  <2>1. UNCHANGED <<project, row, puts, lock, tx, jobs, trouble>> /\ BucketOK'
    BY <1>5, ReapVersionFacts
  <2> QED
    BY <2>1, SameRows, SameSessions, SameOthers, SameJobs DEF TInv
<1>6. CASE \E a \in Attachments : ReapHidden(a)
  <2>1. /\ UNCHANGED <<project, object, puts, lock, tx, reaping, sweep, trouble>>
        /\ RowsOK' /\ JobsOK'
    BY <1>6, ReapHiddenFacts
  <2> QED
    BY <2>1, SameBucket, SameSessions, SameOthers DEF TInv
<1>7. CASE ReapPending
  <2>1. /\ UNCHANGED <<project, object, puts, lock, tx, expired, sweep, trouble>>
        /\ RowsOK' /\ JobsOK'
    BY <1>7, ReapPendingFacts
  <2> QED
    BY <2>1, SameBucket, SameSessions, SameOthers DEF TInv
<1>8. CASE HideReaped
  <2>1. PICK k \in reaping : /\ TryHide(k) /\ reaping' = reaping \ {k}
                             /\ UNCHANGED <<project, row, puts, lock, tx, expired, sweep, trouble>>
    BY <1>8 DEF HideReaped
  <2>2. k \in Keys
    BY <2>1 DEF TInv, JobsOK
  <2>3. RowsOK' /\ BucketOK' /\ SessionsOK' /\ OthersOK'
    BY <2>1, <2>2, SameRows, SameSessions, SameOthers, HideFacts, SameBucket DEF TryHide
  <2>4. JobsOK'
    BY <2>1 DEF TInv, JobsOK, SweepRecord, Keys, KeysOf
  <2> QED
    BY <2>3, <2>4 DEF TInv
<1>9. CASE ListExpired
  <2>1. /\ expired' \subseteq Attachments
        /\ UNCHANGED <<project, row, object, puts, lock, tx, reaping, sweep, trouble>>
    BY <1>9 DEF ListExpired
  <2>2. JobsOK'
    BY <2>1 DEF TInv, JobsOK, SweepRecord, Keys, KeysOf
  <2> QED
    BY <2>1, <2>2, SameRows, SameBucket, SameSessions, SameOthers DEF TInv
<1>10. CASE ListBucket \/ Judge
  <2>1. /\ sweep' \in SweepRecord
        /\ UNCHANGED <<project, row, object, puts, lock, tx, reaping, expired, trouble>>
    BY <1>10, ListBucketFacts, JudgeFacts
  <2>2. JobsOK'
    BY <2>1 DEF TInv, JobsOK, SweepRecord, Keys, KeysOf
  <2> QED
    BY <2>1, <2>2, SameRows, SameBucket, SameSessions, SameOthers DEF TInv
<1>11. CASE TimePasses
  <2>1. /\ UNCHANGED <<project, puts, lock, tx, jobs>> /\ RowsOK' /\ BucketOK'
        /\ trouble' \in [Attachments -> SUBSET Troubles]
    BY <1>11, TimeFacts
  <2>2. OthersOK'
    BY <2>1 DEF TInv, OthersOK, Keys, KeysOf
  <2> QED
    BY <2>1, <2>2, SameSessions, SameJobs DEF TInv
<1>12. CASE JobsDie
  <2>1. /\ reaping' = {} /\ expired' = {} /\ sweep' = NoSweep
        /\ UNCHANGED <<project, row, object, puts, lock, tx, trouble>>
    BY <1>12 DEF JobsDie
  <2>2. JobsOK'
    BY <2>1, SweepFacts DEF JobsOK, SweepRecord, Keys, KeysOf
  <2> QED
    BY <2>1, <2>2, SameRows, SameBucket, SameSessions, SameOthers DEF TInv
<1>13. CASE UNCHANGED vars
  <2>1. UNCHANGED <<project, row, object, puts, lock, tx, jobs, trouble>>
    BY <1>13 DEF vars
  <2> QED
    BY <2>1, SameRows, SameBucket, SameSessions, SameOthers, SameJobs DEF TInv
<1> QED
  BY <1>1, <1>2, <1>3, <1>4, <1>5, <1>6, <1>7, <1>8, <1>9, <1>10, <1>11, <1>12, <1>13 DEF Next

LEMMA InitTInv == Init => TInv
<1> SUFFICES ASSUME Init PROVE TInv
  OBVIOUS
<1>1. PICK b \in BOOLEAN : b = FALSE
  OBVIOUS
<1>2. PICK o : o = [top |-> 0, shown |-> b, kept |-> {}, old |-> 0, stale |-> {}]
  OBVIOUS
<1>3. NoObject = o
  BY <1>1, <1>2, Zenon DEF NoObject
<1>4. ObjectOK(o)
  <2>1. o \in ObjectRecord /\ o.top = 0 /\ o.old = 0 /\ o.kept = {} /\ o.stale = {} /\ o.shown = b
    BY <1>2 DEF ObjectRecord
  <2>2. ~ o.shown
    BY <1>1, <2>1, Zenon
  <2> QED
    BY <2>1, <2>2 DEF ObjectOK
<1>5. BucketOK
  <2>1. object = [k \in Keys |-> o]
    BY <1>3 DEF Init
  <2>2. o \in ObjectRecord
    BY <1>4 DEF ObjectOK
  <2> QED
    BY <1>4, <2>1, <2>2 DEF BucketOK
<1>6. RowsOK
  <2>1. "none" \in Status
    BY DEF Status
  <2>2. NewRow("none") \in RowRecord
    BY <2>1, NewRowOK
  <2> QED
    BY <2>2 DEF Init, RowsOK
<1>7. SessionsOK
  <2>1. tx = [s \in Sessions |-> Idle]
    BY DEF Init
  <2>2. Idle \in TxRecord /\ SessionOK(Idle)
    BY IdleOK DEF SessionOK
  <2> QED
    BY <2>1, <2>2 DEF SessionsOK
<1>8. OthersOK /\ JobsOK
  BY SweepFacts DEF Init, OthersOK, JobsOK
<1> QED
  BY <1>5, <1>6, <1>7, <1>8 DEF TInv

\* Every variable has its type, however many handlers, reapers and sweeps
\* interleave.  The inductive invariant TInv adds what a handler still has to
\* do at each of its steps, that a key's current version is never reaped nor
\* marked for it, and that the provider only holds versions that were written.
THEOREM TypeCorrect == Spec => []TypeOK
<1>1. Init => TInv
  BY InitTInv
<1>2. TInv /\ [Next]_vars => TInv'
  BY StepTInv
<1>3. TInv => TypeOK
  BY TInvTypes
<1> QED
  BY <1>1, <1>2, <1>3, PTL DEF Spec

-----------------------------------------------------------------------------
(* Rows *)

\* of the steps of the sessions only the purge of its project deletes a row
LEMMA SessionRows ==
  ASSUME TInv, NEW s \in Sessions, Submit(s) \/ Step(s) \/ Abort(s), NEW a \in Attachments,
         row[a].status # "gone", row'[a].status = "gone"
  PROVE  DeleteProject(s) /\ ProjectOf[a] = tx[s].prj
<1>1. CASE UNCHANGED row
  BY <1>1
<1>2. \A what : Fail(s, what) => UNCHANGED row
  BY DEF Fail
<1>3. Reject(s) => UNCHANGED row
  BY <1>2 DEF Reject
<1>4. OnlySession => UNCHANGED row
  BY DEF OnlySession
<1>5. CASE Submit(s)
  <2>1. CASE \E b \in Attachments : SubmitInit(s, b) \/ SubmitComplete(s, b) \/ SubmitHide(s, b)
               \/ SubmitRestore(s, b) \/ SubmitIssue(s, b)
    BY <1>1, <1>4, <2>1, SubmitFacts
  <2>2. CASE \E p \in Projects : SubmitPurge(s, p)
    BY <1>1, <1>4, <2>2, SubmitPurgeFacts
  <2> QED
    BY <1>5, <2>1, <2>2 DEF Submit
<1>6. CASE Abort(s)
  BY <1>1, <1>2, <1>6 DEF Abort
<1>7. CASE ReadForComplete(s) \/ ReadForHide(s) \/ ReadForRestore(s) \/ Head(s)
  BY <1>1, <1>3, <1>4, <1>7, ReadFacts DEF Head
<1>8. CASE HidePart(s) \/ PutPdf(s) \/ ListKeys(s) \/ HidePurged(s)
  BY <1>1, <1>4, <1>8 DEF HidePart, PutPdf, ListKeys, HidePurged
<1>9. CASE MarkRestored(s) \/ Copy(s) \/ CheckArchived(s)
  BY <1>1, <1>2, <1>3, <1>4, <1>9 DEF MarkRestored, Copy, CheckArchived
<1>10. CASE InsertPending(s)
  <2>1. PICK b : b = tx[s].att
    OBVIOUS
  <2> QED
    BY <1>1, <1>3, <1>10, <2>1, InsertFacts
<1>11. CASE MarkReady(s)
  <2>1. PICK b : b = tx[s].att
    OBVIOUS
  <2> QED
    BY <1>1, <1>3, <1>11, <2>1, MarkReadyFacts
<1>12. CASE MarkHidden(s)
  <2>1. PICK b : b = tx[s].att
    OBVIOUS
  <2> QED
    BY <1>1, <1>2, <1>12, <2>1, MarkHiddenFacts
<1>13. CASE SetVersionIds(s)
  <2>1. PICK b : b = tx[s].att
    OBVIOUS
  <2> QED
    BY <1>1, <1>13, <2>1, SetVersionFacts
<1>14. CASE CommitPdf(s)
  <2>1. PICK b : b = tx[s].att
    OBVIOUS
  <2> QED
    BY <1>1, <1>3, <1>14, <2>1, CommitPdfFacts
<1>15. CASE DeleteProject(s)
  <2>1. \A b \in Attachments :
          row'[b] = IF b \in RowsOf(tx[s].prj) THEN NewRow("gone") ELSE row[b]
    BY <1>15, DeleteFacts
  <2>2. a \in RowsOf(tx[s].prj)
    BY <2>1
  <2> QED
    BY <1>15, <2>2 DEF RowsOf
<1> QED
  BY <1>5, <1>6, <1>7, <1>8, <1>9, <1>10, <1>11, <1>12, <1>13, <1>14, <1>15 DEF Step

\* of the jobs the reapers delete rows, pending or hidden ones
LEMMA ReadyStays ==
  ASSUME TInv, [Next]_vars, NEW a \in Attachments, row[a].status = "ready",
         row'[a].status = "gone"
  PROVE  project'[ProjectOf[a]] = "gone"
<1>1. CASE \E s \in Sessions : Submit(s) \/ Step(s) \/ Abort(s)
  <2>1. PICK s \in Sessions : Submit(s) \/ Step(s) \/ Abort(s)
    BY <1>1
  <2>2. DeleteProject(s) /\ ProjectOf[a] = tx[s].prj
    BY <2>1, SessionRows
  <2>3. tx[s].prj \in Projects /\ project' = [project EXCEPT ![tx[s].prj] = "gone"]
    BY <2>2, DeleteFacts
  <2> QED
    BY <2>2, <2>3 DEF TInv, RowsOK
<1>2. CASE UNCHANGED row
  BY <1>2
<1>3. CASE \/ \E p \in Projects : Archive(p) \/ Unarchive(p)
           \/ \E k \in Keys : PutArrives(k) \/ SweepKey(k) \/ ReapVersion(k)
           \/ HideReaped \/ ListExpired \/ ListBucket \/ Judge \/ JobsDie \/ UNCHANGED vars
  BY <1>2, <1>3 DEF Archive, Unarchive, Flip, PutArrives, SweepKey, ReapVersion, HideReaped,
     ListExpired, ListBucket, Judge, JobsDie, vars
<1>4. CASE \E b \in Attachments : ReapHidden(b)
  BY <1>4, ReapHiddenFacts
<1>5. CASE ReapPending
  BY <1>5, ReapPendingFacts
<1>6. CASE TimePasses
  BY <1>6, TimeFacts
<1> QED
  BY <1>1, <1>3, <1>4, <1>5, <1>6 DEF Next

\* AC-408, AC-426: whatever the reapers and the clients do around a ready row,
\* it goes only when its project does.
THEOREM ReadyStay == Spec => ReadyNeverReaped
<1>1. TInv /\ [Next]_vars =>
        [\A a \in Attachments : row[a].status = "ready" /\ row'[a].status = "gone"
           => project'[ProjectOf[a]] = "gone"]_vars
  BY ReadyStays
<1>2. Init => TInv
  BY InitTInv
<1>3. TInv /\ [Next]_vars => TInv'
  BY StepTInv
<1> QED
  BY <1>1, <1>2, <1>3, PTL DEF Spec, ReadyNeverReaped

-----------------------------------------------------------------------------
(* One attachment: its row, its objects and the handlers at work on it *)

O(a, p) == object[<<a, p>>]

\* a row that was ready has bytes; a ready one names the newest of them
Written0(a) == row[a].status \in {"ready", "hidden"} => \A p \in PartsOf(a) : O(a, p).top >= 1
Named(a)    == row[a].status = "ready" => \A p \in PartsOf(a) : row[a].version[p] = O(a, p).top

\* a presigned PUT is the first to write its key
PutOnce(a)  == \A p \in PartsOf(a) :
                 <<a, p>> \in puts => row[a].status # "none" /\ O(a, p).top = 0

\* nobody but its handler knows the id of a row that is not committed
Alone(a)    == \A r, s \in Sessions :
                 tx[r].att = a /\ tx[s].att = a /\ tx[r].op \in {"init", "issue"} => r = s

\* a row lock is held by a restore between its compare-and-set and its commit
Locked(a)   == lock[a] # None =>
                 \E s \in Sessions : /\ lock[a] = s /\ tx[s].att = a /\ tx[s].op = "restore"
                                     /\ tx[s].pc \in {"copy", "record"}

\* what the handlers know at their steps
InitUse(s, a)  == tx[s].op = "init" =>
  row[a].status = "none" /\ \A p \in PartsOf(a) : O(a, p).top = 0
IssueUse(s, a) == tx[s].op = "issue" =>
  /\ row[a].status = "none"
  /\ tx[s].pc = "put" => O(a, "orig").top = 0
  /\ tx[s].pc = "commit" => /\ O(a, "orig").shown /\ O(a, "orig").old < O(a, "orig").top
                            /\ tx[s].seen["orig"] = O(a, "orig").top
CompleteUse(s, a) == tx[s].op = "complete" =>
  /\ row[a].status # "none"
  /\ tx[s].pc # "row" /\ row[a].status = "pending" =>
       \A p \in PartsOf(a) \ tx[s].todo : O(a, p).shown /\ tx[s].seen[p] = O(a, p).top
HideUse(s, a) == tx[s].op = "hide" =>
  /\ row[a].status \in {"ready", "hidden", "gone"}
  /\ tx[s].pc # "row" => \A p \in PartsOf(a) : O(a, p).top >= 1
RestoreUse(s, a) == tx[s].op = "restore" =>
  /\ row[a].status # "none"
  /\ tx[s].pc \in {"copy", "record"} =>
       /\ lock[a] = s /\ row[a].status = "hidden"
       /\ \A p \in PartsOf(a) \ tx[s].todo :
            tx[s].seen[p] = O(a, p).top /\ O(a, p).old < O(a, p).top /\ O(a, p).top \in O(a, p).kept
Used(a) == \A s \in Sessions : tx[s].att = a =>
  InitUse(s, a) /\ IssueUse(s, a) /\ CompleteUse(s, a) /\ HideUse(s, a) /\ RestoreUse(s, a)

\* a hide, a restore is halfway through a's objects, or broke off there
Marked(a) == Midway("hide", a) \/ trouble[a] \cap {"hide", "rejected"} # {}
Copied(a) == Midway("restore", a) \/ trouble[a] \cap {"restore", "overlap"} # {}

ReadableOK(a) == ~ Marked(a) =>
  /\ row[a].status = "ready" => \A p \in PartsOf(a) : O(a, p).shown
  /\ \A s \in Sessions : tx[s].att = a /\ tx[s].op = "restore" =>
       \A p \in PartsOf(a) \ tx[s].todo : O(a, p).shown
HiddenOK(a) == ~ Copied(a) =>
  /\ row[a].status = "hidden" => \A p \in PartsOf(a) : ~ O(a, p).shown
  /\ \A s \in Sessions : tx[s].att = a /\ tx[s].op = "hide" =>
       \A p \in PartsOf(a) \ tx[s].todo : ~ O(a, p).shown
KeptOK(a) ==
  "old" \notin trouble[a] /\ (row[a].status = "ready" \/ (row[a].status = "hidden" /\ ~ row[a].aged)) =>
    \A p \in PartsOf(a) : row[a].version[p] \in O(a, p).kept /\ row[a].version[p] \notin O(a, p).stale

AInv(a) == /\ Written0(a) /\ Named(a) /\ PutOnce(a) /\ Alone(a) /\ Locked(a) /\ Used(a)
           /\ ReadableOK(a) /\ HiddenOK(a) /\ KeptOK(a)

\* a step that leaves a's row, objects and handlers alone
SameSession(a) == \A s \in Sessions : tx[s].att = a \/ tx'[s].att = a => tx'[s] = tx[s]
SameObjects(a) == \A p \in PartsOf(a) : object'[<<a, p>>] = object[<<a, p>>]
Same(a) == /\ row'[a] = row[a] /\ lock'[a] = lock[a] /\ trouble'[a] = trouble[a]
           /\ SameObjects(a) /\ SameSession(a)
           /\ \A p \in PartsOf(a) : <<a, p>> \in puts' => <<a, p>> \in puts

LEMMA Frame ==
  ASSUME TInv, NEW a \in Attachments, AInv(a), Same(a)
  PROVE  AInv(a)'
<1>1. Written0(a)' /\ Named(a)' /\ PutOnce(a)' /\ KeptOK(a)'
  BY DEF Same, SameObjects, AInv, Written0, Named, PutOnce, KeptOK, O
<1>2. Alone(a)'
  BY DEF Same, SameSession, AInv, Alone
<1>3. Locked(a)'
  BY DEF Same, SameSession, AInv, Locked
<1>4. Used(a)'
  <2> SUFFICES ASSUME NEW s \in Sessions, tx'[s].att = a
               PROVE  (InitUse(s, a) /\ IssueUse(s, a) /\ CompleteUse(s, a) /\ HideUse(s, a)
                         /\ RestoreUse(s, a))'
    BY DEF Used
  <2>1. tx'[s] = tx[s] /\ tx[s].att = a
    BY DEF Same, SameSession
  <2>2. InitUse(s, a) /\ IssueUse(s, a) /\ CompleteUse(s, a) /\ HideUse(s, a) /\ RestoreUse(s, a)
    BY <2>1 DEF AInv, Used
  <2>3. row'[a] = row[a] /\ lock'[a] = lock[a] /\ \A p \in PartsOf(a) : O(a, p)' = O(a, p)
    BY DEF Same, SameObjects, O
  <2>4. tx[s].op = "issue" => "orig" \in PartsOf(a)
    BY PartFacts
  <2>5. InitUse(s, a)' /\ CompleteUse(s, a)'
    BY <2>1, <2>2, <2>3 DEF InitUse, CompleteUse
  <2>6. HideUse(s, a)' /\ RestoreUse(s, a)'
    BY <2>1, <2>2, <2>3 DEF HideUse, RestoreUse
  <2>7. IssueUse(s, a)'
    BY <2>1, <2>2, <2>3, <2>4 DEF IssueUse
  <2> QED
    BY <2>5, <2>6, <2>7
<1>5. \A op \in {"hide", "restore"} : Midway(op, a)' <=> Midway(op, a)
  BY DEF Same, SameSession, Midway
<1>6. (Marked(a)' <=> Marked(a)) /\ (Copied(a)' <=> Copied(a))
  BY <1>5 DEF Same, Marked, Copied
<1>7. ReadableOK(a)'
  BY <1>6 DEF Same, SameObjects, SameSession, AInv, ReadableOK, O
<1>8. HiddenOK(a)'
  BY <1>6 DEF Same, SameObjects, SameSession, AInv, HiddenOK, O
<1> QED
  BY <1>1, <1>2, <1>3, <1>4, <1>7, <1>8 DEF AInv

LEMMA Elsewhere ==
  ASSUME TInv, NEW s \in Sessions, NEW t, Turn(s, t), NEW b \in Attachments,
         tx[s].att # b, t.att # b
  PROVE  SameSession(b)
  BY TurnTypes DEF SameSession

LEMMA ElsewhereEnd ==
  ASSUME TInv, NEW s \in Sessions, EndTx(s), NEW b \in Attachments, AInv(b), tx[s].att # b
  PROVE  SameSession(b) /\ lock'[b] = lock[b]
<1>1. Turn(s, Idle) /\ Idle.att = None /\ lock'[b] = IF lock[b] = s THEN None ELSE lock[b]
  BY IdleTurn, IdleOK DEF Resting
<1>2. SameSession(b)
  BY <1>1, Elsewhere
<1>3. lock[b] # s
  BY DEF AInv, Locked
<1> QED
  BY <1>1, <1>2, <1>3

\* a handler on a starts or reads a's row
LEMMA AnnounceKeeps ==
  ASSUME TInv, NEW a \in Attachments, AInv(a), NEW s \in Sessions, NEW t, Turn(s, t), OnlySession,
         t.att = a, t.todo = PartsOf(a), t.pc \notin {"copy", "record", "commit"},
         tx[s].pc \notin {"copy", "record"},
         \/ Resting(tx[s])
         \/ tx[s].att = a /\ tx[s].op = t.op /\ tx[s].todo = PartsOf(a),
         t.op \in {"init", "issue"} => FreshId(a),
         t.op \in {"complete", "restore"} => row[a].status # "none",
         t.op = "hide" => row[a].status \in {"ready", "hidden", "gone"},
         t.op = "hide" /\ t.pc # "row" => row[a].status \in {"ready", "hidden"}
  PROVE  AInv(a)'
<1>1. /\ tx'[s] = t /\ \A r \in Sessions \ {s} : tx'[r] = tx[r]
      /\ UNCHANGED <<row, object, puts, lock, trouble>>
  BY TurnTypes DEF OnlySession
<1>2. Resting(tx[s]) => tx[s].op = "none" /\ tx[s].att # a
  BY DEF Resting
<1>3. Written0(a)' /\ Named(a)' /\ PutOnce(a)' /\ KeptOK(a)'
  BY <1>1 DEF AInv, Written0, Named, PutOnce, KeptOK, O
<1>4. Locked(a)'
  BY <1>1 DEF AInv, Locked
<1>5. FreshId(a) => /\ row[a].status = "none" /\ \A r \in Sessions : tx[r].att # a
                    /\ \A p \in PartsOf(a) : object[<<a, p>>].top = 0
  BY PartFacts DEF FreshId
<1>6. Alone(a)'
  <2>1. t.op \notin {"init", "issue"} =>
          \A r \in Sessions \ {s} : tx[r].att = a => tx[r].op \notin {"init", "issue"}
    BY <1>2 DEF AInv, Used, Alone, InitUse, IssueUse, SessionOK, Turn, TxRecord, Ops, Resting, Working, Purging, Doing
  <2> QED
    BY <1>1, <1>2, <1>5, <2>1 DEF AInv, Alone
<1>7. Used(a)'
  <2> SUFFICES ASSUME NEW r \in Sessions, tx'[r].att = a
               PROVE  (InitUse(r, a) /\ IssueUse(r, a) /\ CompleteUse(r, a) /\ HideUse(r, a)
                         /\ RestoreUse(r, a))'
    BY DEF Used
  <2>1. CASE r # s
    BY <1>1, <2>1 DEF AInv, Used, InitUse, IssueUse, CompleteUse, HideUse, RestoreUse, O
  <2>2. CASE r = s
    <3>1. "orig" \in PartsOf(a)
      BY PartFacts
    <3>2. InitUse(s, a)' /\ IssueUse(s, a)'
      BY <1>1, <1>5, <3>1 DEF InitUse, IssueUse, O
    <3>3. CompleteUse(s, a)' /\ RestoreUse(s, a)'
      BY <1>1 DEF CompleteUse, RestoreUse
    <3>4. HideUse(s, a)'
      BY <1>1 DEF HideUse, AInv, Written0, O
    <3> QED
      BY <2>2, <3>2, <3>3, <3>4
  <2> QED
    BY <2>1, <2>2
<1>8. \A op \in {"hide", "restore"} : Midway(op, a)' <=> Midway(op, a)
  BY <1>1, <1>2 DEF Midway
<1>9. (Marked(a)' <=> Marked(a)) /\ (Copied(a)' <=> Copied(a))
  BY <1>1, <1>8 DEF Marked, Copied
<1>10. ReadableOK(a)'
  BY <1>1, <1>9 DEF AInv, ReadableOK, O
<1>11. HiddenOK(a)'
  BY <1>1, <1>9 DEF AInv, HiddenOK, O
<1> QED
  BY <1>3, <1>4, <1>6, <1>7, <1>10, <1>11 DEF AInv

\* completeUpload has seen a part
LEMMA HeadKeeps ==
  ASSUME TInv, NEW s \in Sessions, Head(s), ~ Reject(s), NEW a \in Attachments, AInv(a),
         a = tx[s].att
  PROVE  AInv(a)'
<1> PICK p : p = NextPart(tx[s])
  OBVIOUS
<1> PICK t : t = tx'[s]
  OBVIOUS
<1>1.   /\ Turn(s, t) /\ p \in PartsOf(a) /\ OnlySession /\ object[<<a, p>>].shown
        /\ t.op = "complete" /\ t.pc \in {"head", "flip"} /\ t.att = a
        /\ t.todo = tx[s].todo \ {p}
        /\ t.seen[p] = object[<<a, p>>].top
        /\ \A q \in Parts \ {p} : t.seen[q] = tx[s].seen[q]
  BY HeadFacts
<1>2. tx[s].op = "complete" /\ tx[s].pc = "head"
  BY HeadFacts, Zenon
<1>3. /\ tx'[s] = t /\ \A r \in Sessions \ {s} : tx'[r] = tx[r]
      /\ UNCHANGED <<row, object, puts, lock, trouble>>
  BY <1>1, TurnTypes DEF OnlySession
<1>4. Written0(a)' /\ Named(a)' /\ PutOnce(a)' /\ KeptOK(a)'
  BY <1>3 DEF AInv, Written0, Named, PutOnce, KeptOK, O
<1>5. Locked(a)' /\ Alone(a)'
  BY <1>1, <1>2, <1>3 DEF AInv, Locked, Alone
<1>6. Used(a)'
  <2> SUFFICES ASSUME NEW r \in Sessions, tx'[r].att = a
               PROVE  (InitUse(r, a) /\ IssueUse(r, a) /\ CompleteUse(r, a) /\ HideUse(r, a)
                         /\ RestoreUse(r, a))'
    BY DEF Used
  <2>1. CASE r # s
    BY SMTT(30), <1>3, <2>1 DEF AInv, Used, InitUse, IssueUse, CompleteUse, HideUse, RestoreUse, O
  <2>2. CASE r = s
    <3>1. CompleteUse(s, a) /\ PartsOf(a) \subseteq Parts
      BY PartFacts DEF AInv, Used
    <3>2. CompleteUse(s, a)'
      BY <1>1, <1>2, <1>3, <3>1 DEF CompleteUse, O
    <3>3. InitUse(s, a)' /\ IssueUse(s, a)' /\ HideUse(s, a)' /\ RestoreUse(s, a)'
      BY <1>1, <1>3 DEF InitUse, IssueUse, HideUse, RestoreUse
    <3> QED
      BY <2>2, <3>2, <3>3
  <2> QED
    BY <2>1, <2>2
<1>7. \A op \in {"hide", "restore"} : Midway(op, a)' <=> Midway(op, a)
  BY <1>1, <1>2, <1>3 DEF Midway
<1>8. (Marked(a)' <=> Marked(a)) /\ (Copied(a)' <=> Copied(a))
  BY <1>3, <1>7 DEF Marked, Copied
<1>9. ReadableOK(a)'
  BY <1>1, <1>3, <1>8 DEF AInv, ReadableOK, O
<1>10. HiddenOK(a)'
  BY <1>1, <1>3, <1>8 DEF AInv, HiddenOK, O
<1> QED
  BY <1>4, <1>5, <1>6, <1>9, <1>10 DEF AInv

\* markRestored has locked the row
LEMMA LockKeeps ==
  ASSUME TInv, NEW s \in Sessions, MarkRestored(s), ~ Reject(s), NEW a \in Attachments, AInv(a),
         a = tx[s].att
  PROVE  AInv(a)'
<1>1. PICK t : /\ Turn(s, t) /\ t.op = "restore" /\ t.pc = "copy" /\ t.att = a
               /\ t.todo = PartsOf(a)
  BY MarkRestoredFacts
<1>2. /\ tx[s].op = "restore" /\ tx[s].pc = "flip" /\ tx[s].todo = PartsOf(a)
      /\ UNCHANGED <<row, object, puts>> /\ row[a].status = "hidden" /\ lock[a] = None
      /\ lock' = [lock EXCEPT ![a] = s]
      /\ trouble' = [trouble EXCEPT ![a] = trouble[a] \ {"hide", "rejected"}]
  BY MarkRestoredFacts
<1>3. /\ tx'[s] = t /\ \A r \in Sessions \ {s} : tx'[r] = tx[r]
  BY <1>1, TurnTypes
<1>4. lock'[a] = s /\ trouble'[a] = trouble[a] \ {"hide", "rejected"}
  BY <1>2 DEF TInv, OthersOK
<1>5. Written0(a)' /\ Named(a)' /\ PutOnce(a)' /\ KeptOK(a)'
  BY <1>2, <1>4 DEF AInv, Written0, Named, PutOnce, KeptOK, O
<1>6. Locked(a)' /\ Alone(a)'
  BY <1>1, <1>2, <1>3, <1>4 DEF AInv, Locked, Alone
<1>7. \A r \in Sessions : tx[r].att = a /\ tx[r].op = "restore" => tx[r].pc \notin {"copy", "record"}
  BY <1>2 DEF AInv, Used, RestoreUse
<1>8. Used(a)'
  <2> SUFFICES ASSUME NEW r \in Sessions, tx'[r].att = a
               PROVE  (InitUse(r, a) /\ IssueUse(r, a) /\ CompleteUse(r, a) /\ HideUse(r, a)
                         /\ RestoreUse(r, a))'
    BY DEF Used
  <2>1. CASE r # s
    BY <1>2, <1>3, <1>7, <2>1 DEF AInv, Used, InitUse, IssueUse, CompleteUse, HideUse, RestoreUse, O
  <2>2. CASE r = s
    BY <1>1, <1>2, <1>3, <1>4, <2>2 DEF InitUse, IssueUse, CompleteUse, HideUse, RestoreUse
  <2> QED
    BY <2>1, <2>2
<1>9. Copied(a)' <=> Copied(a)
  <2>1. Midway("restore", a)' <=> Midway("restore", a)
    BY <1>1, <1>2, <1>3 DEF Midway
  <2> QED
    BY <1>4, <2>1 DEF Copied
<1>10. \A r \in Sessions : tx[r].att = a /\ tx[r].op = "restore" => tx[r].todo = PartsOf(a)
  <2> SUFFICES ASSUME NEW r \in Sessions, tx[r].att = a, tx[r].op = "restore"
               PROVE  tx[r].todo = PartsOf(a)
    OBVIOUS
  <2>1. Working(tx[r])
    BY Worker DEF Ops
  <2> QED
    BY <1>7, <2>1 DEF Working, Doing
<1>11. ReadableOK(a)'
  BY <1>1, <1>2, <1>3, <1>10 DEF ReadableOK, O
<1>12. HiddenOK(a)'
  BY <1>1, <1>2, <1>3, <1>9 DEF AInv, HiddenOK, O
<1> QED
  BY <1>5, <1>6, <1>8, <1>11, <1>12 DEF AInv

\* a part is marked by the hide under way
LEMMA HidePartKeeps ==
  ASSUME TInv, NEW s \in Sessions, HidePart(s), NEW a \in Attachments, AInv(a), a = tx[s].att
  PROVE  AInv(a)'
<1> PICK p : p = NextPart(tx[s])
  OBVIOUS
<1> PICK t : t = tx'[s]
  OBVIOUS
<1>1.   /\ Turn(s, t) /\ p \in PartsOf(a) /\ HideObject(<<a, p>>)
        /\ t.op = "hide" /\ t.pc \in {"mark", "flip"} /\ t.att = a
        /\ t.todo = tx[s].todo \ {p}
  BY HidePartFacts
<1>2. /\ tx[s].op = "hide" /\ tx[s].pc = "mark"
      /\ UNCHANGED <<row, puts, lock, trouble>>
  BY HidePartFacts, Zenon
<1>3. /\ tx'[s] = t /\ \A r \in Sessions \ {s} : tx'[r] = tx[r]
  BY <1>1, TurnTypes
<1>4. <<a, p>> \in Keys /\ \A q \in PartsOf(a) \ {p} : <<a, q>> \in Keys \ {<<a, p>>}
  BY <1>1, PartFacts
<1>5. /\ ~ object'[<<a, p>>].shown
      /\ \A q \in PartsOf(a) :
           /\ object'[<<a, q>>].top = object[<<a, q>>].top
           /\ object'[<<a, q>>].kept = object[<<a, q>>].kept
           /\ object'[<<a, q>>].old = object[<<a, q>>].old
           /\ object'[<<a, q>>].stale = object[<<a, q>>].stale
      /\ \A q \in PartsOf(a) \ {p} : object'[<<a, q>>].shown = object[<<a, q>>].shown
  BY <1>1, <1>4, HideFacts
<1>6. Written0(a)' /\ Named(a)' /\ PutOnce(a)' /\ KeptOK(a)'
  BY SMTT(30), <1>2, <1>5 DEF AInv, Written0, Named, PutOnce, KeptOK, O
<1>7. Locked(a)' /\ Alone(a)'
  BY <1>1, <1>2, <1>3 DEF AInv, Locked, Alone
<1>8. HideUse(s, a)
  BY DEF AInv, Used
<1>9. \A r \in Sessions : tx[r].att = a => tx[r].op \notin {"init", "issue"}
  BY <1>2 DEF AInv, Alone
<1>10. row[a].status \in {"ready", "hidden", "gone"} /\ \A q \in PartsOf(a) : O(a, q).top >= 1
  BY <1>2, <1>8 DEF HideUse
<1>11. Used(a)'
  <2> SUFFICES ASSUME NEW r \in Sessions, tx'[r].att = a
               PROVE  (InitUse(r, a) /\ IssueUse(r, a) /\ CompleteUse(r, a) /\ HideUse(r, a)
                         /\ RestoreUse(r, a))'
    BY DEF Used
  <2>1. CASE r # s
    <3>1. tx'[r] = tx[r] /\ tx[r].att = a
      BY <1>3, <2>1
    <3>2. InitUse(r, a)' /\ IssueUse(r, a)'
      BY <1>9, <3>1 DEF InitUse, IssueUse
    <3>3. CompleteUse(r, a)' /\ HideUse(r, a)'
      BY <1>2, <1>5, <1>10, <3>1 DEF AInv, Used, CompleteUse, HideUse, O
    <3>4. RestoreUse(r, a)'
      BY <1>2, <1>5, <3>1 DEF AInv, Used, RestoreUse, O
    <3> QED
      BY <3>2, <3>3, <3>4
  <2>2. CASE r = s
    BY <1>1, <1>2, <1>3, <1>5, <1>10, <2>2
       DEF InitUse, IssueUse, CompleteUse, HideUse, RestoreUse, O
  <2> QED
    BY <2>1, <2>2
<1>12. Marked(a)'
  BY <1>1, <1>3 DEF Marked, Midway
<1>13. Copied(a)' <=> Copied(a)
  <2>1. Midway("restore", a)' <=> Midway("restore", a)
    BY <1>1, <1>2, <1>3 DEF Midway
  <2> QED
    BY <1>2, <2>1 DEF Copied
<1>14. ReadableOK(a)'
  BY <1>12 DEF ReadableOK
<1>15. HiddenOK(a)'
  BY <1>1, <1>2, <1>3, <1>5, <1>13 DEF AInv, HiddenOK, O
<1> QED
  BY <1>6, <1>7, <1>11, <1>14, <1>15 DEF AInv

\* what a write to one of a's keys leaves as it was
LEMMA WritePart ==
  ASSUME TInv, NEW a \in Attachments, NEW p \in PartsOf(a), Write(<<a, p>>)
  PROVE  /\ object'[<<a, p>>].top = object[<<a, p>>].top + 1 /\ object'[<<a, p>>].shown
         /\ object'[<<a, p>>].kept = object[<<a, p>>].kept \cup {object[<<a, p>>].top + 1}
         /\ object'[<<a, p>>].old = object[<<a, p>>].old
         /\ object'[<<a, p>>].stale = object[<<a, p>>].stale
         /\ \A q \in PartsOf(a) \ {p} : object'[<<a, q>>] = object[<<a, q>>]
         /\ \A b \in Attachments \ {a} : SameObjects(b)
<1>1. <<a, p>> \in Keys /\ \A q \in PartsOf(a) \ {p} : <<a, q>> \in Keys \ {<<a, p>>}
  BY PartFacts
<1>2. \A b \in Attachments \ {a} : \A q \in PartsOf(b) : <<b, q>> \in Keys \ {<<a, p>>}
  BY PartFacts
<1> QED
  BY <1>1, <1>2, WriteFacts DEF SameObjects

LEMMA Numbers ==
  ASSUME TInv, NEW a \in Attachments, NEW p \in PartsOf(a)
  PROVE  /\ O(a, p).top \in Nat /\ O(a, p).old \in Nat /\ O(a, p).old <= O(a, p).top
         /\ O(a, p).kept \subseteq 1 .. O(a, p).top /\ O(a, p).stale \subseteq 1 .. O(a, p).old
         /\ O(a, p).shown => O(a, p).top \in O(a, p).kept /\ O(a, p).top \notin O(a, p).stale
                             /\ O(a, p).top >= 1
<1>1. ObjectOK(object[<<a, p>>])
  BY PartFacts DEF TInv, BucketOK
<1> QED
  BY <1>1 DEF ObjectOK, ObjectRecord, O

\* a restore under way has copied a part
LEMMA CopyKeeps ==
  ASSUME TInv, NEW s \in Sessions, Copy(s), ~ Fail(s, {"restore"}), NEW a \in Attachments,
         AInv(a), a = tx[s].att
  PROVE  AInv(a)'
<1> PICK p : p = NextPart(tx[s])
  OBVIOUS
<1> PICK t : t = tx'[s]
  OBVIOUS
<1>1.   /\ Turn(s, t) /\ p \in PartsOf(a) /\ Write(<<a, p>>)
        /\ t.op = "restore" /\ t.pc \in {"copy", "record"} /\ t.att = a
        /\ t.todo = tx[s].todo \ {p} /\ p \in tx[s].todo
        /\ t.seen[p] = object[<<a, p>>].top + 1
        /\ \A q \in Parts \ {p} : t.seen[q] = tx[s].seen[q]
  BY CopyFacts
<1>2. /\ tx[s].op = "restore" /\ tx[s].pc = "copy"
      /\ UNCHANGED <<row, puts, lock, trouble>>
  BY CopyFacts, Zenon
<1>3. /\ tx'[s] = t /\ \A r \in Sessions \ {s} : tx'[r] = tx[r]
  BY <1>1, TurnTypes
<1>4. /\ object'[<<a, p>>].top = object[<<a, p>>].top + 1 /\ object'[<<a, p>>].shown
      /\ object'[<<a, p>>].kept = object[<<a, p>>].kept \cup {object[<<a, p>>].top + 1}
      /\ object'[<<a, p>>].old = object[<<a, p>>].old
      /\ object'[<<a, p>>].stale = object[<<a, p>>].stale
      /\ \A q \in PartsOf(a) \ {p} : object'[<<a, q>>] = object[<<a, q>>]
  BY <1>1, WritePart
<1>5. lock[a] = s /\ row[a].status = "hidden" /\ RestoreUse(s, a)
  BY <1>2 DEF AInv, Used, RestoreUse
<1>6. \A q \in PartsOf(a) : O(a, q).top >= 1 /\ O(a, q).top \in Nat /\ O(a, q).old \in Nat
                            /\ O(a, q).old <= O(a, q).top
  BY <1>5, Numbers DEF AInv, Written0
<1>7. Written0(a)' /\ Named(a)' /\ PutOnce(a)'
  BY <1>2, <1>4, <1>5, <1>6 DEF AInv, Written0, Named, PutOnce, O
<1>8. KeptOK(a)'
  BY ZenonT(40), <1>2, <1>4 DEF AInv, KeptOK, O
<1>9. Locked(a)' /\ Alone(a)'
  BY <1>1, <1>2, <1>3 DEF AInv, Locked, Alone
<1>10. \A r \in Sessions \ {s} : tx[r].att = a =>
         tx[r].op \notin {"init", "issue"} /\ (tx[r].op = "restore" => tx[r].pc \notin {"copy", "record"})
  BY <1>5 DEF AInv, Alone, Used, RestoreUse
<1>11. Used(a)'
  <2> SUFFICES ASSUME NEW r \in Sessions, tx'[r].att = a
               PROVE  (InitUse(r, a) /\ IssueUse(r, a) /\ CompleteUse(r, a) /\ HideUse(r, a)
                         /\ RestoreUse(r, a))'
    BY DEF Used
  <2>1. CASE r # s
    <3>1. tx'[r] = tx[r] /\ tx[r].att = a
      BY <1>3, <2>1
    <3>2. InitUse(r, a)' /\ IssueUse(r, a)'
      BY <1>10, <2>1, <3>1 DEF InitUse, IssueUse
    <3>3. CompleteUse(r, a)' /\ RestoreUse(r, a)'
      BY <1>2, <1>5, <1>10, <2>1, <3>1 DEF CompleteUse, RestoreUse
    <3>4. HideUse(r, a)'
      BY <1>2, <1>4, <1>5, <1>6, <3>1 DEF HideUse, O
    <3> QED
      BY <3>2, <3>3, <3>4
  <2>2. CASE r = s
    <3>1. PartsOf(a) \subseteq Parts
      BY PartFacts
    <3>2. RestoreUse(s, a)'
      <4>1. lock'[a] = s /\ row'[a].status = "hidden"
        BY <1>2, <1>5
      <4>2. ASSUME NEW q \in PartsOf(a) \ t.todo, q = p
            PROVE  t.seen[q] = O(a, q)'.top /\ O(a, q)'.old < O(a, q)'.top /\ O(a, q)'.top \in O(a, q)'.kept
        <5>1. /\ t.seen[p] = object[<<a, p>>].top + 1 /\ object[<<a, p>>].top \in Nat
              /\ object[<<a, p>>].old \in Nat /\ object[<<a, p>>].old <= object[<<a, p>>].top
          BY <1>1, <1>6 DEF O
        <5> QED
          BY <1>4, <4>2, <5>1 DEF O
      <4>3. ASSUME NEW q \in PartsOf(a) \ t.todo, q # p
            PROVE  t.seen[q] = O(a, q)'.top /\ O(a, q)'.old < O(a, q)'.top /\ O(a, q)'.top \in O(a, q)'.kept
        <5>1. q \in PartsOf(a) \ tx[s].todo /\ q \in Parts
          BY <1>1, <3>1, <4>3
        <5>2. t.seen[q] = tx[s].seen[q] /\ O(a, q)' = O(a, q)
          BY <1>1, <1>4, <4>3, <5>1 DEF O
        <5> QED
          BY <1>2, <1>5, <5>1, <5>2 DEF RestoreUse
      <4> QED
        BY <1>3, <4>1, <4>2, <4>3 DEF RestoreUse
    <3>3. InitUse(s, a)' /\ IssueUse(s, a)' /\ CompleteUse(s, a)' /\ HideUse(s, a)'
      BY <1>1, <1>3 DEF InitUse, IssueUse, CompleteUse, HideUse
    <3> QED
      BY <2>2, <3>2, <3>3
  <2> QED
    BY <2>1, <2>2
<1>12. Copied(a)'
  BY <1>1, <1>3 DEF Copied, Midway
<1>13. Marked(a)' <=> Marked(a)
  <2>1. Midway("hide", a)' <=> Midway("hide", a)
    BY <1>1, <1>2, <1>3 DEF Midway
  <2> QED
    BY <1>2, <2>1 DEF Marked
<1>14. ReadableOK(a)'
  BY <1>1, <1>2, <1>3, <1>4, <1>5, <1>13 DEF AInv, ReadableOK, O
<1>15. HiddenOK(a)'
  BY <1>12 DEF HiddenOK
<1> QED
  BY <1>7, <1>8, <1>9, <1>11, <1>14, <1>15 DEF AInv

\* a rendered invoice is in the bucket, its row is not there yet
LEMMA PutPdfKeeps ==
  ASSUME TInv, NEW s \in Sessions, PutPdf(s), NEW a \in Attachments, AInv(a), a = tx[s].att
  PROVE  AInv(a)'
<1>1. PICK t : /\ Turn(s, t) /\ t.op = "issue" /\ t.pc = "commit" /\ t.att = a
               /\ t.seen["orig"] = object[<<a, "orig">>].top + 1
  BY PutPdfFacts
<1>2. /\ tx[s].op = "issue" /\ tx[s].pc = "put" /\ a \in Pdfs
      /\ UNCHANGED <<row, puts, lock, trouble>> /\ Write(<<a, "orig">>)
  BY PutPdfFacts
<1>3. /\ tx'[s] = t /\ \A r \in Sessions \ {s} : tx'[r] = tx[r]
  BY <1>1, TurnTypes
<1>4. PartsOf(a) = {"orig"}
  BY <1>2, PartFacts
<1>5. row[a].status = "none" /\ O(a, "orig").top = 0
  BY <1>2 DEF AInv, Used, IssueUse
<1>6. /\ object'[<<a, "orig">>].top = object[<<a, "orig">>].top + 1 /\ object'[<<a, "orig">>].shown
      /\ object'[<<a, "orig">>].old = object[<<a, "orig">>].old
  BY <1>2, <1>4, WritePart
<1>7. O(a, "orig").old \in Nat /\ O(a, "orig").old <= O(a, "orig").top
  BY <1>4, Numbers
<1>8. \A r \in Sessions \ {s} : tx[r].att # a
  BY <1>2 DEF AInv, Alone
<1>9. Written0(a)' /\ Named(a)' /\ PutOnce(a)' /\ KeptOK(a)'
  BY <1>2, <1>5 DEF AInv, Written0, Named, PutOnce, KeptOK
<1>10. Locked(a)' /\ Alone(a)'
  BY <1>1, <1>2, <1>3, <1>8 DEF AInv, Locked, Alone
<1>11. Used(a)'
  <2> SUFFICES ASSUME NEW r \in Sessions, tx'[r].att = a
               PROVE  (InitUse(r, a) /\ IssueUse(r, a) /\ CompleteUse(r, a) /\ HideUse(r, a)
                         /\ RestoreUse(r, a))'
    BY DEF Used
  <2>1. r = s
    BY <1>3, <1>8
  <2>2. IssueUse(s, a)'
    BY <1>1, <1>2, <1>3, <1>5, <1>6, <1>7 DEF IssueUse, O
  <2> QED
    BY <1>1, <1>3, <2>1, <2>2 DEF InitUse, CompleteUse, HideUse, RestoreUse
<1>12. ReadableOK(a)' /\ HiddenOK(a)'
  BY <1>1, <1>2, <1>3, <1>5, <1>8 DEF ReadableOK, HiddenOK
<1> QED
  BY <1>9, <1>10, <1>11, <1>12 DEF AInv

\* the locks and sessions after the end of a handler on a
LEMMA OwnEnd ==
  ASSUME TInv, NEW s \in Sessions, EndTx(s), NEW a \in Attachments, AInv(a), a = tx[s].att
  PROVE  /\ tx'[s].att # a /\ tx'[s].op = "none" /\ \A r \in Sessions \ {s} : tx'[r] = tx[r]
         /\ lock'[a] = IF lock[a] = s THEN None ELSE lock[a]
         /\ \A r \in Sessions : tx'[r].att = a => r # s /\ tx'[r] = tx[r]
         /\ Alone(a)' /\ Locked(a)'
<1>1. Turn(s, Idle) /\ lock'[a] = IF lock[a] = s THEN None ELSE lock[a]
  BY IdleTurn
<1>2. Idle.att = None /\ Idle.op = "none"
  BY IdleOK DEF Resting
<1>3. tx'[s] = Idle /\ \A r \in Sessions \ {s} : tx'[r] = tx[r]
  BY <1>1, TurnTypes
<1>4. \A r \in Sessions : tx'[r].att = a => r # s /\ tx'[r] = tx[r]
  BY <1>2, <1>3
<1>5. Alone(a)'
  BY <1>4 DEF AInv, Alone
<1>6. Locked(a)'
  BY <1>1, <1>3 DEF AInv, Locked
<1> QED
  BY <1>1, <1>2, <1>3, <1>4, <1>5, <1>6

\* the pending row is committed
LEMMA InsertKeeps ==
  ASSUME TInv, NEW s \in Sessions, InsertPending(s), ~ Reject(s), NEW a \in Attachments, AInv(a),
         a = tx[s].att
  PROVE  AInv(a)'
<1>1. /\ tx[s].op = "init" /\ EndTx(s) /\ UNCHANGED <<object, trouble>>
      /\ row'[a].status = "pending" /\ puts' = puts \cup KeysOf(a)
  BY InsertFacts
<1>2. \A p \in PartsOf(a) : O(a, p).top = 0
  BY <1>1 DEF AInv, Used, InitUse
<1>3. \A r \in Sessions : tx'[r].att # a
  BY <1>1, OwnEnd DEF AInv, Alone
<1>4. Written0(a)' /\ Named(a)' /\ PutOnce(a)' /\ KeptOK(a)'
  BY <1>1, <1>2 DEF Written0, Named, PutOnce, KeptOK, O
<1>5. Used(a)' /\ ReadableOK(a)' /\ HiddenOK(a)'
  BY <1>1, <1>3 DEF Used, ReadableOK, HiddenOK
<1> QED
  BY <1>1, <1>4, <1>5, OwnEnd DEF AInv

\* completeUpload ends
LEMMA MarkReadyKeeps ==
  ASSUME TInv, NEW s \in Sessions, MarkReady(s), ~ Reject(s), NEW a \in Attachments, AInv(a),
         a = tx[s].att
  PROVE  AInv(a)'
<1>1. /\ tx[s].op = "complete" /\ tx[s].pc = "flip" /\ tx[s].todo = {} /\ EndTx(s)
      /\ UNCHANGED <<object, puts, trouble>> /\ row[a].status = "pending"
      /\ row'[a].status = "ready" /\ row'[a].version = tx[s].seen
  BY MarkReadyFacts
<1>2. \A p \in PartsOf(a) : O(a, p).shown /\ tx[s].seen[p] = O(a, p).top
  BY <1>1 DEF AInv, Used, CompleteUse
<1>3. \A p \in PartsOf(a) : O(a, p).top >= 1 /\ O(a, p).top \in O(a, p).kept
                            /\ O(a, p).top \notin O(a, p).stale
  BY <1>2, Numbers
<1>4. \A r \in Sessions : tx'[r].att = a => r # s /\ tx'[r] = tx[r]
  BY <1>1, OwnEnd
<1>5. \A r \in Sessions : tx[r].att = a =>
        /\ tx[r].op \notin {"init", "issue", "hide"}
        /\ tx[r].op = "restore" => tx[r].pc \notin {"copy", "record"}
  BY <1>1 DEF AInv, Used, InitUse, IssueUse, HideUse, RestoreUse
<1>6. Written0(a)' /\ Named(a)' /\ KeptOK(a)'
  BY <1>1, <1>2, <1>3 DEF Written0, Named, KeptOK, O
<1>7. PutOnce(a)'
  BY <1>1 DEF AInv, PutOnce, O
<1>8. Used(a)'
  BY <1>1, <1>4, <1>5 DEF Used, InitUse, IssueUse, CompleteUse, HideUse, RestoreUse
<1>9. ReadableOK(a)'
  BY <1>1, <1>2, <1>4 DEF ReadableOK, O
<1>10. HiddenOK(a)'
  BY <1>1, <1>4, <1>5 DEF HiddenOK
<1> QED
  BY <1>1, <1>6, <1>7, <1>8, <1>9, <1>10, OwnEnd DEF AInv

\* hideAttachment ends
LEMMA MarkHiddenKeeps ==
  ASSUME TInv, NEW s \in Sessions, MarkHidden(s), ~ Fail(s, {"rejected"}), NEW a \in Attachments,
         AInv(a), a = tx[s].att
  PROVE  AInv(a)'
<1>1. /\ tx[s].op = "hide" /\ tx[s].todo = {} /\ EndTx(s)
      /\ UNCHANGED <<object, puts>> /\ row[a].status = "ready"
      /\ row'[a].status = "hidden" /\ row'[a].version = row[a].version
      /\ trouble'[a] = trouble[a] \ {"hide", "rejected"}
  BY MarkHiddenFacts
<1>2. /\ \A r \in Sessions : tx'[r].att = a => r # s /\ tx'[r] = tx[r]
      /\ tx'[s].att # a /\ \A r \in Sessions \ {s} : tx'[r] = tx[r]
  BY <1>1, OwnEnd
<1>3. \A r \in Sessions : tx[r].att = a =>
        /\ tx[r].op \notin {"init", "issue"}
        /\ tx[r].op = "restore" => tx[r].pc \notin {"copy", "record"}
  BY <1>1 DEF AInv, Used, InitUse, IssueUse, RestoreUse
<1>4. \A r \in Sessions : tx[r].att = a /\ tx[r].op = "restore" => tx[r].todo = PartsOf(a)
  <2> SUFFICES ASSUME NEW r \in Sessions, tx[r].att = a, tx[r].op = "restore"
               PROVE  tx[r].todo = PartsOf(a)
    OBVIOUS
  <2>1. Working(tx[r])
    BY Worker DEF Ops
  <2> QED
    BY <1>3, <2>1 DEF Working, Doing
<1>5. Written0(a)' /\ Named(a)' /\ KeptOK(a)' /\ PutOnce(a)'
  BY <1>1 DEF AInv, Written0, Named, KeptOK, PutOnce, O
<1>6. Used(a)'
  <2> SUFFICES ASSUME NEW r \in Sessions, tx'[r].att = a
               PROVE  (InitUse(r, a) /\ IssueUse(r, a) /\ CompleteUse(r, a) /\ HideUse(r, a)
                         /\ RestoreUse(r, a))'
    BY DEF Used
  <2>1. tx'[r] = tx[r] /\ tx[r].att = a
    BY <1>2
  <2>2. InitUse(r, a)' /\ IssueUse(r, a)' /\ CompleteUse(r, a)' /\ RestoreUse(r, a)'
    BY <1>1, <1>3, <2>1 DEF InitUse, IssueUse, CompleteUse, RestoreUse
  <2>3. HideUse(r, a)'
    BY <1>1, <2>1 DEF AInv, Used, HideUse, O
  <2> QED
    BY <2>2, <2>3
<1>7. ReadableOK(a)'
  BY <1>1, <1>2, <1>4 DEF ReadableOK
<1>8. Copied(a)' <=> Copied(a)
  <2>1. Midway("restore", a)' <=> Midway("restore", a)
    BY <1>1, <1>2 DEF Midway
  <2> QED
    BY <1>1, <2>1 DEF Copied
<1>9. HiddenOK(a)'
  BY <1>1, <1>2, <1>8 DEF AInv, HiddenOK, O
<1> QED
  BY <1>1, <1>5, <1>6, <1>7, <1>9, OwnEnd DEF AInv

\* a restore commits
LEMMA SetVersionKeeps ==
  ASSUME TInv, NEW s \in Sessions, SetVersionIds(s), NEW a \in Attachments, AInv(a), a = tx[s].att
  PROVE  AInv(a)'
<1>1. /\ tx[s].op = "restore" /\ tx[s].pc = "record" /\ tx[s].todo = {} /\ EndTx(s)
      /\ UNCHANGED <<object, puts>>
      /\ row'[a].status = "ready" /\ row'[a].version = tx[s].seen
      /\ trouble'[a] = (trouble[a] \cap {"hide", "rejected"})
                         \cup IF Midway("hide", a) THEN {"overlap"} ELSE {}
  BY SetVersionFacts
<1>2. /\ \A r \in Sessions : tx'[r].att = a => r # s /\ tx'[r] = tx[r]
      /\ tx'[s].att # a /\ \A r \in Sessions \ {s} : tx'[r] = tx[r]
  BY <1>1, OwnEnd
<1>3. /\ lock[a] = s /\ row[a].status = "hidden"
      /\ \A p \in PartsOf(a) :
           tx[s].seen[p] = O(a, p).top /\ O(a, p).old < O(a, p).top /\ O(a, p).top \in O(a, p).kept
  BY <1>1 DEF AInv, Used, RestoreUse
<1>4. \A p \in PartsOf(a) : O(a, p).top \notin O(a, p).stale
  <2> TAKE p \in PartsOf(a)
  <2>1. O(a, p).old < O(a, p).top /\ O(a, p).stale \subseteq 1 .. O(a, p).old
        /\ O(a, p).old \in Nat /\ O(a, p).top \in Nat
    BY <1>3, Numbers
  <2> QED
    BY <2>1
<1>5. \A r \in Sessions \ {s} : tx[r].att = a =>
        /\ tx[r].op \notin {"init", "issue"}
        /\ tx[r].op = "restore" => tx[r].pc \notin {"copy", "record"}
  BY <1>3 DEF AInv, Used, InitUse, IssueUse, RestoreUse
<1>6. \A r \in Sessions \ {s} : tx[r].att = a /\ tx[r].op = "restore" => tx[r].todo = PartsOf(a)
  <2> SUFFICES ASSUME NEW r \in Sessions \ {s}, tx[r].att = a, tx[r].op = "restore"
               PROVE  tx[r].todo = PartsOf(a)
    OBVIOUS
  <2>1. Working(tx[r])
    BY Worker DEF Ops
  <2> QED
    BY <1>5, <2>1 DEF Working, Doing
<1>7. Written0(a)'
  BY <1>1, <1>3 DEF AInv, Written0, O
<1>8. Named(a)' /\ KeptOK(a)'
  BY <1>1, <1>3, <1>4 DEF Named, KeptOK, O
<1>9. PutOnce(a)'
  BY <1>1 DEF AInv, PutOnce, O
<1>10. Used(a)'
  <2> SUFFICES ASSUME NEW r \in Sessions, tx'[r].att = a
               PROVE  (InitUse(r, a) /\ IssueUse(r, a) /\ CompleteUse(r, a) /\ HideUse(r, a)
                         /\ RestoreUse(r, a))'
    BY DEF Used
  <2>1. tx'[r] = tx[r] /\ tx[r].att = a /\ r # s
    BY <1>2
  <2>2. InitUse(r, a)' /\ IssueUse(r, a)' /\ CompleteUse(r, a)' /\ RestoreUse(r, a)'
    BY <1>1, <1>5, <2>1 DEF InitUse, IssueUse, CompleteUse, RestoreUse
  <2>3. HideUse(r, a)'
    BY <1>1, <2>1 DEF AInv, Used, HideUse, O
  <2> QED
    BY <2>2, <2>3
<1>11. Marked(a)' <=> Marked(a)
  <2>1. Midway("hide", a)' <=> Midway("hide", a)
    BY <1>1, <1>2 DEF Midway
  <2> QED
    BY <1>1, <2>1 DEF Marked
<1>12. ReadableOK(a)'
  BY <1>1, <1>2, <1>6, <1>11 DEF AInv, ReadableOK, O
<1>13. HiddenOK(a)'
  <2> SUFFICES ASSUME ~ Copied(a)', NEW r \in Sessions, tx'[r].att = a, tx'[r].op = "hide"
               PROVE  tx'[r].todo = PartsOf(a)
    BY <1>1 DEF HiddenOK
  <2>1. "overlap" \notin trouble'[a]
    BY DEF Copied
  <2>2. ~ Midway("hide", a)
    BY <1>1, <2>1
  <2> QED
    BY <1>2, <2>2 DEF Midway
<1> QED
  BY <1>1, <1>7, <1>8, <1>9, <1>10, <1>12, <1>13, OwnEnd DEF AInv

\* an issuance commits the row of its PDF
LEMMA CommitPdfKeeps ==
  ASSUME TInv, NEW s \in Sessions, CommitPdf(s), ~ Reject(s), NEW a \in Attachments, AInv(a),
         a = tx[s].att
  PROVE  AInv(a)'
<1>1. /\ a \in Pdfs /\ tx[s].op = "issue" /\ tx[s].pc = "commit" /\ EndTx(s)
      /\ UNCHANGED <<object, puts, trouble>>
      /\ row'[a].status = "ready" /\ row'[a].version = tx[s].seen
  BY CommitPdfFacts
<1>2. PartsOf(a) = {"orig"}
  BY <1>1, PartFacts
<1>3. O(a, "orig").shown /\ tx[s].seen["orig"] = O(a, "orig").top
  BY <1>1 DEF AInv, Used, IssueUse
<1>4. O(a, "orig").top >= 1 /\ O(a, "orig").top \in O(a, "orig").kept
      /\ O(a, "orig").top \notin O(a, "orig").stale
  BY <1>2, <1>3, Numbers
<1>5. \A r \in Sessions : tx'[r].att # a
  BY <1>1, OwnEnd DEF AInv, Alone
<1>6. Written0(a)' /\ Named(a)' /\ KeptOK(a)'
  BY <1>1, <1>2, <1>3, <1>4 DEF Written0, Named, KeptOK, O
<1>7. PutOnce(a)'
  BY <1>1 DEF AInv, PutOnce, O
<1>8. Used(a)' /\ HiddenOK(a)'
  BY <1>1, <1>5 DEF Used, HiddenOK
<1>9. ReadableOK(a)'
  BY <1>1, <1>2, <1>3, <1>5 DEF ReadableOK, O
<1> QED
  BY <1>1, <1>6, <1>7, <1>8, <1>9, OwnEnd DEF AInv

\* A handler that fails leaves its traces in the bucket.  If it has hidden or
\* copied some of the parts, the ghost says so.
LEMMA FailKeeps ==
  ASSUME TInv, NEW s \in Sessions, NEW what \in SUBSET {"hide", "rejected", "restore"},
         Fail(s, what), NEW a \in Attachments, AInv(a), a = tx[s].att,
         tx[s].op = "hide" => tx[s].todo = PartsOf(a) \/ what \cap {"hide", "rejected"} # {},
         tx[s].op = "restore" => tx[s].todo = PartsOf(a) \/ "restore" \in what
  PROVE  AInv(a)'
<1>1. /\ EndTx(s) /\ UNCHANGED <<row, object, puts>>
      /\ trouble'[a] = IF tx[s].todo # PartsOf(a) THEN trouble[a] \cup what ELSE trouble[a]
  BY ZenonT(40), FailFacts
<1>2. /\ \A r \in Sessions : tx'[r].att = a => r # s /\ tx'[r] = tx[r]
      /\ tx'[s].op = "none" /\ \A r \in Sessions \ {s} : tx'[r] = tx[r]
      /\ lock'[a] = IF lock[a] = s THEN None ELSE lock[a]
  BY <1>1, OwnEnd
<1>3. Written0(a)' /\ Named(a)' /\ PutOnce(a)'
  BY <1>1 DEF AInv, Written0, Named, PutOnce, O
<1>4. trouble[a] \subseteq trouble'[a] /\ ("old" \in trouble'[a] <=> "old" \in trouble[a])
  BY <1>1
<1>5. KeptOK(a)'
  BY <1>1, <1>4 DEF AInv, KeptOK, O
<1>6. Used(a)'
  <2> SUFFICES ASSUME NEW r \in Sessions, tx'[r].att = a
               PROVE  (InitUse(r, a) /\ IssueUse(r, a) /\ CompleteUse(r, a) /\ HideUse(r, a)
                         /\ RestoreUse(r, a))'
    BY DEF Used
  <2>1. tx'[r] = tx[r] /\ tx[r].att = a /\ r # s
    BY <1>2
  <2>2. InitUse(r, a)' /\ IssueUse(r, a)'
    BY <1>1, <2>1 DEF AInv, Used, InitUse, IssueUse, O
  <2>3. CompleteUse(r, a)' /\ HideUse(r, a)'
    BY <1>1, <2>1 DEF AInv, Used, CompleteUse, HideUse, O
  <2>4. RestoreUse(r, a)'
    BY <1>1, <1>2, <2>1 DEF AInv, Used, RestoreUse, O
  <2> QED
    BY <2>2, <2>3, <2>4
<1>7. Marked(a) => Marked(a)'
  <2>1. Midway("hide", a) => Midway("hide", a)' \/ (tx[s].op = "hide" /\ tx[s].todo # PartsOf(a))
    BY <1>2 DEF Midway
  <2> QED
    BY <1>1, <1>4, <2>1 DEF Marked
<1>8. Copied(a) => Copied(a)'
  <2>1. Midway("restore", a) => Midway("restore", a)' \/ (tx[s].op = "restore" /\ tx[s].todo # PartsOf(a))
    BY <1>2 DEF Midway
  <2> QED
    BY <1>1, <1>4, <2>1 DEF Copied
<1>9. ReadableOK(a)'
  BY <1>1, <1>2, <1>7 DEF AInv, ReadableOK, O
<1>10. HiddenOK(a)'
  BY <1>1, <1>2, <1>8 DEF AInv, HiddenOK, O
<1> QED
  BY <1>1, <1>3, <1>5, <1>6, <1>9, <1>10, OwnEnd DEF AInv

\* no handler will make use of this object: its row was deleted, or was never
\* inserted although the bytes are older than the sweep's min-age
Lost(a, p) == \/ row[a].status = "gone"
              \/ row[a].status = "none" /\ O(a, p).top \in 1 .. O(a, p).old

\* a key that is none of a's
LEMMA OtherKey ==
  ASSUME TInv, NEW k \in Keys, NEW a \in Attachments, k \notin KeysOf(a),
         HideObject(k) \/ Write(k) \/ ReapVersion(k)
  PROVE  SameObjects(a)
<1>1. \A p \in PartsOf(a) : <<a, p>> \in Keys \ {k}
  BY PartFacts
<1>2. \A j \in Keys \ {k} : object'[j] = object[j]
  BY HideFacts, WriteFacts, ReapVersionFacts
<1> QED
  BY <1>1, <1>2 DEF SameObjects

\* a reaper, a purge or the sweep hides a lost object
LEMMA LostKeeps ==
  ASSUME TInv, NEW a \in Attachments, AInv(a), NEW p \in PartsOf(a), HideObject(<<a, p>>),
         Lost(a, p), row'[a] = row[a], lock'[a] = lock[a], trouble'[a] = trouble[a],
         puts' = puts, SameSession(a)
  PROVE  AInv(a)'
<1>1. <<a, p>> \in Keys /\ \A q \in PartsOf(a) \ {p} : <<a, q>> \in Keys \ {<<a, p>>}
  BY PartFacts
<1>2. /\ ~ object'[<<a, p>>].shown
      /\ \A q \in PartsOf(a) :
           /\ object'[<<a, q>>].top = object[<<a, q>>].top
           /\ object'[<<a, q>>].kept = object[<<a, q>>].kept
           /\ object'[<<a, q>>].old = object[<<a, q>>].old
           /\ object'[<<a, q>>].stale = object[<<a, q>>].stale
      /\ \A q \in PartsOf(a) \ {p} : object'[<<a, q>>].shown = object[<<a, q>>].shown
  BY <1>1, HideFacts
<1>3. row[a].status \in {"none", "gone"}
  BY DEF Lost
<1>4. \A r \in Sessions : tx'[r].att = a => tx'[r] = tx[r]
  BY DEF SameSession
<1>5. \A r \in Sessions : tx[r].att = a /\ tx[r].op = "restore" => tx[r].pc \notin {"copy", "record"}
  BY <1>3 DEF AInv, Used, RestoreUse
<1>6. \A r \in Sessions : tx[r].att = a /\ tx[r].op = "restore" => tx[r].todo = PartsOf(a)
  <2> SUFFICES ASSUME NEW r \in Sessions, tx[r].att = a, tx[r].op = "restore"
               PROVE  tx[r].todo = PartsOf(a)
    OBVIOUS
  <2>1. Working(tx[r])
    BY Worker DEF Ops
  <2> QED
    BY <1>5, <2>1 DEF Working, Doing
<1>7. Written0(a)' /\ Named(a)' /\ PutOnce(a)' /\ KeptOK(a)'
  BY <1>2, <1>3 DEF AInv, Written0, Named, PutOnce, KeptOK, O
<1>8. Locked(a)' /\ Alone(a)'
  BY DEF SameSession, AInv, Locked, Alone
<1>9. Used(a)'
  <2> SUFFICES ASSUME NEW r \in Sessions, tx'[r].att = a
               PROVE  (InitUse(r, a) /\ IssueUse(r, a) /\ CompleteUse(r, a) /\ HideUse(r, a)
                         /\ RestoreUse(r, a))'
    BY DEF Used
  <2>1. tx'[r] = tx[r] /\ tx[r].att = a
    BY <1>4
  <2>2. InitUse(r, a)' /\ CompleteUse(r, a)' /\ HideUse(r, a)'
    BY <1>2, <1>3, <2>1 DEF AInv, Used, InitUse, CompleteUse, HideUse, O
  <2>3. RestoreUse(r, a)'
    BY <1>3, <1>5, <2>1 DEF AInv, Used, RestoreUse
  <2>4. IssueUse(r, a)'
    <3> SUFFICES ASSUME tx[r].op = "issue" PROVE IssueUse(r, a)'
      BY <2>1 DEF IssueUse
    <3>1. Working(tx[r])
      BY Worker DEF Ops
    <3>2. a \in Pdfs
      BY <2>1, <3>1 DEF Working, Doing
    <3>3. p = "orig" /\ "orig" \in PartsOf(a)
      BY <3>2, PartFacts
    <3>4. O(a, p).top \in 1 .. O(a, p).old /\ O(a, p).old \in Nat /\ O(a, p).top \in Nat
      BY <2>1, Numbers DEF Lost, AInv, Used, IssueUse
    <3>5. O(a, p).top # 0 /\ ~ (O(a, p).old < O(a, p).top)
      BY <3>4
    <3>6. tx[r].pc \notin {"put", "commit"}
      BY <2>1, <3>3, <3>5 DEF AInv, Used, IssueUse
    <3> QED
      BY <2>1, <3>1, <3>6 DEF Working, Doing
  <2> QED
    BY <2>2, <2>3, <2>4
<1>10. ReadableOK(a)'
  BY <1>3, <1>4, <1>6 DEF ReadableOK
<1>11. Copied(a)' <=> Copied(a)
  <2>1. Midway("restore", a)' <=> Midway("restore", a)
    BY DEF SameSession, Midway
  <2> QED
    BY <2>1 DEF Copied
<1>12. HiddenOK(a)'
  BY <1>2, <1>3, <1>4, <1>11 DEF AInv, HiddenOK, O
<1> QED
  BY <1>7, <1>8, <1>9, <1>10, <1>12 DEF AInv

\* a live row that nobody has locked is deleted
LEMMA GoneKeeps ==
  ASSUME TInv, NEW a \in Attachments, AInv(a), row[a].status \in Live, row'[a].status = "gone",
         lock[a] = None, lock'[a] = None, trouble'[a] = trouble[a], puts' = puts,
         UNCHANGED object, SameSession(a)
  PROVE  AInv(a)'
<1>1. \A r \in Sessions : tx'[r].att = a => tx'[r] = tx[r]
  BY DEF SameSession
<1>2. \A r \in Sessions : tx[r].att = a =>
        /\ tx[r].op \notin {"init", "issue"}
        /\ tx[r].op = "restore" => tx[r].pc \notin {"copy", "record"}
  BY DEF AInv, Used, InitUse, IssueUse, RestoreUse, Live
<1>3. \A r \in Sessions : tx[r].att = a /\ tx[r].op = "restore" => tx[r].todo = PartsOf(a)
  <2> SUFFICES ASSUME NEW r \in Sessions, tx[r].att = a, tx[r].op = "restore"
               PROVE  tx[r].todo = PartsOf(a)
    OBVIOUS
  <2>1. Working(tx[r])
    BY Worker DEF Ops
  <2> QED
    BY <1>2, <2>1 DEF Working, Doing
<1>4. Written0(a)' /\ Named(a)' /\ KeptOK(a)' /\ PutOnce(a)'
  BY DEF AInv, Written0, Named, KeptOK, PutOnce, O
<1>5. Locked(a)' /\ Alone(a)'
  BY DEF SameSession, AInv, Locked, Alone
<1>6. Used(a)'
  <2> SUFFICES ASSUME NEW r \in Sessions, tx'[r].att = a
               PROVE  (InitUse(r, a) /\ IssueUse(r, a) /\ CompleteUse(r, a) /\ HideUse(r, a)
                         /\ RestoreUse(r, a))'
    BY DEF Used
  <2>1. tx'[r] = tx[r] /\ tx[r].att = a
    BY <1>1
  <2>2. InitUse(r, a)' /\ IssueUse(r, a)' /\ CompleteUse(r, a)' /\ RestoreUse(r, a)'
    BY <1>2, <2>1 DEF InitUse, IssueUse, CompleteUse, RestoreUse
  <2>3. HideUse(r, a)'
    BY <2>1 DEF AInv, Used, HideUse, O
  <2> QED
    BY <2>2, <2>3
<1>7. ReadableOK(a)'
  BY <1>1, <1>3 DEF ReadableOK
<1>8. Copied(a)' <=> Copied(a)
  <2>1. Midway("restore", a)' <=> Midway("restore", a)
    BY DEF SameSession, Midway
  <2> QED
    BY <2>1 DEF Copied
<1>9. HiddenOK(a)'
  BY <1>1, <1>8 DEF AInv, HiddenOK, O
<1> QED
  BY <1>4, <1>5, <1>6, <1>7, <1>9 DEF AInv

\* an upload arrives, late or in time
LEMMA PutKeeps ==
  ASSUME TInv, NEW a \in Attachments, AInv(a), NEW p \in PartsOf(a), PutArrives(<<a, p>>)
  PROVE  AInv(a)'
<1>1. <<a, p>> \in Keys
  BY PartFacts
<1>2. /\ UNCHANGED <<row, lock, tx, trouble>> /\ <<a, p>> \in puts /\ Write(<<a, p>>)
      /\ puts' = puts \ {<<a, p>>}
  BY <1>1, PutArrivesFacts
<1>3. /\ object'[<<a, p>>].top = object[<<a, p>>].top + 1 /\ object'[<<a, p>>].shown
      /\ \A q \in PartsOf(a) \ {p} : object'[<<a, q>>] = object[<<a, q>>]
  BY <1>2, WritePart
<1>4. row[a].status # "none" /\ O(a, p).top = 0
  BY <1>2 DEF AInv, PutOnce
<1>5. ~ O(a, p).shown
  BY <1>4, Numbers
<1>6. row[a].status \notin {"ready", "hidden"}
  BY <1>4 DEF AInv, Written0
<1>7. \A r \in Sessions : tx[r].att = a =>
        /\ tx[r].op \notin {"init", "issue"}
        /\ tx[r].op = "hide" => tx[r].pc = "row"
        /\ tx[r].op = "restore" => tx[r].pc \notin {"copy", "record"}
  BY <1>4, <1>6 DEF AInv, Used, InitUse, IssueUse, HideUse, RestoreUse
<1>8. \A r \in Sessions : tx[r].att = a /\ tx[r].op \in {"hide", "restore"} => tx[r].todo = PartsOf(a)
  <2> SUFFICES ASSUME NEW r \in Sessions, tx[r].att = a, tx[r].op \in {"hide", "restore"}
               PROVE  tx[r].todo = PartsOf(a)
    OBVIOUS
  <2>1. Working(tx[r])
    BY Worker DEF Ops
  <2> QED
    BY <1>7, <2>1 DEF Working, Doing
<1>9. Written0(a)' /\ Named(a)' /\ KeptOK(a)'
  BY <1>2, <1>6 DEF Written0, Named, KeptOK
<1>10. PutOnce(a)'
  BY <1>2, <1>3 DEF AInv, PutOnce, O
<1>11. Locked(a)' /\ Alone(a)'
  BY <1>2 DEF AInv, Locked, Alone
<1>12. Used(a)'
  <2> SUFFICES ASSUME NEW r \in Sessions, tx[r].att = a
               PROVE  (InitUse(r, a) /\ IssueUse(r, a) /\ CompleteUse(r, a) /\ HideUse(r, a)
                         /\ RestoreUse(r, a))'
    BY <1>2 DEF Used
  <2>1. InitUse(r, a)' /\ IssueUse(r, a)' /\ RestoreUse(r, a)'
    BY <1>2, <1>4, <1>7 DEF InitUse, IssueUse, RestoreUse
  <2>2. CompleteUse(r, a)'
    BY <1>2, <1>3, <1>4, <1>5 DEF AInv, Used, CompleteUse, O
  <2>3. HideUse(r, a)'
    BY <1>2, <1>7 DEF AInv, Used, HideUse
  <2> QED
    BY <2>1, <2>2, <2>3
<1>13. ReadableOK(a)' /\ HiddenOK(a)'
  BY <1>2, <1>6, <1>8 DEF ReadableOK, HiddenOK
<1> QED
  BY <1>9, <1>10, <1>11, <1>12, <1>13 DEF AInv

\* the lifecycle rule reaps a version of one of a's keys
LEMMA ReapedKeeps ==
  ASSUME TInv, NEW a \in Attachments, AInv(a), NEW p \in PartsOf(a), ReapVersion(<<a, p>>)
  PROVE  AInv(a)'
<1>1. <<a, p>> \in Keys /\ \A q \in PartsOf(a) \ {p} : <<a, q>> \in Keys \ {<<a, p>>}
  BY PartFacts
<1>2. UNCHANGED <<row, puts, lock, tx, trouble>>
  BY <1>1, ReapVersionFacts
<1>3. PICK v \in object[<<a, p>>].stale :
        /\ object'[<<a, p>>].kept = object[<<a, p>>].kept \ {v}
        /\ object'[<<a, p>>].stale = object[<<a, p>>].stale \ {v}
        /\ object'[<<a, p>>].shown = object[<<a, p>>].shown
        /\ object'[<<a, p>>].top = object[<<a, p>>].top
        /\ object'[<<a, p>>].old = object[<<a, p>>].old
        /\ object[<<a, p>>].shown => v # object[<<a, p>>].top
  BY <1>1, ReapVersionFacts
<1>4. \A q \in PartsOf(a) \ {p} : object'[<<a, q>>] = object[<<a, q>>]
  BY <1>1, ReapVersionFacts
<1>5. \A q \in PartsOf(a) : /\ object'[<<a, q>>].shown = object[<<a, q>>].shown
                            /\ object'[<<a, q>>].top = object[<<a, q>>].top
                            /\ object'[<<a, q>>].old = object[<<a, q>>].old
  BY <1>3, <1>4
<1>6. v \in Nat /\ v <= O(a, p).old /\ O(a, p).old \in Nat /\ O(a, p).top \in Nat
  <2>1. v \in O(a, p).stale /\ O(a, p).stale \subseteq 1 .. O(a, p).old /\ O(a, p).old \in Nat
        /\ O(a, p).top \in Nat
    BY <1>3, Numbers DEF O
  <2> QED
    BY <2>1
<1>7. Written0(a)' /\ Named(a)' /\ PutOnce(a)'
  BY <1>2, <1>5 DEF AInv, Written0, Named, PutOnce, O
<1>8. KeptOK(a)'
  BY <1>2, <1>3, <1>4 DEF AInv, KeptOK, O
<1>9. Locked(a)' /\ Alone(a)'
  BY <1>2 DEF AInv, Locked, Alone
<1>10. Used(a)'
  <2> SUFFICES ASSUME NEW r \in Sessions, tx[r].att = a
               PROVE  (InitUse(r, a) /\ IssueUse(r, a) /\ CompleteUse(r, a) /\ HideUse(r, a)
                         /\ RestoreUse(r, a))'
    BY <1>2 DEF Used
  <2>1. InitUse(r, a)' /\ CompleteUse(r, a)' /\ HideUse(r, a)'
    BY <1>2, <1>5 DEF AInv, Used, InitUse, CompleteUse, HideUse, O
  <2>2. RestoreUse(r, a)'
    <3>1. \A q \in PartsOf(a) : O(a, q).old < O(a, q).top /\ O(a, q).top \in O(a, q).kept
            => (O(a, q).top \in O(a, q).kept)'
      BY <1>3, <1>4, <1>6 DEF O
    <3> QED
      BY <1>2, <1>5, <3>1 DEF AInv, Used, RestoreUse, O
  <2>3. IssueUse(r, a)'
    <3> SUFFICES ASSUME tx[r].op = "issue" PROVE IssueUse(r, a)'
      BY <1>2 DEF IssueUse
    <3>1. "orig" \in PartsOf(a)
      BY PartFacts
    <3> QED
      BY <1>2, <1>5, <3>1 DEF AInv, Used, IssueUse, O
  <2> QED
    BY <2>1, <2>2, <2>3
<1>11. (Marked(a)' <=> Marked(a)) /\ (Copied(a)' <=> Copied(a))
  BY <1>2 DEF Marked, Copied, Midway
<1>12. ReadableOK(a)'
  BY <1>2, <1>5, <1>11 DEF AInv, ReadableOK, O
<1>13. HiddenOK(a)'
  BY <1>2, <1>5, <1>11 DEF AInv, HiddenOK, O
<1> QED
  BY <1>7, <1>8, <1>9, <1>10, <1>12, <1>13 DEF AInv

\* the cutoffs pass while nothing runs
LEMMA TimeKeeps ==
  ASSUME TInv, NEW a \in Attachments, AInv(a), TimePasses
  PROVE  AInv(a)'
<1>1. /\ UNCHANGED <<puts, lock, tx>> /\ Quiet
      /\ row'[a].status = row[a].status /\ row'[a].version = row[a].version
      /\ row[a].status = "hidden" => row'[a].aged = TRUE
      /\ trouble'[a] = IF trouble[a] = {} THEN {} ELSE trouble[a] \cup {"old"}
  BY TimeFacts
<1>2. \A p \in PartsOf(a) :
        /\ object'[<<a, p>>].top = object[<<a, p>>].top
        /\ object'[<<a, p>>].shown = object[<<a, p>>].shown
        /\ object'[<<a, p>>].kept = object[<<a, p>>].kept
        /\ object'[<<a, p>>].stale = Noncurrent(object[<<a, p>>])
  BY TimeFacts, PartFacts
<1>3. \A r \in Sessions : tx[r].att # a
  BY <1>1, Rester DEF Quiet, Resting
<1>4. Written0(a)' /\ Named(a)' /\ PutOnce(a)'
  BY <1>1, <1>2 DEF AInv, Written0, Named, PutOnce, O
<1>5. Alone(a)' /\ Locked(a)' /\ Used(a)'
  BY <1>1, <1>3 DEF AInv, Alone, Locked, Used
<1>6. (Marked(a)' <=> Marked(a)) /\ (Copied(a)' <=> Copied(a))
  BY <1>1 DEF Marked, Copied, Midway
<1>7. ReadableOK(a)' /\ HiddenOK(a)'
  BY <1>1, <1>2, <1>3, <1>6 DEF AInv, ReadableOK, HiddenOK, O
<1>8. KeptOK(a)'
  <2> SUFFICES ASSUME "old" \notin trouble'[a],
                      row'[a].status = "ready" \/ (row'[a].status = "hidden" /\ ~ row'[a].aged),
                      NEW p \in PartsOf(a)
               PROVE  (row[a].version[p] \in O(a, p).kept /\ row[a].version[p] \notin O(a, p).stale)'
    BY DEF KeptOK
  <2>1. trouble[a] = {} /\ row[a].status = "ready"
    BY <1>1
  <2>2. ~ Marked(a)
    BY <1>3, <2>1 DEF Marked, Midway
  <2>3. O(a, p).shown
    BY <2>1, <2>2 DEF AInv, ReadableOK
  <2>4. O(a, p).top \in O(a, p).kept /\ O(a, p).top \notin Noncurrent(O(a, p))
    BY <2>3, Numbers DEF Noncurrent
  <2>5. row[a].version[p] = O(a, p).top
    BY <2>1 DEF AInv, Named
  <2> QED
    BY <1>1, <1>2, <2>4, <2>5 DEF O
<1> QED
  BY <1>4, <1>5, <1>7, <1>8 DEF AInv

-----------------------------------------------------------------------------
(* Every step keeps AInv *)

LEMMA SubmitKeeps ==
  ASSUME TInv, NEW a \in Attachments, AInv(a), NEW s \in Sessions, Submit(s)
  PROVE  AInv(a)'
<1>1. CASE \E b \in Attachments : SubmitInit(s, b) \/ SubmitComplete(s, b) \/ SubmitHide(s, b)
             \/ SubmitRestore(s, b) \/ SubmitIssue(s, b)
  <2>1. PICK b \in Attachments : SubmitInit(s, b) \/ SubmitComplete(s, b) \/ SubmitHide(s, b)
             \/ SubmitRestore(s, b) \/ SubmitIssue(s, b)
    BY <1>1
  <2>2. /\ Resting(tx[s]) /\ OnlySession
        /\ \E t : /\ Turn(s, t) /\ t.att = b /\ t.todo = PartsOf(b) /\ t.keys = {}
                  /\ \/ t.op = "init" /\ t.pc = "insert" /\ FreshId(b)
                     \/ t.op = "issue" /\ t.pc = "put" /\ FreshId(b)
                     \/ t.op = "complete" /\ t.pc = "row" /\ row[b].status # "none"
                     \/ t.op = "hide" /\ t.pc = "row" /\ row[b].status \in {"ready", "hidden", "gone"}
                     \/ t.op = "restore" /\ t.pc = "row" /\ row[b].status # "none"
    BY <2>1, SubmitFacts
  <2>3. PICK t : /\ Turn(s, t) /\ t.att = b /\ t.todo = PartsOf(b)
                 /\ \/ t.op = "init" /\ t.pc = "insert" /\ FreshId(b)
                    \/ t.op = "issue" /\ t.pc = "put" /\ FreshId(b)
                    \/ t.op = "complete" /\ t.pc = "row" /\ row[b].status # "none"
                    \/ t.op = "hide" /\ t.pc = "row" /\ row[b].status \in {"ready", "hidden", "gone"}
                    \/ t.op = "restore" /\ t.pc = "row" /\ row[b].status # "none"
    BY <2>2
  <2>4. tx[s].att = None /\ tx[s].pc = "idle"
    BY <2>2 DEF Resting
  <2>5. CASE a = b
    BY <2>2, <2>3, <2>4, <2>5, AnnounceKeeps
  <2>6. CASE a # b
    <3>1. SameSession(a)
      BY <2>3, <2>4, <2>6, Elsewhere
    <3>2. Same(a)
      BY <2>2, <3>1 DEF OnlySession, Same, SameObjects
    <3> QED
      BY <3>2, Frame
  <2> QED
    BY <2>5, <2>6
<1>2. CASE \E p \in Projects : SubmitPurge(s, p)
  <2>1. OnlySession /\ Resting(tx[s]) /\ \E t : Turn(s, t) /\ t.att = None
    BY <1>2, SubmitPurgeFacts
  <2>2. SameSession(a)
    BY <2>1, Elsewhere DEF Resting
  <2>3. Same(a)
    BY <2>1, <2>2 DEF OnlySession, Same, SameObjects
  <2> QED
    BY <2>3, Frame
<1> QED
  BY <1>1, <1>2 DEF Submit

LEMMA FailAll ==
  ASSUME TInv, NEW a \in Attachments, AInv(a), NEW s \in Sessions,
         NEW what \in SUBSET {"hide", "rejected", "restore"}, Fail(s, what),
         tx[s].op = "hide" => tx[s].todo = PartsOf(tx[s].att) \/ what \cap {"hide", "rejected"} # {},
         tx[s].op = "restore" => tx[s].todo = PartsOf(tx[s].att) \/ "restore" \in what
  PROVE  AInv(a)'
<1>1. CASE a = tx[s].att
  BY <1>1, FailKeeps
<1>2. CASE a # tx[s].att
  <2>1. EndTx(s) /\ UNCHANGED <<row, object, puts>> /\ trouble'[a] = trouble[a]
    BY <1>2, FailFacts
  <2>2. SameSession(a) /\ lock'[a] = lock[a]
    BY <1>2, <2>1, ElsewhereEnd
  <2>3. Same(a)
    BY <2>1, <2>2 DEF Same, SameObjects
  <2> QED
    BY <2>3, Frame
<1> QED
  BY <1>1, <1>2

LEMMA RejectAll ==
  ASSUME TInv, NEW a \in Attachments, AInv(a), NEW s \in Sessions, Reject(s),
         tx[s].op \in {"hide", "restore"} => tx[s].todo = PartsOf(tx[s].att)
  PROVE  AInv(a)'
<1>1. Fail(s, {}) /\ {} \in SUBSET {"hide", "rejected", "restore"}
  BY DEF Reject
<1> QED
  BY <1>1, FailAll

LEMMA AbortKeeps ==
  ASSUME TInv, NEW a \in Attachments, AInv(a), NEW s \in Sessions, Abort(s)
  PROVE  AInv(a)'
<1>1. PICK what : what = {tx[s].op} \cap {"hide", "restore"}
  OBVIOUS
<1>2. Fail(s, what)
  BY <1>1 DEF Abort
<1>3. what \in SUBSET {"hide", "rejected", "restore"}
  BY <1>1
<1> QED
  BY <1>1, <1>2, <1>3, FailAll

\* the end of a request on another attachment
LEMMA EndElsewhere ==
  ASSUME TInv, NEW a \in Attachments, AInv(a), NEW s \in Sessions, EndTx(s), tx[s].att # a,
         row'[a] = row[a], UNCHANGED object, trouble'[a] = trouble[a],
         \A p \in PartsOf(a) : <<a, p>> \in puts' => <<a, p>> \in puts
  PROVE  AInv(a)'
<1>1. SameSession(a) /\ lock'[a] = lock[a]
  BY ElsewhereEnd
<1>2. Same(a)
  BY <1>1 DEF Same, SameObjects
<1> QED
  BY <1>2, Frame

\* a step of a request on another attachment
LEMMA TurnElsewhere ==
  ASSUME TInv, NEW a \in Attachments, AInv(a), NEW s \in Sessions, NEW t, Turn(s, t),
         tx[s].att # a, t.att # a, row'[a] = row[a], SameObjects(a), lock'[a] = lock[a],
         trouble'[a] = trouble[a], puts' = puts
  PROVE  AInv(a)'
<1>1. SameSession(a)
  BY Elsewhere
<1>2. Same(a)
  BY <1>1 DEF Same
<1> QED
  BY <1>2, Frame

LEMMA InsertAll ==
  ASSUME TInv, NEW a \in Attachments, AInv(a), NEW s \in Sessions, InsertPending(s)
  PROVE  AInv(a)'
<1>1. PICK b : b = tx[s].att
  OBVIOUS
<1>2. tx[s].op = "init" /\ b \in Attachments
  BY <1>1, InsertFacts
<1>3. CASE Reject(s)
  BY <1>2, <1>3, RejectAll
<1>4. CASE ~ Reject(s) /\ a = b
  BY <1>1, <1>4, InsertKeeps
<1>5. CASE ~ Reject(s) /\ a # b
  <2>1. EndTx(s) /\ UNCHANGED <<object, trouble>> /\ row'[a] = row[a] /\ puts' = puts \cup KeysOf(b)
    BY <1>1, <1>5, InsertFacts
  <2>2. \A p \in PartsOf(a) : <<a, p>> \notin KeysOf(b)
    BY <1>5 DEF KeysOf
  <2> QED
    BY <1>1, <1>5, <2>1, <2>2, EndElsewhere
<1> QED
  BY <1>3, <1>4, <1>5

LEMMA ReadAll ==
  ASSUME TInv, NEW a \in Attachments, AInv(a), NEW s \in Sessions,
         ReadForComplete(s) \/ ReadForHide(s) \/ ReadForRestore(s)
  PROVE  AInv(a)'
<1>1. PICK b : b = tx[s].att
  OBVIOUS
<1>2. /\ b \in Attachments /\ tx[s].pc = "row" /\ tx[s].todo = PartsOf(b)
      /\ tx[s].op \in {"complete", "hide", "restore"}
  BY <1>1, ReadFacts
<1>3. CASE Reject(s)
  BY <1>1, <1>2, <1>3, RejectAll
<1>4. CASE ~ Reject(s)
  <2>1. PICK t : /\ Turn(s, t) /\ OnlySession /\ t.op = tx[s].op /\ t.att = b /\ t.todo = PartsOf(b)
                 /\ \/ t.op = "complete" /\ t.pc = "head"
                    \/ t.op = "hide" /\ t.pc = "mark" /\ row[b].status \in Live
                    \/ t.op = "restore" /\ t.pc = "flip"
    BY <1>1, <1>4, ReadFacts
  <2>2. CASE a = b
    <3>1. CompleteUse(s, a) /\ HideUse(s, a) /\ RestoreUse(s, a)
      BY <1>1, <2>2 DEF AInv, Used
    <3>2. /\ t.op \in {"complete", "restore"} => row[a].status # "none"
          /\ t.op = "hide" => row[a].status \in {"ready", "hidden"}
      BY <2>1, <2>2, <3>1 DEF CompleteUse, HideUse, RestoreUse, Live
    <3> QED
      BY <1>1, <1>2, <2>1, <2>2, <3>2, AnnounceKeeps
  <2>3. CASE a # b
    BY <1>1, <2>1, <2>3, TurnElsewhere DEF OnlySession, SameObjects
  <2> QED
    BY <2>2, <2>3
<1> QED
  BY <1>3, <1>4

LEMMA HeadAll ==
  ASSUME TInv, NEW a \in Attachments, AInv(a), NEW s \in Sessions, Head(s)
  PROVE  AInv(a)'
<1> PICK b : b = tx[s].att
  OBVIOUS
<1> PICK p : p = NextPart(tx[s])
  OBVIOUS
<1>1. b \in Attachments /\ tx[s].op = "complete"
  BY HeadFacts
<1>2. CASE Reject(s)
  BY <1>1, <1>2, RejectAll
<1>3. CASE ~ Reject(s) /\ a = b
  BY <1>3, HeadKeeps
<1>4. CASE ~ Reject(s) /\ a # b
  <2>1. Turn(s, tx'[s]) /\ OnlySession /\ tx'[s].att = b
    BY <1>4, HeadFacts
  <2> QED
    BY <1>4, <2>1, TurnElsewhere DEF OnlySession, SameObjects
<1> QED
  BY <1>2, <1>3, <1>4

LEMMA HidePartAll ==
  ASSUME TInv, NEW a \in Attachments, AInv(a), NEW s \in Sessions, HidePart(s)
  PROVE  AInv(a)'
<1> PICK b : b = tx[s].att
  OBVIOUS
<1> PICK p : p = NextPart(tx[s])
  OBVIOUS
<1>1. CASE a = b
  BY <1>1, HidePartKeeps
<1>2. CASE a # b
  <2>1. /\ b \in Attachments /\ p \in PartsOf(b) /\ Turn(s, tx'[s]) /\ tx'[s].att = b
        /\ HideObject(<<b, p>>) /\ UNCHANGED <<row, puts, lock, trouble>>
    BY HidePartFacts
  <2>2. <<b, p>> \in Keys /\ <<b, p>> \notin KeysOf(a)
    BY <1>2, <2>1, PartFacts DEF KeysOf
  <2>3. SameObjects(a)
    BY <2>1, <2>2, OtherKey
  <2> QED
    BY <1>2, <2>1, <2>3, TurnElsewhere
<1> QED
  BY <1>1, <1>2

LEMMA CopyAll ==
  ASSUME TInv, NEW a \in Attachments, AInv(a), NEW s \in Sessions, Copy(s)
  PROVE  AInv(a)'
<1> PICK b : b = tx[s].att
  OBVIOUS
<1> PICK p : p = NextPart(tx[s])
  OBVIOUS
<1>1. b \in Attachments /\ tx[s].op = "restore" /\ p \in PartsOf(b)
  BY CopyFacts
<1>2. CASE Fail(s, {"restore"})
  <2>1. PICK what : what = {"restore"}
    OBVIOUS
  <2>2. Fail(s, what) /\ what \in SUBSET {"hide", "rejected", "restore"} /\ "restore" \in what
    BY <1>2, <2>1
  <2> QED
    BY <1>1, <2>2, FailAll
<1>3. CASE ~ Fail(s, {"restore"}) /\ a = b
  BY <1>3, CopyKeeps
<1>4. CASE ~ Fail(s, {"restore"}) /\ a # b
  <2>1. /\ Turn(s, tx'[s]) /\ tx'[s].att = b
        /\ Write(<<b, p>>) /\ UNCHANGED <<row, puts, lock, trouble>>
    BY <1>4, CopyFacts
  <2>2. <<b, p>> \in Keys /\ <<b, p>> \notin KeysOf(a)
    BY <1>1, <1>4, PartFacts DEF KeysOf
  <2>3. SameObjects(a)
    BY <2>1, <2>2, OtherKey
  <2> QED
    BY <1>4, <2>1, <2>3, TurnElsewhere
<1> QED
  BY <1>2, <1>3, <1>4

LEMMA PutPdfAll ==
  ASSUME TInv, NEW a \in Attachments, AInv(a), NEW s \in Sessions, PutPdf(s)
  PROVE  AInv(a)'
<1> PICK b : b = tx[s].att
  OBVIOUS
<1>1. CASE a = b
  BY <1>1, PutPdfKeeps
<1>2. CASE a # b
  <2>1. /\ b \in Attachments /\ Write(<<b, "orig">>) /\ UNCHANGED <<row, puts, lock, trouble>>
        /\ \E t : Turn(s, t) /\ t.att = b
    BY PutPdfFacts
  <2>2. <<b, "orig">> \in Keys /\ <<b, "orig">> \notin KeysOf(a)
    BY <1>2, <2>1, PartFacts DEF KeysOf
  <2>3. SameObjects(a)
    BY <2>1, <2>2, OtherKey
  <2> QED
    BY <1>2, <2>1, <2>3, TurnElsewhere
<1> QED
  BY <1>1, <1>2

LEMMA FlipAll ==
  ASSUME TInv, NEW a \in Attachments, AInv(a), NEW s \in Sessions, MarkReady(s) \/ CommitPdf(s)
  PROVE  AInv(a)'
<1> PICK b : b = tx[s].att
  OBVIOUS
<1>1. b \in Attachments /\ tx[s].op \in {"complete", "issue"}
  BY MarkReadyFacts, CommitPdfFacts
<1>2. CASE Reject(s)
  BY <1>1, <1>2, RejectAll
<1>3. CASE ~ Reject(s) /\ a = b
  BY <1>3, MarkReadyKeeps, CommitPdfKeeps
<1>4. CASE ~ Reject(s) /\ a # b
  <2>1. EndTx(s) /\ UNCHANGED <<object, puts, trouble>> /\ row'[a] = row[a]
    BY <1>4, MarkReadyFacts, CommitPdfFacts
  <2> QED
    BY <1>4, <2>1, EndElsewhere
<1> QED
  BY <1>2, <1>3, <1>4

LEMMA MarkHiddenAll ==
  ASSUME TInv, NEW a \in Attachments, AInv(a), NEW s \in Sessions, MarkHidden(s)
  PROVE  AInv(a)'
<1> PICK b : b = tx[s].att
  OBVIOUS
<1>1. b \in Attachments /\ tx[s].op = "hide"
  BY MarkHiddenFacts
<1>2. CASE Fail(s, {"rejected"})
  <2>1. PICK what : what = {"rejected"}
    OBVIOUS
  <2>2. Fail(s, what) /\ what \in SUBSET {"hide", "rejected", "restore"}
        /\ what \cap {"hide", "rejected"} # {}
    BY <1>2, <2>1
  <2> QED
    BY <1>1, <2>2, FailAll
<1>3. CASE ~ Fail(s, {"rejected"}) /\ a = b
  BY <1>3, MarkHiddenKeeps
<1>4. CASE ~ Fail(s, {"rejected"}) /\ a # b
  <2>1. /\ EndTx(s) /\ UNCHANGED <<object, puts>> /\ row'[a] = row[a]
        /\ trouble'[a] = trouble[a]
    BY <1>4, MarkHiddenFacts
  <2> QED
    BY <1>4, <2>1, EndElsewhere
<1> QED
  BY <1>2, <1>3, <1>4

LEMMA MarkRestoredAll ==
  ASSUME TInv, NEW a \in Attachments, AInv(a), NEW s \in Sessions, MarkRestored(s)
  PROVE  AInv(a)'
<1> PICK b : b = tx[s].att
  OBVIOUS
<1>1. b \in Attachments /\ tx[s].op = "restore" /\ tx[s].todo = PartsOf(b)
  BY MarkRestoredFacts
<1>2. CASE Reject(s)
  BY <1>1, <1>2, RejectAll
<1>3. CASE ~ Reject(s) /\ a = b
  BY <1>3, LockKeeps
<1>4. CASE ~ Reject(s) /\ a # b
  <2>1. /\ UNCHANGED <<row, object, puts>> /\ lock' = [lock EXCEPT ![b] = s]
        /\ trouble' = [trouble EXCEPT ![b] = trouble[b] \ {"hide", "rejected"}]
    BY <1>4, MarkRestoredFacts
  <2>2. lock'[a] = lock[a] /\ trouble'[a] = trouble[a]
    BY <1>4, <2>1 DEF TInv, OthersOK
  <2>3. \E t : Turn(s, t) /\ t.att = b
    BY <1>4, MarkRestoredFacts
  <2> QED
    BY <1>4, <2>1, <2>2, <2>3, TurnElsewhere DEF SameObjects
<1> QED
  BY <1>2, <1>3, <1>4

LEMMA SetVersionAll ==
  ASSUME TInv, NEW a \in Attachments, AInv(a), NEW s \in Sessions, SetVersionIds(s)
  PROVE  AInv(a)'
<1> PICK b : b = tx[s].att
  OBVIOUS
<1>1. CASE a = b
  BY <1>1, SetVersionKeeps
<1>2. CASE a # b
  <2>1. /\ EndTx(s) /\ UNCHANGED <<object, puts>> /\ row'[a] = row[a]
        /\ trouble'[a] = trouble[a]
    BY <1>2, SetVersionFacts
  <2> QED
    BY <1>2, <2>1, EndElsewhere
<1> QED
  BY <1>1, <1>2

-----------------------------------------------------------------------------
(* The keys that the purge, the reapers and the sweep mean to hide *)

ReapKey(k, a)     == k \in reaping => row[a].status = "gone"
PurgeKey(s, k, a) == k \in tx[s].keys =>
  /\ row[a].status # "none"
  /\ tx[s].pc # "hide" => ProjectOf[a] = tx[s].prj
  /\ tx[s].pc = "hide" => row[a].status = "gone"
OrphanKey(k, a, p) ==
  /\ sweep.pc = "rows" /\ k \in sweep.old /\ row[a].status = "none" => Lost(a, p)
  /\ k \in sweep.orphans => sweep.pc = "hide" /\ Lost(a, p)
JobKey(k, a, p) == /\ ReapKey(k, a) /\ OrphanKey(k, a, p)
                   /\ \A s \in Sessions : PurgeKey(s, k, a)
JInv(a) == \A p \in PartsOf(a) : JobKey(<<a, p>>, a, p)

SInv == \A a \in Attachments : AInv(a) /\ JInv(a)

LEMMA PurgeAll ==
  ASSUME TInv, SInv, NEW a \in Attachments, NEW s \in Sessions,
         ListKeys(s) \/ CheckArchived(s) \/ DeleteProject(s) \/ HidePurged(s)
  PROVE  AInv(a)'
<1>1. AInv(a) /\ JInv(a)
  BY DEF SInv
<1>2. CASE ListKeys(s)
  <2>1. OnlySession /\ tx[s].att = None /\ \E t : Turn(s, t) /\ t.att = None
    BY <1>2, ListKeysFacts
  <2> QED
    BY <1>1, <2>1, TurnElsewhere DEF OnlySession, SameObjects
<1>3. CASE CheckArchived(s)
  <2>1. /\ tx[s].att = None /\ tx[s].op = "purge"
        /\ Reject(s) \/ (OnlySession /\ \E t : Turn(s, t) /\ t.att = None)
    BY <1>3, CheckArchivedFacts
  <2>2. CASE Reject(s)
    BY <1>1, <2>1, <2>2, RejectAll
  <2>3. CASE ~ Reject(s)
    BY <1>1, <2>1, <2>3, TurnElsewhere DEF OnlySession, SameObjects
  <2> QED
    BY <2>2, <2>3
<1>4. CASE DeleteProject(s)
  <2>1. PICK p : p = tx[s].prj
    OBVIOUS
  <2>2. /\ tx[s].att = None /\ UNCHANGED <<object, puts, lock, trouble>>
        /\ \A b \in RowsOf(p) : lock[b] = None
        /\ row'[a] = IF a \in RowsOf(p) THEN NewRow("gone") ELSE row[a]
        /\ \E t : Turn(s, t) /\ t.att = None
    BY <1>4, <2>1, DeleteFacts
  <2>3. SameSession(a)
    BY <2>2, Elsewhere
  <2>4. CASE a \in RowsOf(p)
    <3>1. row[a].status \in Live /\ lock[a] = None /\ row'[a].status = "gone"
      BY <2>2, <2>4, GoneRow DEF RowsOf
    <3> QED
      BY <1>1, <2>2, <2>3, <3>1, GoneKeeps
  <2>5. CASE a \notin RowsOf(p)
    <3>1. Same(a)
      BY <2>2, <2>3, <2>5 DEF Same, SameObjects
    <3> QED
      BY <1>1, <3>1, Frame
  <2> QED
    BY <2>4, <2>5
<1>5. CASE HidePurged(s)
  <2>1. /\ tx[s].att = None /\ tx[s].pc = "hide"
        /\ UNCHANGED <<row, puts, lock, trouble>>
        /\ \E t : Turn(s, t) /\ t.att = None
    BY <1>5, HidePurgedFacts
  <2>2. PICK k \in tx[s].keys : HideObject(k) \/ UNCHANGED object
    BY <1>5, HidePurgedFacts DEF TryHide
  <2>3. k \in Keys
    BY <2>2 DEF TInv, SessionsOK, TxRecord
  <2>4. SameSession(a)
    BY <2>1, Elsewhere
  <2>5. CASE HideObject(k) /\ k \in KeysOf(a)
    <3>1. PICK p \in PartsOf(a) : k = <<a, p>>
      BY <2>5, PartFacts
    <3>2. Lost(a, p)
      BY <1>1, <2>1, <2>2, <3>1 DEF JInv, JobKey, ReapKey, PurgeKey, Lost
    <3> QED
      BY <1>1, <2>1, <2>4, <2>5, <3>1, <3>2, LostKeeps
  <2>6. CASE UNCHANGED object \/ (HideObject(k) /\ k \notin KeysOf(a))
    <3>1. SameObjects(a)
      BY <2>3, <2>6, OtherKey DEF SameObjects
    <3>2. Same(a)
      BY <2>1, <2>4, <3>1 DEF Same
    <3> QED
      BY <1>1, <3>2, Frame
  <2> QED
    BY <2>2, <2>5, <2>6
<1> QED
  BY <1>2, <1>3, <1>4, <1>5

LEMMA StepAInv ==
  ASSUME TInv, SInv, [Next]_vars, NEW a \in Attachments
  PROVE  AInv(a)'
<1>1. AInv(a) /\ JInv(a)
  BY DEF SInv
<1>2. ASSUME NEW s \in Sessions, Submit(s) \/ Step(s) \/ Abort(s) PROVE AInv(a)'
  BY <1>1, <1>2, SubmitKeeps, AbortKeeps, InsertAll, ReadAll, HeadAll, FlipAll, HidePartAll,
     MarkHiddenAll, MarkRestoredAll, CopyAll, SetVersionAll, PutPdfAll, PurgeAll DEF Step
<1>3. ASSUME UNCHANGED <<row, object, puts, lock, tx, trouble>> PROVE AInv(a)'
  <2>1. Same(a)
    BY <1>3 DEF Same, SameObjects, SameSession
  <2> QED
    BY <1>1, <2>1, Frame
<1>4. CASE \/ \E p \in Projects : Archive(p) \/ Unarchive(p)
           \/ ListExpired \/ ListBucket \/ Judge \/ JobsDie \/ UNCHANGED vars
  BY <1>3, <1>4 DEF Archive, Unarchive, Flip, ListExpired, ListBucket, Judge, JobsDie, vars
<1>5. ASSUME NEW k \in Keys, HideObject(k), UNCHANGED <<row, puts, lock, tx, trouble>>,
             \A p \in PartsOf(a) : k = <<a, p>> => Lost(a, p)
      PROVE  AInv(a)'
  <2>1. SameSession(a)
    BY <1>5 DEF SameSession
  <2>2. CASE k \in KeysOf(a)
    <3>1. PICK p \in PartsOf(a) : k = <<a, p>>
      BY <2>2, PartFacts
    <3> QED
      BY <1>1, <1>5, <2>1, <3>1, LostKeeps
  <2>3. CASE k \notin KeysOf(a)
    <3>1. Same(a)
      BY <1>5, <2>1, <2>3, OtherKey DEF Same
    <3> QED
      BY <1>1, <3>1, Frame
  <2> QED
    BY <2>2, <2>3
<1>6. CASE \E k \in Keys : SweepKey(k)
  <2>1. PICK k \in Keys : SweepKey(k)
    BY <1>6
  <2>2. k \in sweep.orphans /\ HideObject(k) /\ UNCHANGED <<row, puts, lock, tx, trouble>>
    BY <2>1, SweepKeyFacts
  <2>3. \A p \in PartsOf(a) : k = <<a, p>> => Lost(a, p)
    BY <1>1, <2>2 DEF JInv, JobKey, OrphanKey
  <2> QED
    BY <1>5, <2>2, <2>3
<1>7. CASE HideReaped
  <2>1. PICK k \in reaping : TryHide(k) /\ UNCHANGED <<row, puts, lock, tx, trouble>>
    BY <1>7 DEF HideReaped
  <2>2. k \in Keys
    BY <2>1 DEF TInv, JobsOK
  <2>3. \A p \in PartsOf(a) : k = <<a, p>> => Lost(a, p)
    BY <1>1, <2>1 DEF JInv, JobKey, ReapKey, PurgeKey, Lost
  <2> QED
    BY <1>3, <1>5, <2>1, <2>2, <2>3 DEF TryHide
<1>8. CASE \E k \in Keys : PutArrives(k)
  <2>1. PICK k \in Keys : PutArrives(k)
    BY <1>8
  <2>2. CASE k \in KeysOf(a)
    <3>1. PICK p \in PartsOf(a) : k = <<a, p>>
      BY <2>2, PartFacts
    <3> QED
      BY <1>1, <2>1, <3>1, PutKeeps
  <2>3. CASE k \notin KeysOf(a)
    <3>1. UNCHANGED <<row, lock, tx, trouble>> /\ Write(k) /\ puts' = puts \ {k}
      BY <2>1, PutArrivesFacts
    <3>2. Same(a)
      BY <2>3, <3>1, OtherKey DEF Same, SameSession
    <3> QED
      BY <1>1, <3>2, Frame
  <2> QED
    BY <2>2, <2>3
<1>9. CASE \E k \in Keys : ReapVersion(k)
  <2>1. PICK k \in Keys : ReapVersion(k)
    BY <1>9
  <2>2. CASE k \in KeysOf(a)
    <3>1. PICK p \in PartsOf(a) : k = <<a, p>>
      BY <2>2, PartFacts
    <3> QED
      BY <1>1, <2>1, <3>1, ReapedKeeps
  <2>3. CASE k \notin KeysOf(a)
    <3>1. UNCHANGED <<row, puts, lock, tx, trouble>>
      BY <2>1, ReapVersionFacts
    <3>2. Same(a)
      BY <2>1, <2>3, <3>1, OtherKey DEF Same, SameSession
    <3> QED
      BY <1>1, <3>2, Frame
  <2> QED
    BY <2>2, <2>3
<1>10. CASE \E b \in Attachments : ReapHidden(b)
  <2>1. PICK b \in Attachments : ReapHidden(b)
    BY <1>10
  <2>2. /\ UNCHANGED <<object, puts, lock, tx, trouble>>
        /\ \A c \in Attachments \ {b} : row'[c] = row[c]
        /\ \/ row'[b] = row[b]
           \/ row[b].status = "hidden" /\ lock[b] = None /\ row'[b].status = "gone"
    BY <2>1, ReapHiddenFacts
  <2>3. SameSession(a)
    BY <2>2 DEF SameSession
  <2>4. CASE row'[a] = row[a]
    <3>1. Same(a)
      BY <2>2, <2>3, <2>4 DEF Same, SameObjects
    <3> QED
      BY <1>1, <3>1, Frame
  <2>5. CASE row[a].status = "hidden" /\ lock[a] = None /\ row'[a].status = "gone"
    BY <1>1, <2>2, <2>3, <2>5, GoneKeeps DEF Live
  <2> QED
    BY <2>2, <2>4, <2>5
<1>11. CASE ReapPending
  <2>1. /\ UNCHANGED <<object, puts, lock, tx, trouble>>
        /\ row'[a] = row[a] \/ (row[a].status = "pending" /\ row'[a].status = "gone")
    BY <1>11, ReapPendingFacts
  <2>2. SameSession(a)
    BY <2>1 DEF SameSession
  <2>3. CASE row'[a] = row[a]
    <3>1. Same(a)
      BY <2>1, <2>2, <2>3 DEF Same, SameObjects
    <3> QED
      BY <1>1, <3>1, Frame
  <2>4. CASE row[a].status = "pending" /\ row'[a].status = "gone"
    <3>1. lock[a] = None
      BY <1>1, <2>4 DEF AInv, Locked, Used, RestoreUse
    <3> QED
      BY <1>1, <2>1, <2>2, <2>4, <3>1, GoneKeeps DEF Live
  <2> QED
    BY <2>1, <2>3, <2>4
<1>12. CASE TimePasses
  BY <1>1, <1>12, TimeKeeps
<1> QED
  BY <1>2, <1>4, <1>6, <1>7, <1>8, <1>9, <1>10, <1>11, <1>12 DEF Next

\* no step takes a lost object back: a row that is gone stays gone, and nobody
\* inserts a row for bytes that are there already
Moves(a, p) == /\ row[a].status = "gone" => row'[a].status = "gone"
               /\ row[a].status # "none" => row'[a].status # "none"
               /\ Lost(a, p) => Lost(a, p)'

LEMMA Still ==
  ASSUME NEW a, NEW p, row'[a].status = row[a].status,
         \/ row[a].status # "none"
         \/ /\ object'[<<a, p>>].top = object[<<a, p>>].top
            /\ object'[<<a, p>>].old = object[<<a, p>>].old
  PROVE  Moves(a, p)
  BY DEF Moves, Lost, O

\* a row changes that handlers or reapers know to be there
LEMMA Changed ==
  ASSUME NEW a, NEW p, row[a].status \notin {"none", "gone"}, row'[a].status # "none"
  PROVE  Moves(a, p)
  BY DEF Moves, Lost

\* a row is inserted for new bytes
LEMMA Inserted ==
  ASSUME TInv, NEW a \in Attachments, NEW p \in PartsOf(a), row[a].status = "none",
         row'[a].status # "none", O(a, p).top = 0 \/ O(a, p).old < O(a, p).top
  PROVE  Moves(a, p)
<1>1. O(a, p).top \in Nat /\ O(a, p).old \in Nat
  BY Numbers
<1>2. ~ Lost(a, p)
  BY <1>1 DEF Lost
<1> QED
  BY <1>2 DEF Moves

LEMMA HideMoves ==
  ASSUME TInv, NEW a \in Attachments, NEW p \in PartsOf(a), row' = row,
         NEW k \in Keys, HideObject(k) \/ ReapVersion(k)
  PROVE  Moves(a, p)
<1>1. <<a, p>> \in Keys
  BY PartFacts
<1>2. /\ object'[<<a, p>>].top = object[<<a, p>>].top
      /\ object'[<<a, p>>].old = object[<<a, p>>].old
  BY <1>1, HideFacts, ReapVersionFacts
<1> QED
  BY <1>2, Still

LEMMA WriteMoves ==
  ASSUME TInv, NEW a \in Attachments, NEW p \in PartsOf(a), row' = row,
         NEW b \in Attachments, NEW q \in PartsOf(b), Write(<<b, q>>),
         row[b].status # "none" \/ O(b, q).top = 0
  PROVE  Moves(a, p)
<1>1. <<a, p>> \in Keys /\ <<b, q>> \in Keys
  BY PartFacts
<1>2. CASE <<a, p>> # <<b, q>>
  <2>1. object'[<<a, p>>] = object[<<a, p>>]
    BY <1>1, <1>2, WriteFacts
  <2> QED
    BY <2>1, Still
<1>3. CASE <<a, p>> = <<b, q>> /\ row[a].status # "none"
  BY <1>3, Still
<1>4. CASE <<a, p>> = <<b, q>> /\ row[a].status = "none" /\ O(a, p).top = 0
  <2>1. O(a, p).old \in Nat
    BY Numbers
  <2>2. ~ Lost(a, p)
    BY <1>4, <2>1 DEF Lost
  <2> QED
    BY <1>4, <2>2 DEF Moves
<1> QED
  BY <1>2, <1>3, <1>4

LEMMA SessionMoves ==
  ASSUME TInv, SInv, NEW s \in Sessions, Submit(s) \/ Step(s) \/ Abort(s),
         NEW a \in Attachments, NEW p \in PartsOf(a)
  PROVE  Moves(a, p) /\ UNCHANGED jobs
<1> PICK b : b = tx[s].att
  OBVIOUS
<1>1. AInv(a)
  BY DEF SInv
<1>2. \A what : Fail(s, what) => UNCHANGED <<row, object, jobs>>
  BY DEF Fail
<1>3. (OnlySession \/ Reject(s) \/ \E what : Fail(s, what)) => Moves(a, p) /\ UNCHANGED jobs
  BY <1>2, Still DEF OnlySession, Reject
<1>4. CASE Submit(s) \/ Abort(s)
  BY <1>3, <1>4, SubmitFacts, SubmitPurgeFacts DEF Submit, Abort
<1>5. CASE ReadForComplete(s) \/ ReadForHide(s) \/ ReadForRestore(s) \/ Head(s) \/ ListKeys(s)
           \/ CheckArchived(s)
  BY <1>3, <1>5, ReadFacts DEF Head, ListKeys, CheckArchived
<1>6. CASE InsertPending(s)
  <2>1. /\ b \in Attachments /\ tx[s].op = "init"
        /\ \/ Reject(s)
           \/ /\ UNCHANGED <<object, jobs>> /\ row'[b].status = "pending"
              /\ \A c \in Attachments \ {b} : row'[c] = row[c]
    BY <1>6, InsertFacts
  <2>2. CASE ~ Reject(s) /\ a = b
    <3>1. row[a].status = "none" /\ O(a, p).top = 0
      BY <1>1, <2>1, <2>2 DEF AInv, Used, InitUse
    <3> QED
      BY <2>1, <2>2, <3>1, Inserted
  <2>3. CASE ~ Reject(s) /\ a # b
    BY <2>1, <2>3, Still
  <2> QED
    BY <1>3, <2>2, <2>3
<1>7. CASE MarkReady(s)
  <2>1. /\ b \in Attachments
        /\ \/ Reject(s)
           \/ /\ UNCHANGED <<object, jobs>> /\ row[b].status = "pending" /\ row'[b].status = "ready"
              /\ \A c \in Attachments \ {b} : row'[c] = row[c]
    BY <1>7, MarkReadyFacts
  <2> QED
    BY <1>3, <2>1, Still, Changed
<1>8. CASE MarkHidden(s)
  <2>1. /\ b \in Attachments
        /\ \/ Fail(s, {"rejected"})
           \/ /\ UNCHANGED <<object, jobs>> /\ row[b].status = "ready" /\ row'[b].status = "hidden"
              /\ \A c \in Attachments \ {b} : row'[c] = row[c]
    BY <1>8, MarkHiddenFacts
  <2> QED
    BY <1>3, <2>1, Still, Changed
<1>9. CASE SetVersionIds(s)
  <2>1. /\ b \in Attachments /\ tx[s].op = "restore" /\ tx[s].pc = "record"
        /\ UNCHANGED <<object, jobs>> /\ row'[b].status = "ready"
        /\ \A c \in Attachments \ {b} : row'[c] = row[c]
    BY <1>9, SetVersionFacts
  <2>2. a = b => row[a].status = "hidden"
    BY <1>1, <2>1 DEF AInv, Used, RestoreUse
  <2> QED
    BY <2>1, <2>2, Still, Changed
<1>10. CASE CommitPdf(s)
  <2>1. /\ b \in Attachments /\ b \in Pdfs /\ tx[s].op = "issue" /\ tx[s].pc = "commit"
        /\ \/ Reject(s)
           \/ /\ UNCHANGED <<object, jobs>> /\ row'[b].status = "ready"
              /\ \A c \in Attachments \ {b} : row'[c] = row[c]
    BY <1>10, CommitPdfFacts
  <2>2. CASE ~ Reject(s) /\ a = b
    <3>1. row[a].status = "none" /\ p = "orig" /\ O(a, p).old < O(a, p).top
      BY <1>1, <2>1, <2>2, PartFacts DEF AInv, Used, IssueUse
    <3> QED
      BY <2>1, <2>2, <3>1, Inserted
  <2>3. CASE ~ Reject(s) /\ a # b
    BY <2>1, <2>3, Still
  <2> QED
    BY <1>3, <2>2, <2>3
<1>11. CASE HidePart(s)
  <2> PICK q : q = NextPart(tx[s])
    OBVIOUS
  <2>1. b \in Attachments /\ q \in PartsOf(b) /\ HideObject(<<b, q>>) /\ UNCHANGED <<row, jobs>>
    BY <1>11, HidePartFacts
  <2>2. <<b, q>> \in Keys
    BY <2>1, PartFacts
  <2> QED
    BY <2>1, <2>2, HideMoves
<1>12. CASE Copy(s)
  <2> PICK q : q = NextPart(tx[s])
    OBVIOUS
  <2>1. /\ b \in Attachments /\ q \in PartsOf(b) /\ tx[s].op = "restore"
        /\ Fail(s, {"restore"}) \/ (Write(<<b, q>>) /\ UNCHANGED <<row, jobs>>)
    BY <1>12, CopyFacts
  <2>2. row[b].status # "none"
    BY <2>1 DEF SInv, AInv, Used, RestoreUse
  <2> QED
    BY <1>3, <2>1, <2>2, WriteMoves
<1>13. CASE MarkRestored(s)
  <2>1. Reject(s) \/ UNCHANGED <<row, object, jobs>>
    BY <1>13, MarkRestoredFacts
  <2> QED
    BY <1>3, <2>1, Still
<1>14. CASE PutPdf(s)
  <2>1. /\ b \in Attachments /\ tx[s].op = "issue" /\ tx[s].pc = "put"
        /\ Write(<<b, "orig">>) /\ UNCHANGED <<row, jobs>>
    BY <1>14, PutPdfFacts
  <2>2. "orig" \in PartsOf(b) /\ O(b, "orig").top = 0
    BY <2>1, PartFacts DEF SInv, AInv, Used, IssueUse
  <2> QED
    BY <2>1, <2>2, WriteMoves
<1>15. CASE DeleteProject(s)
  <2> PICK prj : prj = tx[s].prj
    OBVIOUS
  <2>1. /\ UNCHANGED <<object, jobs>>
        /\ row'[a] = IF a \in RowsOf(prj) THEN NewRow("gone") ELSE row[a]
    BY <1>15, DeleteFacts
  <2>2. a \in RowsOf(prj) => row[a].status \in Live
    BY DEF RowsOf
  <2> QED
    BY <2>1, <2>2, GoneRow, Still, Changed DEF Live
<1>16. CASE HidePurged(s)
  <2>1. UNCHANGED <<row, jobs>> /\ \E k \in tx[s].keys : HideObject(k) \/ UNCHANGED object
    BY <1>16, HidePurgedFacts DEF TryHide
  <2>2. tx[s].keys \subseteq Keys
    BY DEF TInv, SessionsOK, TxRecord
  <2> QED
    BY <2>1, <2>2, HideMoves, Still
<1> QED
  BY <1>4, <1>5, <1>6, <1>7, <1>8, <1>9, <1>10, <1>11, <1>12, <1>13, <1>14, <1>15, <1>16 DEF Step

\* the keys of the purges
LEMMA SessionKeys ==
  ASSUME TInv, NEW s \in Sessions,
         \/ \E b \in Attachments : SubmitInit(s, b) \/ SubmitComplete(s, b) \/ SubmitHide(s, b)
              \/ SubmitRestore(s, b) \/ SubmitIssue(s, b)
         \/ \E p \in Projects : SubmitPurge(s, p)
         \/ InsertPending(s) \/ ReadForComplete(s) \/ Head(s) \/ MarkReady(s)
         \/ ReadForHide(s) \/ HidePart(s) \/ MarkHidden(s)
         \/ ReadForRestore(s) \/ MarkRestored(s) \/ Copy(s) \/ SetVersionIds(s)
         \/ PutPdf(s) \/ CommitPdf(s) \/ Abort(s) \/ Reject(s)
  PROVE  tx'[s].keys = {} /\ \A r \in Sessions \ {s} : tx'[r] = tx[r]
<1> PICK b : b = tx[s].att
  OBVIOUS
<1> PICK q : q = NextPart(tx[s])
  OBVIOUS
<1>1. ASSUME NEW t, Turn(s, t), t.keys = {} \/ t.op \in Ops \ {"purge"}
      PROVE  tx'[s].keys = {} /\ \A r \in Sessions \ {s} : tx'[r] = tx[r]
  <2>1. t.keys = {}
    BY <1>1 DEF Turn, SessionOK, Resting, Purging, Working, Ops
  <2> QED
    BY <1>1, <2>1, TurnTypes
<1>2. ASSUME EndTx(s) PROVE tx'[s].keys = {} /\ \A r \in Sessions \ {s} : tx'[r] = tx[r]
  <2>1. Turn(s, Idle) /\ Idle.keys = {}
    BY <1>2, IdleTurn, IdleOK DEF Resting
  <2> QED
    BY <1>1, <2>1
<1>3. (Reject(s) \/ \E what : Fail(s, what)) => EndTx(s)
  BY DEF Reject, Fail
<1>4. CASE \E c \in Attachments : SubmitInit(s, c) \/ SubmitComplete(s, c) \/ SubmitHide(s, c)
             \/ SubmitRestore(s, c) \/ SubmitIssue(s, c)
  BY <1>1, <1>4, SubmitFacts
<1>5. CASE \E p \in Projects : SubmitPurge(s, p)
  BY <1>1, <1>5, SubmitPurgeFacts
<1>6. CASE ReadForComplete(s) \/ ReadForHide(s) \/ ReadForRestore(s)
  <2>1. Reject(s) \/ \E t : Turn(s, t) /\ t.keys = {}
    BY <1>6, ReadFacts
  <2> QED
    BY <1>1, <1>2, <1>3, <2>1
<1>7. CASE Head(s) \/ HidePart(s) \/ Copy(s)
  <2>1. \/ \E what : Fail(s, what)
        \/ Turn(s, tx'[s]) /\ tx'[s].op \in Ops \ {"purge"}
    BY <1>7, HeadFacts, HidePartFacts, CopyFacts DEF Reject, Ops
  <2> QED
    BY <1>1, <1>2, <1>3, <2>1
<1>8. CASE MarkRestored(s) \/ PutPdf(s)
  <2>1. PutPdf(s) => \E t : Turn(s, t) /\ t.keys = {}
    BY ZenonT(40), PutPdfFacts
  <2>2. MarkRestored(s) => Reject(s) \/ \E t : Turn(s, t) /\ t.op = "restore"
    BY MarkRestoredFacts
  <2> QED
    BY <1>1, <1>2, <1>3, <1>8, <2>1, <2>2 DEF Ops
<1>9. CASE \/ InsertPending(s) \/ MarkReady(s) \/ MarkHidden(s) \/ SetVersionIds(s)
           \/ CommitPdf(s) \/ Abort(s) \/ Reject(s)
  <2>1. EndTx(s)
    BY <1>3, <1>9 DEF InsertPending, MarkReady, MarkHidden, SetVersionIds, CommitPdf, Abort
  <2> QED
    BY <1>2, <2>1
<1> QED
  BY <1>4, <1>5, <1>6, <1>7, <1>8, <1>9

\* what no step does to a lost object keeps the promise of a job that is left alone
LEMMA KeyStays ==
  ASSUME NEW a, NEW p, NEW k, Moves(a, p), NEW s
  PROVE  /\ ReapKey(k, a) /\ reaping' = reaping => ReapKey(k, a)'
         /\ OrphanKey(k, a, p) /\ sweep' = sweep => OrphanKey(k, a, p)'
         /\ PurgeKey(s, k, a) /\ tx'[s] = tx[s] => PurgeKey(s, k, a)'
         /\ tx'[s].keys = {} => PurgeKey(s, k, a)'
  BY DEF Moves, ReapKey, OrphanKey, PurgeKey, Lost, O

LEMMA SessionJInv ==
  ASSUME TInv, SInv, NEW s \in Sessions, Submit(s) \/ Step(s) \/ Abort(s),
         NEW a \in Attachments, NEW p \in PartsOf(a), NEW k, k = <<a, p>>
  PROVE  JobKey(k, a, p)'
<1>1. Moves(a, p) /\ UNCHANGED jobs
  BY SessionMoves
<1>2. JobKey(k, a, p)
  BY DEF SInv, JInv
<1>3. ReapKey(k, a)' /\ OrphanKey(k, a, p)'
  BY <1>1, <1>2, KeyStays DEF JobKey, jobs
<1>4. SUFFICES ASSUME NEW r \in Sessions PROVE PurgeKey(r, k, a)'
  BY <1>3 DEF JobKey
<1>5. PurgeKey(r, k, a) /\ PurgeKey(s, k, a)
  BY <1>2 DEF JobKey
<1>6. ASSUME tx'[s].keys = {}, \A q \in Sessions \ {s} : tx'[q] = tx[q] PROVE PurgeKey(r, k, a)'
  BY <1>1, <1>5, <1>6, KeyStays
<1>7. ASSUME NEW t, Turn(s, t), PurgeKey(s, k, a)' PROVE PurgeKey(r, k, a)'
  BY <1>1, <1>5, <1>7, TurnTypes, KeyStays
<1>8. CASE ListKeys(s)
  <2> PICK prj : prj = tx[s].prj
    OBVIOUS
  <2>1. PICK t : /\ Turn(s, t) /\ t.pc = "check" /\ t.prj = prj
                 /\ t.keys = UNION {KeysOf(b) : b \in RowsOf(prj)}
    BY <1>8, ListKeysFacts
  <2>2. tx'[s] = t
    BY <2>1, TurnIs
  <2>3. k \in t.keys => a \in RowsOf(prj)
    BY <2>1 DEF KeysOf
  <2>4. a \in RowsOf(prj) => row[a].status # "none" /\ ProjectOf[a] = prj
    BY DEF RowsOf, Live
  <2>5. PurgeKey(s, k, a)'
    BY <1>1, <2>1, <2>2, <2>3, <2>4 DEF PurgeKey, Moves
  <2> QED
    BY <1>7, <2>1, <2>5
<1>9. CASE CheckArchived(s)
  <2>1. CASE Reject(s)
    BY <1>6, <2>1, SessionKeys
  <2>2. CASE ~ Reject(s)
    <3>1. /\ tx[s].pc = "check"
          /\ \E t : Turn(s, t) /\ t.pc = "delete" /\ t.prj = tx[s].prj /\ t.keys = tx[s].keys
      BY <1>9, <2>2, CheckArchivedFacts
    <3>2. PICK t : Turn(s, t) /\ t.pc = "delete" /\ t.prj = tx[s].prj /\ t.keys = tx[s].keys
      BY <3>1
    <3>3. tx'[s] = t
      BY <3>2, TurnIs
    <3>4. PurgeKey(s, k, a)'
      BY <1>1, <1>5, <3>1, <3>2, <3>3 DEF PurgeKey, Moves
    <3> QED
      BY <1>7, <3>2, <3>4
  <2> QED
    BY <2>1, <2>2
<1>10. CASE DeleteProject(s)
  <2> PICK prj : prj = tx[s].prj
    OBVIOUS
  <2>1. /\ tx[s].pc = "delete"
        /\ row'[a] = IF a \in RowsOf(prj) THEN NewRow("gone") ELSE row[a]
        /\ \E t : Turn(s, t) /\ (t.keys = {} \/ (t.keys = tx[s].keys /\ t.pc = "hide"))
    BY <1>10, DeleteFacts
  <2>2. PICK t : Turn(s, t) /\ (t.keys = {} \/ (t.keys = tx[s].keys /\ t.pc = "hide"))
    BY <2>1
  <2>3. tx'[s] = t
    BY <2>2, TurnIs
  <2>4. k \in tx[s].keys => row[a].status # "none" /\ ProjectOf[a] = prj
    BY <1>5, <2>1 DEF PurgeKey
  <2>5. row[a].status \in Live \cup {"none", "gone"}
    BY DEF TInv, RowsOK, RowRecord, Status
  <2>6. k \in tx[s].keys => row'[a].status = "gone"
    BY <2>1, <2>4, <2>5, GoneRow DEF RowsOf
  <2>7. PurgeKey(s, k, a)'
    BY <2>2, <2>3, <2>6 DEF PurgeKey
  <2> QED
    BY <1>7, <2>2, <2>7
<1>11. CASE HidePurged(s)
  <2>1. /\ tx[s].pc = "hide"
        /\ \E t : Turn(s, t) /\ (t.keys = {} \/ (t.keys \subseteq tx[s].keys /\ t.pc = "hide"))
    BY <1>11, HidePurgedFacts
  <2>2. PICK t : Turn(s, t) /\ (t.keys = {} \/ (t.keys \subseteq tx[s].keys /\ t.pc = "hide"))
    BY <2>1
  <2>3. tx'[s] = t
    BY <2>2, TurnIs
  <2>4. PurgeKey(s, k, a)'
    BY <1>1, <1>5, <2>1, <2>2, <2>3 DEF PurgeKey, Moves
  <2> QED
    BY <1>7, <2>2, <2>4
<1>12. CASE Submit(s) \/ Abort(s) \/ InsertPending(s) \/ ReadForComplete(s) \/ Head(s)
            \/ MarkReady(s) \/ ReadForHide(s) \/ HidePart(s) \/ MarkHidden(s)
            \/ ReadForRestore(s) \/ MarkRestored(s) \/ Copy(s) \/ SetVersionIds(s)
            \/ PutPdf(s) \/ CommitPdf(s)
  <2>1. tx'[s].keys = {} /\ \A q \in Sessions \ {s} : tx'[q] = tx[q]
    BY <1>12, SessionKeys DEF Submit
  <2> QED
    BY <1>6, <2>1
<1> QED
  BY <1>8, <1>9, <1>10, <1>11, <1>12 DEF Step

LEMMA StepJInv ==
  ASSUME TInv, SInv, [Next]_vars, NEW a \in Attachments
  PROVE  JInv(a)'
<1> SUFFICES ASSUME NEW p \in PartsOf(a) PROVE JobKey(<<a, p>>, a, p)'
  BY DEF JInv
<1> PICK k : k = <<a, p>>
  OBVIOUS
<1>1. AInv(a) /\ JobKey(k, a, p) /\ k \in Keys /\ k \in KeysOf(a)
  BY PartFacts DEF SInv, JInv
<1>2. CASE \E s \in Sessions : Submit(s) \/ Step(s) \/ Abort(s)
  BY <1>2, SessionJInv
<1>3. ASSUME Moves(a, p), UNCHANGED tx, ReapKey(k, a)', OrphanKey(k, a, p)' PROVE JobKey(k, a, p)'
  BY <1>1, <1>3, KeyStays DEF JobKey
<1>4. ASSUME Moves(a, p), UNCHANGED <<tx, reaping, sweep>> PROVE JobKey(k, a, p)'
  BY <1>1, <1>3, <1>4, KeyStays DEF JobKey
<1>5. UNCHANGED <<row, object>> => Moves(a, p)
  BY Still
<1>6. CASE (\E q \in Projects : Archive(q) \/ Unarchive(q)) \/ ListExpired \/ UNCHANGED vars
  <2>1. UNCHANGED <<row, object, tx, reaping, sweep>>
    BY <1>6 DEF Archive, Unarchive, Flip, ListExpired, vars, jobs
  <2> QED
    BY <1>4, <1>5, <2>1
<1>7. CASE \E j \in Keys : PutArrives(j)
  <2>1. PICK j \in Keys : /\ j \in puts /\ Write(j) /\ UNCHANGED <<row, tx, jobs>>
    BY <1>7, PutArrivesFacts
  <2>2. PICK b \in Attachments : \E q \in PartsOf(b) : j = <<b, q>>
    BY KeyFacts
  <2>3. PICK q \in PartsOf(b) : j = <<b, q>>
    BY <2>2
  <2>4. row[b].status # "none" /\ Write(<<b, q>>)
    BY <2>1, <2>2, <2>3 DEF SInv, AInv, PutOnce
  <2>5. Moves(a, p)
    BY <2>1, <2>2, <2>3, <2>4, WriteMoves
  <2> QED
    BY <1>4, <2>1, <2>5 DEF jobs
<1>8. CASE \E j \in Keys : ReapVersion(j)
  <2>1. PICK j \in Keys : ReapVersion(j) /\ UNCHANGED <<row, tx, jobs>>
    BY <1>8, ReapVersionFacts
  <2>2. Moves(a, p)
    BY <2>1, HideMoves
  <2> QED
    BY <1>4, <2>1, <2>2 DEF jobs
<1>9. CASE \E j \in Keys : SweepKey(j)
  <2>1. PICK j \in Keys : /\ HideObject(j) /\ UNCHANGED <<row, tx, reaping>>
                          /\ sweep'.orphans \subseteq sweep.orphans
                          /\ sweep'.pc \in {"idle", sweep.pc}
                          /\ sweep'.orphans # {} => sweep'.pc = sweep.pc
                          /\ sweep'.pc = "rows" => sweep'.old = sweep.old
    BY <1>9, SweepKeyFacts
  <2>2. Moves(a, p)
    BY <2>1, HideMoves
  <2>3. ReapKey(k, a)'
    BY <1>1, <2>1, <2>2, KeyStays DEF JobKey
  <2>4. OrphanKey(k, a, p)'
    BY <1>1, <2>1, <2>2 DEF JobKey, OrphanKey, Moves, Lost, O
  <2> QED
    BY <1>3, <2>1, <2>2, <2>3, <2>4
<1>10. CASE \E b \in Attachments : ReapHidden(b)
  <2>1. PICK b \in Attachments :
          /\ UNCHANGED <<object, tx, reaping, sweep>>
          /\ \A c \in Attachments \ {b} : row'[c] = row[c]
          /\ row'[b] = row[b] \/ (row[b].status = "hidden" /\ row'[b].status = "gone")
    BY <1>10, ReapHiddenFacts
  <2>2. Moves(a, p)
    BY <2>1, Still, Changed
  <2> QED
    BY <1>4, <2>1, <2>2
<1>11. CASE ReapPending
  <2>1. /\ UNCHANGED <<object, tx, sweep>>
        /\ \/ row'[a] = row[a] /\ reaping' \cap KeysOf(a) = {}
           \/ row[a].status = "pending" /\ row'[a].status = "gone"
    BY <1>11, ReapPendingFacts
  <2>2. Moves(a, p)
    BY <2>1, Still, Changed
  <2>3. ReapKey(k, a)'
    BY <1>1, <2>1 DEF ReapKey
  <2> QED
    BY <1>1, <1>3, <2>1, <2>2, <2>3, KeyStays DEF JobKey
<1>12. CASE HideReaped
  <2>1. PICK j \in reaping : /\ HideObject(j) \/ UNCHANGED object
                             /\ reaping' = reaping \ {j} /\ UNCHANGED <<row, tx, sweep>>
    BY <1>12 DEF HideReaped, TryHide
  <2>2. j \in Keys
    BY <2>1 DEF TInv, JobsOK
  <2>3. Moves(a, p)
    BY <1>5, <2>1, <2>2, HideMoves
  <2>4. ReapKey(k, a)'
    BY <1>1, <2>1 DEF JobKey, ReapKey
  <2> QED
    BY <1>1, <1>3, <2>1, <2>3, <2>4, KeyStays DEF JobKey
<1>13. CASE ListBucket
  <2>1. /\ UNCHANGED <<row, object, tx, reaping>> /\ sweep'.pc = "rows" /\ sweep'.orphans = {}
        /\ \A j \in sweep'.old : object[j].shown /\ object[j].top <= object[j].old
    BY <1>13, ListBucketFacts
  <2>2. ReapKey(k, a)'
    BY <1>1, <1>5, <2>1, KeyStays DEF JobKey
  <2>3. k \in sweep'.old => O(a, p).top \in 1 .. O(a, p).old
    <3> SUFFICES ASSUME k \in sweep'.old PROVE O(a, p).top \in 1 .. O(a, p).old
      OBVIOUS
    <3>1. O(a, p).shown /\ O(a, p).top <= O(a, p).old
      BY <2>1 DEF O
    <3>2. O(a, p).top \in Nat /\ O(a, p).old \in Nat /\ O(a, p).top >= 1
      BY <3>1, Numbers
    <3> QED
      BY <3>1, <3>2
  <2>4. OrphanKey(k, a, p)'
    BY <2>1, <2>3 DEF OrphanKey, Lost, O
  <2> QED
    BY <1>3, <1>5, <2>1, <2>2, <2>4
<1>14. CASE Judge
  <2>1. /\ UNCHANGED <<row, object, tx, reaping>> /\ sweep.pc = "rows"
        /\ sweep'.pc \in {"idle", "hide"}
        /\ sweep'.orphans \subseteq sweep.old \ Referenced
        /\ sweep'.orphans # {} => sweep'.pc = "hide"
    BY <1>14, JudgeFacts
  <2>2. ReapKey(k, a)'
    BY <1>1, <1>5, <2>1, KeyStays DEF JobKey
  <2>3. ASSUME k \in sweep'.orphans PROVE Lost(a, p)
    <3>1. k \in sweep.old /\ row[a].status \notin Live
      BY <1>1, <2>1, <2>3 DEF Referenced
    <3>2. row[a].status \in {"none", "gone"}
      BY <3>1 DEF TInv, RowsOK, RowRecord, Status
    <3> QED
      BY <1>1, <2>1, <3>1, <3>2 DEF JobKey, OrphanKey, Lost
  <2>4. OrphanKey(k, a, p)'
    BY <2>1, <2>3 DEF OrphanKey, Lost, O
  <2> QED
    BY <1>3, <1>5, <2>1, <2>2, <2>4
<1>15. CASE TimePasses
  <2>1. /\ UNCHANGED <<tx, jobs>> /\ row'[a].status = row[a].status
        /\ object'[k].top = object[k].top /\ object'[k].old = object[k].top
    BY <1>1, <1>15, TimeFacts
  <2>2. O(a, p).top \in Nat /\ O(a, p).old \in Nat /\ O(a, p).old <= O(a, p).top
    BY Numbers
  <2>3. Lost(a, p) => Lost(a, p)'
    BY <2>1, <2>2 DEF Lost, O
  <2>4. Moves(a, p)
    BY <2>1, <2>3 DEF Moves
  <2> QED
    BY <1>4, <2>1, <2>4 DEF jobs
<1>16. CASE JobsDie
  <2>1. /\ reaping' = {} /\ sweep' = NoSweep /\ UNCHANGED <<row, object, tx>>
    BY <1>16 DEF JobsDie
  <2>2. ReapKey(k, a)' /\ OrphanKey(k, a, p)'
    BY <2>1, SweepFacts DEF ReapKey, OrphanKey
  <2> QED
    BY <1>3, <1>5, <2>1, <2>2
<1> QED
  BY <1>2, <1>6, <1>7, <1>8, <1>9, <1>10, <1>11, <1>12, <1>13, <1>14, <1>15, <1>16 DEF Next

LEMMA StepSInv == TInv /\ SInv /\ [Next]_vars => SInv'
  BY StepAInv, StepJInv DEF SInv

LEMMA InitSInv == Init => SInv
<1> SUFFICES ASSUME Init, NEW a \in Attachments PROVE AInv(a) /\ JInv(a)
  BY DEF SInv
<1>1. /\ row[a].status = "none" /\ lock[a] = None /\ puts = {} /\ reaping = {}
      /\ sweep.pc = "idle" /\ sweep.orphans = {}
  BY SweepFacts DEF Init, NewRow
<1>2. \A s \in Sessions : tx[s].op = "none" /\ tx[s].att = None /\ tx[s].keys = {}
  BY IdleOK DEF Init, Resting
<1>3. a # None
  OBVIOUS
<1>4. Written0(a) /\ Named(a) /\ PutOnce(a) /\ KeptOK(a)
  BY <1>1 DEF Written0, Named, PutOnce, KeptOK
<1>5. Alone(a) /\ Locked(a) /\ Used(a)
  BY <1>1, <1>2, <1>3 DEF Alone, Locked, Used
<1>6. ReadableOK(a) /\ HiddenOK(a)
  BY <1>1, <1>2, <1>3 DEF ReadableOK, HiddenOK
<1>7. JInv(a)
  BY <1>1, <1>2 DEF JInv, JobKey, ReapKey, PurgeKey, OrphanKey
<1> QED
  BY <1>4, <1>5, <1>6, <1>7 DEF AInv

LEMMA Invariants == Spec => [](TInv /\ SInv)
<1>1. Init => TInv /\ SInv
  BY InitTInv, InitSInv
<1>2. TInv /\ SInv /\ [Next]_vars => (TInv /\ SInv)'
  BY StepTInv, StepSInv
<1> QED
  BY <1>1, <1>2, PTL DEF Spec

-----------------------------------------------------------------------------
(* What the invariant says to a user *)

LEMMA ShownParts ==
  ASSUME NEW a \in Attachments
  PROVE  /\ (\A p \in PartsOf(a) : O(a, p).shown) => Shown(a) = KeysOf(a)
         /\ (\A p \in PartsOf(a) : ~ O(a, p).shown) => Shown(a) = {}
  BY PartFacts DEF Shown, O

\* A row listed as ready can be downloaded, original and thumbnail, but while a
\* hide of it runs or after one that did not end well.  The invariant needs to
\* know what a completing upload, a restore and an issuance have seen of the
\* objects, that a presigned PUT is the first to write its key, and that the
\* keys a purge, a reaper and the sweep mean to hide are of rows nobody has.
THEOREM Readable == Spec => []ReadyReadable
<1>1. TInv /\ SInv => ReadyReadable
  BY ShownParts DEF SInv, AInv, ReadableOK, Marked, ReadyReadable
<1> QED
  BY <1>1, Invariants, PTL

\* What is in the Papierkorb is noncurrent in the bucket, but after a restore
\* that broke off or ran beside a hide.
THEOREM NotCurrent == Spec => []HiddenNotCurrent
<1>1. TInv /\ SInv => HiddenNotCurrent
  BY ShownParts DEF SInv, AInv, HiddenOK, Copied, HiddenNotCurrent
<1> QED
  BY <1>1, Invariants, PTL

\* ADR-0022: for L days after a hide the versions the row names can be copied
\* back, but after a hide or restore that broke off L days before.
THEOREM Restorable == Spec => []HiddenRestorable
<1>1. TInv /\ SInv => HiddenRestorable
  BY DEF SInv, AInv, KeptOK, O, HiddenRestorable
<1> QED
  BY <1>1, Invariants, PTL

\* the sweep takes the current version only from a lost object
LEMMA SweepSpares ==
  ASSUME TInv, SInv, NEW a \in Attachments, NEW k \in KeysOf(a), k \in sweep.orphans
  PROVE  \/ row[a].status = "gone"
         \/ row[a].status = "none" /\ object[k].top <= object[k].old
<1>1. PICK p \in PartsOf(a) : k = <<a, p>>
  BY PartFacts
<1>2. Lost(a, p)
  BY <1>1 DEF SInv, JInv, JobKey, OrphanKey
<1>3. O(a, p).top \in 1 .. O(a, p).old => O(a, p).top <= O(a, p).old
  BY Numbers
<1> QED
  BY <1>1, <1>2, <1>3 DEF Lost, O

\* pruneBucketOrphans hides an object only if its row has been deleted, or was
\* never inserted though the bytes are older than the min-age, whatever commits
\* between its listing, its read of the rows and its hides.
THEOREM SweepSpare == Spec => SweepSparesRows
<1>1. TInv /\ SInv =>
        [\A a \in Attachments : \A k \in KeysOf(a) :
           k \in sweep.orphans /\ object[k].shown /\ ~ object'[k].shown /\ sweep' # sweep
             => \/ row[a].status = "gone"
                \/ row[a].status = "none" /\ object[k].top <= object[k].old]_vars
  BY SweepSpares
<1> QED
  BY <1>1, Invariants, PTL DEF SweepSparesRows
===========================================================================
