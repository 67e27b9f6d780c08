--------------------------- MODULE ClientSyncProofs ---------------------------
(***************************************************************************)
(* Theorems about ClientSync, for any number of workflow states, commits,  *)
(* edits, sessions and faults.                                             *)
(***************************************************************************)
EXTENDS ClientSync, FiniteSetTheorems, TLAPS

-----------------------------------------------------------------------------
(* Types *)

AtMostOne(S) == \A x, y \in S : x = y
Clean(x)     == Draft \notin {x.dates, x.workers}

AnswerType  == [code : CodeType, rows : SUBSET RowType, at : 0 .. MaxCommits]
RequestType ==
  [kind : Mutations \cup {"list"}, id : Nat, store : Stores, expected : 0 .. Last,
   before : SUBSET RowType, stage : {"sent", "answered"}, answer : AnswerType]

\* what an answer carries was read from the server
RequestOK(r) ==
  /\ r \in RequestType
  /\ AtMostOne(r.before)
  /\ AtMostOne(r.answer.rows) /\ (\A x \in r.answer.rows : Clean(x))
  /\ r.answer.at <= commits
  /\ r.answer.code = "ok" => r.answer.rows = history[r.answer.at]
  /\ r.answer.code = "ok" /\ r.kind \in Mutations => r.answer.rows # {}

ServerOK == /\ row \in RowType /\ Clean(row) /\ live \in BOOLEAN /\ commits \in 0 .. MaxCommits
            /\ history \in [0 .. commits -> SUBSET RowType]
            /\ history[commits] = IF live THEN {row} ELSE {}
StreamOK == /\ bus \in BOOLEAN /\ session \in {"none", "valid", "ended"}
            /\ source \in {"none", "connecting", "reconnecting", "open"}
            /\ frames \in 0 .. commits
TabOK    == /\ auth \in BOOLEAN /\ locked \in BOOLEAN
            /\ edits \in 0 .. MaxEdits /\ waiting \in 0 .. edits
ShownOK  == /\ shown \in [Stores -> SUBSET RowType]
            /\ \A s \in Stores : AtMostOne(shown[s])
            /\ \A x \in shown["management"] : Clean(x)
WireOK   == \A r \in wire : RequestOK(r)
GhostOK  == /\ owed \in [Stores -> 0 .. commits] /\ listed \in [Stores -> 0 .. commits]
            /\ overlap \in BOOLEAN /\ crossed \in BOOLEAN

TInv == ServerOK /\ StreamOK /\ TabOK /\ ShownOK /\ WireOK /\ GhostOK

USE BoundsAssumption

LEMMA Single == ASSUME NEW T, NEW S \in SUBSET T, AtMostOne(S) PROVE Cardinality(S) <= 1
<1>1. CASE S = {}
  BY <1>1, FS_EmptySet
<1>2. ASSUME NEW x \in S PROVE Cardinality(S) <= 1
  <2>1. S = {x}
    BY <1>2 DEF AtMostOne
  <2> QED
    BY <2>1, FS_Singleton
<1> QED
  BY <1>1, <1>2

LEMMA TInvTypes == TInv => TypeOK
<1> SUFFICES ASSUME TInv PROVE TypeOK
  OBVIOUS
<1>1. \A s \in Stores : Cardinality(shown[s]) <= 1
  BY Single DEF TInv, ShownOK
<1>2. \A r \in wire :
        /\ r.kind \in Mutations \cup {"list"} /\ r.store \in Stores
        /\ r.stage \in {"sent", "answered"} /\ r.answer.code \in CodeType
  BY DEF TInv, WireOK, RequestOK, RequestType, AnswerType
<1>3. /\ frames \in 0 .. MaxCommits /\ waiting \in 0 .. MaxEdits
  BY DEF TInv, ServerOK, StreamOK, TabOK
<1>4. owed \in [Stores -> 0 .. MaxCommits] /\ listed \in [Stores -> 0 .. MaxCommits]
  BY DEF TInv, ServerOK, GhostOK
<1> QED
  BY <1>1, <1>2, <1>3, <1>4 DEF TInv, ServerOK, StreamOK, TabOK, ShownOK, GhostOK, Clean, TypeOK

-----------------------------------------------------------------------------
(* Requests *)

LEMMA NewRequest ==
  ASSUME NEW k \in Mutations \cup {"list"}
  PROVE  /\ Request(k) \in RequestType /\ Request(k).kind = k /\ Request(k).before = {}
         /\ Request(k).answer.code = "none" /\ Request(k).answer.rows = {}
         /\ Request(k).answer.at = 0
  BY DEF Request, RequestType, AnswerType, NoCode, Stores, CodeType

LEMMA NewList ==
  ASSUME NEW s \in Stores
  PROVE  /\ ListRequest(s) \in RequestType /\ ListRequest(s).kind = "list"
         /\ ListRequest(s).store = s /\ ListRequest(s).before = {}
         /\ ListRequest(s).answer.code = "none" /\ ListRequest(s).answer.rows = {}
         /\ ListRequest(s).answer.at = 0
<1> DEFINE q == Request("list")
<1>1. /\ q \in RequestType /\ q.kind = "list" /\ q.before = {} /\ q.answer.code = "none"
      /\ q.answer.rows = {} /\ q.answer.at = 0
  BY NewRequest
<1>2. ListRequest(s) = [q EXCEPT !.store = s]
  BY DEF ListRequest
<1> HIDE DEF q
<1> QED
  BY <1>1, <1>2 DEF RequestType

\* a request that has been answered
LEMMA Answer ==
  ASSUME NEW r \in RequestType, NEW code \in CodeType, NEW rows \in SUBSET RowType,
         NEW at \in 0 .. MaxCommits, NEW q, q = Answered(r, code, rows, at)
  PROVE  /\ q \in RequestType /\ q.kind = r.kind /\ q.store = r.store /\ q.before = r.before
         /\ q.answer.code = code /\ q.answer.rows = rows /\ q.answer.at = at
  BY DEF Answered, RequestType, AnswerType

\* one that carries no rows
LEMMA Failure ==
  ASSUME NEW r, RequestOK(r), commits \in Nat, NEW code \in CodeType \ {"ok"}, NEW q,
         q = Answered(r, code, {}, 0)
  PROVE  /\ RequestOK(q) /\ q.kind = r.kind /\ q.store = r.store /\ q.before = r.before
         /\ q.answer.code = code
<1>1. r \in RequestType /\ AtMostOne(r.before)
  BY DEF RequestOK
<1>2. /\ q \in RequestType /\ q.kind = r.kind /\ q.store = r.store /\ q.before = r.before
      /\ q.answer.code = code /\ q.answer.rows = {} /\ q.answer.at = 0
  BY <1>1, Answer
<1> QED
  BY <1>1, <1>2 DEF RequestOK, AtMostOne

LEMMA FetchOK ==
  ASSUME NEW w, \A r \in w : RequestOK(r), commits \in Nat, NEW S \in SUBSET Stores
  PROVE  \A r \in Fetch(w, S) : RequestOK(r)
<1>1. ASSUME NEW s \in S PROVE RequestOK(ListRequest(s))
  BY NewList DEF RequestOK, AtMostOne
<1> QED
  BY <1>1 DEF Fetch

LEMMA InitTInv == Init => TInv
<1> SUFFICES ASSUME Init PROVE TInv
  OBVIOUS
<1>1. ServerOK
  <2>1. row \in RowType /\ Clean(row) /\ live = TRUE /\ commits = 0
    BY DEF Init, Initial, RowType, Clean, Draft
  <2>2. history = [c \in 0 .. 0 |-> {row}] /\ 0 .. 0 = {0}
    BY DEF Init
  <2> QED
    BY <2>1, <2>2 DEF ServerOK
<1>2. ShownOK
  BY DEF Init, ShownOK, AtMostOne, Stores
<1>3. /\ bus \in BOOLEAN /\ auth \in BOOLEAN /\ locked \in BOOLEAN /\ overlap \in BOOLEAN
      /\ crossed \in BOOLEAN /\ session \in {"none", "valid", "ended"}
      /\ source \in {"none", "connecting", "reconnecting", "open"}
  BY Zenon DEF Init
<1>4. commits = 0 /\ frames = 0 /\ edits = 0 /\ waiting = 0
  BY DEF Init
<1>5. frames \in 0 .. commits /\ edits \in 0 .. MaxEdits /\ waiting \in 0 .. edits
  BY <1>4
<1>6. owed \in [Stores -> 0 .. commits] /\ listed \in [Stores -> 0 .. commits]
  BY <1>4 DEF Init
<1>7. WireOK
  BY DEF Init, WireOK
<1> QED
  BY <1>1, <1>2, <1>3, <1>5, <1>6, <1>7 DEF TInv, StreamOK, TabOK, GhostOK

-----------------------------------------------------------------------------
(* The server's steps *)

\* the server only adds to its history
Extends == commits' >= commits /\ \A c \in 0 .. commits : history'[c] = history[c]

LEMMA RecordedOK ==
  ASSUME TInv, commits' = commits + 1, Recorded, Listing' \in SUBSET RowType
  PROVE  /\ Extends
         /\ history' \in [0 .. commits' -> SUBSET RowType] /\ history'[commits'] = Listing'
<1>1. commits \in Nat /\ history \in [0 .. commits -> SUBSET RowType]
  BY DEF TInv, ServerOK
<1>2. history' = [c \in 0 .. commits' |-> IF c = commits' THEN Listing' ELSE history[c]]
  BY DEF Recorded
<1>3. \A c \in 0 .. commits' : c = commits' \/ c \in 0 .. commits
  BY <1>1
<1> QED
  BY <1>1, <1>2, <1>3 DEF Extends

\* the requests stay as they are for a server that knows more commits
LEMMA WireKept ==
  ASSUME NEW w, \A r \in w : RequestOK(r), commits \in Nat, commits' \in Nat, Extends
  PROVE  \A r \in w : RequestOK(r)'
<1> SUFFICES ASSUME NEW r \in w PROVE RequestOK(r)'
  OBVIOUS
<1>1. r.answer.at \in 0 .. commits
  BY DEF RequestOK, RequestType, AnswerType
<1>2. r.answer.at <= commits' /\ history'[r.answer.at] = history[r.answer.at]
  BY <1>1 DEF Extends
<1> QED
  BY <1>2 DEF RequestOK

\* what the tab and the ghosts hold stays as it is, too
LEMMA TabKept ==
  ASSUME TInv, commits' \in 0 .. MaxCommits, commits' >= commits
  PROVE  /\ UNCHANGED shown => ShownOK'
         /\ UNCHANGED <<auth, locked, edits, waiting>> => TabOK'
         /\ UNCHANGED ghosts => GhostOK'
         /\ UNCHANGED <<bus, session, source, frames>> => StreamOK'
<1>1. commits \in 0 .. MaxCommits
  BY DEF TInv, ServerOK
<1>2. UNCHANGED shown => ShownOK'
  BY DEF TInv, ShownOK
<1>3. UNCHANGED <<auth, locked, edits, waiting>> => TabOK'
  BY DEF TInv, TabOK
<1>4. UNCHANGED ghosts => GhostOK'
  BY <1>1 DEF TInv, GhostOK, ghosts
<1>5. UNCHANGED <<bus, session, source, frames>> => StreamOK'
  BY <1>1 DEF TInv, StreamOK
<1> QED
  BY <1>2, <1>3, <1>4, <1>5

LEMMA EmittedOK ==
  ASSUME TInv, commits' = commits + 1, Emitted, UNCHANGED <<bus, session, source>>
  PROVE  StreamOK'
  BY DEF TInv, ServerOK, StreamOK, Emitted, Fault

LEMMA MovedOK ==
  ASSUME TInv, NEW new \in Moved
  PROVE  new \in RowType /\ Clean(new)
  BY DEF TInv, ServerOK, Moved, RowType, Clean

LEMMA WrittenOK ==
  ASSUME TInv, NEW f \in Fields, commits < MaxCommits
  PROVE  [row EXCEPT ![f] = commits + 1] \in RowType /\ Clean([row EXCEPT ![f] = commits + 1])
<1>1. row \in RowType /\ Clean(row) /\ commits + 1 \in Draft .. MaxCommits /\ commits + 1 # Draft
  BY DEF TInv, ServerOK, Draft
<1>2. CASE f = "dates"
  BY <1>1, <1>2 DEF RowType, Clean
<1>3. CASE f = "workers"
  BY <1>1, <1>3 DEF RowType, Clean
<1> QED
  BY <1>2, <1>3 DEF Fields

LEMMA OtherCommitTypes == TInv /\ OtherCommit => TInv'
<1> SUFFICES ASSUME TInv, OtherCommit PROVE TInv'
  OBVIOUS
<1>1. commits' = commits + 1 /\ commits' \in 0 .. MaxCommits /\ commits < MaxCommits
  BY DEF OtherCommit, TInv, ServerOK
<1>2. ServerOK'
  <2>1. live' \in BOOLEAN
    BY DEF OtherCommit, TInv, ServerOK
  <2>2. row' = row \/ row' \in Moved \/ \E f \in Fields : row' = [row EXCEPT ![f] = commits']
    BY DEF OtherCommit
  <2>3. row' \in RowType /\ Clean(row')
    BY <1>1, <2>2, MovedOK, WrittenOK DEF TInv, ServerOK
  <2>4. Listing' \in SUBSET RowType /\ Recorded
    BY <2>3 DEF OtherCommit, Listing
  <2> QED
    BY <1>1, <2>1, <2>3, <2>4, RecordedOK DEF ServerOK, Clean, Listing
<1>3. Extends
  <2>1. Listing' \in SUBSET RowType /\ Recorded
    BY <1>2 DEF OtherCommit, Listing, ServerOK
  <2> QED
    BY <1>1, <2>1, RecordedOK
<1>4. StreamOK'
  BY <1>1, EmittedOK DEF OtherCommit
<1>5. TabOK' /\ ShownOK' /\ GhostOK'
  BY <1>1, TabKept DEF OtherCommit, ghosts, TInv, ServerOK
<1>6. WireOK'
  <2>1. wire' = wire
    BY DEF OtherCommit
  <2> QED
    BY <1>1, <1>3, <2>1, WireKept DEF TInv, WireOK, ServerOK
<1> QED
  BY <1>2, <1>4, <1>5, <1>6 DEF TInv

LEMMA CommitTypes ==
  ASSUME TInv, NEW r \in wire, Commit(r)
  PROVE  TInv'
<1>1. commits' = commits + 1 /\ commits' \in 0 .. MaxCommits /\ commits < MaxCommits
  BY DEF Commit, TInv, ServerOK
<1>2. PICK new \in Outcome(r) :
        row' = new /\ wire' = (wire \ {r}) \cup {Answered(r, "ok", {new}, commits')}
  BY DEF Commit
<1>3. new \in RowType /\ Clean(new)
  <2>1. CASE r.kind = "transition"
    BY <1>2, <2>1, MovedOK DEF Outcome
  <2>2. CASE r.kind # "transition"
    <3>1. r.kind \in Fields /\ new = [row EXCEPT ![r.kind] = commits + 1]
      BY <1>2, <2>2 DEF Outcome, Commit, Mutations, Fields
    <3> QED
      BY <1>1, <3>1, WrittenOK
  <2> QED
    BY <2>1, <2>2
<1>4. /\ Extends /\ Listing' = {new}
      /\ history' \in [0 .. commits' -> SUBSET RowType] /\ history'[commits'] = Listing'
  <2>1. Listing' = {new} /\ Listing' \in SUBSET RowType /\ Recorded
    BY <1>2, <1>3 DEF Commit, Listing
  <2> QED
    BY <1>1, <2>1, RecordedOK
<1>5. ServerOK'
  BY <1>1, <1>2, <1>3, <1>4 DEF ServerOK, Clean, TInv, Commit
<1>6. StreamOK'
  BY <1>1, EmittedOK DEF Commit
<1>7. TabOK' /\ ShownOK' /\ GhostOK'
  BY <1>1, TabKept DEF Commit, ghosts, TInv, ServerOK
<1>8. WireOK'
  <2> PICK q : q = Answered(r, "ok", {new}, commits')
    OBVIOUS
  <2>1. r \in RequestType /\ AtMostOne(r.before) /\ commits \in Nat
    BY DEF TInv, WireOK, RequestOK, ServerOK
  <2>2. /\ q \in RequestType /\ q.before = r.before /\ q.answer.rows = {new}
        /\ q.answer.at = commits'
    BY <1>1, <1>3, <2>1, Answer DEF CodeType
  <2>3. RequestOK(q)'
    <3>1. AtMostOne(q.before) /\ AtMostOne(q.answer.rows)
      BY <2>1, <2>2 DEF AtMostOne
    <3>2. \A x \in q.answer.rows : Clean(x)
      BY <1>3, <2>2
    <3>3. q.answer.at <= commits'
      BY <1>1, <2>2
    <3>4. q.answer.rows = history'[q.answer.at]
      BY Zenon, <1>4, <2>2
    <3>5. q.answer.rows # {}
      BY <2>2
    <3> QED
      BY <2>2, <3>1, <3>2, <3>3, <3>4, <3>5 DEF RequestOK
  <2>4. \A x \in wire : RequestOK(x)'
    BY <1>1, <1>4, <2>1, WireKept DEF TInv, WireOK
  <2>5. wire' = (wire \ {r}) \cup {q}
    BY <1>2
  <2> QED
    BY <2>3, <2>4, <2>5 DEF WireOK
<1> QED
  BY <1>5, <1>6, <1>7, <1>8 DEF TInv

LEMMA SameServer ==
  ASSUME UNCHANGED <<commits, history>>, NEW r
  PROVE  RequestOK(r)' <=> RequestOK(r)
  BY DEF RequestOK

\* a request gives way to its answer
LEMMA ReplaceOK ==
  ASSUME WireOK, NEW r, NEW q, RequestOK(q), wire' = (wire \ {r}) \cup {q},
         UNCHANGED <<commits, history>>
  PROVE  WireOK'
  BY SameServer DEF WireOK

LEMMA ServeTypes ==
  ASSUME TInv, NEW r \in wire, ServeRead(r) \/ Refuse(r) \/ Lose(r)
  PROVE  TInv'
<1> USE DEF server, ghosts, bounds
<1>1. UNCHANGED <<row, live, commits, history, bus, session, source, frames, auth, shown, locked,
                  waiting, edits, ghosts>>
  BY DEF ServeRead, Refuse, Lose
<1>2. RequestOK(r) /\ commits \in Nat
  BY DEF TInv, WireOK, ServerOK
<1>3. PICK q : RequestOK(q) /\ wire' = (wire \ {r}) \cup {q}
  <2>1. \A code \in CodeType \ {"ok"} : RequestOK(Answered(r, code, {}, 0))
    BY <1>2, Failure
  <2>2. CASE ServeRead(r)
    <3>1. CASE session = "valid"
      <4>1. Listing \in SUBSET RowType /\ AtMostOne(Listing) /\ (\A x \in Listing : Clean(x))
        BY DEF TInv, ServerOK, Listing, AtMostOne
      <4>2. PICK q : q = Answered(r, "ok", Listing, commits)
        OBVIOUS
      <4>3. commits \in 0 .. MaxCommits /\ r \in RequestType /\ AtMostOne(r.before)
        BY <1>2 DEF TInv, ServerOK, RequestOK
      <4>4. /\ q \in RequestType /\ q.before = r.before /\ q.kind = r.kind
            /\ q.answer.rows = Listing /\ q.answer.at = commits
        BY <4>1, <4>2, <4>3, Answer DEF CodeType
      <4>6. q.answer.rows = history[q.answer.at] /\ q.kind \notin Mutations
        BY <2>2, <4>4 DEF TInv, ServerOK, Listing, ServeRead, Mutations
      <4>5. RequestOK(q)
        BY <4>1, <4>3, <4>4, <4>6 DEF RequestOK
      <4> QED
        BY <2>2, <3>1, <4>2, <4>5 DEF ServeRead
    <3>2. CASE session # "valid"
      <4>1. wire' = (wire \ {r}) \cup {Answered(r, "expired", {}, 0)}
        BY <2>2, <3>2 DEF ServeRead
      <4> QED
        BY <2>1, <4>1 DEF CodeType
    <3> QED
      BY <3>1, <3>2
  <2>3. CASE Refuse(r) \/ Lose(r)
    <3>1. PICK code \in CodeType \ {"ok"} :
            wire' = (wire \ {r}) \cup {Answered(r, code, {}, 0)}
      BY <2>3 DEF Refuse, Lose, CodeType
    <3> QED
      BY <2>1, <3>1
  <2> QED
    BY <2>2, <2>3
<1>4. WireOK'
  BY <1>1, <1>3, ReplaceOK DEF TInv
<1> QED
  BY <1>1, <1>4 DEF TInv, ServerOK, StreamOK, TabOK, ShownOK, GhostOK

LEMMA RestartTypes == TInv /\ Restart => TInv'
<1> SUFFICES ASSUME TInv, Restart PROVE TInv'
  OBVIOUS
<1> USE DEF server, ghosts, bounds
<1>1. UNCHANGED <<row, live, commits, history, session, source, frames, auth, shown, locked, waiting, edits,
                  ghosts>> /\ bus' \in BOOLEAN
  BY DEF Restart
<1>2. commits \in Nat
  BY DEF TInv, ServerOK
<1>3. \A r \in wire' : RequestOK(r)
  <2>1. \A r \in wire : RequestOK(r) /\ RequestOK(Answered(r, "network", {}, 0))
    BY <1>2, Failure DEF TInv, WireOK, CodeType
  <2>2. wire' = {IF r.stage = "answered" THEN r ELSE Answered(r, "network", {}, 0) : r \in wire}
    BY DEF Restart
  <2> QED
    BY <2>1, <2>2
<1>4. WireOK'
  BY <1>1, <1>3 DEF WireOK, RequestOK
<1> QED
  BY <1>1, <1>4 DEF TInv, ServerOK, StreamOK, TabOK, ShownOK, GhostOK

-----------------------------------------------------------------------------
(* The tab's steps *)

LEMMA StreamTypes ==
  ASSUME TInv, \/ UNCHANGED vars \/ EndSession \/ Heartbeat \/ Connect \/ Drop \/ StreamEnds
               \/ Resubscribe \/ QueueWorkers
  PROVE  TInv'
<1> USE DEF server, ghosts, bounds
<1>1. UNCHANGED <<row, live, commits, history, auth, shown, locked, wire, ghosts>>
  BY DEF vars, EndSession, Heartbeat, Connect, Drop, StreamEnds, Resubscribe, QueueWorkers, Edit
<1>2. bus' \in BOOLEAN
  BY Zenon DEF vars, EndSession, Heartbeat, Connect, Drop, StreamEnds, Resubscribe, QueueWorkers,
               TInv, StreamOK
<1>3. session' \in {"none", "valid", "ended"}
      /\ source' \in {"none", "connecting", "reconnecting", "open"}
  BY DEF vars, EndSession, Heartbeat, Connect, Drop, StreamEnds, Resubscribe, QueueWorkers, Edit,
         TInv, StreamOK
<1>4. frames' = frames \/ frames' = 0
  BY DEF vars, EndSession, Heartbeat, Connect, Drop, StreamEnds, Resubscribe, QueueWorkers, Edit
<1>5. frames' \in 0 .. commits'
  BY <1>1, <1>4 DEF TInv, StreamOK, ServerOK
<1>6. edits' \in 0 .. MaxEdits /\ waiting' \in 0 .. edits'
  BY DEF vars, EndSession, Heartbeat, Connect, Drop, StreamEnds, Resubscribe, QueueWorkers, Edit,
         Fault, TInv, TabOK
<1> QED
  BY <1>1, <1>2, <1>3, <1>5, <1>6 DEF TInv, ServerOK, StreamOK, TabOK, ShownOK, WireOK, RequestOK, GhostOK

LEMMA FetchTypes ==
  ASSUME TInv, Hear \/ Login \/ MountManagement
  PROVE  TInv'
<1> USE DEF server, ghosts, bounds
<1>1. UNCHANGED <<row, live, commits, history, shown, locked, waiting, listed, overlap, crossed>>
  BY DEF Hear, Login, MountManagement
<1>2. commits \in Nat /\ \A r \in wire : RequestOK(r)
  BY DEF TInv, ServerOK, WireOK
<1>3. PICK S \in SUBSET Stores : wire' = Fetch(wire, S)
  BY DEF Hear, Login, MountManagement, Stores
<1>4. \A r \in wire' : RequestOK(r)
  BY <1>2, <1>3, FetchOK
<1>5. WireOK'
  BY <1>1, <1>4 DEF WireOK, RequestOK
<1>6. owed' \in [Stores -> 0 .. commits]
  BY DEF Hear, Login, MountManagement, TInv, GhostOK, ServerOK
<1>7. frames' \in 0 .. commits
  BY DEF Hear, Login, MountManagement, TInv, StreamOK, ServerOK
<1>8. bus' \in BOOLEAN /\ auth' \in BOOLEAN /\ session' \in {"none", "valid", "ended"}
      /\ source' \in {"none", "connecting", "reconnecting", "open"}
  BY Zenon DEF Hear, Login, MountManagement, TInv, StreamOK, TabOK
<1>9. edits' \in 0 .. MaxEdits /\ waiting' \in 0 .. edits'
  BY DEF Hear, Login, MountManagement, Edit, TInv, TabOK
<1> QED
  BY <1>1, <1>5, <1>6, <1>7, <1>8, <1>9 DEF TInv, ServerOK, StreamOK, TabOK, ShownOK, GhostOK

\* a list with one field of its row replaced
LEMMA FieldOK ==
  ASSUME NEW S \in SUBSET RowType, AtMostOne(S), NEW v \in Draft .. MaxCommits
  PROVE  /\ WithField(S, "dates", v) \in SUBSET RowType /\ AtMostOne(WithField(S, "dates", v))
         /\ WithField(S, "workers", v) \in SUBSET RowType /\ AtMostOne(WithField(S, "workers", v))
         /\ \A y \in WithField(S, "dates", v) : \E x \in S :
              y.dates = v /\ y.workers = x.workers /\ y.status = x.status
         /\ \A y \in WithField(S, "workers", v) : \E x \in S :
              y.workers = v /\ y.dates = x.dates /\ y.status = x.status
<1>1. ASSUME NEW x \in S
      PROVE  /\ [x EXCEPT !["dates"] = v] \in RowType
             /\ [x EXCEPT !["dates"] = v].dates = v
             /\ [x EXCEPT !["dates"] = v].workers = x.workers
             /\ [x EXCEPT !["dates"] = v].status = x.status
             /\ [x EXCEPT !["workers"] = v] \in RowType
             /\ [x EXCEPT !["workers"] = v].workers = v
             /\ [x EXCEPT !["workers"] = v].dates = x.dates
             /\ [x EXCEPT !["workers"] = v].status = x.status
  BY DEF RowType
<1>2. WithField(S, "dates", v) = {[x EXCEPT !["dates"] = v] : x \in S}
  BY DEF WithField
<1>3. WithField(S, "workers", v) = {[x EXCEPT !["workers"] = v] : x \in S}
  BY DEF WithField
<1>4. /\ WithField(S, "dates", v) \in SUBSET RowType
      /\ \A y \in WithField(S, "dates", v) : \E x \in S :
              y.dates = v /\ y.workers = x.workers /\ y.status = x.status
  <2>1. ASSUME NEW y \in WithField(S, "dates", v)
        PROVE  y \in RowType /\ \E x \in S : y.dates = v /\ y.workers = x.workers /\ y.status = x.status
    <3>1. PICK x \in S : y = [x EXCEPT !["dates"] = v]
      BY <1>2, <2>1
    <3> QED
      BY <1>1, <3>1
  <2> QED
    BY <2>1
<1>5. /\ WithField(S, "workers", v) \in SUBSET RowType
      /\ \A y \in WithField(S, "workers", v) : \E x \in S :
              y.workers = v /\ y.dates = x.dates /\ y.status = x.status
  <2>1. ASSUME NEW y \in WithField(S, "workers", v)
        PROVE  y \in RowType /\ \E x \in S : y.workers = v /\ y.dates = x.dates /\ y.status = x.status
    <3>1. PICK x \in S : y = [x EXCEPT !["workers"] = v]
      BY <1>3, <2>1
    <3> QED
      BY <1>1, <3>1
  <2> QED
    BY <2>1
<1>6. AtMostOne(WithField(S, "dates", v)) /\ AtMostOne(WithField(S, "workers", v))
  BY <1>2, <1>3 DEF AtMostOne
<1> QED
  BY <1>4, <1>5, <1>6

LEMMA FieldNone ==
  ASSUME NEW S, NEW f, NEW v
  PROVE  WithField(S, f, v) = {} <=> S = {}
  BY DEF WithField

\* the kanban list is rewritten
LEMMA ShowOK ==
  ASSUME ShownOK, NEW rows \in SUBSET RowType, AtMostOne(rows),
         shown' = [shown EXCEPT !["kanban"] = rows]
  PROVE  ShownOK'
<1>1. shown'["kanban"] = rows /\ shown'["management"] = shown["management"]
  BY DEF ShownOK, Stores
<1> QED
  BY <1>1 DEF ShownOK, Stores

LEMMA SendTypes ==
  ASSUME TInv, StartTransition \/ StartDates \/ RunWorkers
  PROVE  /\ TInv'
         /\ \E q \in RequestType :
              /\ wire' = wire \cup {q} /\ q.answer.code = "none"
              /\ \/ StartTransition /\ q.kind = "transition"
                 \/ StartDates /\ q.kind = "dates" /\ q.before = shown["kanban"]
                 \/ RunWorkers /\ q.kind = "workers" /\ q.before = shown["kanban"]
<1> USE DEF server, ghosts, bounds
<1>1. UNCHANGED <<server, bus, session, source, frames, auth, logins, faults, owed, listed, crossed>>
  BY DEF StartTransition, StartDates, RunWorkers
<1>2. locked' \in BOOLEAN /\ overlap' \in BOOLEAN /\ edits' \in 0 .. MaxEdits /\ waiting' \in 0 .. edits'
  <2>1. locked' = TRUE
    BY Zenon DEF StartTransition, StartDates, RunWorkers, Send
  <2>2. overlap' \in BOOLEAN
    BY Zenon DEF StartTransition, StartDates, RunWorkers, Send, TInv, GhostOK
  <2>3. edits' \in 0 .. MaxEdits /\ waiting' \in 0 .. edits'
    BY DEF StartTransition, StartDates, RunWorkers, Edit, TInv, TabOK
  <2> QED
    BY <2>1, <2>2, <2>3
<1>3. shown["kanban"] \in SUBSET RowType /\ AtMostOne(shown["kanban"]) /\ edits' \in Nat
  BY <1>2 DEF TInv, ShownOK, Stores
<1>4. ShownOK'
  <2>1. CASE StartTransition
    BY <2>1 DEF StartTransition, TInv, ShownOK
  <2>2. CASE StartDates \/ RunWorkers
    <3>1. PICK rows \in SUBSET RowType : AtMostOne(rows) /\ shown' = [shown EXCEPT !["kanban"] = rows]
      <4>1. Draft \in Draft .. MaxCommits
        BY DEF Draft
      <4> QED
        BY <1>3, <2>2, <4>1, FieldOK DEF StartDates, RunWorkers
    <3> QED
      BY <3>1, ShowOK DEF TInv
  <2> QED
    BY <2>1, <2>2
<1>5. PICK q \in RequestType :
         /\ wire' = wire \cup {q} /\ q.answer.code = "none"
         /\ \/ StartTransition /\ q.kind = "transition" /\ q.before = {}
            \/ StartDates /\ q.kind = "dates" /\ q.before = shown["kanban"]
            \/ RunWorkers /\ q.kind = "workers" /\ q.before = shown["kanban"]
         /\ q.answer.rows = {} /\ q.answer.at = 0
  <2>1. CASE StartTransition
    <3> PICK b : b = Request("transition")
      OBVIOUS
    <3>1. /\ b \in RequestType /\ b.kind = "transition" /\ b.before = {} /\ b.answer.code = "none"
          /\ b.answer.rows = {} /\ b.answer.at = 0
      BY NewRequest DEF Mutations
    <3>2. PICK seen \in shown["kanban"] :
            wire' = wire \cup {[[b EXCEPT !.expected = seen.status] EXCEPT !.id = edits']}
      BY Zenon, <2>1 DEF StartTransition, Send
    <3> DEFINE q == [[b EXCEPT !.expected = seen.status] EXCEPT !.id = edits']
    <3>3. seen.status \in 0 .. Last
      BY <1>3 DEF RowType
    <3>4. /\ q \in RequestType /\ q.kind = "transition" /\ q.before = {}
          /\ q.answer.code = "none" /\ q.answer.rows = {} /\ q.answer.at = 0
      BY <1>3, <3>1, <3>3 DEF RequestType
    <3> QED
      BY <2>1, <3>2, <3>4
  <2>2. CASE StartDates
    <3> PICK b : b = Request("dates")
      OBVIOUS
    <3>1. /\ b \in RequestType /\ b.kind = "dates" /\ b.answer.code = "none"
          /\ b.answer.rows = {} /\ b.answer.at = 0
      BY NewRequest DEF Mutations
    <3> DEFINE q == [[b EXCEPT !.before = shown["kanban"]] EXCEPT !.id = edits']
    <3>2. wire' = wire \cup {q}
      BY <2>2 DEF StartDates, Send
    <3>3. /\ q \in RequestType /\ q.kind = "dates" /\ q.before = shown["kanban"]
          /\ q.answer.code = "none" /\ q.answer.rows = {} /\ q.answer.at = 0
      BY <1>3, <3>1 DEF RequestType
    <3> QED
      BY <2>2, <3>2, <3>3
  <2>3. CASE RunWorkers
    <3> PICK b : b = Request("workers")
      OBVIOUS
    <3>1. /\ b \in RequestType /\ b.kind = "workers" /\ b.answer.code = "none"
          /\ b.answer.rows = {} /\ b.answer.at = 0
      BY NewRequest DEF Mutations
    <3> DEFINE q == [b EXCEPT !.before = shown["kanban"]]
    <3>2. wire' = wire \cup {q}
      BY <2>3 DEF RunWorkers
    <3>3. /\ q \in RequestType /\ q.kind = "workers" /\ q.before = shown["kanban"]
          /\ q.answer.code = "none" /\ q.answer.rows = {} /\ q.answer.at = 0
      BY <1>3, <3>1 DEF RequestType
    <3> QED
      BY <2>3, <3>2, <3>3
  <2> QED
    BY <2>1, <2>2, <2>3
<1>6. WireOK'
  <2>1. RequestOK(q)
    BY <1>3, <1>5 DEF RequestOK, AtMostOne, TInv, ServerOK
  <2>2. UNCHANGED <<commits, history>> /\ \A r \in wire : RequestOK(r)
    BY <1>1 DEF TInv, WireOK
  <2> QED
    BY <1>5, <2>1, <2>2, SameServer DEF WireOK
<1> QED
  BY <1>1, <1>2, <1>4, <1>5, <1>6 DEF TInv, ServerOK, StreamOK, TabOK, GhostOK

DeliverMutation(r) == DeliverTransition(r) \/ DeliverDates(r) \/ DeliverWorkers(r)

\* the kanban list after an answer: the answer's row, the list as it is, or
\* what the edit keeps
Settled(r, rows) ==
  LET list == shown["kanban"]
      kept == IF r.before = {} THEN {0} ELSE Values(r.before, "workers") IN
  \/ r.answer.code = "ok" /\ rows = Mapped(list, r.answer.rows)
  \/ rows = list
  \/ r.kind = "dates" /\ rows = Mapped(list, r.before)
  \/ r.kind = "workers" /\ \E v \in kept : rows = WithField(list, "workers", v)

\* what an answered mutation leaves in the kanban list
LEMMA DeliverSteps ==
  ASSUME TInv, NEW r \in wire, DeliverMutation(r)
  PROVE  /\ r.kind \in Mutations
         /\ \/ Expired(r)
            \/ \E rows \in SUBSET RowType, refetch \in SUBSET Stores :
                 /\ Settle(r, rows, refetch) /\ AtMostOne(rows)
                 /\ \/ \A x \in rows : Clean(x)
                    \/ r.kind = "transition" /\ rows = shown["kanban"]
                    \/ r.kind = "dates" /\ rows \subseteq r.before
                    \/ /\ r.kind = "workers"
                       /\ \E v \in {0} \cup {x.workers : x \in r.before} :
                            \A y \in rows : \E x \in shown["kanban"] :
                               y.workers = v /\ y.dates = x.dates
                 /\ Settled(r, rows)
<1> DEFINE list == shown["kanban"]
<1>1. /\ r \in RequestType /\ AtMostOne(r.before) /\ AtMostOne(r.answer.rows)
      /\ \A x \in r.answer.rows : Clean(x)
  BY DEF TInv, WireOK, RequestOK
<1>2. /\ r.before \in SUBSET RowType /\ r.answer.rows \in SUBSET RowType
  BY <1>1 DEF RequestType, AnswerType
<1>3. list \in SUBSET RowType /\ AtMostOne(list)
  BY DEF TInv, ShownOK, Stores
<1>4. Mapped(list, r.answer.rows) \subseteq r.answer.rows /\ Mapped(list, r.before) \subseteq r.before
  BY DEF Mapped
<1>5. /\ {} \in SUBSET Stores /\ {"kanban"} \in SUBSET Stores /\ {"management"} \in SUBSET Stores
  BY DEF Stores
<1>6. CASE DeliverTransition(r)
  <2>1. r.kind = "transition" /\ (\/ Expired(r)
                                  \/ /\ r.answer.code = "ok"
                                     /\ Settle(r, Mapped(list, r.answer.rows), {"management"})
                                  \/ Settle(r, list, {"kanban"}) \/ Settle(r, list, {}))
    BY <1>6 DEF DeliverTransition
  <2>2. /\ r.answer.code = "ok" => Settled(r, Mapped(list, r.answer.rows))
        /\ Settled(r, list)
    BY DEF Settled
  <2> QED
    BY <1>1, <1>2, <1>3, <1>4, <1>5, <2>1, <2>2 DEF Mutations, AtMostOne
<1>7. CASE DeliverDates(r)
  <2>1. r.kind = "dates" /\ (\/ Expired(r)
                             \/ /\ r.answer.code = "ok"
                                /\ Settle(r, Mapped(list, r.answer.rows), {"management"})
                             \/ Settle(r, Mapped(list, r.before), {"kanban"})
                             \/ Settle(r, Mapped(list, r.before), {}))
    BY <1>7 DEF DeliverDates
  <2>2. /\ r.answer.code = "ok" => Settled(r, Mapped(list, r.answer.rows))
        /\ Settled(r, Mapped(list, r.before))
    BY <2>1 DEF Settled
  <2> QED
    BY <1>1, <1>2, <1>3, <1>4, <1>5, <2>1, <2>2 DEF Mutations, AtMostOne
<1>8. CASE DeliverWorkers(r)
  <2> DEFINE kept == IF r.before = {} THEN {0} ELSE Values(r.before, "workers")
  <2>1. r.kind = "workers" /\ (\/ Expired(r)
                               \/ /\ r.answer.code = "ok"
                                  /\ Settle(r, Mapped(list, r.answer.rows), {})
                               \/ \E v \in kept : Settle(r, WithField(list, "workers", v), {}))
    BY <1>8 DEF DeliverWorkers
  <2>2. CASE \/ Expired(r)
             \/ r.answer.code = "ok" /\ Settle(r, Mapped(list, r.answer.rows), {})
    <3>1. r.answer.code = "ok" => Settled(r, Mapped(list, r.answer.rows))
      BY DEF Settled
    <3> QED
      BY <1>1, <1>2, <1>3, <1>4, <1>5, <2>1, <2>2, <3>1 DEF Mutations, AtMostOne
  <2>3. ASSUME NEW v \in kept, Settle(r, WithField(list, "workers", v), {})
        PROVE  \E rows \in SUBSET RowType, refetch \in SUBSET Stores :
                 /\ Settle(r, rows, refetch) /\ AtMostOne(rows)
                 /\ \E u \in {0} \cup {x.workers : x \in r.before} :
                      \A y \in rows : \E x \in shown["kanban"] :
                         y.workers = u /\ y.dates = x.dates
                 /\ Settled(r, rows)
    <3>1. v \in {0} \cup {x.workers : x \in r.before}
      BY DEF Values
    <3>2. v \in Draft .. MaxCommits
      BY <1>2, <3>1 DEF RowType, Draft
    <3> PICK rows : rows = WithField(list, "workers", v)
      OBVIOUS
    <3>3. /\ rows \in SUBSET RowType /\ AtMostOne(rows)
          /\ \A y \in rows : \E x \in list : y.workers = v /\ y.dates = x.dates
      BY <1>3, <3>2, FieldOK
    <3>4. Settle(r, rows, {}) /\ Settled(r, rows)
      BY <2>1, <2>3 DEF Settled
    <3> QED
      BY <1>5, <3>1, <3>3, <3>4
  <2> QED
    BY <2>1, <2>2, <2>3 DEF Mutations
<1> QED
  BY <1>6, <1>7, <1>8 DEF DeliverMutation

\* the tab signs out; requests in flight stay in flight
LEMMA SignOutTypes ==
  ASSUME TInv, \/ Logout
               \/ \E r \in wire : Expired(r)
  PROVE  /\ TInv'
         /\ wire' \subseteq wire /\ locked' = FALSE /\ UNCHANGED <<listed, overlap, crossed>>
         /\ owed' = [s \in Stores |-> 0] /\ shown' = [s \in Stores |-> {}]
         /\ \A r \in wire : Expired(r) => wire' = wire \ {r}
<1> USE DEF server, ghosts, bounds
<1>1. /\ UNCHANGED <<row, live, commits, history, waiting, edits, listed, overlap, crossed>>
      /\ auth' = FALSE /\ shown' = [s \in Stores |-> {}] /\ locked' = FALSE
      /\ source' = "none" /\ bus' = FALSE /\ frames' = 0
      /\ owed' = [s \in Stores |-> 0] /\ wire' \subseteq wire
  BY DEF Logout, Expired, SignOut
<1>2. session' \in {"none", "valid", "ended"}
  BY DEF Logout, Expired, TInv, StreamOK
<1>3. ServerOK'
  BY <1>1 DEF TInv, ServerOK
<1>4. StreamOK'
  <2>1. frames' \in 0 .. commits'
    BY <1>1 DEF TInv, ServerOK
  <2>2. bus' \in BOOLEAN /\ source' \in {"none", "connecting", "reconnecting", "open"}
    BY <1>1
  <2> QED
    BY <1>2, <2>1, <2>2 DEF StreamOK
<1>5. TabOK'
  <2>1. auth' \in BOOLEAN /\ locked' \in BOOLEAN
    BY <1>1
  <2> QED
    BY <1>1, <2>1 DEF TInv, TabOK
<1>6. ShownOK'
  BY <1>1 DEF ShownOK, AtMostOne, Stores
<1>7. WireOK'
  BY <1>1 DEF TInv, WireOK, RequestOK
<1>8. GhostOK'
  <2>1. owed' \in [Stores -> 0 .. commits']
    BY <1>1 DEF TInv, ServerOK
  <2> QED
    BY <1>1, <2>1 DEF TInv, GhostOK
<1>9. \A r \in wire : Expired(r) => wire' = wire \ {r}
  BY DEF Expired, SignOut
<1> QED
  BY <1>1, <1>3, <1>4, <1>5, <1>6, <1>7, <1>8, <1>9 DEF TInv

LEMMA DeliverTypes ==
  ASSUME TInv, NEW r \in wire, DeliverList(r) \/ DeliverMutation(r)
  PROVE  TInv'
<1> USE DEF server, ghosts, bounds
<1>1. /\ r \in RequestType /\ AtMostOne(r.answer.rows) /\ (\A x \in r.answer.rows : Clean(x))
      /\ r.answer.at \in 0 .. commits /\ r.answer.rows \in SUBSET RowType /\ r.store \in Stores
  BY DEF TInv, WireOK, RequestOK, RequestType, AnswerType, ServerOK
<1>2. commits \in Nat /\ \A x \in wire : RequestOK(x)
  BY DEF TInv, ServerOK, WireOK
<1>3. CASE Expired(r)
  BY <1>3, SignOutTypes
<1>4. CASE DeliverList(r) /\ ~ Expired(r)
  <2>1. UNCHANGED <<row, live, commits, history, bus, session, source, frames, auth, locked,
                    waiting, edits, overlap>> /\ wire' \subseteq wire
    BY <1>4 DEF DeliverList
  <2>2. shown' = shown \/ shown' = [shown EXCEPT ![r.store] = r.answer.rows]
    BY <1>4 DEF DeliverList
  <2>3. ShownOK'
    <3>1. CASE shown' = shown
      BY <3>1 DEF TInv, ShownOK
    <3>2. CASE shown' = [shown EXCEPT ![r.store] = r.answer.rows]
      <4>1. \A s \in Stores : shown'[s] = IF s = r.store THEN r.answer.rows ELSE shown[s]
        BY <1>1, <3>2 DEF TInv, ShownOK
      <4>2. shown' \in [Stores -> SUBSET RowType]
        BY <1>1, <3>2 DEF TInv, ShownOK
      <4>3. \A s \in Stores : AtMostOne(shown'[s])
        BY <1>1, <4>1 DEF TInv, ShownOK
      <4>4. \A x \in shown'["management"] : Clean(x)
        BY <1>1, <4>1 DEF TInv, ShownOK, Stores
      <4> QED
        BY <4>2, <4>3, <4>4 DEF ShownOK
    <3> QED
      BY <2>2, <3>1, <3>2
  <2>4. owed' \in [Stores -> 0 .. commits] /\ listed' \in [Stores -> 0 .. commits]
    BY <1>1, <1>2, <1>4 DEF DeliverList, TInv, GhostOK
  <2>5. WireOK'
    BY <2>1 DEF TInv, WireOK, RequestOK
  <2>6. crossed' \in BOOLEAN
    BY Zenon, <1>4 DEF DeliverList, TInv, GhostOK
  <2> QED
    BY <2>1, <2>3, <2>4, <2>5, <2>6 DEF TInv, ServerOK, StreamOK, TabOK, GhostOK
<1>5. CASE DeliverMutation(r) /\ ~ Expired(r)
  <2>1. PICK rows \in SUBSET RowType, refetch \in SUBSET Stores :
          Settle(r, rows, refetch) /\ AtMostOne(rows)
    BY <1>5, DeliverSteps
  <2>2. /\ UNCHANGED <<row, live, commits, history, bus, session, source, frames, auth, waiting,
                       edits, ghosts>>
        /\ shown' = [shown EXCEPT !["kanban"] = rows] /\ locked' = FALSE
        /\ wire' = Fetch(wire \ {r}, refetch)
    BY <2>1 DEF Settle
  <2>3. ShownOK'
    BY <2>1, <2>2, ShowOK DEF TInv
  <2>4. WireOK'
    <3>1. \A x \in wire' : RequestOK(x)
      BY <1>2, <2>2, FetchOK
    <3> QED
      BY <2>2, <3>1 DEF WireOK, RequestOK
  <2>5. TabOK'
    <3>1. locked' \in BOOLEAN
      BY <2>2
    <3> QED
      BY <2>2, <3>1 DEF TInv, TabOK
  <2> QED
    BY <2>2, <2>3, <2>4, <2>5 DEF TInv, ServerOK, StreamOK, GhostOK
<1> QED
  BY <1>3, <1>4, <1>5

LEMMA StepTInv ==
  ASSUME TInv, [Next]_vars
  PROVE  TInv'
<1>1. ASSUME NEW s \in Stores, ServeList(s) \/ AnswerList(s) PROVE TInv'
  BY <1>1, ServeTypes, DeliverTypes DEF ServeList, AnswerList
<1>2. ASSUME NEW k \in Mutations, ServeMutation(k) \/ AnswerMutation(k) PROVE TInv'
  BY <1>2, ServeTypes, CommitTypes, DeliverTypes
     DEF ServeMutation, AnswerMutation, DeliverMutation
<1>3. ASSUME NEW r \in wire, Lose(r) PROVE TInv'
  BY <1>3, ServeTypes
<1> QED
  BY <1>1, <1>2, <1>3, OtherCommitTypes, RestartTypes, StreamTypes, FetchTypes, SendTypes,
     SignOutTypes DEF Next

LEMMA Types == Spec => []TInv
<1>1. TInv /\ [Next]_vars => TInv'
  BY StepTInv
<1> QED
  BY <1>1, InitTInv, PTL DEF Spec

\* Every variable has its type; the server stores no draft, and a list holds the
\* project at most once.
THEOREM TypeCorrect == Spec => []TypeOK
  BY Types, TInvTypes, PTL

-----------------------------------------------------------------------------
(* The requests on the wire, and what the tab owes to them *)

\* A store has one list request at most: a new one takes the others off the wire.
OneList ==
  \A r, q \in wire : r.kind = "list" /\ q.kind = "list" /\ r.store = q.store => r = q

\* An answer on the wire is no older than the one applied last.
Ordered ==
  \A r \in wire : r.kind = "list" /\ r.answer.code = "ok" => listed[r.store] <= r.answer.at

\* A draft in the list belongs to an edit in flight, and what an edit would put
\* back holds no draft of its kind.
Drafts ==
  /\ \A x \in shown["kanban"] : /\ x.dates = Draft => \E r \in wire : r.kind = "dates"
                                /\ x.workers = Draft => \E r \in wire : r.kind = "workers"
  /\ \A r \in wire : /\ r.kind = "dates" => \A x \in r.before : Clean(x)
                     /\ r.kind = "workers" => \A x \in r.before : x.workers # Draft

\* The list applied last has seen what the tab heard of, or a read that will is
\* under way.
ListedOrRead == \A s \in Stores : listed[s] >= owed[s] \/ Reading(s)

\* A value of the kanban list that is no older than what the tab heard of.
FreshValue(f, v) ==
  v = Draft \/ \E c \in owed["kanban"] .. commits : \E y \in history[c] : y[f] = v
FreshRow(x) ==
  FreshValue("status", x.status) /\ FreshValue("dates", x.dates) /\ FreshValue("workers", x.workers)

\* What the mutations under way would put into the list is no older, either.
KeepsFresh(r) ==
  /\ r.kind = "dates" => r.before # {}
  /\ r.kind = "workers" /\ r.before = {} => shown["kanban"] = {}
  /\ r.kind \in Fields => \A x \in r.before : FreshRow(x)
  /\ r.kind \in Mutations /\ r.answer.code = "ok" => r.answer.at >= owed["kanban"]
AllKeepFresh == \A r \in wire : KeepsFresh(r)

ShownInv ==
  /\ owed["management"] = 0 \/ Reading("management") \/ UpToDate("management")
  /\ owed["kanban"] = 0 \/ Reading("kanban") \/ crossed \/ (UpToDate("kanban") /\ AllKeepFresh)

SInv == LockHasOwner /\ OneList /\ Ordered /\ ListedOrRead /\ ShownInv /\ (~ overlap => Drafts)

LEMMA InitSInv == Init => SInv
<1> SUFFICES ASSUME Init PROVE SInv
  OBVIOUS
<1>1. wire = {} /\ locked = FALSE /\ shown["kanban"] = {}
  BY DEF Init, Stores
<1>2. \A s \in Stores : listed[s] = 0 /\ owed[s] = 0
  BY DEF Init
<1>3. ListedOrRead /\ ShownInv
  BY <1>2 DEF ListedOrRead, ShownInv, Stores
<1>4. LockHasOwner
  BY <1>1 DEF LockHasOwner
<1> QED
  BY <1>1, <1>3, <1>4 DEF SInv, OneList, Ordered, Drafts

\* The listing's presence and values, as ShownInv follows them.
SamePresence(s) ==
  \E c \in owed[s] .. commits : (shown[s] = {}) <=> (history[c] = {})

LEMMA KanbanFresh ==
  UpToDate("kanban") <=> SamePresence("kanban") /\ \A x \in shown["kanban"] : FreshRow(x)
<1>1. ASSUME NEW x
      PROVE  FreshRow(x) <=>
               \A f \in Fields \cup {"status"} :
                 x[f] = Draft \/ \E c \in owed["kanban"] .. commits : \E y \in history[c] : x[f] = y[f]
  BY DEF FreshRow, FreshValue, Fields
<1> QED
  BY <1>1 DEF UpToDate, SamePresence

LEMMA KanbanFreshNext ==
  ASSUME SamePresence("kanban")', \A x \in shown'["kanban"] : FreshRow(x)'
  PROVE  UpToDate("kanban")'
<1>1. ASSUME NEW x, FreshRow(x)'
      PROVE  \A f \in Fields \cup {"status"} :
               \/ x[f] = Draft
               \/ \E c \in owed'["kanban"] .. commits' : \E y \in history'[c] : x[f] = y[f]
  BY <1>1 DEF FreshRow, FreshValue, Fields
<1> QED
  BY <1>1 DEF UpToDate, SamePresence

\* what is up to date stays so while the server moves on
LEMMA FreshStays ==
  ASSUME TInv, UNCHANGED <<shown, owed>>, Extends, commits' \in Nat
  PROVE  /\ \A s \in Stores : UpToDate(s) => UpToDate(s)'
         /\ \A x : FreshRow(x) => FreshRow(x)'
<1>1. \A s \in Stores : \A c \in owed[s] .. commits :
        c \in owed'[s] .. commits' /\ history'[c] = history[c]
  BY DEF TInv, ServerOK, GhostOK, Extends
<1>2. ASSUME NEW s \in Stores, UpToDate(s) PROVE UpToDate(s)'
  <2>1. \E c \in owed'[s] .. commits' : (shown'[s] = {}) <=> (history'[c] = {})
    BY <1>1, <1>2 DEF UpToDate
  <2>2. ASSUME NEW x \in shown'[s], NEW f \in Fields \cup {"status"}, x[f] # Draft
        PROVE  \E c \in owed'[s] .. commits' : \E y \in history'[c] : x[f] = y[f]
    <3>1. PICK c \in owed[s] .. commits : \E y \in history[c] : x[f] = y[f]
      BY <1>2, <2>2 DEF UpToDate
    <3> QED
      BY <1>1, <3>1
  <2> QED
    BY <2>1, <2>2 DEF UpToDate
<1>3. ASSUME NEW f, NEW v, FreshValue(f, v) PROVE FreshValue(f, v)'
  <2>1. CASE v = Draft
    BY <2>1 DEF FreshValue
  <2>2. CASE v # Draft
    <3>1. PICK c \in owed["kanban"] .. commits : \E y \in history[c] : y[f] = v
      BY <1>3, <2>2 DEF FreshValue
    <3>2. c \in owed'["kanban"] .. commits' /\ history'[c] = history[c]
      BY <1>1 DEF Stores
    <3> QED
      BY <3>1, <3>2 DEF FreshValue
  <2> QED
    BY <2>1, <2>2
<1> QED
  BY <1>2, <1>3 DEF FreshRow

\* Every request has become f of it, answered or not; an answer that came in
\* this step has seen all commits.
Becomes(f) ==
  /\ wire' = {f[r] : r \in wire}
  /\ \A r \in wire :
       /\ f[r].kind = r.kind /\ f[r].store = r.store /\ f[r].before = r.before
       /\ f[r].answer.code = "ok" =>
            \/ r.answer.code = "ok" /\ f[r].answer.at = r.answer.at
            \/ f[r].answer.at = commits'

LEMMA ServerSteps ==
  ASSUME TInv,
         \/ UNCHANGED vars \/ OtherCommit \/ EndSession \/ Heartbeat \/ Restart
         \/ Connect \/ Drop \/ StreamEnds \/ Resubscribe \/ QueueWorkers
         \/ \E r \in wire : ServeRead(r) \/ Commit(r) \/ Refuse(r) \/ Lose(r)
  PROVE  /\ UNCHANGED <<shown, locked, ghosts>> /\ Extends /\ commits' \in Nat
         /\ \E f : Becomes(f)
<1> USE DEF ghosts, bounds, server
<1>1. UNCHANGED <<shown, locked, ghosts>>
  BY DEF vars, OtherCommit, EndSession, Heartbeat, Restart, Connect, Drop, StreamEnds, Resubscribe,
         QueueWorkers, ServeRead, Commit, Refuse, Lose
<1>2. \A r \in wire : r \in RequestType
  BY DEF TInv, WireOK, RequestOK
<1>3. Extends /\ commits' \in Nat
  <2>1. commits \in Nat /\ (UNCHANGED <<commits, history>> => Extends)
    BY DEF TInv, ServerOK, Extends
  <2>2. CASE OtherCommit \/ \E r \in wire : Commit(r)
    <3>1. commits' = commits + 1 /\ Recorded
      BY <2>2 DEF OtherCommit, Commit
    <3>2. TInv'
      BY <2>2, OtherCommitTypes, CommitTypes
    <3>3. Listing' \in SUBSET RowType
      BY <3>2 DEF TInv, ServerOK, Listing
    <3> QED
      BY <2>1, <3>1, <3>3, RecordedOK
  <2>3. CASE ~ (OtherCommit \/ \E r \in wire : Commit(r))
    <3>1. UNCHANGED <<commits, history>>
      BY <2>3 DEF vars, EndSession, Heartbeat, Restart, Connect, Drop, StreamEnds, Resubscribe,
                  QueueWorkers, ServeRead, Refuse, Lose
    <3> QED
      BY <2>1, <3>1
  <2> QED
    BY <2>2, <2>3
<1>4. CASE \/ UNCHANGED vars \/ OtherCommit \/ EndSession \/ Heartbeat
           \/ Connect \/ Drop \/ StreamEnds \/ Resubscribe \/ QueueWorkers
  <2>1. wire' = wire
    BY <1>4 DEF vars, OtherCommit, EndSession, Heartbeat, Connect, Drop, StreamEnds, Resubscribe,
                QueueWorkers
  <2> DEFINE f == [r \in wire |-> r]
  <2>2. Becomes(f)
    BY <2>1 DEF Becomes
  <2> QED
    BY <1>1, <1>3, <2>2
<1>5. CASE Restart
  <2> DEFINE f == [r \in wire |-> IF r.stage = "answered" THEN r ELSE Answered(r, "network", {}, 0)]
  <2>1. wire' = {f[r] : r \in wire}
    BY <1>5 DEF Restart
  <2>2. \A r \in wire : \/ f[r] = r
                        \/ /\ f[r].kind = r.kind /\ f[r].store = r.store /\ f[r].before = r.before
                           /\ f[r].answer.code = "network"
    <3>1. \A r \in wire : /\ Answered(r, "network", {}, 0).kind = r.kind
                          /\ Answered(r, "network", {}, 0).store = r.store
                          /\ Answered(r, "network", {}, 0).before = r.before
                          /\ Answered(r, "network", {}, 0).answer.code = "network"
      BY <1>2 DEF Answered, RequestType
    <3> QED
      BY <3>1
  <2> HIDE DEF f
  <2>3. Becomes(f)
    BY <2>1, <2>2 DEF Becomes
  <2> QED
    BY <1>1, <1>3, <2>3
<1>6. ASSUME NEW r \in wire, ServeRead(r) \/ Commit(r) \/ Refuse(r) \/ Lose(r)
      PROVE  \E f : Becomes(f)
  <2>1. PICK code, rows, at :
          /\ wire' = (wire \ {r}) \cup {Answered(r, code, rows, at)}
          /\ code = "ok" => at = commits'
    <3>1. CASE ServeRead(r)
      <4>1. CASE session = "valid"
        BY <3>1, <4>1 DEF ServeRead
      <4>2. CASE session # "valid"
        <5>1. wire' = (wire \ {r}) \cup {Answered(r, "expired", {}, 0)} /\ "expired" # "ok"
          BY <3>1, <4>2 DEF ServeRead
        <5> QED
          BY <5>1
      <4> QED
        BY <4>1, <4>2
    <3>2. CASE Commit(r)
      BY <3>2 DEF Commit
    <3>3. CASE Refuse(r)
      <4>1. PICK code : /\ wire' = (wire \ {r}) \cup {Answered(r, code, {}, 0)}
                        /\ code \in {"expired", "notFound", "refused"}
        BY <3>3 DEF Refuse
      <4> QED
        BY <4>1
    <3>4. CASE Lose(r)
      <4>1. wire' = (wire \ {r}) \cup {Answered(r, "network", {}, 0)} /\ "network" # "ok"
        BY <3>4 DEF Lose
      <4> QED
        BY <4>1
    <3> QED
      BY <1>6, <3>1, <3>2, <3>3, <3>4
  <2> PICK q : q = Answered(r, code, rows, at)
    OBVIOUS
  <2>2. q.kind = r.kind /\ q.store = r.store /\ q.before = r.before
        /\ q.answer.code = code /\ q.answer.at = at
    BY <1>2 DEF Answered, RequestType
  <2> DEFINE f == [x \in wire |-> IF x = r THEN q ELSE x]
  <2>3. wire' = {f[x] : x \in wire}
    BY <2>1
  <2>4. f[r] = q /\ \A x \in wire \ {r} : f[x] = x
    OBVIOUS
  <2> HIDE DEF f
  <2>5. Becomes(f)
    BY <2>1, <2>2, <2>3, <2>4 DEF Becomes
  <2> QED
    BY <2>5
<1> QED
  BY <1>1, <1>4, <1>5, <1>6, <1>3

LEMMA ServerSInv ==
  ASSUME TInv, SInv, UNCHANGED <<shown, locked, ghosts>>, Extends, commits' \in Nat,
         NEW f, Becomes(f)
  PROVE  SInv'
<1> USE DEF ghosts
<1>1. \A q \in wire' : \E r \in wire : q = f[r]
  BY DEF Becomes
<1>2. \A r \in wire : f[r] \in wire'
  BY DEF Becomes
<1>3. LockHasOwner'
  BY <1>2 DEF SInv, LockHasOwner, Mutating, Becomes
<1>4. OneList'
  BY <1>1 DEF SInv, OneList, Becomes
<1>5. Ordered'
  <2> SUFFICES ASSUME NEW q \in wire', q.kind = "list", q.answer.code = "ok"
               PROVE  listed[q.store] <= q.answer.at
    BY DEF Ordered
  <2>1. PICK r \in wire : q = f[r]
    BY <1>1
  <2>2. r.store \in Stores /\ listed[r.store] <= commits'
    BY DEF TInv, WireOK, RequestOK, RequestType, GhostOK, ServerOK, Extends
  <2> QED
    BY <2>1, <2>2 DEF SInv, Ordered, Becomes
<1>6. ASSUME NEW s \in Stores, Reading(s) PROVE Reading(s)'
  <2>1. PICK r \in wire : /\ r.kind = "list" /\ r.store = s
                          /\ r.answer.code = "ok" => r.answer.at >= owed[s]
    BY <1>6 DEF Reading
  <2>2. commits' >= owed[s]
    BY DEF TInv, GhostOK, ServerOK, Extends
  <2>3. /\ f[r] \in wire' /\ f[r].kind = "list" /\ f[r].store = s
        /\ f[r].answer.code = "ok" => f[r].answer.at >= owed[s]
    BY <1>2, <2>1, <2>2 DEF Becomes
  <2> QED
    BY <2>3 DEF Reading
<1>7. ListedOrRead'
  BY <1>6 DEF SInv, ListedOrRead
<1>8. ASSUME AllKeepFresh PROVE AllKeepFresh'
  <2> SUFFICES ASSUME NEW q \in wire' PROVE KeepsFresh(q)'
    BY DEF AllKeepFresh
  <2>1. PICK r \in wire : q = f[r]
    BY <1>1
  <2>2. /\ q.kind = r.kind /\ q.before = r.before
        /\ q.answer.code = "ok" => \/ r.answer.code = "ok" /\ q.answer.at = r.answer.at
                                   \/ q.answer.at = commits'
    BY <2>1 DEF Becomes
  <2>3. KeepsFresh(r) /\ commits' >= owed["kanban"]
    BY <1>8 DEF AllKeepFresh, TInv, GhostOK, ServerOK, Extends, Stores
  <2>4. \A x : FreshRow(x) => FreshRow(x)'
    BY FreshStays
  <2> QED
    BY <2>2, <2>3, <2>4 DEF KeepsFresh
<1>9. ShownInv'
  BY <1>6, <1>8, FreshStays DEF SInv, ShownInv, Stores
<1>10. ~ overlap => Drafts'
  <2> SUFFICES ASSUME ~ overlap PROVE Drafts'
    OBVIOUS
  <2>1. \A k : (\E r \in wire : r.kind = k) => \E q \in wire' : q.kind = k
    BY <1>2 DEF Becomes
  <2>2. \A x \in shown["kanban"] : /\ x.dates = Draft => \E q \in wire' : q.kind = "dates"
                                   /\ x.workers = Draft => \E q \in wire' : q.kind = "workers"
    BY <2>1 DEF SInv, Drafts
  <2>3. \A q \in wire' : /\ q.kind = "dates" => \A x \in q.before : Clean(x)
                         /\ q.kind = "workers" => \A x \in q.before : x.workers # Draft
    BY <1>1 DEF SInv, Drafts, Becomes
  <2> QED
    BY <2>2, <2>3 DEF Drafts, Clean
<1> QED
  BY <1>3, <1>4, <1>5, <1>10, <1>7, <1>9 DEF SInv

\* The fetches of a step: what it keeps of the wire and the new requests.
LEMMA FetchSteps ==
  ASSUME NEW w, NEW S \in SUBSET Stores
  PROVE  /\ \A r \in Fetch(w, S) : r \in w \/ \E s \in S : r = ListRequest(s)
         /\ \A s \in S : ListRequest(s) \in Fetch(w, S)
         /\ \A r \in w : r.kind # "list" \/ r.store \notin S => r \in Fetch(w, S)
         /\ \A r \in Fetch(w, S) : r.kind = "list" /\ r.store \in S => r = ListRequest(r.store)
  BY NewList DEF Fetch

\* What holds of the lists and their reads still does after fetches.
LEMMA FetchLists ==
  ASSUME TInv, OneList, Ordered, NEW w \in SUBSET wire, NEW S \in SUBSET Stores,
         wire' = Fetch(w, S), listed' = listed
  PROVE  OneList' /\ Ordered'
<1>1. \A r \in wire' : r \in wire \/ \E s \in S : r = ListRequest(s)
  BY FetchSteps
<1>2. \A r \in wire' : r.kind = "list" /\ r.store \in S => r = ListRequest(r.store)
  BY FetchSteps
<1>3. OneList'
  <2> SUFFICES ASSUME NEW r \in wire', NEW q \in wire', r.kind = "list", q.kind = "list",
                      r.store = q.store
               PROVE  r = q
    BY DEF OneList
  <2>1. CASE r.store \in S
    BY <1>2, <2>1
  <2>2. CASE r.store \notin S
    BY <1>1, <2>2, NewList DEF OneList
  <2> QED
    BY <2>1, <2>2
<1>4. Ordered'
  BY <1>1, NewList DEF Ordered
<1> QED
  BY <1>3, <1>4

LEMMA FetchReads ==
  ASSUME NEW w \in SUBSET wire, NEW S \in SUBSET Stores, wire' = Fetch(w, S),
         \A r \in wire \ w : r.kind # "list", NEW s \in Stores,
         s \in S \/ (Reading(s) /\ owed'[s] = owed[s])
  PROVE  Reading(s)'
<1>1. CASE s \in S
  <2>1. ListRequest(s) \in wire'
    BY <1>1, FetchSteps
  <2> QED
    BY <2>1, NewList DEF Reading
<1>2. CASE s \notin S
  <2>1. \A r \in wire : r.kind = "list" /\ r.store = s => r \in wire'
    BY <1>2, FetchSteps
  <2> QED
    BY <1>2, <2>1 DEF Reading
<1> QED
  BY <1>1, <1>2

LEMMA TabFetchSInv ==
  ASSUME TInv, SInv, Hear \/ Login \/ MountManagement
  PROVE  SInv'
<1> USE DEF ghosts
<1>1. PICK S \in SUBSET Stores :
         wire' = Fetch(wire, S) /\ \A s \in Stores \ S : owed'[s] = owed[s]
  BY DEF Hear, Login, MountManagement, Stores
<1>2. UNCHANGED <<shown, locked, listed, overlap, crossed, commits, history>>
  BY DEF Hear, Login, MountManagement, server
<1>3. OneList' /\ Ordered'
  BY <1>1, <1>2, FetchLists DEF SInv
<1>4. \A s \in Stores : s \in S \/ Reading(s) => Reading(s)'
  BY <1>1, FetchReads
<1>5. ListedOrRead'
  BY <1>1, <1>2, <1>4 DEF SInv, ListedOrRead
<1>6. ASSUME NEW s \in Stores \ S, UpToDate(s) PROVE UpToDate(s)'
  BY <1>1, <1>2, <1>6 DEF UpToDate
<1>7. ASSUME "kanban" \notin S, AllKeepFresh PROVE AllKeepFresh'
  <2>1. \A r \in wire' : r \in wire \/ (r.kind = "list" /\ r.before = {} /\ r.answer.code = "none")
    BY <1>1, FetchSteps, NewList
  <2>2. owed'["kanban"] = owed["kanban"]
    BY <1>1, <1>7 DEF Stores
  <2>3. ASSUME NEW x, FreshRow(x) PROVE FreshRow(x)'
    BY <1>2, <2>2, <2>3 DEF FreshRow, FreshValue
  <2>4. ASSUME NEW r \in wire PROVE KeepsFresh(r)'
    BY <1>2, <1>7, <2>2, <2>3 DEF AllKeepFresh, KeepsFresh
  <2>5. \A r \in wire' : r.kind = "list" => KeepsFresh(r)'
    BY DEF KeepsFresh, Fields, Mutations
  <2> QED
    BY <2>1, <2>4, <2>5 DEF AllKeepFresh
<1>8. ShownInv'
  BY <1>1, <1>2, <1>4, <1>6, <1>7 DEF SInv, ShownInv, Stores
<1>9. \A r \in wire : r.kind # "list" => r \in wire'
  BY <1>1, FetchSteps
<1>10. LockHasOwner'
  BY <1>2, <1>9 DEF SInv, LockHasOwner, Mutating, Mutations
<1>11. ~ overlap => Drafts'
  <2> SUFFICES ASSUME Drafts PROVE Drafts'
    BY DEF SInv
  <2>1. \A x \in shown["kanban"] : /\ x.dates = Draft => \E r \in wire' : r.kind = "dates"
                                   /\ x.workers = Draft => \E r \in wire' : r.kind = "workers"
    BY <1>9 DEF Drafts
  <2>2. \A r \in wire' : r \in wire \/ r.kind = "list"
    BY <1>1, FetchSteps, NewList
  <2>3. \A r \in wire' : /\ r.kind = "dates" => \A x \in r.before : Clean(x)
                         /\ r.kind = "workers" => \A x \in r.before : x.workers # Draft
    BY <2>2 DEF Drafts
  <2> QED
    BY <1>2, <2>1, <2>3 DEF Drafts, Clean
<1> QED
  BY <1>2, <1>3, <1>10, <1>11, <1>5, <1>8 DEF SInv

\* drafts keep a list as fresh as it is
LEMMA DraftFresh ==
  ASSUME TInv, UNCHANGED <<owed, commits, history>>, UpToDate("kanban"), NEW f \in Fields,
         shown' = [shown EXCEPT !["kanban"] = WithField(@, f, Draft)]
  PROVE  UpToDate("kanban")' /\ (shown["kanban"] = {} => shown'["kanban"] = {})
<1>1. /\ shown["kanban"] \in SUBSET RowType /\ AtMostOne(shown["kanban"])
      /\ Draft \in Draft .. MaxCommits
  BY DEF TInv, ShownOK, Stores, Draft
<1>2. shown'["kanban"] = WithField(shown["kanban"], f, Draft)
  BY DEF TInv, ShownOK, Stores
<1>3. shown'["kanban"] = {} <=> shown["kanban"] = {}
  BY <1>2, FieldNone
<1>4. ASSUME NEW y \in shown'["kanban"]
      PROVE  \E x \in shown["kanban"] : /\ y.status = x.status
                                       /\ y.dates \in {Draft, x.dates}
                                       /\ y.workers \in {Draft, x.workers}
  <2>1. CASE f = "dates"
    <3>1. PICK x \in shown["kanban"] : y.dates = Draft /\ y.workers = x.workers /\ y.status = x.status
      BY <1>1, <1>2, <1>4, <2>1, FieldOK
    <3> QED
      BY <3>1
  <2>2. CASE f = "workers"
    <3>1. PICK x \in shown["kanban"] : y.workers = Draft /\ y.dates = x.dates /\ y.status = x.status
      BY <1>1, <1>2, <1>4, <2>2, FieldOK
    <3> QED
      BY <3>1
  <2> QED
    BY <2>1, <2>2 DEF Fields
<1>5. \A y \in shown'["kanban"] : FreshRow(y)
  <2> SUFFICES ASSUME NEW y \in shown'["kanban"] PROVE FreshRow(y)
    OBVIOUS
  <2>1. PICK x \in shown["kanban"] : /\ y.status = x.status /\ y.dates \in {Draft, x.dates}
                                    /\ y.workers \in {Draft, x.workers}
    BY <1>4
  <2>2. FreshRow(x)
    BY KanbanFresh
  <2>3. \A g : FreshValue(g, Draft)
    BY DEF FreshValue
  <2> QED
    BY <2>1, <2>2, <2>3 DEF FreshRow
<1>6. SamePresence("kanban")'
  BY <1>3, KanbanFresh DEF SamePresence
<1>7. \A x : FreshRow(x) => FreshRow(x)'
  BY DEF FreshRow, FreshValue
<1> QED
  BY <1>3, <1>5, <1>6, <1>7, KanbanFreshNext

LEMMA SendFresh ==
  ASSUME TInv, UNCHANGED <<owed, commits, history>>, UpToDate("kanban"), AllKeepFresh,
         NEW q \in RequestType, wire' = wire \cup {q}, q.answer.code = "none",
         \/ StartTransition /\ q.kind = "transition"
         \/ StartDates /\ q.kind = "dates" /\ q.before = shown["kanban"]
         \/ RunWorkers /\ q.kind = "workers" /\ q.before = shown["kanban"]
  PROVE  UpToDate("kanban")' /\ AllKeepFresh'
<1>1. UpToDate("kanban")' /\ (shown["kanban"] = {} => shown'["kanban"] = {})
  <2>1. CASE StartTransition
    <3>1. shown' = shown
      BY <2>1 DEF StartTransition
    <3> QED
      BY <3>1 DEF UpToDate
  <2>2. CASE StartDates \/ RunWorkers
    BY <2>2, DraftFresh DEF StartDates, RunWorkers, Fields
  <2> QED
    BY <2>1, <2>2
<1>2. \A x : FreshRow(x) => FreshRow(x)'
  BY DEF FreshRow, FreshValue
<1>3. \A r \in wire : KeepsFresh(r)'
  <2> SUFFICES ASSUME NEW r \in wire PROVE KeepsFresh(r)'
    OBVIOUS
  <2>1. KeepsFresh(r)
    BY DEF AllKeepFresh
  <2> QED
    BY <1>1, <1>2, <2>1 DEF KeepsFresh
<1>4. KeepsFresh(q)'
  <2>1. \A x \in shown["kanban"] : FreshRow(x)
    BY KanbanFresh
  <2>2. q.kind = "dates" => q.before # {}
    BY DEF StartDates
  <2>3. q.kind = "workers" /\ q.before = {} => shown'["kanban"] = {}
    BY <1>1
  <2>4. q.kind \in Fields => \A x \in q.before : FreshRow(x)'
    BY <1>2, <2>1 DEF Fields
  <2> QED
    BY <2>2, <2>3, <2>4 DEF KeepsFresh
<1> QED
  BY <1>1, <1>3, <1>4 DEF AllKeepFresh

\* an edit leaves the tab
LEMMA SendSInv ==
  ASSUME TInv, SInv, StartTransition \/ StartDates \/ RunWorkers
  PROVE  SInv'
<1>1. PICK q \in RequestType :
        /\ wire' = wire \cup {q} /\ q.answer.code = "none"
        /\ \/ StartTransition /\ q.kind = "transition"
           \/ StartDates /\ q.kind = "dates" /\ q.before = shown["kanban"]
           \/ RunWorkers /\ q.kind = "workers" /\ q.before = shown["kanban"]
  BY SendTypes
<1>2. UNCHANGED <<owed, listed, crossed, commits, history>>
  BY DEF StartTransition, StartDates, RunWorkers, server
<1>3. q \in wire' /\ q.kind \in Mutations /\ q.kind # "list" /\ wire \subseteq wire'
  BY <1>1 DEF Mutations
<1>4. LockHasOwner'
  BY <1>3 DEF LockHasOwner, Mutating
<1>5. OneList' /\ Ordered'
  BY <1>1, <1>2, <1>3 DEF SInv, OneList, Ordered
<1>6. ListedOrRead' /\ ShownInv'
  <2>1. \A s \in Stores : Reading(s) => Reading(s)'
    BY <1>2, <1>3 DEF Reading
  <2>2. shown'["management"] = shown["management"]
    BY DEF StartTransition, StartDates, RunWorkers, TInv, ShownOK, Stores
  <2>3. UpToDate("management") => UpToDate("management")'
    BY <1>2, <2>2 DEF UpToDate
  <2>4. ASSUME UpToDate("kanban"), AllKeepFresh PROVE UpToDate("kanban")' /\ AllKeepFresh'
    BY <1>1, <1>2, <2>4, SendFresh
  <2> QED
    BY <1>2, <2>1, <2>3, <2>4 DEF SInv, ListedOrRead, ShownInv, Stores
<1>7. ASSUME ~ overlap' PROVE Drafts'
  <2>1. ~ overlap
    BY ZenonT(40), <1>7 DEF StartTransition, StartDates, RunWorkers, Send
  <2>2. Drafts
    BY <2>1 DEF SInv
  <2>3. shown["kanban"] \in SUBSET RowType /\ AtMostOne(shown["kanban"]) /\ shown \in [Stores -> SUBSET RowType]
        /\ "kanban" \in Stores /\ Draft \in Draft .. MaxCommits
    BY DEF TInv, ShownOK, Stores, Draft
  <2>4. CASE StartTransition /\ q.kind = "transition"
    <3>1. shown' = shown /\ q.kind = "transition"
      BY <2>4 DEF StartTransition
    <3> QED
      BY <1>1, <2>2, <3>1 DEF Drafts, Clean
  <2>5. CASE StartDates /\ q.kind = "dates" /\ q.before = shown["kanban"]
    <3>1. Mutating = {}
      <4> PICK b : b = Request("dates")
        OBVIOUS
      <4>1. b.kind = "dates" /\ b \in RequestType
        BY NewRequest DEF Mutations
      <4>2. Send([b EXCEPT !.before = shown["kanban"]])
        BY <2>5 DEF StartDates
      <4>3. [b EXCEPT !.before = shown["kanban"]].kind = "dates"
        BY <4>1 DEF RequestType
      <4> QED
        BY <1>7, <4>2, <4>3 DEF Send
    <3>2. \A x \in shown["kanban"] : Clean(x)
      BY <2>2, <3>1 DEF Drafts, Mutating, Mutations, Clean
    <3>3. shown'["kanban"] = WithField(shown["kanban"], "dates", Draft)
      BY <2>3, <2>5 DEF StartDates
    <3>4. \A y \in shown'["kanban"] : \E x \in shown["kanban"] : y.workers = x.workers
      BY <2>3, <3>3, FieldOK
    <3>5. \A r \in wire : r.kind \notin {"dates", "workers"}
      BY <3>1 DEF Mutating, Mutations
    <3>6. q.kind = "dates" /\ q.before = shown["kanban"]
      BY <2>5
    <3>7. \A x \in shown'["kanban"] : /\ x.dates = Draft => \E r \in wire' : r.kind = "dates"
                                      /\ x.workers = Draft => \E r \in wire' : r.kind = "workers"
      BY <1>3, <3>2, <3>4, <3>6 DEF Clean
    <3>8. \A r \in wire' : /\ r.kind = "dates" => \A x \in r.before : Clean(x)
                           /\ r.kind = "workers" => \A x \in r.before : x.workers # Draft
      BY <1>1, <3>2, <3>5, <3>6
    <3> QED
      BY <3>7, <3>8 DEF Drafts, Clean
  <2>6. CASE RunWorkers /\ q.kind = "workers" /\ q.before = shown["kanban"]
    <3>1. \A r \in wire : r.kind # "workers"
      BY <2>6 DEF RunWorkers
    <3>2. \A x \in shown["kanban"] : x.workers # Draft
      BY <2>2, <3>1 DEF Drafts
    <3>3. shown'["kanban"] = WithField(shown["kanban"], "workers", Draft)
      BY <2>3, <2>6 DEF RunWorkers
    <3>4. \A y \in shown'["kanban"] : \E x \in shown["kanban"] : y.dates = x.dates
      BY <2>3, <3>3, FieldOK
    <3>5. \A x \in shown'["kanban"] : /\ x.dates = Draft => \E r \in wire' : r.kind = "dates"
                                      /\ x.workers = Draft => \E r \in wire' : r.kind = "workers"
      BY <1>3, <2>2, <2>6, <3>4 DEF Drafts
    <3>6. \A r \in wire' : /\ r.kind = "dates" => \A x \in r.before : Clean(x)
                           /\ r.kind = "workers" => \A x \in r.before : x.workers # Draft
      BY <1>1, <2>2, <2>6, <3>2 DEF Drafts
    <3> QED
      BY <3>5, <3>6 DEF Drafts, Clean
  <2> QED
    BY <1>1, <2>4, <2>5, <2>6
<1> QED
  BY <1>4, <1>5, <1>6, <1>7 DEF SInv

LEMMA SignOutSInv ==
  ASSUME TInv, SInv, \/ Logout
                     \/ \E r \in wire : Expired(r)
  PROVE  SInv'
<1>1. /\ wire' \subseteq wire /\ locked' = FALSE /\ UNCHANGED <<listed, overlap>>
      /\ owed' = [s \in Stores |-> 0] /\ shown' = [s \in Stores |-> {}]
  BY SignOutTypes
<1>2. LockHasOwner'
  BY <1>1 DEF LockHasOwner
<1>3. OneList' /\ Ordered'
  BY <1>1 DEF SInv, OneList, Ordered
<1>4. ListedOrRead' /\ ShownInv'
  BY <1>1 DEF ListedOrRead, ShownInv, Stores, TInv, GhostOK, ServerOK
<1>5. ~ overlap' => Drafts'
  BY <1>1 DEF SInv, Drafts, Stores, Clean
<1> QED
  BY <1>2, <1>3, <1>4, <1>5 DEF SInv

\* a list answer is delivered, or fails
LEMMA ListSInv ==
  ASSUME TInv, SInv, NEW r \in wire, DeliverList(r), ~ Expired(r)
  PROVE  SInv'
<1> USE DEF ghosts
<1>1. /\ r.kind = "list" /\ r.store \in Stores /\ wire' = wire \ {r}
      /\ UNCHANGED <<locked, overlap>>
  BY DEF DeliverList, TInv, WireOK, RequestOK, RequestType
<1>2. \/ /\ r.answer.code = "ok"
         /\ shown' = [shown EXCEPT ![r.store] = r.answer.rows]
         /\ listed' = [listed EXCEPT ![r.store] = r.answer.at] /\ owed' = owed
         /\ crossed' = IF r.store = "kanban" THEN Mutating # {} ELSE crossed
      \/ /\ shown' = shown /\ listed' = listed /\ crossed' = crossed
         /\ owed' = [owed EXCEPT ![r.store] = 0]
  BY DEF DeliverList
<1>3. \A x \in r.answer.rows : Clean(x)
  BY DEF TInv, WireOK, RequestOK
<1>4. LockHasOwner'
  BY <1>1 DEF SInv, LockHasOwner, Mutating, Mutations
<1>5. OneList'
  BY <1>1 DEF SInv, OneList
<1>6. \A q \in wire' : q.kind = "list" => q.store # r.store
  BY <1>1 DEF SInv, OneList
<1>7. \A s \in Stores : s # r.store => listed'[s] = listed[s] /\ owed'[s] = owed[s]
  BY <1>1, <1>2 DEF TInv, GhostOK
<1>8. Ordered'
  <2> SUFFICES ASSUME NEW q \in wire', q.kind = "list", q.answer.code = "ok"
               PROVE  listed'[q.store] <= q.answer.at
    BY DEF Ordered
  <2>1. q \in wire /\ q.store \in Stores /\ q.store # r.store
    BY <1>1, <1>6 DEF TInv, WireOK, RequestOK, RequestType
  <2> QED
    BY <1>7, <2>1 DEF SInv, Ordered
<1>9. ASSUME r.answer.code = "ok" PROVE r.answer.at >= owed[r.store]
  <2>1. listed[r.store] <= r.answer.at
    BY <1>1, <1>9 DEF SInv, Ordered
  <2>2. listed[r.store] >= owed[r.store] \/ Reading(r.store)
    BY <1>1 DEF SInv, ListedOrRead
  <2>3. \A q \in wire : q.kind = "list" /\ q.store = r.store => q = r
    BY <1>1 DEF SInv, OneList
  <2>4. listed[r.store] \in Nat /\ owed[r.store] \in Nat /\ r.answer.at \in Nat
    BY <1>1 DEF TInv, GhostOK, ServerOK, WireOK, RequestOK, RequestType, AnswerType
  <2> QED
    BY <1>9, <2>1, <2>2, <2>3, <2>4 DEF Reading
<1>10. ListedOrRead'
  <2> SUFFICES ASSUME NEW s \in Stores PROVE listed'[s] >= owed'[s] \/ Reading(s)'
    BY DEF ListedOrRead
  <2>1. CASE s # r.store
    BY <1>1, <1>7, <2>1 DEF SInv, ListedOrRead, Reading
  <2>2. CASE s = r.store /\ owed' = [owed EXCEPT ![r.store] = 0] /\ listed' = listed
    <3>1. owed'[s] = 0 /\ listed'[s] \in Nat
      BY <1>1, <2>2 DEF TInv, GhostOK, ServerOK
    <3> QED
      BY <3>1
  <2>3. CASE /\ s = r.store /\ r.answer.code = "ok" /\ owed' = owed
             /\ listed' = [listed EXCEPT ![r.store] = r.answer.at]
    <3>1. listed'[s] = r.answer.at /\ owed'[s] = owed[s]
      BY <1>1, <2>3 DEF TInv, GhostOK
    <3> QED
      BY <1>9, <2>3, <3>1
  <2> QED
    BY <1>2, <2>1, <2>2, <2>3
<1>11. UNCHANGED <<commits, history>>
  BY DEF DeliverList, Expired, SignOut, server
<1>12. owed'[r.store] = 0 \/ UpToDate(r.store)'
  <2>1. CASE owed' = [owed EXCEPT ![r.store] = 0]
    BY <1>1, <2>1 DEF TInv, GhostOK
  <2>2. CASE /\ r.answer.code = "ok" /\ owed' = owed
             /\ shown' = [shown EXCEPT ![r.store] = r.answer.rows]
    <3>1. /\ r.answer.rows = history[r.answer.at] /\ r.answer.at \in 0 .. commits
          /\ shown'[r.store] = r.answer.rows
      BY <1>1, <2>2 DEF TInv, WireOK, RequestOK, RequestType, AnswerType, ShownOK, ServerOK
    <3>2. r.answer.at \in owed[r.store] .. commits
      BY <1>1, <1>9, <2>2, <3>1 DEF TInv, GhostOK
    <3> QED
      BY <1>11, <2>2, <3>1, <3>2 DEF UpToDate
  <2> QED
    BY <1>2, <2>1, <2>2
<1>13. ASSUME NEW s \in Stores, s # r.store
       PROVE  /\ Reading(s) => Reading(s)'
              /\ UpToDate(s) => UpToDate(s)'
  <2>1. owed'[s] = owed[s] /\ shown'[s] = shown[s]
    BY <1>1, <1>2, <1>7, <1>13 DEF TInv, ShownOK
  <2> QED
    BY <1>1, <1>11, <1>13, <2>1 DEF Reading, UpToDate
<1>14. ASSUME r.store = "management" PROVE ShownInv'
  <2>1. /\ owed'["kanban"] = owed["kanban"] /\ shown'["kanban"] = shown["kanban"]
        /\ crossed' = crossed
    BY <1>1, <1>2, <1>14 DEF TInv, GhostOK, ShownOK, Stores
  <2>2. AllKeepFresh => AllKeepFresh'
    <3>1. ASSUME NEW x, FreshRow(x) PROVE FreshRow(x)'
      BY <1>11, <2>1, <3>1 DEF FreshRow, FreshValue
    <3> QED
      BY <1>1, <2>1, <3>1 DEF AllKeepFresh, KeepsFresh
  <2> QED
    BY <1>12, <1>13, <1>14, <2>1, <2>2 DEF SInv, ShownInv, Stores
<1>15. ASSUME r.store = "kanban" PROVE ShownInv'
  <2>1. owed'["kanban"] = 0 \/ crossed' \/ AllKeepFresh'
    <3>1. CASE crossed' = (Mutating # {})
      <4>1. CASE Mutating = {}
        <5>1. \A q \in wire' : q.kind \notin Mutations
          BY <1>1, <4>1 DEF Mutating
        <5> QED
          BY <5>1 DEF AllKeepFresh, KeepsFresh, Mutations, Fields
      <4> QED
        BY <3>1, <4>1
    <3>2. CASE owed' = [owed EXCEPT ![r.store] = 0]
      BY <1>1, <1>15, <3>2 DEF TInv, GhostOK
    <3> QED
      BY <1>2, <1>15, <3>1, <3>2
  <2> QED
    BY <1>7, <1>12, <1>13, <1>15, <2>1 DEF SInv, ShownInv, Stores
<1>16. ShownInv'
  BY <1>1, <1>14, <1>15 DEF Stores
<1>17. ASSUME ~ overlap' PROVE Drafts'
  <2>1. Drafts
    BY <1>1, <1>17 DEF SInv
  <2>2. \A q \in wire : q.kind # "list" => q \in wire'
    BY <1>1
  <2>3. \A x \in shown'["kanban"] : Clean(x) \/ x \in shown["kanban"]
    BY <1>2, <1>3 DEF TInv, ShownOK, Stores
  <2>4. \A x \in shown'["kanban"] : /\ x.dates = Draft => \E q \in wire' : q.kind = "dates"
                                    /\ x.workers = Draft => \E q \in wire' : q.kind = "workers"
    BY <2>1, <2>2, <2>3 DEF Drafts, Clean
  <2>5. \A q \in wire' : /\ q.kind = "dates" => \A x \in q.before : Clean(x)
                         /\ q.kind = "workers" => \A x \in q.before : x.workers # Draft
    BY <1>1, <2>1 DEF Drafts
  <2> QED
    BY <2>4, <2>5 DEF Drafts, Clean
<1> QED
  BY <1>4, <1>5, <1>8, <1>17, <1>10, <1>16 DEF SInv

\* an edit that keeps nothing old leaves the list as fresh as it was
LEMMA SettledFresh ==
  ASSUME TInv, UNCHANGED <<owed, commits, history>>, UpToDate("kanban"), AllKeepFresh,
         NEW r \in wire, r.kind \in Mutations, NEW rows, Settled(r, rows),
         shown'["kanban"] = rows,
         \A q \in wire' : q \in wire \/ (q.kind = "list" /\ q.answer.code = "none")
  PROVE  UpToDate("kanban")' /\ AllKeepFresh'
<1> DEFINE list == shown["kanban"]
<1>1. list \in SUBSET RowType /\ AtMostOne(list) /\ r \in RequestType /\ RequestOK(r)
  BY DEF TInv, ShownOK, Stores, WireOK, RequestOK
<1>2. KeepsFresh(r) /\ SamePresence("kanban") /\ \A x \in list : FreshRow(x)
  BY KanbanFresh DEF AllKeepFresh
<1>3. (rows = {} <=> list = {}) /\ \A y \in rows : FreshRow(y)
  <2>1. CASE r.answer.code = "ok" /\ rows = Mapped(list, r.answer.rows)
    <3>1. /\ r.answer.rows = history[r.answer.at] /\ r.answer.rows # {}
          /\ r.answer.at \in owed["kanban"] .. commits
      BY <1>1, <1>2, <2>1 DEF RequestOK, RequestType, AnswerType, KeepsFresh, TInv, GhostOK, ServerOK,
                              Stores
    <3>2. \A y \in r.answer.rows : FreshRow(y)
      BY <3>1 DEF FreshRow, FreshValue
    <3> QED
      BY <2>1, <3>1, <3>2 DEF Mapped
  <2>2. CASE rows = list
    BY <1>2, <2>2
  <2>3. CASE r.kind = "dates" /\ rows = Mapped(list, r.before)
    BY <1>2, <2>3 DEF Mapped, KeepsFresh, Fields
  <2>4. CASE /\ r.kind = "workers"
             /\ \E v \in (IF r.before = {} THEN {0} ELSE Values(r.before, "workers")) :
                  rows = WithField(list, "workers", v)
    <3>1. PICK v \in (IF r.before = {} THEN {0} ELSE Values(r.before, "workers")) :
            rows = WithField(list, "workers", v)
      BY <2>4
    <3>2. rows = {} <=> list = {}
      BY <3>1, FieldNone
    <3>3. CASE r.before = {}
      BY <1>2, <2>4, <3>2, <3>3 DEF KeepsFresh
    <3>4. CASE r.before # {}
      <4>1. PICK b \in r.before : v = b.workers
        BY <3>1, <3>4 DEF Values
      <4>2. v \in Draft .. MaxCommits
        BY <1>1, <4>1 DEF RequestType, RowType
      <4>3. FreshValue("workers", v)
        BY <1>2, <2>4, <4>1 DEF KeepsFresh, Fields, FreshRow
      <4>4. \A y \in rows : \E x \in list : /\ y.workers = v /\ y.dates = x.dates
                                           /\ y.status = x.status
        BY <1>1, <3>1, <4>2, FieldOK
      <4> QED
        BY <1>2, <3>2, <4>3, <4>4 DEF FreshRow
    <3> QED
      BY <3>3, <3>4
  <2> QED
    BY <2>1, <2>2, <2>3, <2>4 DEF Settled
<1>4. \A x : FreshRow(x) => FreshRow(x)'
  BY DEF FreshRow, FreshValue
<1>5. UpToDate("kanban")'
  <2>1. SamePresence("kanban")'
    BY <1>2, <1>3 DEF SamePresence
  <2> QED
    BY <1>3, <1>4, <2>1, KanbanFreshNext
<1>6. AllKeepFresh'
  <2>1. ASSUME NEW q \in wire PROVE KeepsFresh(q)'
    <3>1. KeepsFresh(q)
      BY DEF AllKeepFresh
    <3> QED
      BY <1>3, <1>4, <3>1 DEF KeepsFresh
  <2>2. ASSUME NEW q, q.kind = "list", q.answer.code = "none" PROVE KeepsFresh(q)'
    BY <2>2 DEF KeepsFresh, Fields
  <2> QED
    BY <2>1, <2>2 DEF AllKeepFresh
<1> QED
  BY <1>5, <1>6

\* the answer of a mutation rewrites the kanban list and unlocks the project
LEMMA SettleSInv ==
  ASSUME TInv, SInv, NEW r \in wire, DeliverMutation(r), ~ Expired(r)
  PROVE  SInv'
<1> USE DEF ghosts
<1>1. PICK rows \in SUBSET RowType, refetch \in SUBSET Stores :
        /\ Settle(r, rows, refetch) /\ AtMostOne(rows)
        /\ \/ \A x \in rows : Clean(x)
           \/ r.kind = "transition" /\ rows = shown["kanban"]
           \/ r.kind = "dates" /\ rows \subseteq r.before
           \/ /\ r.kind = "workers"
              /\ \E v \in {0} \cup {x.workers : x \in r.before} :
                   \A y \in rows : \E x \in shown["kanban"] : y.workers = v /\ y.dates = x.dates
        /\ Settled(r, rows)
  BY DeliverSteps
<1> DEFINE kept == {0} \cup {x.workers : x \in r.before}
           Back == \E v \in kept : \A y \in rows : \E x \in shown["kanban"] :
                     y.workers = v /\ y.dates = x.dates
<1>2. r.kind \in Mutations /\ r.kind # "list"
  BY DeliverSteps DEF Mutations
<1> DEFINE w == wire \ {r}
<1>3. /\ w \in SUBSET wire /\ wire' = Fetch(w, refetch) /\ locked' = FALSE
      /\ UNCHANGED <<owed, listed, overlap, crossed, commits, history>>
      /\ shown'["kanban"] = rows /\ shown'["management"] = shown["management"]
  BY <1>1 DEF Settle, TInv, ShownOK, Stores, server
<1>4. OneList' /\ Ordered'
  BY <1>3, FetchLists DEF SInv
<1>5. ListedOrRead' /\ ShownInv'
  <2>1. \A s \in Stores : Reading(s) => Reading(s)'
    BY <1>2, <1>3, FetchReads
  <2>2. UpToDate("management") => UpToDate("management")'
    BY <1>3 DEF UpToDate
  <2>3. ASSUME UpToDate("kanban"), AllKeepFresh PROVE UpToDate("kanban")' /\ AllKeepFresh'
    <3>1. \A q \in wire' : q \in wire \/ (q.kind = "list" /\ q.answer.code = "none")
      BY <1>3, FetchSteps, NewList
    <3> QED
      BY <1>1, <1>2, <1>3, <2>3, <3>1, SettledFresh
  <2> QED
    BY <1>3, <2>1, <2>2, <2>3 DEF SInv, ListedOrRead, ShownInv, Stores
<1>6. LockHasOwner'
  BY <1>3 DEF LockHasOwner
<1>7. ASSUME ~ overlap' PROVE Drafts'
  <2>1. Drafts
    BY <1>3, <1>7 DEF SInv
  <2>2. \A q \in wire : q.kind # "list" /\ q # r => q \in wire'
    BY <1>3, FetchSteps
  <2>3. ASSUME NEW x \in rows
        PROVE  /\ x.dates = Draft => \E q \in wire : q.kind = "dates" /\ q # r
               /\ x.workers = Draft => \E q \in wire : q.kind = "workers" /\ q # r
    <3>1. CASE Clean(x) \/ (r.kind = "dates" /\ x \in r.before)
      BY <2>1, <3>1 DEF Drafts, Clean
    <3>2. CASE r.kind = "transition" /\ x \in shown["kanban"]
      BY <2>1, <3>2 DEF Drafts
    <3>3. CASE r.kind = "workers" /\ Back
      <4>1. PICK v \in kept : \A y \in rows : \E z \in shown["kanban"] : y.workers = v /\ y.dates = z.dates
        BY <3>3
      <4>2. v # Draft
        BY <2>1, <3>3 DEF Drafts, Draft
      <4> QED
        BY <2>1, <3>3, <4>1, <4>2 DEF Drafts
    <3>4. \/ Clean(x)
          \/ r.kind = "transition" /\ x \in shown["kanban"]
          \/ r.kind = "dates" /\ x \in r.before
          \/ r.kind = "workers" /\ Back
      BY <1>1
    <3> QED
      BY <3>1, <3>2, <3>3, <3>4
  <2>4. \A x \in shown'["kanban"] : /\ x.dates = Draft => \E q \in wire' : q.kind = "dates"
                                    /\ x.workers = Draft => \E q \in wire' : q.kind = "workers"
    BY <1>3, <2>2, <2>3
  <2>5. \A q \in wire' : q \in wire \/ q.kind = "list"
    BY <1>3, FetchSteps, NewList
  <2>6. \A q \in wire' : /\ q.kind = "dates" => \A x \in q.before : Clean(x)
                         /\ q.kind = "workers" => \A x \in q.before : x.workers # Draft
    BY <2>1, <2>5 DEF Drafts
  <2> QED
    BY <2>4, <2>6 DEF Drafts, Clean
<1> QED
  BY <1>4, <1>5, <1>6, <1>7 DEF SInv

LEMMA StepSInv ==
  ASSUME TInv, SInv, [Next]_vars
  PROVE  SInv'
<1>1. CASE \/ UNCHANGED vars \/ OtherCommit \/ EndSession \/ Heartbeat \/ Restart
           \/ Connect \/ Drop \/ StreamEnds \/ Resubscribe \/ QueueWorkers
           \/ \E r \in wire : ServeRead(r) \/ Commit(r) \/ Refuse(r) \/ Lose(r)
  BY <1>1, ServerSteps, ServerSInv
<1>2. CASE \E r \in wire : DeliverList(r)
  BY <1>2, ListSInv, SignOutSInv
<1>3. CASE \E r \in wire : DeliverMutation(r)
  BY <1>3, SettleSInv, SignOutSInv
<1>4. CASE Hear \/ Login \/ MountManagement
  BY <1>4, TabFetchSInv
<1>5. CASE StartTransition \/ StartDates \/ RunWorkers
  BY <1>5, SendSInv
<1>6. CASE Logout
  BY <1>6, SignOutSInv
<1> QED
  BY <1>1, <1>2, <1>3, <1>4, <1>5, <1>6
     DEF Next, ServeList, AnswerList, ServeMutation, AnswerMutation, DeliverMutation

\* A list a store applies was read no earlier than the one before it.
LEMMA StepLists ==
  ASSUME TInv, SInv, [Next]_vars, NEW s \in Stores
  PROVE  listed'[s] >= listed[s]
<1> USE DEF ghosts, bounds, server
<1>1. listed[s] \in Nat
  BY DEF TInv, GhostOK, ServerOK
<1>2. CASE \E r \in wire : DeliverList(r) /\ ~ Expired(r)
  <2>1. PICK r \in wire : DeliverList(r) /\ ~ Expired(r)
    BY <1>2
  <2>2. CASE r.answer.code = "ok" /\ listed' = [listed EXCEPT ![r.store] = r.answer.at]
    <3>1. listed[r.store] <= r.answer.at /\ r.store \in Stores
      BY <2>1, <2>2 DEF SInv, Ordered, DeliverList, TInv, WireOK, RequestOK, RequestType
    <3> QED
      BY <1>1, <2>2, <3>1 DEF TInv, GhostOK
  <2>3. CASE listed' = listed
    BY <1>1, <2>3
  <2> QED
    BY <2>1, <2>2, <2>3 DEF DeliverList
<1>3. CASE (\E r \in wire : Expired(r)) \/ Logout
  <2>1. listed' = listed
    BY <1>3 DEF Expired, Logout, SignOut
  <2> QED
    BY <1>1, <2>1
<1>4. CASE \E r \in wire : DeliverMutation(r) /\ ~ Expired(r)
  <2>1. listed' = listed
    BY <1>4, DeliverSteps DEF Settle
  <2> QED
    BY <1>1, <2>1
<1>5. CASE Hear \/ Login \/ MountManagement \/ StartTransition \/ StartDates \/ RunWorkers
  <2>1. listed' = listed
    BY <1>5 DEF Hear, Login, MountManagement, StartTransition, StartDates, RunWorkers
  <2> QED
    BY <1>1, <2>1
<1>6. CASE \/ UNCHANGED vars \/ OtherCommit \/ EndSession \/ Heartbeat \/ Restart
           \/ Connect \/ Drop \/ StreamEnds \/ Resubscribe \/ QueueWorkers
           \/ \E r \in wire : ServeRead(r) \/ Commit(r) \/ Refuse(r) \/ Lose(r)
  BY <1>1, <1>6, ServerSteps
<1> QED
  BY <1>2, <1>3, <1>4, <1>5, <1>6
     DEF Next, ServeList, AnswerList, ServeMutation, AnswerMutation, DeliverMutation

LEMMA Both == Spec => [](TInv /\ SInv)
<1>1. TInv /\ SInv /\ [Next]_vars => TInv' /\ SInv'
  BY StepTInv, StepSInv
<1> QED
  BY <1>1, InitTInv, InitSInv, PTL DEF Spec

-----------------------------------------------------------------------------
(* What the tab keeps *)

\* No project's controls stay disabled: a mutation that will release them is
\* always under way.
THEOREM Locks == Spec => []LockHasOwner
<1>1. TInv /\ SInv => LockHasOwner
  BY DEF SInv
<1> QED
  BY <1>1, Both, PTL

\* A change the tab has heard of is on the screen and stays there, or a read that
\* will see it is under way; in the kanban list, unless an edit was under way when
\* the list was applied.
THEOREM Heard == Spec => []HeardIsShown
<1>1. TInv /\ SInv => HeardIsShown
  BY DEF SInv, ShownInv, HeardIsShown, Stores
<1> QED
  BY <1>1, Both, PTL

\* Overlapping fetches never take a list back to an earlier read.
THEOREM Lists == Spec => ListsAdvance
<1>1. TInv /\ SInv /\ [Next]_vars => [\A s \in Stores : listed'[s] >= listed[s]]_vars
  BY StepLists
<1> QED
  BY <1>1, Both, PTL DEF Spec, ListsAdvance

\* Once nothing is in flight no list shows a draft, unless a date edit overlapped
\* another mutation.
THEOREM DraftsBack == Spec => []DraftsTakenBack
<1>1. ASSUME TInv, SInv PROVE DraftsTakenBack
  <2> SUFFICES ASSUME wire = {}, ~ overlap, NEW s \in Stores, NEW x \in shown[s]
               PROVE  Clean(x)
    BY DEF DraftsTakenBack, Idle, Clean
  <2>1. CASE s = "kanban"
    <3>1. Drafts /\ x \in shown["kanban"]
      BY <1>1, <2>1 DEF SInv
    <3> QED
      BY <3>1 DEF Drafts, Clean
  <2>2. CASE s = "management"
    <3>1. x \in shown["management"] /\ \A y \in shown["management"] : Clean(y)
      BY <1>1, <2>2 DEF TInv, ShownOK
    <3> QED
      BY <3>1
  <2> QED
    BY <2>1, <2>2 DEF Stores
<1> QED
  BY <1>1, Both, PTL
===========================================================================
