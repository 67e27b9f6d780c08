----------------------------- MODULE ClientSync -----------------------------
(***************************************************************************)
(* One browser tab and the server: the two project lists of the tab, the   *)
(* requests it has in flight, its event stream and its session.            *)
(*                                                                         *)
(* The lists hold one project, as a set of at most one row; the stores map *)
(* over that set as the code maps over its array.  Requests are answered   *)
(* and delivered in any order.  A store's `fetchSeq` makes it drop every   *)
(* list answer, failures included, but that of its last request; so a new  *)
(* request takes the older ones of its store off the wire (Fetch), and the *)
(* numbers are not kept.                                                   *)
(* A row's dates and workers are the number of the commit that wrote them; *)
(* Draft is a value the tab shows and the server has not accepted.         *)
(*                                                                         *)
(* `history`, `owed`, `listed`, `overlap` and `crossed` are ghosts for the *)
(* properties.                                                             *)
(* An operator commented "faulty:" is a plausible bug of the definition    *)
(* that follows it, which no behaviour uses.                               *)
(***************************************************************************)
EXTENDS Integers, FiniteSets

CONSTANTS
  Last,        \* the last workflow state, counted from 0
  Writes,      \* what other sessions do: "dates", "workers", "status", "archive"
  MaxCommits,  \* bound: commits on the project
  MaxEdits,    \* bound: mutations and visits the user starts
  MaxLogins,   \* bound: sessions of the tab
  MaxFaults    \* bound: lost answers, dropped streams, refusals, restarts

ASSUME BoundsAssumption ==
  /\ Writes \subseteq {"dates", "workers", "status", "archive"}
  /\ Last \in Nat \ {0} /\ MaxCommits \in Nat /\ MaxEdits \in Nat
  /\ MaxLogins \in Nat /\ MaxFaults \in Nat

Stores == {"kanban", "management"}  \* projectStore and projectManagementStore
Draft  == -1

VARIABLES
  row, live, commits,  \* the project's row, whether it is not archived, commits so far
  history,  \* ghost: the listing after each commit
  bus,      \* the tab's connection is subscribed to the server's bus
  session,  \* the session the tab's cookie names: "none", "valid" or "ended"
  source,   \* the EventSource: "none", "connecting", "reconnecting" or "open"
  frames,   \* project_changed frames under way to the tab
  auth,     \* authUser is set
  shown,    \* the project's row in each store's list: a set of at most one
  locked,   \* mutationInFlight of the project
  waiting,  \* worker assignments queued behind the one in flight
  wire,     \* the tab's requests, until their answer is delivered
  edits, logins, faults,  \* what the bounds count
  owed,     \* ghost: commits a heard frame obliges a store to show
  listed,   \* ghost: commits the last list applied to a store had seen
  overlap,  \* ghost: a date edit overlapped another mutation of the project
  crossed   \* ghost: a mutation was under way when the kanban list was last applied

server == <<row, live, commits, history>>
ghosts == <<owed, listed, overlap, crossed>>
bounds == <<edits, logins, faults>>
vars == <<server, bus, session, source, frames, auth, shown, locked,
          waiting, wire, bounds, ghosts>>

-----------------------------------------------------------------------------

Fields  == {"dates", "workers"}
Initial == [status |-> 0, dates |-> 0, workers |-> 0]
NoCode  == [code |-> "none", rows |-> {}, at |-> 0]

Request(kind) ==
  [kind |-> kind, id |-> 0, store |-> "kanban", expected |-> 0,
   before |-> {}, stage |-> "sent", answer |-> NoCode]
ListRequest(s) == [Request("list") EXCEPT !.store = s]

Mutations == {"transition", "dates", "workers"}
Mutating  == {r \in wire : r.kind \in Mutations}

\* the list as GET /api/projects answers it
Listing == IF live THEN {row} ELSE {}

\* faulty: no counter, every answer is applied
FetchUncounted(w, S) == w \cup {ListRequest(s) : s \in S}

\* fetchProjects of the stores S: only the last request of a store counts
Fetch(w, S) ==
  {r \in w : r.kind # "list" \/ r.store \notin S} \cup {ListRequest(s) : s \in S}

\* faulty: the answer's row is added to the list
MappedOrAdded(rows, by) == rows \cup by

\* s.projects.map((p) => (p.id === id ? f : p)), f by value or by field
Mapped(rows, by) == IF rows = {} THEN {} ELSE by
WithField(rows, f, v) == {[r EXCEPT ![f] = v] : r \in rows}
Values(rows, f) == {r[f] : r \in rows}

Init ==
  /\ row = Initial /\ live = TRUE /\ commits = 0 /\ history = [c \in {0} |-> {row}]
  /\ bus = FALSE /\ session = "none" /\ source = "none" /\ frames = 0
  /\ auth = FALSE /\ shown = [s \in Stores |-> {}]
  /\ locked = FALSE /\ waiting = 0 /\ wire = {}
  /\ edits = 0 /\ logins = 0 /\ faults = 0
  /\ owed = [s \in Stores |-> 0] /\ listed = [s \in Stores |-> 0]
  /\ overlap = FALSE /\ crossed = FALSE

-----------------------------------------------------------------------------
(* The server *)

Fault == faults < MaxFaults /\ faults' = faults + 1

\* the project one transition forward or backward
Moved == {[row EXCEPT !.status = t] : t \in {row.status + 1, row.status - 1} \cap (0 .. Last)}

\* the history after a commit
Recorded == history' = [c \in 0 .. commits' |-> IF c = commits' THEN Listing' ELSE history[c]]

\* broadcast after a commit: one frame to every subscribed connection.  A
\* process that dies between the two sends none; nothing replays it.
Emitted ==
  \/ frames' = (IF bus THEN frames + 1 ELSE frames) /\ UNCHANGED faults
  \/ bus /\ Fault /\ UNCHANGED frames

\* another session writes a field, moves the status, archives or restores the
\* project.  A frame and an answer take their own time to arrive: commit and
\* broadcast are one step.
OtherCommit ==
  /\ commits < MaxCommits /\ commits' = commits + 1
  /\ \/ live /\ row' \in {[row EXCEPT ![f] = commits'] : f \in Fields \cap Writes}
        /\ UNCHANGED live
     \/ live /\ "status" \in Writes /\ row' \in Moved /\ UNCHANGED live
     \/ "archive" \in Writes /\ live' = ~live /\ UNCHANGED row
  /\ Recorded /\ Emitted
  /\ UNCHANGED <<bus, session, source, auth, shown, locked, waiting, wire,
                 edits, logins, ghosts>>

\* the session expires, is revoked or reaped, or its user is deactivated
EndSession ==
  /\ session = "valid" /\ session' = "ended"
  /\ UNCHANGED <<server, bus, source, frames, auth, shown, locked, waiting,
                 wire, bounds, ghosts>>

\* a tick that finds the session gone unsubscribes and ends the response
Heartbeat ==
  /\ bus /\ session # "valid" /\ bus' = FALSE
  /\ UNCHANGED <<server, session, source, frames, auth, shown, locked, waiting,
                 wire, bounds, ghosts>>

Answered(r, code, rows, at) ==
  [r EXCEPT !.stage = "answered", !.answer = [code |-> code, rows |-> rows, at |-> at]]

\* a read: the snapshot, or 401
ServeRead(r) ==
  /\ r.kind = "list" /\ r.stage = "sent"
  /\ wire' = (wire \ {r}) \cup
       {IF session = "valid" THEN Answered(r, "ok", Listing, commits)
                             ELSE Answered(r, "expired", {}, 0)}
  /\ UNCHANGED <<server, bus, session, source, frames, auth, shown, locked,
                 waiting, bounds, ghosts>>

\* the row a mutation writes, as a set: empty when the status has moved since
Outcome(r) ==
  IF r.kind = "transition" THEN IF row.status = r.expected THEN Moved ELSE {}
                           ELSE {[row EXCEPT ![r.kind] = commits + 1]}

\* a mutation commits, broadcasts and answers
Commit(r) ==
  /\ r.kind \in Mutations /\ r.stage = "sent"
  /\ session = "valid" /\ live /\ commits < MaxCommits
  /\ commits' = commits + 1
  /\ \E new \in Outcome(r) :
       /\ row' = new
       /\ wire' = (wire \ {r}) \cup {Answered(r, "ok", {new}, commits')}
  /\ UNCHANGED live /\ Recorded /\ Emitted
  /\ UNCHANGED <<bus, session, source, auth, shown, locked, waiting,
                 edits, logins, ghosts>>

\* or is answered 401, NOT_FOUND, or refused: CONFLICT, a failed validation,
\* an error of the server
Refuse(r) ==
  /\ r.kind \in Mutations /\ r.stage = "sent"
  /\ wire' = (wire \ {r}) \cup
       {Answered(r, IF session # "valid" THEN "expired"
                    ELSE IF ~live THEN "notFound" ELSE "refused", {}, 0)}
  /\ UNCHANGED <<server, bus, session, source, frames, auth, shown, locked, waiting,
                 bounds, ghosts>>

\* the request or its answer is lost: apiCall turns that into a failure
Lose(r) ==
  /\ Fault /\ r.answer.code # "network"
  /\ wire' = (wire \ {r}) \cup {Answered(r, "network", {}, 0)}
  /\ UNCHANGED <<server, bus, session, source, frames, auth, shown, locked,
                 waiting, edits, logins, ghosts>>

\* the process restarts: the connections go, and the requests it had not answered
Restart ==
  /\ Fault /\ bus' = FALSE
  /\ wire' = {IF r.stage = "answered" THEN r ELSE Answered(r, "network", {}, 0) : r \in wire}
  /\ UNCHANGED <<server, session, source, frames, auth, shown, locked, waiting,
                 edits, logins, ghosts>>

-----------------------------------------------------------------------------
(* The event stream *)

\* EventSource opens: the server authenticates and subscribes the connection,
\* or answers with a status that closes the source for good, which the error
\* listener forgets.  No listener reads the lists again.
Connect ==
  /\ source \in {"connecting", "reconnecting"}
  /\ \/ /\ session = "valid" /\ bus' = TRUE /\ source' = "open"
        /\ UNCHANGED faults
     \/ session # "valid" /\ source' = "none" /\ UNCHANGED <<bus, faults>>
     \/ Fault /\ source' = "none" /\ UNCHANGED bus  \* 502 while the server restarts
  /\ UNCHANGED <<server, session, frames, auth, shown, locked, waiting, wire,
                 edits, logins, ghosts>>

\* the transport fails; the browser reconnects
Drop ==
  /\ source = "open" /\ Fault
  /\ source' = "reconnecting" /\ bus' = FALSE /\ frames' = 0
  /\ UNCHANGED <<server, session, auth, shown, locked, waiting, wire,
                 edits, logins, ghosts>>

\* the server has ended the response and the last frame has been read
StreamEnds ==
  /\ source = "open" /\ ~bus /\ frames = 0
  /\ source' = "reconnecting"
  /\ UNCHANGED <<server, bus, session, frames, auth, shown, locked, waiting,
                 wire, bounds, ghosts>>

\* another consumer subscribes (a storage badge mounts): ensureSource
Resubscribe ==
  /\ auth /\ source = "none" /\ source' = "connecting"
  /\ UNCHANGED <<server, bus, session, frames, auth, shown, locked, waiting,
                 wire, bounds, ghosts>>

\* faulty: the frame refreshes one of the two stores
HearKanbanOnly ==
  /\ source = "open" /\ frames > 0 /\ frames' = frames - 1
  /\ wire' = Fetch(wire, {"kanban"})
  /\ owed' = [s \in Stores |-> commits]
  /\ UNCHANGED <<server, bus, session, source, auth, shown, locked, waiting,
                 bounds, listed, overlap, crossed>>

\* project_changed: both stores read their list again
Hear ==
  /\ source = "open" /\ frames > 0 /\ frames' = frames - 1
  /\ wire' = Fetch(wire, Stores)
  /\ owed' = [s \in Stores |-> commits]
  /\ UNCHANGED <<server, bus, session, source, auth, shown, locked, waiting,
                 bounds, listed, overlap, crossed>>

-----------------------------------------------------------------------------
(* The tab: what the user starts *)

Login ==
  /\ ~auth /\ logins < MaxLogins /\ logins' = logins + 1
  /\ session' = "valid" /\ auth' = TRUE /\ source' = "connecting"
  /\ wire' = Fetch(wire, {"kanban"})
  /\ UNCHANGED <<server, bus, frames, shown, locked, waiting, edits, faults,
                 ghosts>>

Edit == auth /\ edits < MaxEdits /\ edits' = edits + 1

\* the project management view mounts
MountManagement ==
  /\ Edit
  /\ wire' = Fetch(wire, {"management"})
  /\ UNCHANGED <<server, bus, session, source, frames, auth, shown, locked, waiting,
                 logins, faults, ghosts>>

\* a mutation leaves the tab; `locked` disables the transition and worker
\* controls, the date fields stay enabled
Send(r) ==
  /\ wire' = wire \cup {[r EXCEPT !.id = edits']}
  /\ locked' = TRUE
  /\ overlap' = (overlap \/ (Mutating # {} /\ "dates" \in {r.kind} \cup {x.kind : x \in Mutating}))

\* runTransition: sent with the status the list shows
StartTransition ==
  /\ Edit /\ ~locked
  /\ \E seen \in shown["kanban"] :
       Send([Request("transition") EXCEPT !.expected = seen.status])
  /\ UNCHANGED <<server, bus, session, source, frames, auth, shown, waiting,
                 logins, faults, owed, listed, crossed>>

\* updateDates: the row is kept, the new dates are shown at once
StartDates ==
  /\ Edit /\ shown["kanban"] # {}
  /\ shown' = [shown EXCEPT !["kanban"] = WithField(@, "dates", Draft)]
  /\ Send([Request("dates") EXCEPT !.before = shown["kanban"]])
  /\ UNCHANGED <<server, bus, session, source, frames, auth, waiting,
                 logins, faults, owed, listed, crossed>>

\* updateAssignedWorkers: chained onto the project's last assignment
QueueWorkers ==
  /\ Edit /\ shown["kanban"] # {}
  /\ waiting' = waiting + 1
  /\ UNCHANGED <<server, bus, session, source, frames, auth, shown, locked, wire,
                 logins, faults, ghosts>>

\* faulty: an assignment starts while another is in flight
RunWorkersUnqueued ==
  /\ waiting > 0 /\ waiting' = waiting - 1
  /\ shown' = [shown EXCEPT !["kanban"] = WithField(@, "workers", Draft)]
  /\ wire' = wire \cup {[Request("workers") EXCEPT !.before = shown["kanban"]]}
  /\ locked' = TRUE
  /\ UNCHANGED <<server, bus, session, source, frames, auth, bounds, ghosts>>

\* the task at the head of the chain: it keeps the workers shown, then shows
\* the new ones
RunWorkers ==
  /\ waiting > 0 /\ waiting' = waiting - 1
  /\ \A r \in wire : r.kind # "workers"
  /\ shown' = [shown EXCEPT !["kanban"] = WithField(@, "workers", Draft)]
  /\ wire' = wire \cup {[Request("workers") EXCEPT !.before = shown["kanban"]]}
  /\ locked' = TRUE
  /\ overlap' = (overlap \/ \E r \in wire : r.kind = "dates")
  /\ UNCHANGED <<server, bus, session, source, frames, auth, bounds,
                 owed, listed, crossed>>

-----------------------------------------------------------------------------
(* The tab: what an answer does *)

\* faulty: the store reset forgets mutationInFlight
SignOutStillLocked(w) ==
  /\ auth' = FALSE /\ shown' = [s \in Stores |-> {}]
  /\ source' = "none" /\ bus' = FALSE /\ frames' = 0
  /\ owed' = [s \in Stores |-> 0]
  /\ wire' = w
  /\ UNCHANGED <<server, locked, waiting, edits, logins, listed, overlap, crossed>>

\* authStore: authUser is cleared, the lists are emptied, and the effect that
\* depends on authUser drops the stream.  Requests in flight stay in flight.
SignOut(w) ==
  /\ auth' = FALSE /\ shown' = [s \in Stores |-> {}] /\ locked' = FALSE
  /\ source' = "none" /\ bus' = FALSE /\ frames' = 0
  /\ owed' = [s \in Stores |-> 0]
  /\ wire' = w
  /\ UNCHANGED <<server, waiting, edits, logins, listed, overlap, crossed>>

Taken(r) == r \in wire /\ r.stage = "answered"

\* handleSessionExpired, from any answer that says so
Expired(r) == SignOut(wire \ {r}) /\ UNCHANGED <<session, faults>>

\* logout signs out whatever became of its request, which may have been lost;
\* EndSession is its server half when the tab hears of it late
Logout ==
  /\ auth /\ SignOut(wire)
  /\ \/ session' = "ended" /\ UNCHANGED faults
     \/ Fault /\ UNCHANGED session

\* fetchProjects' answer: a failure leaves the list; only the management
\* store acts on a lost session
DeliverList(r) ==
  /\ r.kind = "list" /\ Taken(r)
  /\ \/ /\ r.answer.code = "ok"
        /\ shown' = [shown EXCEPT ![r.store] = r.answer.rows]
        /\ listed' = [listed EXCEPT ![r.store] = r.answer.at]
        /\ crossed' = (IF r.store = "kanban" THEN Mutating # {} ELSE crossed)
        /\ wire' = wire \ {r}
        /\ UNCHANGED <<server, bus, session, source, frames, auth, locked,
                       waiting, bounds, owed, overlap>>
     \/ /\ r.answer.code = "expired" /\ r.store = "management"
        /\ Expired(r)
     \/ /\ \/ r.answer.code = "network"
           \/ r.answer.code = "expired" /\ r.store = "kanban"
        /\ wire' = wire \ {r}
        /\ owed' = [owed EXCEPT ![r.store] = 0]
        /\ UNCHANGED <<server, bus, session, source, frames, auth, shown, locked,
                       waiting, bounds, listed, overlap, crossed>>

\* a mutation's answer ends in a sign-out, or rewrites the list and unlocks it
Settle(r, rows, refetch) ==
  /\ shown' = [shown EXCEPT !["kanban"] = rows]
  /\ locked' = FALSE
  /\ wire' = Fetch(wire \ {r}, refetch)
  /\ UNCHANGED <<server, bus, session, source, frames, auth, waiting, bounds, ghosts>>

\* runTransition's answer
DeliverTransition(r) ==
  /\ r.kind = "transition" /\ Taken(r)
  /\ LET list == shown["kanban"] IN
     CASE r.answer.code = "ok"       -> Settle(r, Mapped(list, r.answer.rows), {"management"})
       [] r.answer.code = "expired"  -> Expired(r)
       [] r.answer.code = "notFound" -> Settle(r, list, {"kanban"})
       [] OTHER                      -> Settle(r, list, {})

\* updateDates' answer: a failure puts the kept row back, whole
DeliverDates(r) ==
  /\ r.kind = "dates" /\ Taken(r)
  /\ LET list == shown["kanban"] IN
     CASE r.answer.code = "ok"       -> Settle(r, Mapped(list, r.answer.rows), {"management"})
       [] r.answer.code = "expired"  -> Expired(r)
       [] r.answer.code = "notFound" -> Settle(r, Mapped(list, r.before), {"kanban"})
       [] OTHER                      -> Settle(r, Mapped(list, r.before), {})

\* updateAssignedWorkers' answer: a failure puts the kept workers back, or
\* none when the project was not listed
DeliverWorkers(r) ==
  /\ r.kind = "workers" /\ Taken(r)
  /\ LET list == shown["kanban"]
         kept == IF r.before = {} THEN {0} ELSE Values(r.before, "workers") IN
     CASE r.answer.code = "ok"      -> Settle(r, Mapped(list, r.answer.rows), {})
       [] r.answer.code = "expired" -> Expired(r)
       [] OTHER -> \E v \in kept : Settle(r, WithField(list, "workers", v), {})

-----------------------------------------------------------------------------

ServeList(s)  == \E r \in wire : r.store = s /\ ServeRead(r)
AnswerList(s) == \E r \in wire : r.store = s /\ DeliverList(r)

ServeMutation(k)  == \E r \in wire : r.kind = k /\ (Commit(r) \/ Refuse(r))
AnswerMutation(k) ==
  \E r \in wire : r.kind = k /\ (DeliverTransition(r) \/ DeliverDates(r) \/ DeliverWorkers(r))

Next ==
  \/ OtherCommit \/ EndSession \/ Heartbeat \/ Restart
  \/ \E s \in Stores : ServeList(s) \/ AnswerList(s)
  \/ \E k \in Mutations : ServeMutation(k) \/ AnswerMutation(k)
  \/ \E r \in wire : Lose(r)
  \/ Connect \/ Drop \/ StreamEnds \/ Resubscribe \/ Hear
  \/ Login \/ Logout \/ MountManagement
  \/ StartTransition \/ StartDates \/ QueueWorkers \/ RunWorkers

Spec == Init /\ [][Next]_vars

-----------------------------------------------------------------------------
(* Properties *)

RowType  == [status : 0 .. Last, dates : Draft .. MaxCommits, workers : Draft .. MaxCommits]
CodeType == {"none", "ok", "expired", "notFound", "refused", "network"}

\* The shape of every variable; the server never stores a draft, and a list
\* holds the project at most once.
TypeOK ==
  /\ row \in RowType /\ Draft \notin {row.dates, row.workers}
  /\ live \in BOOLEAN /\ commits \in 0 .. MaxCommits
  /\ bus \in BOOLEAN /\ session \in {"none", "valid", "ended"}
  /\ source \in {"none", "connecting", "reconnecting", "open"} /\ frames \in 0 .. MaxCommits
  /\ auth \in BOOLEAN /\ locked \in BOOLEAN /\ waiting \in 0 .. MaxEdits
  /\ shown \in [Stores -> SUBSET RowType] /\ \A s \in Stores : Cardinality(shown[s]) <= 1
  /\ \A r \in wire :
       /\ r.kind \in Mutations \cup {"list"} /\ r.store \in Stores
       /\ r.stage \in {"sent", "answered"} /\ r.answer.code \in CodeType
  /\ owed \in [Stores -> 0 .. MaxCommits] /\ listed \in [Stores -> 0 .. MaxCommits]
  /\ overlap \in BOOLEAN /\ crossed \in BOOLEAN
  /\ history \in [0 .. commits -> SUBSET RowType]

\* A list a store applies was read no earlier than the one applied before it,
\* in whatever order the answers of overlapping fetches arrive.
ListsAdvance == [][\A s \in Stores : listed'[s] >= listed[s]]_vars

\* a read of the list that will see what the tab has heard of
Reading(s) ==
  \E r \in wire : /\ r.kind = "list" /\ r.store = s
                  /\ r.answer.code = "ok" => r.answer.at >= owed[s]

\* the store lists the project, or not, as the server did once the change the
\* tab heard of was made; and each value it shows is one of the server's from
\* then on, or a draft
UpToDate(s) ==
  LET since == owed[s] .. commits IN
  /\ \E c \in since : (shown[s] = {}) <=> (history[c] = {})
  /\ \A x \in shown[s], f \in Fields \cup {"status"} :
       x[f] = Draft \/ \E c \in since : \E y \in history[c] : x[f] = y[f]

\* A change whose frame the tab has heard is on the screen, in both lists and in
\* every value of the row, and stays there: no answer and no rollback of an edit
\* begun later covers it.  Until then a read that will see it is under way.  Not
\* so if that read failed, which is not retried, if the tab signed out, or, in
\* the kanban list, if an edit was already under way when the list was applied:
\* a refusal puts back the row that edit began from, whole, and an answer may be
\* older than the list.
HeardIsShown ==
  \A s \in Stores :
    \/ owed[s] = 0 \/ Reading(s) \/ UpToDate(s)
    \/ s = "kanban" /\ crossed

\* Nothing is in flight that could still change the kanban list.
Idle == waiting = 0 /\ wire = {}

\* behavior.md 9.5: what a failed edit showed is taken back.  Once nothing is
\* in flight no list shows a value the server never accepted, whatever queue
\* of worker edits and transitions failed, unless a date edit overlapped
\* another mutation, which kept the other's draft to go back to.
DraftsTakenBack ==
  Idle /\ ~overlap => \A s \in Stores : \A r \in shown[s] : Draft \notin {r.dates, r.workers}

\* No project's controls stay disabled: while they are, a mutation is under way
\* whose answer, failed or not, will release them.
LockHasOwner == locked => Mutating # {}
=============================================================================
