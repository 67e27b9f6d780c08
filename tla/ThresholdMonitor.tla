-------------------------- MODULE ThresholdMonitor --------------------------
(***************************************************************************)
(* The standing-condition monitor of the server and the push it leads to:  *)
(* the periodic sweeper (periodicSweeper.ts) with its overlap guard and    *)
(* backoff, the two checks of a sweep (threshold-monitor.ts) over the      *)
(* backup status row and the stored bytes, the badge they derive           *)
(* (backupBadge.ts), the slots that keep a condition from being announced  *)
(* over and over, and the dispatch of an announcement to the subscriptions *)
(* of its recipients (notification-publisher.ts, PushDispatcher.ts).       *)
(*                                                                         *)
(* The backup runner is another process; here it only writes the status    *)
(* row.  Time is relative: slots count ticks of the sweeper and the row    *)
(* counts days, and both stop where the code stops telling ages apart.  A  *)
(* sweep takes `now` when it starts, so the slots stand still while one is *)
(* in flight and are moved on by its length when it ends.                  *)
(*                                                                         *)
(* An operator commented "faulty:" is a plausible bug of the definition    *)
(* that follows it, which no behaviour uses.                               *)
(***************************************************************************)
EXTENDS Integers, FiniteSets, FiniteSetsExt

CONSTANTS
  Users,         \* users that the rules of the two system events reach
  Endpoints,     \* push endpoints of their browsers
  DeadAtStart,   \* those that died while nothing was pushed to them
  None,          \* no slot, no timestamp
  BackupAmber, BackupRed, DrillAmber, DrillRed,    \* BACKUP_THRESHOLDS, in days
  Repeat,        \* repeatMinutes, in sweeper ticks
  Ceiling,       \* SUSTAINED_FAILURE_CEILING
  MaxBackoff,    \* MAX_BACKOFF_TICKS
  MaxLength,     \* bound: ticks that a sweep in flight outlasts
  MaxChanges,    \* bound: days, recordings, uploads, reaps, edits of rules and users
  MaxFaults      \* bound: outages, schema faults, restarts, transport errors

ASSUME ThresholdAssumption ==
  /\ DeadAtStart \subseteq Endpoints
  /\ {BackupAmber, BackupRed, DrillAmber, DrillRed} \subseteq Nat
  /\ BackupAmber <= BackupRed /\ DrillAmber <= DrillRed
  /\ {Repeat, Ceiling, MaxBackoff} \subseteq Nat \ {0}
  /\ {MaxLength, MaxChanges, MaxFaults} \subseteq Nat

VARIABLES
  status,    \* the meta_backup_status row
  level,     \* stored ciphertext, against the two lines of the storage check
  db,        \* "up", "down", or "skewed": the status table is unreadable
  rules,     \* the event classes with an enabled rule
  muted,     \* the users with pushMuted
  subs,      \* the push_subscriptions rows, as <<user, endpoint>>
  dead,      \* the endpoints their push service has given up
  slots,     \* per check: what was announced last and how long ago
  sweeper,   \* consecutiveFailures and ticksToSkip
  sweep,     \* the sweep in flight: its length so far and where each check is
  told,      \* ghost, per check: the last push, and whether another is excused
  changes, faults    \* how much of the two bounds is used up

world  == <<status, level, db, rules, muted, subs, dead>>
memory == <<slots, sweeper, sweep>>
vars   == <<world, memory, told, changes, faults>>

Checks == {"backup", "storage"}

\* below the clear line, between the lines, at or over the warn line
Levels == <<"clear", "band", "over">>

\* beyond these ages, counts and delays nothing changes any more
BackupCap  == BackupRed + 1
DrillCap   == DrillRed + 1
FailureCap == Ceiling + MaxBackoff - 1

Smaller(a, b) == Min({a, b})

TypeOK ==
  /\ status \in [at : 0..BackupCap \cup {None}, ok : BOOLEAN,
                 drillAt : 0..DrillCap \cup {None}, drillOk : {"ok", "failed", "null"}]
  /\ level \in 1..3 /\ db \in {"up", "down", "skewed"} /\ rules \subseteq Checks
  /\ muted \subseteq Users /\ subs \subseteq Users \X Endpoints /\ dead \subseteq Endpoints
  /\ \A c \in Checks : slots[c].age \in 0..Repeat
  /\ sweeper.failures \in 0..FailureCap /\ sweeper.skip \in 0..MaxBackoff
  /\ sweeper.skip > 0 => sweeper.failures >= Ceiling
  /\ sweep.length \in 0..MaxLength
  /\ sweep.step \in [Checks -> {"idle", "read", "push", "prune", "done", "failed"}]
  /\ \A c \in Checks : sweep.gone[c] \subseteq Users \X Endpoints
  /\ changes \in 0..MaxChanges /\ faults \in 0..MaxFaults
-----------------------------------------------------------------------------
Older(age, days) == age # None /\ age > days

\* deriveBadgeState, for a row that could be read.  A drill that failed counts
\* like one that succeeded: only its date is looked at.
Badge ==
  IF ~ status.ok
  THEN IF status.at = None THEN "backup-never-run" ELSE "last-run-failed"
  ELSE IF status.drillOk = "null" THEN "drill-never-run"
  ELSE IF Older(status.at, BackupRed) THEN "backup-stale"
  ELSE IF status.drillAt = None \/ Older(status.drillAt, DrillRed) THEN "drill-expired"
  ELSE IF Older(status.drillAt, DrillAmber) THEN "drill-stale"
  ELSE IF Older(status.at, BackupAmber) THEN "backup-aging"
  ELSE "green"

\* The condition of a check as it stands, whoever looks: an overage stands
\* until usage falls below the clear line.
Condition(c) ==
  IF c = "backup" THEN Badge
  ELSE IF Levels[level] = "clear" THEN "green" ELSE "over"

\* The ghost of a check: another push is excused once the announced condition
\* has ceased or changed.
Watch ==
  told' = [c \in Checks |->
             [told[c] EXCEPT !.excused = @ \/ Condition(c)' # told[c].key]]

NoSlot == [key |-> None, age |-> 0]
Closed == [length |-> 0, step |-> [c \in Checks |-> "idle"],
           key |-> [c \in Checks |-> None], gone |-> [c \in Checks |-> {}]]
Open == \E c \in Checks : sweep.step[c] # "idle"

\* the row as the baseline migration seeds it, and after a good backup and drill
SeededRow  == [at |-> None, ok |-> FALSE, drillAt |-> None, drillOk |-> "null"]
HealthyRow == [at |-> 0, ok |-> TRUE, drillAt |-> 0, drillOk |-> "ok"]

\* the first start of a deployment, and a start over a store that is full
Init ==
  /\ \/ status = SeededRow /\ level = 1
     \/ status = HealthyRow /\ level = 3
  /\ db = "up"
  /\ rules = Checks /\ muted = {}
  /\ subs = Users \X Endpoints /\ dead = DeadAtStart
  /\ slots = [c \in Checks |-> NoSlot]
  /\ sweeper = [failures |-> 0, skip |-> 0] /\ sweep = Closed
  /\ told = [c \in Checks |-> [key |-> None, age |-> 0, excused |-> TRUE]]
  /\ changes = 0 /\ faults = 0
-----------------------------------------------------------------------------
\* The world around the monitor
Change == changes < MaxChanges /\ changes' = changes + 1 /\ UNCHANGED faults
Fault  == faults < MaxFaults /\ faults' = faults + 1 /\ UNCHANGED changes
Same   == UNCHANGED <<changes, faults>>

Aged(age, cap) == IF age = None THEN None ELSE Smaller(age + 1, cap)

\* a day passes over the two timestamps of the row
Day ==
  /\ Change
  /\ status' = [status EXCEPT !.at = Aged(@, BackupCap), !.drillAt = Aged(@, DrillCap)]
  /\ UNCHANGED <<level, db, rules, muted, subs, dead, memory>>
  /\ Watch

\* recordBackupStatus: each cycle writes its own fields and no other (AC-370)
RecordBackup ==
  /\ Change /\ db # "down"
  /\ \E ok \in BOOLEAN : status' = [status EXCEPT !.at = 0, !.ok = ok]
  /\ UNCHANGED <<level, db, rules, muted, subs, dead, memory>> /\ Watch

RecordDrill ==
  /\ Change /\ db # "down"
  /\ \E ok \in {"ok", "failed"} : status' = [status EXCEPT !.drillAt = 0, !.drillOk = ok]
  /\ UNCHANGED <<level, db, rules, muted, subs, dead, memory>> /\ Watch

\* uploads and reaps move the stored total
Usage ==
  /\ Change /\ db # "down"
  /\ level' \in {level - 1, level + 1} \cap DOMAIN Levels
  /\ UNCHANGED <<status, db, rules, muted, subs, dead, memory>> /\ Watch

\* the owner enables or disables the rules of a class
ToggleRule ==
  /\ Change /\ db # "down"
  /\ \E c \in Checks : rules' = SymDiff(rules, {c})
  /\ UNCHANGED <<status, level, db, muted, subs, dead, memory, told>>

ToggleMute ==
  /\ Change /\ db # "down"
  /\ \E u \in Users : muted' = SymDiff(muted, {u})
  /\ UNCHANGED <<status, level, db, rules, subs, dead, memory, told>>

\* PushSubscriptionService: an upsert on (user, endpoint), or its removal
ToggleSubscription ==
  /\ Change /\ db # "down"
  /\ \E r \in Users \X (Endpoints \ dead) : subs' = SymDiff(subs, {r})
  /\ UNCHANGED <<status, level, db, rules, muted, dead, memory, told>>

\* a push service answers 404 or 410 for the endpoint from now on
EndpointDies ==
  /\ Change
  /\ \E e \in Endpoints \ dead : dead' = dead \cup {e}
  /\ UNCHANGED <<status, level, db, rules, muted, subs, memory, told>>

Outage ==
  /\ Fault /\ db = "up" /\ db' \in {"down", "skewed"}
  /\ UNCHANGED <<status, level, rules, muted, subs, dead, memory, told>>

Repaired ==
  /\ db # "up" /\ db' = "up" /\ Same
  /\ UNCHANGED <<status, level, rules, muted, subs, dead, memory, told>>
-----------------------------------------------------------------------------
\* The sweeper
Later(record, ticks) ==
  [record EXCEPT !.age = IF record.key = None THEN 0 ELSE Smaller(@ + ticks, Repeat)]

\* n ticks go by for the slots and for the ghost
Pass(n, excuse) ==
  /\ slots' = [c \in Checks |-> Later(slots[c], n)]
  /\ told' = [c \in Checks |-> [Later(told[c], n) EXCEPT !.excused = @ \/ excuse]]

\* the interval fires: not while a sweep is in flight, and not while backing off
Tick ==
  /\ \/ /\ Open /\ sweep.length < MaxLength
        /\ sweep' = [sweep EXCEPT !.length = @ + 1]
        /\ UNCHANGED <<sweeper, slots, told>>
     \/ /\ ~ Open /\ sweeper.skip > 0
        /\ sweeper' = [sweeper EXCEPT !.skip = @ - 1]
        /\ Pass(1, FALSE) /\ UNCHANGED sweep
     \/ /\ ~ Open /\ sweeper.skip = 0
        /\ sweep' = [Closed EXCEPT !.step = [c \in Checks |-> "read"]]
        /\ Pass(1, FALSE) /\ UNCHANGED sweeper
  /\ Same /\ UNCHANGED world

\* faulty: the delay has no ceiling
BackoffUncapped(failures) ==
  IF failures < Ceiling THEN 0 ELSE 2 ^ (failures - Ceiling + 1)

\* periodicSweeper: 2^(n - ceiling + 1) ticks are skipped, up to the cap
Backoff(failures) ==
  IF failures < Ceiling THEN 0 ELSE Smaller(2 ^ (failures - Ceiling + 1), MaxBackoff)

\* runSweep, once both checks have settled
EndSweep ==
  /\ Open /\ \A c \in Checks : sweep.step[c] \in {"done", "failed"}
  /\ sweeper' =
       IF \E c \in Checks : sweep.step[c] = "failed"
       THEN LET n == Smaller(sweeper.failures + 1, FailureCap)
            IN [failures |-> n, skip |-> Backoff(n)]
       ELSE [failures |-> 0, skip |-> 0]
  /\ Pass(sweep.length, FALSE)
  /\ sweep' = Closed
  /\ Same /\ UNCHANGED world

\* the slots, the backoff and the sweep live in the process
Restart ==
  /\ Fault
  /\ slots' = [c \in Checks |-> NoSlot]
  /\ sweeper' = [failures |-> 0, skip |-> 0] /\ sweep' = Closed
  /\ told' = [c \in Checks |-> [Later(told[c], sweep.length) EXCEPT !.excused = TRUE]]
  /\ UNCHANGED world
-----------------------------------------------------------------------------
\* The two checks of a sweep
At(c, step) == sweep.step[c] = step
Goes(c, step) == [sweep EXCEPT !.step[c] = step]

Fails(c) == sweep' = Goes(c, "failed") /\ UNCHANGED slots

\* faulty: only the entry into a condition is announced
ShouldNotifyOnEntry(c, key) == slots[c].key # key

\* another condition than the one announced, or the window has run out
ShouldNotify(c, key) == slots[c].key # key \/ slots[c].age >= Repeat

\* one announcement is begun, or none is due
Announces(c, key) ==
  /\ sweep' = IF ShouldNotify(c, key)
              THEN [Goes(c, "push") EXCEPT !.key[c] = key]
              ELSE Goes(c, "done")
  /\ UNCHANGED slots

Forgets(c) ==
  /\ slots' = [slots EXCEPT ![c] = NoSlot]
  /\ sweep' = Goes(c, "done")

\* faulty: the storage check runs after the backup check, and not if that fails
ReadStatusFirst ==
  /\ At("backup", "read")
  /\ \/ db = "down" /\ sweep' = Goes("backup", "done") /\ UNCHANGED slots
     \/ db = "skewed" /\ sweep' = [sweep EXCEPT !.step = [c \in Checks |-> "failed"]]
        /\ UNCHANGED slots
     \/ db = "up" /\ Badge = "green" /\ Forgets("backup")
     \/ db = "up" /\ Badge # "green" /\ Announces("backup", Badge)
  /\ Same /\ UNCHANGED <<world, sweeper, told>>

\* evaluateBackup up to its publish: an unreachable database skips the check
\* and any other error fails it.  BackupStatusService looks for the error code
\* on the outermost error, where the query builder's wrapper does not carry it:
\* whether an outage skips or fails is left open.
ReadStatus ==
  /\ At("backup", "read")
  /\ \/ db = "down" /\ sweep' = Goes("backup", "done") /\ UNCHANGED slots
     \/ db # "up" /\ Fails("backup")
     \/ db = "up" /\ Badge = "green" /\ Forgets("backup")
     \/ db = "up" /\ Badge # "green" /\ Announces("backup", Badge)
  /\ Same /\ UNCHANGED <<world, sweeper, told>>

\* faulty: no clear line below the warn line
ReadUsageNoMargin ==
  /\ At("storage", "read")
  /\ \/ db = "down" /\ Fails("storage")
     \/ db # "down" /\ Levels[level] # "over" /\ Forgets("storage")
     \/ db # "down" /\ Levels[level] = "over" /\ Announces("storage", "over")
  /\ Same /\ UNCHANGED <<world, sweeper, told>>

\* evaluateStorage up to its publish: in the band it neither announces nor
\* forgets
ReadUsage ==
  /\ At("storage", "read")
  /\ \/ db = "down" /\ Fails("storage")
     \/ db # "down" /\ Levels[level] = "clear" /\ Forgets("storage")
     \/ db # "down" /\ Levels[level] = "band" /\ sweep' = Goes("storage", "done")
        /\ UNCHANGED slots
     \/ db # "down" /\ Levels[level] = "over" /\ Announces("storage", "over")
  /\ Same /\ UNCHANGED <<world, sweeper, told>>
-----------------------------------------------------------------------------
\* publishSystemEvent, awaited by the check

\* markNotified, when the dispatch has come to its end
Marks(c) ==
  /\ slots' = [slots EXCEPT ![c] = [key |-> sweep.key[c], age |-> 0]]
  /\ sweep' = [Goes(c, "done") EXCEPT !.key[c] = None, !.gone[c] = {}]

\* the rows of the recipients of the enabled rules, as all of them are now
Targets(c) == {r \in subs : c \in rules /\ r[1] \notin muted}
Gone(targets) == {r \in targets : r[2] \in dead}

\* handleEvent and dispatchToSubscriptions up to the pruning, as one step: the
\* rules, recipients, mutes and rows are read (AC-193, AC-195), and the sends
\* made; a transport error is swallowed, a gone endpoint is remembered
Push(c) ==
  /\ At(c, "push")
  /\ \/ db = "down" /\ Fails(c) /\ Same /\ UNCHANGED told
     \/ /\ db # "down"
        /\ \E lost \in SUBSET (Targets(c) \ Gone(Targets(c))) :
             LET got == Targets(c) \ (Gone(Targets(c)) \cup lost) IN
             /\ IF lost = {} THEN Same ELSE Fault
             /\ told' = IF got = {} THEN told
                        ELSE [told EXCEPT ![c] =
                               [key |-> sweep.key[c], age |-> 0,
                                excused |-> Condition(c) # sweep.key[c]]]
        /\ IF Gone(Targets(c)) = {} THEN Marks(c)
           ELSE sweep' = [Goes(c, "prune") EXCEPT !.gone[c] = Gone(Targets(c))]
                /\ UNCHANGED slots
  /\ UNCHANGED <<world, sweeper>>

\* the transaction that prunes the gone rows; if it fails, so does the check,
\* and the announcement just made is not remembered
Prune(c) ==
  /\ At(c, "prune")
  /\ IF db = "down"
     THEN Fails(c) /\ told' = [told EXCEPT ![c].excused = TRUE] /\ UNCHANGED subs
     ELSE Marks(c) /\ subs' = subs \ sweep.gone[c] /\ UNCHANGED told
  /\ Same /\ UNCHANGED <<status, level, db, rules, muted, dead, sweeper>>

Dispatch(c) == Push(c) \/ Prune(c)
CheckStep == ReadStatus \/ ReadUsage \/ \E c \in Checks : Dispatch(c)

World ==
  \/ Day \/ RecordBackup \/ RecordDrill \/ Usage \/ ToggleRule \/ ToggleMute
  \/ ToggleSubscription \/ EndpointDies \/ Outage \/ Repaired

Next == World \/ Tick \/ EndSweep \/ Restart \/ CheckStep

Spec == Init /\ [][Next]_vars

\* the interval keeps firing, and every read, write and send of a sweep settles
FairSpec ==
  /\ Spec /\ WF_vars(Tick) /\ WF_vars(EndSweep)
  /\ WF_vars(ReadStatus) /\ WF_vars(ReadUsage)
  /\ \A c \in Checks : WF_vars(Dispatch(c))
-----------------------------------------------------------------------------
\* AC-357: a condition that stands is pushed at most once per repeat window,
\* measured from sweep to sweep.  Only what a user would call news shortens
\* the window: the condition ceased or became another in between, however
\* briefly; and each restart and each dispatch that failed after its sends is
\* good for a single repetition (the claim of threshold-monitor.ts).
OncePerWindow ==
  [][\A c \in Checks :
       At(c, "push") /\ sweep'.step[c] \in {"prune", "done"} /\ told[c].key = sweep.key[c]
         => told[c].excused \/ told[c].age >= Repeat]_vars

\* someone who is neither muted nor without a live endpoint is a recipient
Reachable(c) ==
  c \in rules /\ \E r \in subs : r[1] \notin muted /\ r[2] \notin dead

Repeated(c) ==
  []<>(told[c].key = Condition(c) /\ told[c].age = 0 /\ ~ told[c].excused)

\* AC-355: whatever failures, outages and restarts came before, a backup
\* condition that stands while the database can be read and someone can be
\* reached is announced, again and again.
BackupTold ==
  <>[](Condition("backup") # "green" /\ db = "up" /\ Reachable("backup"))
    => Repeated("backup")

\* AC-359: so is a full store, even when the backup check fails in every sweep
\* and the sweeper keeps backing off.
StorageTold ==
  <>[](Levels[level] = "over" /\ db # "down" /\ Reachable("storage"))
    => Repeated("storage")
=============================================================================
