---------------------------- MODULE ThresholdProofs ----------------------------
(***************************************************************************)
(* A theorem about ThresholdMonitor, for any users, endpoints, thresholds, *)
(* repeat window and bounds.                                               *)
(***************************************************************************)
EXTENDS ThresholdMonitor, TLAPS

-----------------------------------------------------------------------------
(* Types *)

Named == {None, "over", "backup-never-run", "last-run-failed", "drill-never-run", "backup-stale",
          "drill-expired", "drill-stale", "backup-aging", "green"}
Steps == {"idle", "read", "push", "prune", "done", "failed"}

SlotRecord  == [key : Named, age : 0 .. Repeat]
GhostRecord == [key : Named, age : 0 .. Repeat, excused : BOOLEAN]
SweepRecord == [length : Nat, step : [Checks -> Steps], key : [Checks -> Named],
                gone : [Checks -> SUBSET (Users \X Endpoints)]]

TInv == /\ slots \in [Checks -> SlotRecord] /\ told \in [Checks -> GhostRecord]
        /\ sweep \in SweepRecord /\ subs \in SUBSET (Users \X Endpoints)

\* What keeps a check from announcing twice: as long as the announcement is not
\* news, the slot remembers it, and remembers it as young as the ghost does,
\* unless its dispatch is still to prune and to mark; and a push under way was
\* decided on when the window had run out.
Quiet(c) ==
  /\ ~ told[c].excused =>
       /\ told[c].key = Condition(c) /\ told[c].key # "green"
       /\ \/ slots[c].key = told[c].key /\ slots[c].age <= told[c].age
          \/ At(c, "prune")
  /\ At(c, "push") => told[c].excused \/ (sweep.key[c] = told[c].key /\ told[c].age >= Repeat)
  /\ At(c, "prune") => told[c].excused \/ sweep.key[c] = told[c].key
  /\ sweep.step[c] \in {"push", "prune"} => sweep.key[c] # "green"

KInv == TInv /\ \A c \in Checks : Quiet(c)

USE ThresholdAssumption

LEMMA SmallerIs ==
  ASSUME NEW a \in Int, NEW b \in Int
  PROVE  Smaller(a, b) = IF a <= b THEN a ELSE b
<1>1. CASE a <= b
  <2>1. \E x \in {a, b} : \A y \in {a, b} : x <= y
    BY <1>1
  <2> QED
    BY <1>1, <2>1 DEF Smaller, Min
<1>2. CASE ~ a <= b
  <2>1. \E x \in {a, b} : \A y \in {a, b} : x <= y
    BY <1>2
  <2> QED
    BY <1>2, <2>1 DEF Smaller, Min
<1> QED
  BY <1>1, <1>2

\* the fields of a check
LEMMA Fields ==
  ASSUME TInv, NEW c \in Checks
  PROVE  /\ slots[c] \in SlotRecord /\ slots[c].key \in Named /\ slots[c].age \in 0 .. Repeat
         /\ told[c] \in GhostRecord /\ told[c].key \in Named /\ told[c].age \in 0 .. Repeat
         /\ told[c].excused \in BOOLEAN
         /\ sweep.step[c] \in Steps /\ sweep.key[c] \in Named
         /\ sweep.gone[c] \in SUBSET (Users \X Endpoints)
  BY DEF TInv, SlotRecord, GhostRecord, SweepRecord

-----------------------------------------------------------------------------
(* What the steps do to a slot, to the ghost and to the sweep *)

LEMMA BadgeNamed == Badge \in Named
  BY Zenon DEF Badge, Named

\* ages go on, keys stay
LEMMA LaterSlot ==
  ASSUME NEW r \in SlotRecord, NEW n \in Nat
  PROVE  /\ Later(r, n) \in SlotRecord /\ Later(r, n).key = r.key
         /\ Later(r, n).age = IF r.key = None THEN 0
                              ELSE IF r.age + n <= Repeat THEN r.age + n ELSE Repeat
<1>1. r.age \in 0 .. Repeat /\ r.age \in Int /\ r.age + n \in Int /\ Repeat \in Int /\ r.key \in Named
  BY DEF SlotRecord
<1>2. PICK x : x = IF r.key = None THEN 0 ELSE Smaller(r.age + n, Repeat)
  OBVIOUS
<1>3. Later(r, n) = [r EXCEPT !.age = x]
  BY <1>2 DEF Later
<1>4. x = IF r.key = None THEN 0 ELSE IF r.age + n <= Repeat THEN r.age + n ELSE Repeat
  BY <1>1, <1>2, SmallerIs
<1>5. x \in 0 .. Repeat
  BY <1>1, <1>4
<1> QED
  BY <1>3, <1>4, <1>5 DEF SlotRecord

LEMMA LaterGhost ==
  ASSUME NEW r \in GhostRecord, NEW n \in Nat
  PROVE  /\ Later(r, n) \in GhostRecord /\ Later(r, n).key = r.key
         /\ Later(r, n).excused = r.excused
         /\ Later(r, n).age = IF r.key = None THEN 0
                              ELSE IF r.age + n <= Repeat THEN r.age + n ELSE Repeat
<1>1. r.age \in 0 .. Repeat /\ r.age \in Int /\ r.age + n \in Int /\ Repeat \in Int /\ r.key \in Named
  BY DEF GhostRecord
<1>2. PICK x : x = IF r.key = None THEN 0 ELSE Smaller(r.age + n, Repeat)
  OBVIOUS
<1>3. Later(r, n) = [r EXCEPT !.age = x]
  BY <1>2 DEF Later
<1>4. x = IF r.key = None THEN 0 ELSE IF r.age + n <= Repeat THEN r.age + n ELSE Repeat
  BY <1>1, <1>2, SmallerIs
<1>5. x \in 0 .. Repeat
  BY <1>1, <1>4
<1> QED
  BY <1>3, <1>4, <1>5 DEF GhostRecord

\* the ghost is told more excuses
LEMMA Excuse ==
  ASSUME NEW r \in GhostRecord, NEW more, NEW t, t = [r EXCEPT !.excused = @ \/ more]
  PROVE  /\ t \in GhostRecord /\ t.key = r.key /\ t.age = r.age
         /\ ~ t.excused => ~ r.excused /\ ~ more
<1>1. PICK e \in BOOLEAN : e <=> (r.excused \/ more)
  OBVIOUS
<1>2. t = [r EXCEPT !.excused = r.excused \/ more]
  OBVIOUS
<1>3. (r.excused \/ more) = e
  BY <1>1
<1>4. t = [r EXCEPT !.excused = e]
  BY <1>2, <1>3, Zenon
<1>5. t \in GhostRecord /\ t.key = r.key /\ t.age = r.age /\ t.excused = e
  BY <1>4 DEF GhostRecord
<1> QED
  BY <1>1, <1>5

LEMMA WatchFacts ==
  ASSUME TInv, Watch
  PROVE  /\ told' \in [Checks -> GhostRecord]
         /\ \A c \in Checks : /\ told'[c].key = told[c].key /\ told'[c].age = told[c].age
                              /\ ~ told'[c].excused => /\ ~ told[c].excused
                                                       /\ told[c].key = Condition(c)'
<1>1. ASSUME NEW c \in Checks
      PROVE  /\ told'[c] \in GhostRecord /\ told'[c].key = told[c].key /\ told'[c].age = told[c].age
             /\ ~ told'[c].excused => /\ ~ told[c].excused
                                      /\ told[c].key = Condition(c)'
  <2>1. told'[c] = [told[c] EXCEPT !.excused = @ \/ Condition(c)' # told[c].key]
    BY DEF Watch
  <2>2. PICK more \in BOOLEAN : more <=> (Condition(c)' # told[c].key)
    OBVIOUS
  <2>3. told[c] \in GhostRecord
    BY Fields
  <2>4. told'[c] = [told[c] EXCEPT !.excused = @ \/ more]
    BY <2>1, <2>2, Zenon
  <2> QED
    BY <2>2, <2>3, <2>4, Excuse
<1>2. told' = [c \in Checks |-> told'[c]]
  BY DEF Watch
<1> QED
  BY <1>1, <1>2

LEMMA SameCondition ==
  ASSUME NEW c, UNCHANGED <<status, level>>
  PROVE  Condition(c)' = Condition(c)
  BY DEF Condition, Badge, Older

LEMMA PassFacts ==
  ASSUME TInv, NEW n \in Nat, NEW excuse \in BOOLEAN, Pass(n, excuse)
  PROVE  /\ slots' \in [Checks -> SlotRecord] /\ told' \in [Checks -> GhostRecord]
         /\ \A c \in Checks :
              /\ slots'[c].key = slots[c].key /\ told'[c].key = told[c].key
              /\ ~ told'[c].excused => ~ told[c].excused /\ ~ excuse
              /\ slots[c].key = told[c].key /\ slots[c].age <= told[c].age
                   => slots'[c].age <= told'[c].age
<1>1. ASSUME NEW c \in Checks
      PROVE  /\ slots'[c] \in SlotRecord /\ told'[c] \in GhostRecord
             /\ slots'[c].key = slots[c].key /\ told'[c].key = told[c].key
             /\ ~ told'[c].excused => ~ told[c].excused /\ ~ excuse
             /\ slots[c].key = told[c].key /\ slots[c].age <= told[c].age
                  => slots'[c].age <= told'[c].age
  <2>1. slots[c] \in SlotRecord /\ told[c] \in GhostRecord
        /\ slots[c].age \in 0 .. Repeat /\ told[c].age \in 0 .. Repeat
    BY Fields
  <2> PICK r \in SlotRecord : r = slots[c]
    BY <2>1
  <2>2. slots'[c] = Later(r, n)
    BY DEF Pass
  <2>3. /\ Later(r, n) \in SlotRecord /\ Later(r, n).key = r.key
        /\ Later(r, n).age = IF r.key = None THEN 0
                             ELSE IF r.age + n <= Repeat THEN r.age + n ELSE Repeat
    BY LaterSlot
  <2>4. PICK g : g = Later(told[c], n)
    OBVIOUS
  <2>5. told'[c] = [g EXCEPT !.excused = @ \/ excuse]
    BY <2>4 DEF Pass
  <2>6. /\ slots'[c] \in SlotRecord /\ slots'[c].key = slots[c].key
        /\ slots'[c].age = IF slots[c].key = None THEN 0
                           ELSE IF slots[c].age + n <= Repeat THEN slots[c].age + n ELSE Repeat
    BY <2>2, <2>3
  <2>7. /\ g \in GhostRecord /\ g.key = told[c].key /\ g.excused = told[c].excused
        /\ g.age = IF told[c].key = None THEN 0
                   ELSE IF told[c].age + n <= Repeat THEN told[c].age + n ELSE Repeat
    BY <2>1, <2>4, LaterGhost
  <2>8. /\ told'[c] \in GhostRecord /\ told'[c].key = g.key /\ told'[c].age = g.age
        /\ ~ told'[c].excused => ~ g.excused /\ ~ excuse
    BY ZenonT(40), <2>5, <2>7, Excuse
  <2>9. slots[c].key = told[c].key /\ slots[c].age <= told[c].age => slots'[c].age <= told'[c].age
    <3>1. slots[c].age \in Int /\ told[c].age \in Int /\ Repeat \in Int
      BY <2>1
    <3> QED
      BY <2>6, <2>7, <2>8, <3>1
  <2> QED
    BY <2>6, <2>7, <2>8, <2>9
<1>2. slots' = [c \in Checks |-> slots'[c]] /\ told' = [c \in Checks |-> told'[c]]
  BY DEF Pass
<1> QED
  BY <1>1, <1>2

LEMMA ClosedSweep ==
  /\ Closed \in SweepRecord /\ \A c \in Checks : Closed.step[c] = "idle"
  BY DEF Closed, SweepRecord, Named, Steps

\* one check goes on
LEMMA GoesFacts ==
  ASSUME TInv, NEW c \in Checks, NEW step \in Steps
  PROVE  /\ Goes(c, step) \in SweepRecord /\ Goes(c, step).key = sweep.key
         /\ Goes(c, step).step[c] = step
         /\ \A d \in Checks \ {c} : Goes(c, step).step[d] = sweep.step[d]
  BY DEF TInv, Goes, SweepRecord

LEMMA SlotFields ==
  ASSUME NEW key \in Named
  PROVE  /\ [key |-> key, age |-> 0] \in SlotRecord
         /\ [key |-> key, age |-> 0].key = key /\ [key |-> key, age |-> 0].age = 0
  BY DEF SlotRecord

\* a check that a step leaves alone
LEMMA QuietKept ==
  ASSUME NEW c, Quiet(c), sweep'.step[c] = sweep.step[c], sweep'.key[c] = sweep.key[c],
         slots'[c] = slots[c], told'[c].key = told[c].key, told'[c].age = told[c].age,
         ~ told'[c].excused => ~ told[c].excused /\ told[c].key = Condition(c)'
  PROVE  Quiet(c)'
  BY DEF Quiet, At

\* the world
LEMMA WorldKeeps ==
  ASSUME KInv, World
  PROVE  KInv'
<1>1. UNCHANGED <<slots, sweep>>
  BY DEF World, Day, RecordBackup, RecordDrill, Usage, ToggleRule, ToggleMute, ToggleSubscription,
         EndpointDies, Outage, Repaired, memory
<1>2. subs' \in SUBSET (Users \X Endpoints)
  BY DEF World, Day, RecordBackup, RecordDrill, Usage, ToggleRule, ToggleMute, ToggleSubscription,
         EndpointDies, Outage, Repaired, KInv, TInv, SymDiff
<1>3. CASE Watch
  <2>1. told' \in [Checks -> GhostRecord]
    BY <1>3, WatchFacts DEF KInv
  <2>2. \A c \in Checks : Quiet(c)'
    BY <1>1, <1>3, WatchFacts, QuietKept DEF KInv
  <2> QED
    BY <1>1, <1>2, <2>1, <2>2 DEF KInv, TInv
<1>4. CASE UNCHANGED <<status, level, told>>
  <2>1. \A c \in Checks : Condition(c)' = Condition(c)
    BY <1>4, SameCondition
  <2>2. \A c \in Checks : Quiet(c)'
    BY <1>1, <1>4, <2>1 DEF KInv, Quiet, At
  <2> QED
    BY <1>1, <1>2, <1>4, <2>2 DEF KInv, TInv
<1>5. Watch \/ UNCHANGED <<status, level, told>>
  BY DEF World, Day, RecordBackup, RecordDrill, Usage, ToggleRule, ToggleMute, ToggleSubscription,
         EndpointDies, Outage, Repaired
<1> QED
  BY <1>3, <1>4, <1>5

\* ages pass while no check is about to push, to prune or to mark
LEMMA PassKeeps ==
  ASSUME KInv, NEW n \in Nat, Pass(n, FALSE), UNCHANGED world, sweep' \in SweepRecord,
         \A c \in Checks : /\ sweep.step[c] \notin {"push", "prune"}
                           /\ sweep'.step[c] \notin {"push", "prune"}
  PROVE  KInv'
<1>1. PICK excuse \in BOOLEAN : excuse = FALSE
  OBVIOUS
<1>2. Pass(n, excuse)
  BY <1>1, Zenon
<1>3. /\ slots' \in [Checks -> SlotRecord] /\ told' \in [Checks -> GhostRecord]
      /\ \A c \in Checks :
           /\ slots'[c].key = slots[c].key /\ told'[c].key = told[c].key
           /\ ~ told'[c].excused => ~ told[c].excused
           /\ slots[c].key = told[c].key /\ slots[c].age <= told[c].age
                => slots'[c].age <= told'[c].age
  BY <1>2, PassFacts DEF KInv
<1>4. ASSUME NEW c \in Checks PROVE Quiet(c)'
  <2>1. Condition(c)' = Condition(c)
    BY SameCondition DEF world
  <2> QED
    BY <1>3, <2>1 DEF KInv, Quiet, At
<1> QED
  BY <1>3, <1>4 DEF KInv, TInv, world

LEMMA TickKeeps ==
  ASSUME KInv, Tick
  PROVE  KInv'
<1>1. CASE Open
  <2>1. /\ sweep' = [sweep EXCEPT !.length = @ + 1]
        /\ UNCHANGED <<slots, told, world>>
    BY <1>1 DEF Tick
  <2>2. sweep' \in SweepRecord /\ sweep'.step = sweep.step /\ sweep'.key = sweep.key
    BY <2>1 DEF KInv, TInv, SweepRecord
  <2>3. ASSUME NEW c \in Checks PROVE Quiet(c)'
    <3>1. Condition(c)' = Condition(c)
      BY <2>1, SameCondition DEF world
    <3> QED
      BY <2>1, <2>2, <3>1 DEF KInv, Quiet, At
  <2> QED
    BY <2>1, <2>2, <2>3 DEF KInv, TInv, world
<1>2. CASE ~ Open
  <2>1. \A c \in Checks : sweep.step[c] = "idle"
    BY <1>2 DEF Open
  <2>2. Pass(1, FALSE) /\ UNCHANGED world
    BY <1>2 DEF Tick
  <2>3. CASE UNCHANGED sweep
    BY <2>1, <2>2, <2>3, PassKeeps DEF KInv, TInv
  <2>4. CASE sweep' = [Closed EXCEPT !.step = [c \in Checks |-> "read"]]
    <3>1. [c \in Checks |-> "read"] \in [Checks -> Steps]
      BY DEF Steps
    <3>2. sweep' \in SweepRecord /\ \A c \in Checks : sweep'.step[c] = "read"
      BY <2>4, <3>1, ClosedSweep DEF SweepRecord
    <3> QED
      BY <2>1, <2>2, <3>2, PassKeeps
  <2> QED
    BY <1>2, <2>3, <2>4 DEF Tick
<1> QED
  BY <1>1, <1>2

LEMMA EndKeeps ==
  ASSUME KInv, EndSweep
  PROVE  KInv'
<1>1. /\ \A c \in Checks : sweep.step[c] \in {"done", "failed"}
      /\ Pass(sweep.length, FALSE) /\ sweep' = Closed /\ UNCHANGED world
  BY DEF EndSweep
<1>2. sweep.length \in Nat
  BY DEF KInv, TInv, SweepRecord
<1> QED
  BY <1>1, <1>2, ClosedSweep, PassKeeps

\* what was announced before a restart may be announced once more
LEMMA RestartKeeps ==
  ASSUME KInv, Restart
  PROVE  KInv'
<1>1. /\ slots' = [c \in Checks |-> NoSlot] /\ sweep' = Closed /\ UNCHANGED world
      /\ told' = [c \in Checks |-> [Later(told[c], sweep.length) EXCEPT !.excused = TRUE]]
  BY DEF Restart
<1>2. sweep.length \in Nat
  BY DEF KInv, TInv, SweepRecord
<1>3. NoSlot \in SlotRecord
  BY DEF NoSlot, SlotRecord, Named
<1>4. ASSUME NEW c \in Checks PROVE told'[c] \in GhostRecord /\ told'[c].excused
  <2> PICK r \in GhostRecord : r = told[c]
    BY Fields DEF KInv
  <2> PICK n \in Nat : n = sweep.length
    BY <1>2
  <2>1. PICK e \in BOOLEAN : e = TRUE
    OBVIOUS
  <2>2. Later(r, n) \in GhostRecord
    BY LaterGhost
  <2>3. told'[c] = [Later(r, n) EXCEPT !.excused = TRUE]
    BY <1>1
  <2>4. told'[c] = [Later(r, n) EXCEPT !.excused = e]
    BY <2>1, <2>3, Zenon
  <2>5. told'[c] \in GhostRecord /\ told'[c].excused = e
    BY <2>2, <2>4 DEF GhostRecord
  <2> QED
    BY <2>1, <2>5
<1>5. told' \in [Checks -> GhostRecord]
  <2>1. told' = [c \in Checks |-> told'[c]]
    BY <1>1
  <2> QED
    BY <1>4, <2>1
<1>6. ASSUME NEW c \in Checks PROVE Quiet(c)'
  <2>1. sweep'.step[c] = "idle"
    BY <1>1, ClosedSweep
  <2> QED
    BY <1>4, <2>1 DEF Quiet, At
<1> QED
  BY <1>1, <1>3, <1>5, <1>6, ClosedSweep DEF KInv, TInv, world

\* A check fails, is done without an announcement, or decides on one.  A slot
\* is forgotten only of a condition that does not stand.
LEMMA ReadKeeps ==
  ASSUME KInv, NEW c \in Checks, NEW key \in Named, At(c, "read"), UNCHANGED <<world, told>>,
         \/ Fails(c)
         \/ sweep' = Goes(c, "done") /\ UNCHANGED slots
         \/ Forgets(c) /\ Condition(c) = "green"
         \/ Announces(c, key) /\ key = Condition(c) /\ key # "green"
  PROVE  KInv'
<1> USE DEF KInv
<1>1. Condition(c)' = Condition(c) /\ \A d \in Checks : Condition(d)' = Condition(d)
  BY SameCondition DEF world
<1>2. ASSUME NEW step \in {"done", "failed"}, sweep' = Goes(c, step),
             \/ UNCHANGED slots
             \/ slots' = [slots EXCEPT ![c] = NoSlot] /\ Condition(c) = "green"
      PROVE  KInv'
  <2>1. /\ sweep' \in SweepRecord /\ sweep'.key = sweep.key /\ sweep'.step[c] = step
        /\ \A d \in Checks \ {c} : sweep'.step[d] = sweep.step[d]
    BY <1>2, GoesFacts DEF Steps
  <2>2. NoSlot \in SlotRecord
    BY DEF NoSlot, SlotRecord, Named
  <2>3. slots' \in [Checks -> SlotRecord] /\ \A d \in Checks \ {c} : slots'[d] = slots[d]
    BY <1>2, <2>2 DEF TInv
  <2>4. Quiet(c)'
    BY <1>1, <1>2, <2>1 DEF Quiet, At
  <2>5. ASSUME NEW d \in Checks \ {c} PROVE Quiet(d)'
    BY <1>1, <2>1, <2>3, <2>5, QuietKept DEF Quiet
  <2> QED
    BY <2>1, <2>3, <2>4, <2>5 DEF TInv, world
<1>3. CASE Announces(c, key) /\ key = Condition(c) /\ key # "green" /\ ShouldNotify(c, key)
  <2>1. sweep' = [Goes(c, "push") EXCEPT !.key[c] = key] /\ UNCHANGED slots
    BY <1>3 DEF Announces
  <2>2. PICK g : g = Goes(c, "push")
    OBVIOUS
  <2>3. /\ g \in SweepRecord /\ g.key = sweep.key /\ g.step[c] = "push"
        /\ \A d \in Checks \ {c} : g.step[d] = sweep.step[d]
    BY <2>2, GoesFacts DEF Steps
  <2>4. sweep' = [g EXCEPT !.key[c] = key]
    BY <2>1, <2>2
  <2>5. /\ sweep' \in SweepRecord /\ sweep'.step = g.step /\ sweep'.key[c] = key
        /\ \A d \in Checks \ {c} : sweep'.key[d] = sweep.key[d]
    BY <2>3, <2>4 DEF SweepRecord
  <2>6. slots[c].age \in Int /\ told[c].age \in Int /\ Repeat \in Int
    BY Fields
  <2>7. Quiet(c)'
    <3>1. ASSUME ~ told[c].excused PROVE told[c].key = key /\ told[c].age >= Repeat
      BY <1>3, <2>6, <3>1 DEF Quiet, At, ShouldNotify
    <3> QED
      BY <1>1, <1>3, <2>1, <2>3, <2>5, <3>1 DEF Quiet, At
  <2>8. ASSUME NEW d \in Checks \ {c} PROVE Quiet(d)'
    BY <1>1, <2>1, <2>3, <2>5, <2>8, QuietKept DEF Quiet
  <2> QED
    BY <2>1, <2>5, <2>7, <2>8 DEF TInv, world
<1> QED
  BY <1>2, <1>3 DEF Fails, Forgets, Announces

LEMMA ReadStatusKeeps ==
  ASSUME KInv, ReadStatus
  PROVE  KInv'
<1>1. "backup" \in Checks /\ Condition("backup") = Badge
  BY DEF Checks, Condition
<1>2. PICK key \in Named : key = Badge
  BY BadgeNamed
<1> QED
  BY <1>1, <1>2, ReadKeeps DEF ReadStatus

LEMMA ReadUsageKeeps ==
  ASSUME KInv, ReadUsage
  PROVE  KInv'
<1>1. "storage" \in Checks /\ "over" \in Named
  BY DEF Checks, Named
<1>2. Condition("storage") = IF Levels[level] = "clear" THEN "green" ELSE "over"
  BY DEF Condition
<1> QED
  BY <1>1, <1>2, ReadKeeps DEF ReadUsage

-----------------------------------------------------------------------------
(* The dispatch *)

\* the announcement is remembered
LEMMA MarksFacts ==
  ASSUME TInv, NEW c \in Checks, Marks(c)
  PROVE  /\ slots' \in [Checks -> SlotRecord] /\ sweep' \in SweepRecord
         /\ slots'[c].key = sweep.key[c] /\ slots'[c].age = 0 /\ sweep'.step[c] = "done"
         /\ \A d \in Checks \ {c} : /\ slots'[d] = slots[d]
                                    /\ sweep'.step[d] = sweep.step[d]
                                    /\ sweep'.key[d] = sweep.key[d]
<1>1. PICK key \in Named : key = sweep.key[c]
  BY Fields
<1>2. PICK r : r = [key |-> key, age |-> 0]
  OBVIOUS
<1>3. r \in SlotRecord /\ r.key = key /\ r.age = 0
  BY <1>2, SlotFields
<1>4. slots' = [slots EXCEPT ![c] = r]
  BY <1>1, <1>2 DEF Marks
<1>5. slots' \in [Checks -> SlotRecord] /\ slots'[c] = r /\ \A d \in Checks \ {c} : slots'[d] = slots[d]
  BY <1>3, <1>4 DEF TInv
<1>6. PICK g : g = Goes(c, "done")
  OBVIOUS
<1>7. /\ g \in SweepRecord /\ g.key = sweep.key /\ g.step[c] = "done"
      /\ \A d \in Checks \ {c} : g.step[d] = sweep.step[d]
  BY <1>6, GoesFacts DEF Steps
<1>8. sweep' = [g EXCEPT !.key[c] = None, !.gone[c] = {}]
  BY <1>6 DEF Marks
<1>9. /\ sweep' \in SweepRecord /\ sweep'.step = g.step
      /\ \A d \in Checks \ {c} : sweep'.key[d] = g.key[d]
  BY <1>7, <1>8 DEF SweepRecord, Named
<1> QED
  BY <1>1, <1>3, <1>5, <1>7, <1>9

\* the sends were made, and the endpoints found gone are to be pruned
LEMMA ToPrune ==
  ASSUME TInv, NEW c \in Checks, NEW gone \in SUBSET (Users \X Endpoints),
         sweep' = [Goes(c, "prune") EXCEPT !.gone[c] = gone]
  PROVE  /\ sweep' \in SweepRecord /\ sweep'.step[c] = "prune" /\ sweep'.key = sweep.key
         /\ \A d \in Checks \ {c} : sweep'.step[d] = sweep.step[d]
<1>1. PICK g : g = Goes(c, "prune")
  OBVIOUS
<1>2. /\ g \in SweepRecord /\ g.key = sweep.key /\ g.step[c] = "prune"
      /\ \A d \in Checks \ {c} : g.step[d] = sweep.step[d]
  BY <1>1, GoesFacts DEF Steps
<1>3. sweep' = [g EXCEPT !.gone[c] = gone]
  BY <1>1
<1>4. sweep' \in SweepRecord /\ sweep'.step = g.step /\ sweep'.key = g.key
  BY <1>2, <1>3 DEF SweepRecord
<1> QED
  BY <1>2, <1>4

\* a push that reached someone is what the ghost counts from
LEMMA ToldFacts ==
  ASSUME TInv, NEW c \in Checks, UNCHANGED <<status, level>>,
         told' = [told EXCEPT ![c] = [key |-> sweep.key[c], age |-> 0,
                                      excused |-> Condition(c) # sweep.key[c]]]
  PROVE  /\ told' \in [Checks -> GhostRecord]
         /\ told'[c].key = sweep.key[c] /\ told'[c].age = 0
         /\ ~ told'[c].excused => sweep.key[c] = Condition(c)
         /\ \A d \in Checks \ {c} : told'[d] = told[d]
<1>1. PICK e \in BOOLEAN : e <=> (Condition(c) # sweep.key[c])
  OBVIOUS
<1>2. PICK r : r = [key |-> sweep.key[c], age |-> 0, excused |-> e]
  OBVIOUS
<1>3. (Condition(c) # sweep.key[c]) = e
  BY <1>1
<1>4. told' = [told EXCEPT ![c] = r]
  BY <1>2, <1>3, Zenon
<1>5. sweep.key[c] \in Named
  BY Fields
<1>6. r \in GhostRecord /\ r.key = sweep.key[c] /\ r.age = 0 /\ r.excused = e
  BY <1>2, <1>5 DEF GhostRecord
<1>7. /\ told' \in [Checks -> GhostRecord] /\ told'[c] = r
      /\ \A d \in Checks \ {c} : told'[d] = told[d]
  BY <1>4, <1>6 DEF TInv
<1> QED
  BY <1>1, <1>6, <1>7

LEMMA PushKeeps ==
  ASSUME KInv, NEW c \in Checks, Push(c)
  PROVE  KInv'
<1> USE DEF KInv
<1>1. At(c, "push") /\ UNCHANGED <<world, sweeper>>
  BY DEF Push
<1>2. \A d \in Checks : Condition(d)' = Condition(d)
  BY <1>1, SameCondition DEF world
<1>3. CASE Fails(c) /\ UNCHANGED told
  <2>1. /\ sweep' \in SweepRecord /\ sweep'.key = sweep.key /\ sweep'.step[c] = "failed"
        /\ \A d \in Checks \ {c} : sweep'.step[d] = sweep.step[d]
    BY <1>3, GoesFacts DEF Fails, Steps
  <2>2. UNCHANGED <<slots, told, subs>>
    BY <1>1, <1>3 DEF Fails, world
  <2>3. Quiet(c)'
    BY <1>1, <1>2, <2>1, <2>2 DEF Quiet, At
  <2>4. ASSUME NEW d \in Checks \ {c} PROVE Quiet(d)'
    BY <1>2, <2>1, <2>2, <2>4, QuietKept DEF Quiet
  <2> QED
    BY <2>1, <2>2, <2>3, <2>4 DEF TInv
<1>4. CASE ~ (Fails(c) /\ UNCHANGED told)
  <2>1. /\ \/ UNCHANGED told
           \/ told' = [told EXCEPT ![c] = [key |-> sweep.key[c], age |-> 0,
                                           excused |-> Condition(c) # sweep.key[c]]]
        /\ \/ Marks(c)
           \/ sweep' = [Goes(c, "prune") EXCEPT !.gone[c] = Gone(Targets(c))] /\ UNCHANGED slots
    BY <1>4 DEF Push
  <2>2. /\ told' \in [Checks -> GhostRecord]
        /\ \A d \in Checks \ {c} : told'[d] = told[d]
        /\ ~ told'[c].excused => told'[c].key = sweep.key[c] /\ told'[c].key = Condition(c)
    <3>1. CASE UNCHANGED told
      BY <1>1, <3>1 DEF Quiet, TInv
    <3>2. CASE told' = [told EXCEPT ![c] = [key |-> sweep.key[c], age |-> 0,
                                            excused |-> Condition(c) # sweep.key[c]]]
      BY <1>1, <3>2, ToldFacts DEF world
    <3> QED
      BY <2>1, <3>1, <3>2
  <2>3. told'[c].age \in 0 .. Repeat /\ sweep.key[c] # "green" /\ subs' = subs
    BY <1>1, <2>2 DEF Quiet, At, GhostRecord, world
  <2>4. CASE Marks(c)
    <3>1. /\ slots' \in [Checks -> SlotRecord] /\ sweep' \in SweepRecord
          /\ slots'[c].key = sweep.key[c] /\ slots'[c].age = 0 /\ sweep'.step[c] = "done"
          /\ \A d \in Checks \ {c} : /\ slots'[d] = slots[d]
                                     /\ sweep'.step[d] = sweep.step[d]
                                     /\ sweep'.key[d] = sweep.key[d]
      BY <2>4, MarksFacts
    <3>2. 0 <= told'[c].age
      BY <2>3
    <3>3. Quiet(c)'
      BY <1>2, <2>2, <2>3, <3>1, <3>2 DEF Quiet, At
    <3>4. ASSUME NEW d \in Checks \ {c} PROVE Quiet(d)'
      BY <1>2, <2>2, <3>1, <3>4, QuietKept DEF Quiet
    <3> QED
      BY <2>2, <2>3, <3>1, <3>3, <3>4 DEF TInv
  <2>5. CASE sweep' = [Goes(c, "prune") EXCEPT !.gone[c] = Gone(Targets(c))] /\ UNCHANGED slots
    <3>1. Gone(Targets(c)) \in SUBSET (Users \X Endpoints)
      BY DEF Gone, Targets, TInv
    <3>2. /\ sweep' \in SweepRecord /\ sweep'.step[c] = "prune" /\ sweep'.key = sweep.key
          /\ \A d \in Checks \ {c} : sweep'.step[d] = sweep.step[d]
      BY <2>5, <3>1, ToPrune
    <3>3. Quiet(c)'
      BY <1>2, <2>2, <2>3, <3>2 DEF Quiet, At
    <3>4. ASSUME NEW d \in Checks \ {c} PROVE Quiet(d)'
      BY <1>2, <2>2, <2>5, <3>2, <3>4, QuietKept DEF Quiet
    <3> QED
      BY <2>2, <2>3, <2>5, <3>2, <3>3, <3>4 DEF TInv
  <2> QED
    BY <2>1, <2>4, <2>5
<1> QED
  BY <1>3, <1>4

LEMMA PruneKeeps ==
  ASSUME KInv, NEW c \in Checks, Prune(c)
  PROVE  KInv'
<1> USE DEF KInv
<1>1. At(c, "prune") /\ UNCHANGED <<status, level>>
  BY DEF Prune
<1>2. \A d \in Checks : Condition(d)' = Condition(d)
  BY <1>1, SameCondition
<1>3. CASE db = "down"
  <2>1. Fails(c) /\ told' = [told EXCEPT ![c].excused = TRUE] /\ UNCHANGED subs
    BY <1>3 DEF Prune
  <2>2. /\ sweep' \in SweepRecord /\ sweep'.key = sweep.key /\ sweep'.step[c] = "failed"
        /\ \A d \in Checks \ {c} : sweep'.step[d] = sweep.step[d]
        /\ UNCHANGED slots
    BY <2>1, GoesFacts DEF Fails, Steps
  <2>3. PICK e \in BOOLEAN : e = TRUE
    OBVIOUS
  <2>4. told' = [told EXCEPT ![c].excused = e]
    BY <2>1, <2>3, Zenon
  <2>5. /\ told' \in [Checks -> GhostRecord] /\ told'[c].excused = e
        /\ \A d \in Checks \ {c} : told'[d] = told[d]
    BY <2>4 DEF TInv, GhostRecord
  <2>6. told'[c].excused
    BY <2>3, <2>5
  <2>7. Quiet(c)'
    BY <2>2, <2>6 DEF Quiet, At
  <2>8. ASSUME NEW d \in Checks \ {c} PROVE Quiet(d)'
    BY <1>2, <2>2, <2>5, <2>8, QuietKept DEF Quiet
  <2> QED
    BY <2>1, <2>2, <2>5, <2>7, <2>8 DEF TInv
<1>4. CASE db # "down"
  <2>1. Marks(c) /\ subs' = subs \ sweep.gone[c] /\ UNCHANGED told
    BY <1>4 DEF Prune
  <2>2. /\ slots' \in [Checks -> SlotRecord] /\ sweep' \in SweepRecord
        /\ slots'[c].key = sweep.key[c] /\ slots'[c].age = 0 /\ sweep'.step[c] = "done"
        /\ \A d \in Checks \ {c} : /\ slots'[d] = slots[d]
                                   /\ sweep'.step[d] = sweep.step[d]
                                   /\ sweep'.key[d] = sweep.key[d]
    BY <2>1, MarksFacts
  <2>3. told[c].age \in 0 .. Repeat
    BY Fields
  <2>4. 0 <= told[c].age
    BY <2>3
  <2>5. Quiet(c)'
    BY <1>1, <1>2, <2>1, <2>2, <2>4 DEF Quiet, At
  <2>6. ASSUME NEW d \in Checks \ {c} PROVE Quiet(d)'
    BY <1>2, <2>1, <2>2, <2>6, QuietKept DEF Quiet
  <2> QED
    BY <2>1, <2>2, <2>5, <2>6 DEF TInv
<1> QED
  BY <1>3, <1>4

-----------------------------------------------------------------------------
(* The theorem *)

LEMMA StepKInv == KInv /\ [Next]_vars => KInv'
<1> SUFFICES ASSUME KInv, [Next]_vars PROVE KInv'
  OBVIOUS
<1>1. CASE CheckStep
  BY <1>1, ReadStatusKeeps, ReadUsageKeeps, PushKeeps, PruneKeeps DEF CheckStep, Dispatch
<1>2. CASE UNCHANGED vars
  <2>1. UNCHANGED <<status, level, subs, slots, sweep, told>>
    BY <1>2 DEF vars, world, memory
  <2>2. \A c \in Checks : Condition(c)' = Condition(c)
    BY <2>1, SameCondition
  <2> QED
    BY <2>1, <2>2 DEF KInv, TInv, Quiet, At
<1> QED
  BY <1>1, <1>2, WorldKeeps, TickKeeps, EndKeeps, RestartKeeps DEF Next

LEMMA InitKInv == Init => KInv
<1> SUFFICES ASSUME Init PROVE KInv
  OBVIOUS
<1>1. PICK e \in BOOLEAN : e = TRUE
  OBVIOUS
<1>2. PICK r : r = [key |-> None, age |-> 0, excused |-> e]
  OBVIOUS
<1>3. told = [c \in Checks |-> r]
  BY <1>1, <1>2, Zenon DEF Init
<1>4. r \in GhostRecord /\ r.excused = e
  BY <1>2 DEF GhostRecord, Named
<1>5. /\ slots = [c \in Checks |-> NoSlot] /\ NoSlot \in SlotRecord
      /\ sweep = Closed /\ subs = Users \X Endpoints
  BY DEF Init, NoSlot, SlotRecord, Named
<1>6. TInv
  BY <1>3, <1>4, <1>5, ClosedSweep DEF TInv
<1>7. \A c \in Checks : told[c].excused /\ sweep.step[c] = "idle"
  BY <1>1, <1>3, <1>4, <1>5, ClosedSweep
<1> QED
  BY <1>6, <1>7 DEF KInv, Quiet, At

\* a push under way is news, or its window has run out
LEMMA Announced ==
  ASSUME KInv, NEW c \in Checks, At(c, "push"), told[c].key = sweep.key[c]
  PROVE  told[c].excused \/ told[c].age >= Repeat
  BY DEF KInv, Quiet

\* AC-357: a condition that stands is pushed at most once per repeat window;
\* only what a user would call news, a restart, and a dispatch that failed after
\* its sends are good for a repetition, a single one.
THEOREM Window == Spec => OncePerWindow
<1>1. KInv /\ [Next]_vars =>
        [\A c \in Checks :
           At(c, "push") /\ sweep'.step[c] \in {"prune", "done"} /\ told[c].key = sweep.key[c]
             => told[c].excused \/ told[c].age >= Repeat]_vars
  BY Announced
<1>2. Init => KInv
  BY InitKInv
<1>3. KInv /\ [Next]_vars => KInv'
  BY StepKInv
<1> QED
  BY <1>1, <1>2, <1>3, PTL DEF Spec, OncePerWindow

-----------------------------------------------------------------------------
(* The types of what the sweep and its slots leave alone *)

WorldOK ==
  /\ status \in [at : 0..BackupCap \cup {None}, ok : BOOLEAN,
                 drillAt : 0..DrillCap \cup {None}, drillOk : {"ok", "failed", "null"}]
  /\ level \in 1..3 /\ db \in {"up", "down", "skewed"} /\ rules \subseteq Checks
  /\ muted \subseteq Users /\ dead \subseteq Endpoints

\* the backoff is in force after the ceiling only, and never longer than the cap
SweeperOK ==
  /\ sweeper \in [failures : 0..FailureCap, skip : 0..MaxBackoff]
  /\ sweeper.skip > 0 => sweeper.failures >= Ceiling
  /\ sweep.length \in 0..MaxLength

CountsOK == changes \in 0..MaxChanges /\ faults \in 0..MaxFaults

\* a fact of arithmetic that no backend knows: the exponents a sweeper uses
\* give natural numbers
PowersAreNatural == \A n \in Nat : 2 ^ n \in Nat

LEMMA Caps ==
  /\ BackupCap \in Nat /\ DrillCap \in Nat /\ FailureCap \in Nat
  /\ Ceiling \in Nat /\ MaxBackoff \in Nat /\ MaxLength \in Nat
  /\ MaxChanges \in Nat /\ MaxFaults \in Nat
  BY DEF BackupCap, DrillCap, FailureCap

LEMMA AgedType ==
  ASSUME NEW cap \in Nat, NEW age \in 0..cap \cup {None}
  PROVE  Aged(age, cap) \in 0..cap \cup {None}
<1>1. CASE age = None
  BY <1>1 DEF Aged
<1>2. CASE age # None
  <2>1. Aged(age, cap) = Smaller(age + 1, cap)
    BY <1>2 DEF Aged
  <2>2. Smaller(age + 1, cap) = IF age + 1 <= cap THEN age + 1 ELSE cap
    BY <1>2, SmallerIs
  <2> QED
    BY <1>2, <2>1, <2>2
<1> QED
  BY <1>1, <1>2

LEMMA BackoffType ==
  ASSUME PowersAreNatural, NEW n \in 0..FailureCap
  PROVE  /\ Backoff(n) \in 0..MaxBackoff
         /\ Backoff(n) > 0 => n >= Ceiling
<1>1. CASE n < Ceiling
  BY <1>1, Caps DEF Backoff
<1>2. CASE ~ n < Ceiling
  <2>1. n - Ceiling + 1 \in Nat
    BY <1>2, Caps
  <2>2. PICK power \in Nat : power = 2 ^ (n - Ceiling + 1)
    BY <2>1 DEF PowersAreNatural
  <2>3. Smaller(power, MaxBackoff) = IF power <= MaxBackoff THEN power ELSE MaxBackoff
    BY Caps, SmallerIs
  <2>4. Backoff(n) = Smaller(power, MaxBackoff)
    BY <1>2, <2>2 DEF Backoff
  <2> QED
    BY <1>2, <2>3, <2>4, Caps
<1> QED
  BY <1>1, <1>2

LEMMA CountsStep ==
  ASSUME CountsOK, [Next]_vars
  PROVE  CountsOK'
<1>1. Change \/ Fault \/ Same => CountsOK'
  BY Caps DEF Change, Fault, Same, CountsOK
<1>2. World \/ Tick \/ EndSweep \/ Restart \/ ReadStatus \/ ReadUsage => Change \/ Fault \/ Same
  BY DEF World, Day, RecordBackup, RecordDrill, Usage, ToggleRule, ToggleMute, ToggleSubscription,
         EndpointDies, Outage, Repaired, Tick, EndSweep, Restart, ReadStatus, ReadUsage
<1>3. ASSUME NEW c \in Checks, Dispatch(c) PROVE Change \/ Fault \/ Same
  BY <1>3 DEF Dispatch, Push, Prune
<1>4. UNCHANGED vars => CountsOK'
  BY DEF vars, CountsOK
<1> QED
  BY <1>1, <1>2, <1>3, <1>4 DEF Next, CheckStep

LEMMA WorldStep ==
  ASSUME WorldOK, [Next]_vars
  PROVE  WorldOK'
<1>1. CASE UNCHANGED <<status, level, db, rules, muted, dead>>
  BY <1>1 DEF WorldOK
<1>2. CASE Day
  <2>1. /\ Aged(status.at, BackupCap) \in 0..BackupCap \cup {None}
        /\ Aged(status.drillAt, DrillCap) \in 0..DrillCap \cup {None}
    BY AgedType, Caps DEF WorldOK
  <2>2. /\ status' = [status EXCEPT !.at = Aged(status.at, BackupCap),
                                    !.drillAt = Aged(status.drillAt, DrillCap)]
        /\ UNCHANGED <<level, db, rules, muted, dead>>
    BY <1>2 DEF Day
  <2> QED
    BY <2>1, <2>2 DEF WorldOK
<1>3. CASE RecordBackup \/ RecordDrill
  <2>1. 0 \in 0..BackupCap /\ 0 \in 0..DrillCap
    BY Caps
  <2>2. ASSUME NEW ok \in BOOLEAN, status' = [status EXCEPT !.at = 0, !.ok = ok],
               UNCHANGED <<level, db, rules, muted, dead>>
        PROVE  WorldOK'
    BY <2>1, <2>2 DEF WorldOK
  <2>3. ASSUME NEW ok \in {"ok", "failed"}, status' = [status EXCEPT !.drillAt = 0, !.drillOk = ok],
               UNCHANGED <<level, db, rules, muted, dead>>
        PROVE  WorldOK'
    BY <2>1, <2>3 DEF WorldOK
  <2> QED
    BY <1>3, <2>2, <2>3 DEF RecordBackup, RecordDrill
<1>4. CASE Usage
  <2>1. level' \in DOMAIN Levels /\ DOMAIN Levels = 1..3
    BY <1>4 DEF Usage, Levels
  <2> QED
    BY <1>4, <2>1 DEF Usage, WorldOK
<1>5. CASE ToggleRule \/ ToggleMute \/ EndpointDies \/ Outage \/ Repaired
  BY <1>5 DEF ToggleRule, ToggleMute, EndpointDies, Outage, Repaired, SymDiff, WorldOK
<1>6. Next => \/ UNCHANGED <<status, level, db, rules, muted, dead>> \/ Day
              \/ RecordBackup \/ RecordDrill \/ Usage
              \/ ToggleRule \/ ToggleMute \/ EndpointDies \/ Outage \/ Repaired
  <2>1. ASSUME NEW c \in Checks, Dispatch(c)
        PROVE  UNCHANGED <<status, level, db, rules, muted, dead>>
    BY <2>1 DEF Dispatch, Push, Prune, world
  <2> QED
    BY <2>1 DEF Next, World, ToggleSubscription, Tick, EndSweep, Restart, CheckStep, ReadStatus,
                ReadUsage, world
<1> QED
  BY <1>1, <1>2, <1>3, <1>4, <1>5, <1>6 DEF vars, world

\* only the interval, the end of a sweep and a restart touch the sweeper; a
\* sweep in flight is no longer than the ticks it has outlasted
LEMMA SweeperStep ==
  ASSUME PowersAreNatural, TInv, SweeperOK, [Next]_vars
  PROVE  SweeperOK'
<1>1. Closed.length = 0
  BY DEF Closed
<1>2. CASE sweeper' = sweeper /\ sweep'.length = sweep.length
  BY <1>2 DEF SweeperOK
<1>3. CASE Tick
  <2>1. CASE Open /\ sweep.length < MaxLength /\ sweep' = [sweep EXCEPT !.length = @ + 1] /\ UNCHANGED sweeper
    <3>1. sweep'.length = sweep.length + 1
      BY <2>1 DEF TInv, SweepRecord
    <3> QED
      BY <2>1, <3>1, Caps DEF SweeperOK
  <2>2. CASE sweeper.skip > 0 /\ sweeper' = [sweeper EXCEPT !.skip = @ - 1] /\ UNCHANGED sweep
    BY <2>2, Caps DEF SweeperOK
  <2>3. CASE sweep' = [Closed EXCEPT !.step = [c \in Checks |-> "read"]] /\ UNCHANGED sweeper
    <3>1. sweep'.length = 0
      BY <2>3 DEF Closed
    <3> QED
      BY <2>3, <3>1, Caps DEF SweeperOK
  <2> QED
    BY <1>3, <2>1, <2>2, <2>3 DEF Tick
<1>4. CASE EndSweep
  <2>1. CASE sweeper' = [failures |-> 0, skip |-> 0]
    BY <1>1, <1>4, <2>1, Caps DEF EndSweep, SweeperOK
  <2>2. ASSUME NEW n, n = Smaller(sweeper.failures + 1, FailureCap),
               sweeper' = [failures |-> n, skip |-> Backoff(n)]
        PROVE  SweeperOK'
    <3>1. n = IF sweeper.failures + 1 <= FailureCap THEN sweeper.failures + 1 ELSE FailureCap
      BY <2>2, SmallerIs, Caps DEF SweeperOK
    <3>2. n \in 0..FailureCap
      BY <3>1, Caps DEF SweeperOK
    <3>3. Backoff(n) \in 0..MaxBackoff /\ (Backoff(n) > 0 => n >= Ceiling)
      BY <3>2, BackoffType
    <3>4. sweep'.length = 0
      BY <1>1, <1>4 DEF EndSweep
    <3> QED
      BY <2>2, <3>2, <3>3, <3>4, Caps DEF SweeperOK
  <2> QED
    BY <1>4, <2>1, <2>2 DEF EndSweep
<1>5. CASE Restart
  BY <1>1, <1>5, Caps DEF Restart, SweeperOK
<1>6. ASSUME World \/ ReadStatus \/ ReadUsage \/ \E c \in Checks : Dispatch(c)
      PROVE  sweeper' = sweeper /\ sweep'.length = sweep.length
  <2>1. sweeper' = sweeper
    BY <1>6 DEF World, Day, RecordBackup, RecordDrill, Usage, ToggleRule, ToggleMute,
                ToggleSubscription, EndpointDies, Outage, Repaired, memory, ReadStatus, ReadUsage,
                Dispatch, Push, Prune
  <2>2. \A c \in Checks, step \in Steps : Goes(c, step).length = sweep.length
    BY DEF Goes, TInv, SweepRecord
  <2>3. CASE World
    BY <2>3 DEF World, Day, RecordBackup, RecordDrill, Usage, ToggleRule, ToggleMute,
                ToggleSubscription, EndpointDies, Outage, Repaired, memory
  <2>4. ASSUME NEW c \in Checks, Announces(c, sweep'.key[c]) \/ Forgets(c) \/ Fails(c) \/ Marks(c)
        PROVE  sweep'.length = sweep.length
    BY <2>2, <2>4 DEF Announces, Forgets, Fails, Marks, Goes, TInv, SweepRecord
  <2>5. ASSUME NEW c \in Checks, NEW key, Announces(c, key) PROVE sweep'.length = sweep.length
    BY <2>5 DEF Announces, Goes, TInv, SweepRecord
  <2>6. CASE ReadStatus \/ ReadUsage
    BY <2>2, <2>4, <2>5, <2>6 DEF ReadStatus, ReadUsage, Checks, Steps
  <2>7. ASSUME NEW c \in Checks, Dispatch(c) PROVE sweep'.length = sweep.length
    BY <2>2, <2>4, <2>7 DEF Dispatch, Push, Prune, Goes, TInv, SweepRecord
  <2> QED
    BY <1>6, <2>1, <2>3, <2>6, <2>7
<1> QED
  BY <1>2, <1>3, <1>4, <1>5, <1>6 DEF Next, CheckStep, vars, memory

\* Every variable has its type: however sweeps fail, outlast their ticks or are
\* lost with the process, the backoff stays under its cap and is in force only
\* after the ceiling of failures, and the step of each check is one of
\* a sweep.  The hypothesis is arithmetic, and says nothing of the monitor.
THEOREM TypeCorrect ==
  ASSUME PowersAreNatural
  PROVE  Spec => []TypeOK
<1>1. Init => KInv /\ WorldOK /\ SweeperOK /\ CountsOK
  <2> SUFFICES ASSUME Init PROVE WorldOK /\ SweeperOK /\ CountsOK
    BY InitKInv
  <2>1. WorldOK
    <3>1. 0 \in 0..BackupCap /\ 0 \in 0..DrillCap
      BY Caps
    <3>2. PICK yes \in BOOLEAN, no \in BOOLEAN : yes = TRUE /\ no = FALSE
      OBVIOUS
    <3>3. \/ status = [at |-> None, ok |-> no, drillAt |-> None, drillOk |-> "null"]
          \/ status = [at |-> 0, ok |-> yes, drillAt |-> 0, drillOk |-> "ok"]
      BY <3>2, Zenon DEF Init, SeededRow, HealthyRow
    <3>4. status \in [at : 0..BackupCap \cup {None}, ok : BOOLEAN,
                      drillAt : 0..DrillCap \cup {None}, drillOk : {"ok", "failed", "null"}]
      BY <3>1, <3>3
    <3>5. /\ level \in 1..3 /\ db = "up" /\ rules = Checks /\ muted = {} /\ dead = DeadAtStart
      BY DEF Init
    <3> QED
      BY <3>4, <3>5 DEF WorldOK
  <2>2. SweeperOK
    BY Caps DEF Init, SweeperOK, Closed
  <2>3. CountsOK
    BY Caps DEF Init, CountsOK
  <2> QED
    BY <2>1, <2>2, <2>3
<1>2. KInv /\ WorldOK /\ SweeperOK /\ CountsOK /\ [Next]_vars
        => KInv' /\ WorldOK' /\ SweeperOK' /\ CountsOK'
  BY StepKInv, WorldStep, SweeperStep, CountsStep DEF KInv
<1>3. KInv /\ WorldOK /\ SweeperOK /\ CountsOK => TypeOK
  <2> SUFFICES ASSUME TInv, WorldOK, SweeperOK, CountsOK PROVE TypeOK
    BY DEF KInv
  <2>1. \A c \in Checks : slots[c].age \in 0..Repeat /\ sweep.gone[c] \subseteq Users \X Endpoints
    BY Fields
  <2>2. sweep.step \in [Checks -> {"idle", "read", "push", "prune", "done", "failed"}]
    BY DEF TInv, SweepRecord, Steps
  <2> QED
    BY <2>1, <2>2 DEF TypeOK, TInv, WorldOK, SweeperOK, CountsOK
<1> QED
  BY <1>1, <1>2, <1>3, PTL DEF Spec
===========================================================================
