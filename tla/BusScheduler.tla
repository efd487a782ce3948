----------------------------- MODULE BusScheduler -----------------------------
(***************************************************************************)
(* sim/bus_scheduler.py: periodic entries and the loop of tick, one entry  *)
(* at a time, each of whose callbacks may raise.  Only differences of      *)
(* times matter: an entry has its age, now_ms - last_fired_ms, or has not  *)
(* fired yet and counts from time 0, whenever it was registered.           *)
(***************************************************************************)
EXTENDS Integers, Sequences, FiniteSets

CONSTANTS
  Period,  \* period_ms of the entries, in the order of their registration
  Never,   \* an entry that has not fired: last_fired_ms is 0
  MaxGap,  \* bound: simulated time between two ticks
  LongAgo  \* bound: times from here on are one; no period is longer

Entry == DOMAIN Period

ASSUME SchedulerAssumption ==
  /\ Period \in Seq(1 .. LongAgo)
  /\ Never \notin Nat
  /\ MaxGap \in Nat \ {0}
  /\ LongAgo \in Nat

VARIABLES
  running,     \* BusScheduler._running
  now,         \* now_ms of the last tick
  registered,  \* Len(BusScheduler._entries)
  age,         \* now - last_fired_ms of each entry
  cursor       \* the entry tick looks at next; 0 when no tick is under way

schedulerVars == <<running, now, registered, age, cursor>>

(* The clock may be the tests' own, from 0, or the host's, anywhere. *)
SchedulerInit ==
  /\ running = FALSE
  /\ now \in {0, LongAgo}
  /\ registered = 0
  /\ age = [i \in Entry |-> Never]
  /\ cursor = 0
-----------------------------------------------------------------------------
schedule_periodic ==
  /\ cursor = 0
  /\ registered < Len(Period)
  /\ registered' = registered + 1
  /\ UNCHANGED <<running, now, age, cursor>>

start ==
  /\ cursor = 0
  /\ running' = TRUE
  /\ UNCHANGED <<now, registered, age, cursor>>

(* A call of tick, `gap' later than the one before; it does nothing while
   the scheduler is idle or has no entries. *)
tick(gap) ==
  /\ cursor = 0
  /\ now' = IF now + gap > LongAgo THEN LongAgo ELSE now + gap
  /\ age' = [i \in Entry |-> IF age[i] = Never THEN Never ELSE age[i] + gap]
  /\ cursor' = IF running /\ registered > 0 THEN 1 ELSE 0
  /\ UNCHANGED <<running, registered>>

NextEntry == IF cursor = registered THEN 0 ELSE cursor + 1

SinceFired(i) == IF age[i] = Never THEN now ELSE age[i]

Due == cursor # 0 /\ SinceFired(cursor) >= Period[cursor]

(* The loop passes over an entry that is not due. *)
Skip ==
  /\ cursor # 0 /\ ~Due
  /\ cursor' = NextEntry
  /\ UNCHANGED <<running, now, registered, age>>

(* Mutation: the firing is noted after the callback has returned. *)
FireNotedLate(raises) ==
  /\ Due
  /\ age' = IF raises THEN age ELSE [age EXCEPT ![cursor] = 0]
  /\ cursor' = IF raises THEN 0 ELSE NextEntry
  /\ UNCHANGED <<running, now, registered>>

(* The firing is noted, then the callback runs; its exception leaves tick,
   and the entries behind it wait for the next one. *)
Fire(raises) ==
  /\ Due
  /\ age' = [age EXCEPT ![cursor] = 0]
  /\ cursor' = IF raises THEN 0 ELSE NextEntry
  /\ UNCHANGED <<running, now, registered>>
-----------------------------------------------------------------------------
SchedulerTyped ==
  /\ running \in BOOLEAN
  /\ now \in 0 .. LongAgo
  /\ registered \in 0 .. Len(Period)
  /\ age \in [Entry -> Nat \cup {Never}]
  /\ cursor \in 0 .. registered

(* The periods are long enough for every entry to have a tick of its own. *)
PeriodsLeaveRoom == \A i \in Entry : Period[i] >= Len(Period) * MaxGap

(* An entry fires late by less than one tick for itself and one for each
   entry registered before it, though the callbacks of those may raise, any
   of them and again and again, and every time abort the tick: tick notes a
   firing before it runs the callback, so an aborted tick is not repeated
   by the same entry before the others had their turn. *)
LatenessBounded ==
  PeriodsLeaveRoom =>
    \A i \in Entry : age[i] # Never => age[i] < Period[i] + i * MaxGap

(* What makes it inductive: each tick an overdue entry had to wait for was
   aborted by another one before it, which has not come to its next period
   since.  A tick under way has yet to reach the entry. *)
Fired(i) == age[i] # Never
Lateness(i) == age[i] - Period[i]
Overtaking(i) == {j \in 1 .. i - 1 : Fired(j) /\ age[j] <= Lateness(i)}
Waited(i) == Cardinality(Overtaking(i)) + (IF cursor = 0 THEN 0 ELSE 1)

FiredWhileRunning ==
  /\ cursor # 0 => running
  /\ \A i \in Entry : Fired(i) => running /\ i <= registered

WaitsAccounted ==
  PeriodsLeaveRoom =>
    \A i \in Entry :
      Fired(i) /\ Lateness(i) >= 0 => cursor <= i /\ Lateness(i) < Waited(i) * MaxGap

SchedulerInv == SchedulerTyped /\ FiredWhileRunning /\ WaitsAccounted
=============================================================================
