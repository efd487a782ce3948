--------------------------- MODULE PeriodicTxProofs ---------------------------
(***************************************************************************)
(* Periodic signals, from the scheduler's entries to the handler.          *)
(*                                                                         *)
(* 1. No entry of the scheduler starves: for any entries, periods with     *)
(* room for a tick each, irregular ticks and callbacks that raise whenever *)
(* they like, an entry fires late by less than one tick for itself and one *)
(* for each entry before it.  A tick that misses an overdue entry was      *)
(* aborted by an earlier one, and that one is not due again until          *)
(* everything overdue has had its tick: so each earlier entry costs it one *)
(* tick at most.  The invariant counts the earlier entries that have fired *)
(* since (Overtaking).                                                     *)
(*                                                                         *)
(* 2. What the loops of the code compute.  Induction over data is a set of *)
(* naturals with 0 and its successors (Induction); recursion is a run of   *)
(* any number of steps, joined (Recursion, LoopExists).  With these:       *)
(* digits put together give the number back (HornerDigits), get_bits reads *)
(* what set_bits wrote and nothing else changes (SetBits, GetBits), and    *)
(* parse_secured_pdu undoes build_secured_pdu (ParseBuilt).                *)
(*                                                                         *)
(* 3. Buffers, frames and handler agree (WireInv), for every layout of     *)
(* signals that do not overlap and every profile.                          *)
(***************************************************************************)
EXTENDS PeriodicTx, FiniteSetTheorems, SequenceTheorems, WellFoundedInduction, TLAPS

(* What the periods are, and how many entries there are. *)
LEMMA PeriodFacts ==
  /\ MaxGap \in Nat /\ 0 < MaxGap
  /\ Len(Period) \in Nat
  /\ Entry = 1 .. Len(Period)
  /\ \A i \in Entry : i \in Nat /\ 1 <= i /\ i <= Len(Period)
                      /\ Period[i] \in Nat /\ 1 <= Period[i]
<1>1. MaxGap \in Nat /\ 0 < MaxGap
  BY SchedulerAssumption
<1>2. Period \in Seq(1 .. LongAgo) /\ LongAgo \in Nat
  BY SchedulerAssumption
<1>3. Len(Period) \in Nat /\ Entry = 1 .. Len(Period)
  BY <1>2 DEF Entry
<1>4. ASSUME NEW i \in Entry
      PROVE  i \in Nat /\ 1 <= i /\ i <= Len(Period) /\ Period[i] \in Nat /\ 1 <= Period[i]
  <2>1. Period[i] \in 1 .. LongAgo
    BY <1>2, <1>3
  <2> QED
    BY <1>2, <1>3, <2>1
<1> QED
  BY <1>1, <1>3, <1>4

(* More ticks take more time. *)
LEMMA TicksMonotone ==
  ASSUME NEW m \in Nat, NEW n \in Nat, m <= n, NEW g \in Nat
  PROVE  m * g <= n * g /\ m * g \in Nat /\ n * g \in Nat /\ (m + 1) * g = m * g + g
<1>1. m * g \in Nat /\ n * g \in Nat /\ (m + 1) * g = m * g + g
  OBVIOUS
<1>2. PICK d \in Nat : n = m + d
  <2>1. n - m \in Nat /\ n = m + (n - m)
    OBVIOUS
  <2> QED
    BY <2>1
<1>3. n * g = m * g + d * g /\ d * g \in Nat
  BY <1>2
<1> QED
  BY <1>1, <1>3

(* At most all earlier entries have overtaken one. *)
LEMMA OvertakingBound ==
  ASSUME NEW i \in Entry
  PROVE  /\ IsFiniteSet(Overtaking(i))
         /\ Cardinality(Overtaking(i)) \in Nat
         /\ Cardinality(Overtaking(i)) <= i - 1
<1>1. i \in Nat /\ 1 <= i
  BY PeriodFacts
<1>2. IsFiniteSet(1 .. i - 1) /\ Cardinality(1 .. i - 1) = i - 1
  BY <1>1, FS_Interval
<1>3. Overtaking(i) \in SUBSET (1 .. i - 1)
  BY DEF Overtaking
<1>4. IsFiniteSet(Overtaking(i)) /\ Cardinality(Overtaking(i)) <= Cardinality(1 .. i - 1)
  BY <1>2, <1>3, FS_Subset
<1> QED
  BY <1>2, <1>4, FS_CardinalityType

(* The same of the state after a step. *)
LEMMA OvertakingBoundNext ==
  ASSUME NEW i \in Entry
  PROVE  /\ IsFiniteSet(Overtaking(i)')
         /\ Cardinality(Overtaking(i)') \in Nat
<1>1. i \in Nat /\ 1 <= i
  BY PeriodFacts
<1>2. IsFiniteSet(1 .. i - 1)
  BY <1>1, FS_Interval
<1>3. Overtaking(i)' \in SUBSET (1 .. i - 1)
  BY DEF Overtaking
<1>4. IsFiniteSet(Overtaking(i)')
  BY <1>2, <1>3, FS_Subset
<1> QED
  BY <1>4, FS_CardinalityType

(* The invariant gives the bound. *)
LEMMA WaitsBounded == SchedulerInv => LatenessBounded
<1> SUFFICES ASSUME SchedulerInv, PeriodsLeaveRoom, NEW i \in Entry, age[i] # Never
             PROVE  age[i] < Period[i] + i * MaxGap
  BY DEF LatenessBounded
<1>1. /\ age[i] \in Nat /\ Period[i] \in Nat /\ i \in Nat /\ 1 <= i
      /\ MaxGap \in Nat /\ 0 < MaxGap
  BY PeriodFacts DEF SchedulerInv, SchedulerTyped
<1>2. i * MaxGap \in Nat /\ MaxGap <= i * MaxGap
  <2>1. 1 * MaxGap <= i * MaxGap /\ i * MaxGap \in Nat
    BY <1>1, TicksMonotone
  <2> QED
    BY <1>1, <2>1
<1>3. CASE Lateness(i) >= 0
  <2>1. Lateness(i) < Waited(i) * MaxGap
    BY <1>3 DEF SchedulerInv, WaitsAccounted, Fired
  <2>2. Waited(i) \in Nat /\ Waited(i) <= i
    BY <1>1, OvertakingBound DEF Waited
  <2>3. Waited(i) * MaxGap <= i * MaxGap /\ Waited(i) * MaxGap \in Nat
    BY <1>1, <2>2, TicksMonotone
  <2> QED
    BY <1>1, <1>2, <2>1, <2>3 DEF Lateness
<1>4. CASE ~(Lateness(i) >= 0)
  BY <1>1, <1>2, <1>4 DEF Lateness
<1> QED
  BY <1>3, <1>4

(* Time passes between two ticks: an entry is later by no more than the gap,
   and what has overtaken it still has. *)
LEMMA TickStep ==
  ASSUME SchedulerInv, NEW gap \in 1 .. MaxGap, tick(gap)
  PROVE  SchedulerInv'
<1> USE DEF SchedulerInv
<1>1. /\ cursor = 0
      /\ now' = IF now + gap > LongAgo THEN LongAgo ELSE now + gap
      /\ age' = [i \in Entry |-> IF age[i] = Never THEN Never ELSE age[i] + gap]
      /\ cursor' = IF running /\ registered > 0 THEN 1 ELSE 0
      /\ running' = running /\ registered' = registered
  BY DEF tick
<1>2. /\ gap \in Nat /\ 1 <= gap /\ gap <= MaxGap /\ MaxGap \in Nat
      /\ registered \in Nat /\ age \in [Entry -> Nat \cup {Never}]
  BY PeriodFacts DEF SchedulerTyped
<1>3. \A i \in Entry : /\ Fired(i)' <=> Fired(i)
                       /\ Fired(i) => age[i] \in Nat /\ age'[i] = age[i] + gap
  BY <1>1, <1>2, SchedulerAssumption DEF Fired
<1>4. SchedulerTyped'
  <2>1. now' \in 0 .. LongAgo
    BY <1>1, <1>2, SchedulerAssumption DEF SchedulerTyped
  <2>2. age' \in [Entry -> Nat \cup {Never}]
    BY <1>1, <1>2
  <2>3. cursor' \in 0 .. registered'
    BY <1>1, <1>2
  <2> QED
    BY <1>1, <2>1, <2>2, <2>3 DEF SchedulerTyped
<1>5. FiredWhileRunning'
  BY <1>1, <1>3 DEF FiredWhileRunning
<1>6. WaitsAccounted'
  <2> SUFFICES ASSUME PeriodsLeaveRoom, NEW i \in Entry, Fired(i)', Lateness(i)' >= 0
               PROVE  cursor' <= i /\ Lateness(i)' < Waited(i)' * MaxGap
    BY DEF WaitsAccounted, PeriodsLeaveRoom
  <2>1. /\ Fired(i) /\ age[i] \in Nat /\ age'[i] = age[i] + gap
        /\ i \in Nat /\ 1 <= i /\ Period[i] \in Nat /\ i \in 1 .. Len(Period)
    BY <1>3, PeriodFacts
  <2>2. running /\ registered > 0 /\ cursor' = 1
    <3>1. running /\ i <= registered
      BY <2>1 DEF FiredWhileRunning
    <3> QED
      BY <1>1, <1>2, <2>1, <3>1
  <2>3. Lateness(i)' = Lateness(i) + gap /\ Lateness(i) \in Int
    BY <1>2, <2>1 DEF Lateness
  <2> PICK c \in Nat : c = Cardinality(Overtaking(i))
    BY OvertakingBound
  <2> PICK d \in Nat : d = Cardinality(Overtaking(i)')
    BY OvertakingBoundNext
  <2>4. Waited(i)' = d + 1
    BY <2>2 DEF Waited
  <2>5. c <= d
    <3>1. Overtaking(i) \subseteq Overtaking(i)'
      <4> SUFFICES ASSUME NEW j \in 1 .. i - 1, Fired(j), age[j] <= Lateness(i)
                   PROVE  Fired(j)' /\ age'[j] <= Lateness(i)'
        BY DEF Overtaking
      <4>1. j \in Entry
        BY <2>1, PeriodFacts
      <4>2. Fired(j)' /\ age[j] \in Nat /\ age'[j] = age[j] + gap
        BY <1>3, <4>1
      <4> QED
        BY <1>2, <2>3, <4>2
    <3> QED
      BY <3>1, FS_Subset, OvertakingBoundNext
  <2>6. c * MaxGap <= d * MaxGap /\ (d + 1) * MaxGap = d * MaxGap + MaxGap
        /\ c * MaxGap \in Nat /\ d * MaxGap \in Nat
    BY <1>2, <2>5, TicksMonotone
  <2>7. Lateness(i) < c * MaxGap \/ Lateness(i) < 0
    <3>1. CASE Lateness(i) >= 0
      <4>1. Lateness(i) < Waited(i) * MaxGap
        BY <2>1, <3>1 DEF WaitsAccounted
      <4>2. Waited(i) = c
        BY <1>1 DEF Waited
      <4> QED
        BY <4>1, <4>2
    <3> QED
      BY <2>3, <3>1
  <2>8. Lateness(i)' < (d + 1) * MaxGap
    BY <1>2, <2>3, <2>6, <2>7
  <2> QED
    BY <2>1, <2>2, <2>4, <2>8
<1> QED
  BY <1>4, <1>5, <1>6

(* The loop passes an entry that is not due: it is none that waits. *)
LEMMA SkipStep ==
  ASSUME SchedulerInv, Skip
  PROVE  SchedulerInv'
<1> USE DEF SchedulerInv
<1>1. /\ cursor # 0 /\ ~Due /\ cursor' = NextEntry
      /\ UNCHANGED <<running, now, registered, age>>
  BY DEF Skip
<1>2. cursor \in 1 .. registered /\ registered \in 0 .. Len(Period) /\ registered \in Nat
  BY <1>1, PeriodFacts DEF SchedulerTyped
<1>3. cursor' \in 0 .. registered /\ cursor \in Entry
  BY <1>1, <1>2, PeriodFacts DEF NextEntry
<1>4. SchedulerTyped' /\ FiredWhileRunning'
  BY <1>1, <1>3 DEF SchedulerTyped, FiredWhileRunning, Fired
<1>5. WaitsAccounted'
  <2> SUFFICES ASSUME PeriodsLeaveRoom, NEW i \in Entry, Fired(i), Lateness(i) >= 0
               PROVE  cursor' <= i /\ Lateness(i) < Waited(i)' * MaxGap
    BY <1>1 DEF WaitsAccounted, PeriodsLeaveRoom, Fired, Lateness
  <2>1. cursor <= i /\ i <= registered /\ i \in Nat
    BY PeriodFacts DEF WaitsAccounted, FiredWhileRunning
  <2>2. cursor # i
    <3>1. age[i] \in Nat /\ Period[i] \in Nat
      BY PeriodFacts DEF SchedulerTyped, Fired
    <3>2. i = cursor => Due
      BY <1>1, <3>1 DEF Due, SinceFired, Fired, Lateness
    <3> QED
      BY <1>1, <3>2
  <2>3. cursor' = cursor + 1 /\ cursor' <= i /\ cursor' # 0
    BY <1>1, <1>2, <2>1, <2>2 DEF NextEntry
  <2>4. Waited(i)' = Waited(i)
    BY <1>1, <2>3 DEF Waited, Overtaking, Fired, Lateness
  <2> QED
    BY <2>3, <2>4 DEF WaitsAccounted
<1> QED
  BY <1>4, <1>5

(* An entry fires.  Those that wait behind it are overtaken by it, and when
   its callback raises they have been overtaken by one more: had it overtaken
   them before, it would not be due again. *)
LEMMA FireStep ==
  ASSUME SchedulerInv, NEW raises \in BOOLEAN, Fire(raises)
  PROVE  SchedulerInv'
<1> USE DEF SchedulerInv
<1>1. /\ cursor # 0 /\ SinceFired(cursor) >= Period[cursor]
      /\ age' = [age EXCEPT ![cursor] = 0]
      /\ cursor' = IF raises THEN 0 ELSE NextEntry
      /\ UNCHANGED <<running, now, registered>>
  BY DEF Fire, Due
<1>2. cursor \in 1 .. registered /\ registered \in 0 .. Len(Period) /\ registered \in Nat
  BY <1>1, PeriodFacts DEF SchedulerTyped
<1>3. cursor' \in 0 .. registered /\ cursor \in Entry
  BY <1>1, <1>2, PeriodFacts DEF NextEntry
<1> PICK k \in Entry : k = cursor
  BY <1>3
<1>4. /\ age'[cursor] = 0 /\ \A i \in Entry \ {cursor} : age'[i] = age[i]
      /\ age' \in [Entry -> Nat \cup {Never}] /\ Never # 0
  BY <1>1, <1>3, SchedulerAssumption DEF SchedulerTyped
<1>5. SchedulerTyped'
  BY <1>1, <1>3, <1>4 DEF SchedulerTyped
<1>6. FiredWhileRunning'
  BY <1>1, <1>2, <1>4 DEF FiredWhileRunning, Fired
<1>7. WaitsAccounted'
  <2> SUFFICES ASSUME PeriodsLeaveRoom, NEW i \in Entry, Fired(i)', Lateness(i)' >= 0
               PROVE  cursor' <= i /\ Lateness(i)' < Waited(i)' * MaxGap
    BY DEF WaitsAccounted, PeriodsLeaveRoom
  <2>0. /\ i \in Nat /\ 1 <= i /\ i <= Len(Period) /\ Len(Period) \in Nat
        /\ Period[i] \in Nat /\ 1 <= Period[i] /\ MaxGap \in Nat /\ 0 < MaxGap
    BY PeriodFacts
  <2>1. i # cursor
    BY <1>4, <2>0 DEF Lateness
  <2>2. /\ age'[i] = age[i] /\ Fired(i) /\ age[i] \in Nat
        /\ Lateness(i)' = Lateness(i) /\ Lateness(i) >= 0
    BY <1>4, <2>1 DEF Fired, Lateness, SchedulerTyped
  <2> PICK l \in Nat : l = Lateness(i)
    BY <2>0, <2>2 DEF Lateness
  <2> PICK c \in Nat : c = Cardinality(Overtaking(i)) /\ c <= i - 1
    BY OvertakingBound
  <2> PICK d \in Nat : d = Cardinality(Overtaking(i)')
    BY OvertakingBoundNext
  <2>3. /\ cursor <= i /\ i <= registered
        /\ l < (c + 1) * MaxGap
    BY <1>1, <2>2 DEF WaitsAccounted, FiredWhileRunning, Waited
  <2>4. cursor \in 1 .. i - 1
    BY <1>2, <2>0, <2>1, <2>3
  <2>5. Overtaking(i)' = Overtaking(i) \cup {cursor}
    <3>1. \A j \in 1 .. i - 1 : j \in Entry
      BY <2>0, PeriodFacts
    <3>2. \A j \in 1 .. i - 1 :
            j # k => (Fired(j)' <=> Fired(j)) /\ age'[j] = age[j]
      BY <1>4, <3>1 DEF Fired
    <3>3. Fired(k)' /\ age'[k] <= Lateness(i)'
      BY <1>4, <2>2 DEF Fired
    <3> QED
      BY <2>2, <2>4, <3>2, <3>3 DEF Overtaking
  <2>6. d = IF cursor \in Overtaking(i) THEN c ELSE c + 1
    BY <2>5, FS_AddElement, OvertakingBound
  <2>7. CASE ~raises
    <3>1. cursor' = cursor + 1 /\ cursor' # 0 /\ cursor' <= i
      BY <1>1, <1>2, <2>0, <2>3, <2>4, <2>7, SMTT(30) DEF NextEntry
    <3>2. Waited(i)' = d + 1
      BY <3>1 DEF Waited
    <3>3. (c + 1) * MaxGap <= (d + 1) * MaxGap
      BY <2>0, <2>6, TicksMonotone, SMTT(30)
    <3>4. (c + 1) * MaxGap \in Nat /\ (d + 1) * MaxGap \in Nat
      BY <2>0, SMTT(30)
    <3> QED
      BY <2>2, <2>3, <3>1, <3>2, <3>3, <3>4
  <2>8. CASE raises
    <3>1. cursor' = 0 /\ Waited(i)' = d
      BY <1>1, <2>8 DEF Waited
    <3>2. cursor \notin Overtaking(i)
      <4> SUFFICES ASSUME Fired(cursor), age[cursor] <= l PROVE FALSE
        BY DEF Overtaking
      <4>1. /\ age[cursor] \in Nat /\ Period[cursor] \in Nat
            /\ age[cursor] >= Period[cursor]
        BY <1>1, <1>3, PeriodFacts DEF SinceFired, Fired, SchedulerTyped
      <4>2. Period[cursor] >= Len(Period) * MaxGap
        BY <1>3 DEF PeriodsLeaveRoom
      <4>3. /\ (c + 1) * MaxGap <= Len(Period) * MaxGap
            /\ (c + 1) * MaxGap \in Nat /\ Len(Period) * MaxGap \in Nat
        <5>1. c + 1 \in Nat /\ c + 1 <= Len(Period)
          BY <2>0
        <5> QED
          BY <2>0, <5>1, TicksMonotone
      <4> QED
        BY <2>3, <4>1, <4>2, <4>3
    <3>3. d = c + 1
      BY <2>6, <3>2
    <3> QED
      BY <2>0, <2>2, <2>3, <3>1, <3>3
  <2> QED
    BY <2>7, <2>8
<1> QED
  BY <1>5, <1>6, <1>7
-----------------------------------------------------------------------------
(* A step of the scheduler, or of anything else. *)
LEMMA SchedulerStep == SchedulerInv /\ [Next]_vars => SchedulerInv'
<1> SUFFICES ASSUME SchedulerInv, [Next]_vars PROVE SchedulerInv'
  OBVIOUS
<1>1. CASE UNCHANGED schedulerVars
  BY <1>1 DEF schedulerVars, SchedulerInv, SchedulerTyped, FiredWhileRunning, WaitsAccounted,
     Fired, Lateness, Overtaking, Waited
<1>2. CASE schedule_periodic
  <2>1. /\ cursor = 0 /\ registered' = registered + 1 /\ registered < Len(Period)
        /\ UNCHANGED <<running, now, age, cursor>>
    BY <1>2 DEF schedule_periodic
  <2>2. registered \in 0 .. Len(Period) /\ Len(Period) \in Nat
    BY PeriodFacts DEF SchedulerInv, SchedulerTyped
  <2>3. SchedulerTyped' /\ WaitsAccounted'
    BY <2>1, <2>2 DEF SchedulerInv, SchedulerTyped, WaitsAccounted, Fired, Lateness, Overtaking,
       Waited
  <2>4. FiredWhileRunning'
    BY <2>1, <2>2, PeriodFacts DEF SchedulerInv, FiredWhileRunning, Fired
  <2> QED
    BY <2>3, <2>4 DEF SchedulerInv
<1>3. CASE start
  BY <1>3 DEF start, SchedulerInv, SchedulerTyped, FiredWhileRunning, WaitsAccounted, Fired,
     Lateness, Overtaking, Waited
<1>4. ASSUME Setup PROVE schedule_periodic \/ start
  BY <1>4 DEF Setup
<1>5. CASE Tick
  BY <1>5, TickStep DEF Tick
<1>6. CASE Skip
  BY <1>6, SkipStep
<1>7. ASSUME Callback PROVE \E raises \in BOOLEAN : Fire(raises)
  BY <1>7 DEF Callback, SendOutOfRange, Send
<1>8. ASSUME NEW s \in Signal, NEW value \in Value[s], Pack(s, value)
      PROVE  UNCHANGED schedulerVars
  BY <1>8 DEF Pack
<1>9. ASSUME NEW t \in Transport, Receive(t)
      PROVE  UNCHANGED schedulerVars
  BY <1>9 DEF Receive
<1>10. ASSUME UNCHANGED vars PROVE UNCHANGED schedulerVars
  BY <1>10 DEF vars
<1> QED
  BY <1>1, <1>2, <1>3, <1>4, <1>5, <1>6, <1>7, <1>8, <1>9, <1>10, FireStep DEF Next

(* The scheduler's invariant, in every reachable state. *)
THEOREM SchedulerInvariance == Spec => []SchedulerInv
<1>1. Init => SchedulerInv
  <2> SUFFICES ASSUME SchedulerInit PROVE SchedulerInv
    BY DEF Init
  <2>1. SchedulerTyped
    <3>1. LongAgo \in Nat /\ now \in {0, LongAgo} /\ Len(Period) \in Nat
      BY PeriodFacts, SchedulerAssumption DEF SchedulerInit
    <3>2. now \in 0 .. LongAgo
      BY <3>1
    <3>3. age \in [Entry -> Nat \cup {Never}]
      BY DEF SchedulerInit
    <3>4. registered \in 0 .. Len(Period) /\ cursor \in 0 .. registered
      <4>1. registered = 0 /\ cursor = 0
        BY DEF SchedulerInit
      <4> QED
        BY <3>1, <4>1
    <3>5. running \in BOOLEAN
      BY DEF SchedulerInit
    <3> QED
      BY <3>2, <3>3, <3>4, <3>5 DEF SchedulerTyped
  <2>2. \A i \in Entry : ~Fired(i)
    BY DEF SchedulerInit, Fired
  <2> QED
    BY <2>1, <2>2 DEF SchedulerInit, SchedulerInv, FiredWhileRunning, WaitsAccounted
<1>2. SchedulerInv /\ [Next]_vars => SchedulerInv'
  BY SchedulerStep
<1> QED
  BY <1>1, <1>2, PTL DEF Spec

(* No entry is late by a tick for itself and one for each entry before it. *)
THEOREM LatenessBoundedHolds == Spec => []LatenessBounded
BY SchedulerInvariance, WaitsBounded, PTL
-----------------------------------------------------------------------------
(* Every nonempty set of naturals has a least element. *)
LEMMA LeastNatural ==
  ASSUME NEW T \in SUBSET Nat, T # {}
  PROVE  \E n \in T : \A m \in T : n <= m
<1> DEFINE R == OpToRel(<, Nat)
<1>1. IsWellFoundedOn(R, Nat)
  BY NatLessThanWellFounded
<1>2. R = {ss \in Nat \X Nat : ss[1] < ss[2]}
  BY DEF OpToRel
<1>3. PICK n \in T : \A m \in T : ~(<<m, n>> \in R)
  <2> HIDE DEF R
  <2> QED BY <1>1, WFMin
<1>4. \A m \in T : ~(m < n)
  BY <1>2, <1>3
<1> QED BY <1>4

(* Induction: a set with 0 and the successors of its members is Nat. *)
LEMMA Induction ==
  ASSUME NEW P \in SUBSET Nat, 0 \in P, \A n \in P : n + 1 \in P
  PROVE  P = Nat
<1> SUFFICES ASSUME Nat \ P # {} PROVE FALSE
  OBVIOUS
<1>1. PICK k \in Nat \ P : \A m \in Nat \ P : k <= m
  BY LeastNatural
<1>2. k - 1 \in Nat /\ ~(k <= k - 1) /\ k = (k - 1) + 1
  BY <1>1
<1>3. k - 1 \in P
  BY <1>1, <1>2
<1> QED BY <1>1, <1>2, <1>3

(* f begins with a and takes n steps of h. *)
Runs(f, n, S, a, h) ==
  /\ f \in [0 .. n -> S]
  /\ f[0] = a
  /\ \A i \in 0 .. n - 1 : f[i + 1] = h[<<i, f[i]>>]

(* A recursion can be run for any number of steps, *)
LEMMA RunExists ==
  ASSUME NEW S, NEW a \in S, NEW h \in [Nat \X S -> S]
  PROVE  \A n \in Nat : \E f : Runs(f, n, S, a, h)
<1> DEFINE P == {n \in Nat : \E f : Runs(f, n, S, a, h)}
<1>1. 0 \in P
  <2>1. Runs([i \in 0 .. 0 |-> a], 0, S, a, h)
    BY DEF Runs
  <2> QED BY <2>1
<1>2. ASSUME NEW n \in P PROVE n + 1 \in P
  <2>1. PICK f : Runs(f, n, S, a, h)
    OBVIOUS
  <2> DEFINE g == [i \in 0 .. n + 1 |-> IF i = n + 1 THEN h[<<n, f[n]>>] ELSE f[i]]
  <2>2. f[n] \in S /\ h[<<n, f[n]>>] \in S
    BY <2>1 DEF Runs
  <2>3. g \in [0 .. n + 1 -> S]
    BY <2>1, <2>2 DEF Runs
  <2>4. ASSUME NEW i \in 0 .. n PROVE g[i + 1] = h[<<i, g[i]>>]
    <3>1. i # n + 1 /\ i \in 0 .. n + 1 /\ i + 1 \in 0 .. n + 1
      OBVIOUS
    <3>2. i # n => i \in 0 .. n - 1 /\ i + 1 # n + 1
      OBVIOUS
    <3>3. i # n => f[i + 1] = h[<<i, f[i]>>]
      BY <2>1, <3>2 DEF Runs
    <3> QED BY <3>1, <3>2, <3>3
  <2>5. g[0] = a
    BY <2>1 DEF Runs
  <2> HIDE DEF g
  <2>6. 0 .. (n + 1) - 1 = 0 .. n
    OBVIOUS
  <2>7. Runs(g, n + 1, S, a, h)
    BY <2>3, <2>4, <2>5, <2>6 DEF Runs
  <2> QED BY <2>7
<1> HIDE DEF P
<1>3. P = Nat
  <2>1. P \in SUBSET Nat
    BY DEF P
  <2> QED BY <1>1, <1>2, <2>1, Induction
<1> QED BY <1>3 DEF P

(* and a longer run goes the same way. *)
LEMMA RunsAgree ==
  ASSUME NEW S, NEW a, NEW h, NEW n \in Nat,
         NEW f, Runs(f, n, S, a, h), NEW g, Runs(g, n + 1, S, a, h)
  PROVE  f[n] = g[n]
<1> DEFINE P == {i \in Nat : i <= n => f[i] = g[i]}
<1>1. 0 \in P
  BY DEF Runs
<1>2. ASSUME NEW i \in P PROVE i + 1 \in P
  <2> SUFFICES ASSUME i + 1 <= n PROVE f[i + 1] = g[i + 1]
    OBVIOUS
  <2>1. f[i] = g[i] /\ i \in 0 .. n - 1 /\ i \in 0 .. (n + 1) - 1
    OBVIOUS
  <2> QED BY <2>1 DEF Runs
<1> HIDE DEF P
<1>3. P = Nat
  <2>1. P \in SUBSET Nat
    BY DEF P
  <2> QED BY <1>1, <1>2, <2>1, Induction
<1> QED BY <1>3 DEF P

(* The function f on Nat that begins with a and goes on by h. *)
Recurs(f, a, h) ==
  /\ f[0] = a
  /\ \A n \in Nat : f[n + 1] = h[<<n, f[n]>>]

(* Primitive recursion defines a function on all of Nat. *)
LEMMA Recursion ==
  ASSUME NEW S, NEW a \in S, NEW h \in [Nat \X S -> S]
  PROVE  \E f \in [Nat -> S] : Recurs(f, a, h)
<1> DEFINE run(n) == CHOOSE f : Runs(f, n, S, a, h)
           f == [n \in Nat |-> run(n)[n]]
<1>1. \A n \in Nat : Runs(run(n), n, S, a, h)
  BY RunExists
<1> HIDE DEF run
<1>2. f \in [Nat -> S]
  BY <1>1 DEF Runs
<1>3. f[0] = a
  BY <1>1 DEF Runs
<1>4. ASSUME NEW n \in Nat PROVE f[n + 1] = h[<<n, f[n]>>]
  <2>1. n + 1 \in Nat /\ n \in 0 .. n /\ n \in 0 .. (n + 1) - 1
    OBVIOUS
  <2>2. Runs(run(n), n, S, a, h) /\ Runs(run(n + 1), n + 1, S, a, h)
    BY <1>1, <2>1
  <2>3. run(n)[n] = run(n + 1)[n]
    BY <2>2, RunsAgree
  <2>4. run(n + 1)[n + 1] = h[<<n, run(n + 1)[n]>>]
    BY <2>1, <2>2 DEF Runs
  <2> QED BY <2>1, <2>3, <2>4
<1> HIDE DEF f
<1> QED BY <1>2, <1>3, <1>4 DEF Recurs

-----------------------------------------------------------------------------
(* A loop of n rounds, in the form the operators of the model have. *)
Loops(v, n, S, a, h) ==
  /\ v \in [0 .. n -> S]
  /\ v[0] = a
  /\ \A i \in 1 .. n : v[i] = h[<<i, v[i - 1]>>]

(* Such a loop can be run. *)
LEMMA LoopExists ==
  ASSUME NEW S, NEW a \in S, NEW n \in Nat, NEW h \in [(1 .. n) \X S -> S]
  PROVE  \E v : Loops(v, n, S, a, h)
<1> DEFINE hh == [x \in Nat \X S |-> IF x[1] < n THEN h[<<x[1] + 1, x[2]>>] ELSE a]
<1>1. hh \in [Nat \X S -> S]
  <2>1. ASSUME NEW x \in Nat \X S, x[1] < n PROVE h[<<x[1] + 1, x[2]>>] \in S
    <3>1. <<x[1] + 1, x[2]>> \in (1 .. n) \X S
      BY <2>1
    <3> QED BY <3>1
  <2> QED BY <2>1
<1>2. \A i \in 0 .. n - 1, x \in S : hh[<<i, x>>] = h[<<i + 1, x>>]
  OBVIOUS
<1> HIDE DEF hh
<1>3. PICK v : Runs(v, n, S, a, hh)
  BY <1>1, RunExists
<1>4. ASSUME NEW i \in 1 .. n PROVE v[i] = h[<<i, v[i - 1]>>]
  <2>1. PICK j \in 0 .. n - 1 : i = j + 1 /\ i - 1 = j
    <3>1. i - 1 \in 0 .. n - 1 /\ i = (i - 1) + 1
      OBVIOUS
    <3> QED BY <3>1
  <2>2. v[j + 1] = hh[<<j, v[j]>>] /\ v[j] \in S
    BY <1>3 DEF Runs
  <2> QED BY <1>2, <2>1, <2>2
<1>5. Loops(v, n, S, a, h)
  BY <1>3, <1>4 DEF Loops, Runs
<1> QED BY <1>5

(* The powers of a base. *)
Powers(pow, b) ==
  /\ \A n \in Nat : pow[n] \in Nat \ {0}
  /\ pow[0] = 1
  /\ \A n \in Nat : pow[n + 1] = b * pow[n]

IsPower(f, b) == f = [n \in Nat |-> IF n = 0 THEN 1 ELSE b * f[n - 1]]

(* They are what the model's definition of them says. *)
LEMMA PowersOf ==
  ASSUME NEW b \in Nat \ {0}, NEW pow, pow = CHOOSE f : IsPower(f, b)
  PROVE  Powers(pow, b)
<1> DEFINE S == Nat \ {0}
           one == 1
           h == [x \in Nat \X S |-> b * x[2]]
<1>1. h \in [Nat \X S -> S] /\ one \in S
  <2>1. \A x \in Nat \X S : b * x[2] \in S
    OBVIOUS
  <2> QED BY <2>1
<1>2. PICK f \in [Nat -> S] : Recurs(f, one, h)
  <2> HIDE DEF h, S, one
  <2> QED BY <1>1, Recursion
<1>3. IsPower(f, b)
  <2>1. ASSUME NEW n \in Nat, n # 0 PROVE f[n] = b * f[n - 1]
    <3>1. n - 1 \in Nat /\ n = (n - 1) + 1
      BY <2>1
    <3> QED BY <1>2, <3>1 DEF Recurs
  <2> QED BY <1>2, <2>1 DEF Recurs, IsPower
<1>4. IsPower(pow, b)
  BY <1>3
<1>5. \A n \in Nat : pow[n] = IF n = 0 THEN 1 ELSE b * pow[n - 1]
  BY <1>4 DEF IsPower
<1>6. ASSUME NEW n \in Nat PROVE pow[n + 1] = b * pow[n]
  <2>1. n + 1 \in Nat /\ n + 1 # 0 /\ (n + 1) - 1 = n
    OBVIOUS
  <2> QED BY <1>5, <2>1
<1> DEFINE P == {n \in Nat : pow[n] \in S}
<1>7. 0 \in P
  BY <1>5
<1>8. ASSUME NEW n \in P PROVE n + 1 \in P
  <2>1. pow[n] \in S /\ n \in Nat
    OBVIOUS
  <2>2. b * pow[n] \in S
    BY <2>1
  <2> QED BY <1>6, <2>1, <2>2
<1>9. P = Nat
  <2>1. P \in SUBSET Nat
    OBVIOUS
  <2> HIDE DEF P
  <2> QED BY <1>7, <1>8, <2>1, Induction
<1> QED BY <1>5, <1>6, <1>9 DEF Powers

(* The two the layouts are made with. *)
LEMMA PowerOfTwoDef == Powers(PowerOfTwo, 2)
<1>1. PowerOfTwo = CHOOSE f : IsPower(f, 2)
  BY DEF PowerOfTwo, IsPower
<1> DEFINE two == 2
<1>2. two \in Nat \ {0}
  OBVIOUS
<1> HIDE DEF two
<1>3. PowerOfTwo = (CHOOSE f : IsPower(f, two)) => Powers(PowerOfTwo, two)
  BY <1>2, PowersOf
<1> QED BY <1>1, <1>3 DEF two

(* The other one. *)
LEMMA PowerOf256Def == Powers(PowerOf256, 256)
<1>1. PowerOf256 = CHOOSE f : IsPower(f, 256)
  BY DEF PowerOf256, IsPower
<1> DEFINE base == 256
<1>2. base \in Nat \ {0}
  OBVIOUS
<1> HIDE DEF base
<1>3. PowerOf256 = (CHOOSE f : IsPower(f, base)) => Powers(PowerOf256, base)
  BY <1>2, PowersOf
<1> QED BY <1>1, <1>3 DEF base
-----------------------------------------------------------------------------
-----------------------------------------------------------------------------
(* Division with a known quotient. *)
LEMMA DivUnique ==
  ASSUME NEW m \in Nat \ {0}, NEW q \in Nat, NEW r \in 0 .. m - 1
  PROVE  (q * m + r) \div m = q
OBVIOUS

(* Quotient and remainder. *)
LEMMA DivMod ==
  ASSUME NEW n \in Nat, NEW m \in Nat \ {0}
  PROVE  /\ n \div m \in Nat
         /\ n % m \in 0 .. m - 1
         /\ n = (n \div m) * m + (n % m)
OBVIOUS

(* One digit more: the digit of weight m is the remainder by the base. *)
LEMMA DivStep ==
  ASSUME NEW n \in Nat, NEW m \in Nat \ {0}, NEW b \in Nat \ {0}
  PROVE  n \div m = b * (n \div (b * m)) + ((n \div m) % b)
<1> DEFINE q == n \div m
           r == n % m
           qq == q \div b
           d == q % b
<1>1. q \in Nat /\ r \in 0 .. m - 1 /\ n = q * m + r
  BY DivMod
<1>2. qq \in Nat /\ d \in 0 .. b - 1 /\ q = qq * b + d
  BY <1>1, DivMod
<1> HIDE DEF q, r, qq, d
<1>3. b * m \in Nat \ {0} /\ d * m \in Nat /\ d * m <= (b - 1) * m /\ (b - 1) * m = b * m - m
  BY <1>2
<1>4. d * m + r \in 0 .. b * m - 1
  BY <1>1, <1>3
<1>5. n = qq * (b * m) + (d * m + r)
  <2>1. q * m = qq * (b * m) + d * m
    BY <1>2
  <2>2. qq * (b * m) \in Nat
    BY <1>2, <1>3
  <2> DEFINE x == q * m
             y == qq * (b * m)
             z == d * m
  <2>3. n = x + r /\ x = y + z /\ x \in Nat /\ y \in Nat /\ z \in Nat
    BY <1>1, <1>3, <2>1, <2>2
  <2> HIDE DEF x, y, z
  <2>4. n = y + (z + r)
    BY <1>1, <2>3
  <2> QED BY <2>4 DEF y, z
<1>6. n \div (b * m) = qq
  <2> DEFINE k == b * m
             s == d * m + r
  <2>1. k \in Nat \ {0} /\ s \in 0 .. k - 1 /\ n = qq * k + s
    BY <1>3, <1>4, <1>5
  <2> HIDE DEF k, s
  <2>2. n \div k = qq
    BY <1>2, <2>1, DivUnique
  <2> QED BY <2>2 DEF k
<1>7. q = b * qq + d
  BY <1>2
<1> QED BY <1>6, <1>7 DEF q, d

(* A number put together from its digits, the most significant one first. *)
Horner(v, d, b, length) ==
  v = [i \in 0 .. length |-> IF i = 0 THEN 0 ELSE b * v[i - 1] + d[i]]

(* It can be. *)
LEMMA HornerExists ==
  ASSUME NEW b \in Nat, NEW length \in Nat, NEW d, \A i \in 1 .. length : d[i] \in Nat
  PROVE  \E v : Horner(v, d, b, length)
<1> DEFINE h == [x \in (1 .. length) \X Nat |-> b * x[2] + d[x[1]]]
           zero == 0
<1>1. h \in [(1 .. length) \X Nat -> Nat] /\ zero \in Nat
  <2>1. ASSUME NEW x \in (1 .. length) \X Nat PROVE b * x[2] + d[x[1]] \in Nat
    <3>1. x[2] \in Nat /\ d[x[1]] \in Nat
      OBVIOUS
    <3>2. b * x[2] \in Nat
      BY <3>1
    <3> QED BY <3>1, <3>2
  <2> QED BY <2>1
<1>2. PICK v : Loops(v, length, Nat, zero, h)
  <2> HIDE DEF h, zero
  <2> QED BY <1>1, LoopExists
<1>3. ASSUME NEW i \in 0 .. length PROVE v[i] = IF i = 0 THEN 0 ELSE b * v[i - 1] + d[i]
  <2>1. CASE i = 0
    BY <1>2, <2>1 DEF Loops
  <2>2. CASE i # 0
    <3>1. i \in 1 .. length /\ i - 1 \in 0 .. length
      BY <2>2
    <3>2. v[i] = h[<<i, v[i - 1]>>] /\ v[i - 1] \in Nat
      BY <1>2, <3>1 DEF Loops
    <3> QED BY <2>2, <3>1, <3>2
  <2> QED BY <2>1, <2>2
<1>4. v = [i \in 0 .. length |-> v[i]]
  BY <1>2 DEF Loops
<1>5. Horner(v, d, b, length)
  BY <1>3, <1>4 DEF Horner
<1> QED BY <1>5

(* Putting the digits of n together gives n back. *)
LEMMA HornerDigits ==
  ASSUME NEW b \in Nat \ {0}, NEW pow, Powers(pow, b), NEW length \in Nat,
         NEW n \in Nat, n < pow[length], NEW d, NEW v, Horner(v, d, b, length),
         \A i \in 1 .. length : d[i] = (n \div pow[length - i]) % b
  PROVE  v[length] = n
<1> DEFINE P == {i \in Nat : i <= length => v[i] = n \div pow[length - i]}
<1>1. 0 \in P
  <2>1. v[0] = 0
    BY DEF Horner
  <2>2. n \div pow[length] = 0
    <3> DEFINE m == pow[length]
    <3>1. m \in Nat \ {0} /\ n \in 0 .. m - 1
      BY DEF Powers
    <3> HIDE DEF m
    <3>2. (0 * m + n) \div m = 0
      BY <3>1, DivUnique
    <3> QED BY <3>1, <3>2 DEF m
  <2> QED BY <2>1, <2>2
<1>2. ASSUME NEW i \in P PROVE i + 1 \in P
  <2> SUFFICES ASSUME i + 1 <= length PROVE v[i + 1] = n \div pow[length - (i + 1)]
    OBVIOUS
  <2>1. PICK j \in Nat : j = length - (i + 1) /\ length - i = j + 1
    <3>1. length - (i + 1) \in Nat /\ length - i = (length - (i + 1)) + 1
      OBVIOUS
    <3> QED BY <3>1
  <2>2. v[i] = n \div pow[j + 1]
    BY <2>1
  <2>3. v[i + 1] = b * v[i] + d[i + 1]
    <3>1. i + 1 \in 0 .. length /\ i + 1 # 0 /\ (i + 1) - 1 = i
      OBVIOUS
    <3> QED BY <3>1 DEF Horner
  <2>4. d[i + 1] = (n \div pow[j]) % b
    BY <2>1
  <2>5. pow[j + 1] = b * pow[j] /\ pow[j] \in Nat \ {0}
    BY DEF Powers
  <2>6. n \div pow[j] = b * (n \div (b * pow[j])) + ((n \div pow[j]) % b)
    BY <2>5, DivStep
  <2>7. v[i + 1] = n \div pow[j]
    BY <2>2, <2>3, <2>4, <2>5, <2>6, Zenon
  <2> QED BY <2>1, <2>7
<1> HIDE DEF P
<1>3. P = Nat
  <2>1. P \in SUBSET Nat
    BY DEF P
  <2> QED BY <1>1, <1>2, <2>1, Induction
<1>4. v[length] = n \div pow[length - length]
  BY <1>3 DEF P
<1>5. length - length = 0 /\ n \div 1 = n
  OBVIOUS
<1> QED BY <1>4, <1>5 DEF Powers

-----------------------------------------------------------------------------
(* Python's rounding is off by half a divisor at most. *)
LEMMA RoundError ==
  ASSUME NEW n \in Int, NEW d \in Nat \ {0}
  PROVE  /\ RoundHalfEven(n, d) \in Int
         /\ 2 * (RoundHalfEven(n, d) * d - n) \in -d .. d
<1> DEFINE q == n \div d
           r == n % d
<1>1. q \in Int /\ r \in 0 .. d - 1 /\ n = q * d + r
  OBVIOUS
<1>2. RoundHalfEven(n, d) = IF 2 * r > d \/ (2 * r = d /\ q % 2 = 1) THEN q + 1 ELSE q
  BY DEF RoundHalfEven
<1> HIDE DEF q, r
<1>3. (q + 1) * d = q * d + d /\ q * d \in Int
  BY <1>1
<1>4. CASE RoundHalfEven(n, d) = q + 1 /\ 2 * r >= d
  BY <1>1, <1>3, <1>4
<1>5. CASE RoundHalfEven(n, d) = q /\ 2 * r <= d
  BY <1>1, <1>3, <1>5
<1> QED BY <1>1, <1>2, <1>4, <1>5
-----------------------------------------------------------------------------
(* The masks of a byte. *)
LEMMA SmallPowers ==
  /\ PowerOfTwo[0] = 1 /\ PowerOfTwo[1] = 2 /\ PowerOfTwo[2] = 4 /\ PowerOfTwo[3] = 8
  /\ PowerOfTwo[4] = 16 /\ PowerOfTwo[5] = 32 /\ PowerOfTwo[6] = 64 /\ PowerOfTwo[7] = 128
<1>1. PowerOfTwo[0] = 1 /\ \A n \in Nat : PowerOfTwo[n + 1] = 2 * PowerOfTwo[n]
  BY PowerOfTwoDef DEF Powers
<1>2. PowerOfTwo[0 + 1] = 2 * PowerOfTwo[0] /\ PowerOfTwo[1 + 1] = 2 * PowerOfTwo[1]
      /\ PowerOfTwo[2 + 1] = 2 * PowerOfTwo[2] /\ PowerOfTwo[3 + 1] = 2 * PowerOfTwo[3]
      /\ PowerOfTwo[4 + 1] = 2 * PowerOfTwo[4] /\ PowerOfTwo[5 + 1] = 2 * PowerOfTwo[5]
      /\ PowerOfTwo[6 + 1] = 2 * PowerOfTwo[6]
  BY <1>1
<1> QED BY <1>1, <1>2

(* Bit k of a byte, from the least significant one, and the byte of eight bits. *)
Bit(v, k) == (v \div PowerOfTwo[k]) % 2

Octet(b) ==
  128 * b[7] + 64 * b[6] + 32 * b[5] + 16 * b[4] + 8 * b[3] + 4 * b[2] + 2 * b[1] + b[0]

(* The bits of eight bits are these. *)
LEMMA OctetBits ==
  ASSUME NEW b \in [0 .. 7 -> 0 .. 1]
  PROVE  Octet(b) \in Byte /\ \A k \in 0 .. 7 : Bit(Octet(b), k) = b[k]
<1>1. PICK b7, b6, b5, b4, b3, b2, b1, b0 \in 0 .. 1 :
        /\ b[7] = b7 /\ b[6] = b6 /\ b[5] = b5 /\ b[4] = b4
        /\ b[3] = b3 /\ b[2] = b2 /\ b[1] = b1 /\ b[0] = b0
  OBVIOUS
<1> DEFINE u == 128 * b7 + 64 * b6 + 32 * b5 + 16 * b4 + 8 * b3 + 4 * b2 + 2 * b1 + b0
<1>2. Octet(b) = u
  BY <1>1 DEF Octet
<1>3. u \in 0 .. 255
  OBVIOUS
<1>4. ((u \div 1) % 2) = b0 /\ ((u \div 2) % 2) = b1
  OBVIOUS
<1>5. ((u \div 4) % 2) = b2 /\ ((u \div 8) % 2) = b3
  OBVIOUS
<1>6. ((u \div 16) % 2) = b4 /\ ((u \div 32) % 2) = b5
  OBVIOUS
<1>7. ((u \div 64) % 2) = b6 /\ ((u \div 128) % 2) = b7
  OBVIOUS
<1> HIDE DEF u
<1>8. /\ Bit(u, 0) = b[0] /\ Bit(u, 1) = b[1] /\ Bit(u, 2) = b[2] /\ Bit(u, 3) = b[3]
      /\ Bit(u, 4) = b[4] /\ Bit(u, 5) = b[5] /\ Bit(u, 6) = b[6] /\ Bit(u, 7) = b[7]
  <2>1. u \in Nat
    BY <1>3
  <2> QED BY <1>1, <1>4, <1>5, <1>6, <1>7, <2>1, SmallPowers, SMT DEF Bit
<1> QED BY <1>2, <1>3, <1>8 DEF Byte

(* A byte is the byte of its bits. *)
LEMMA BitsOctet ==
  ASSUME NEW v \in Byte
  PROVE  /\ \A k \in 0 .. 7 : Bit(v, k) \in 0 .. 1
         /\ v = Octet([k \in 0 .. 7 |-> Bit(v, k)])
<1>1. ASSUME NEW m \in Nat \ {0} PROVE (v \div m) % 2 \in 0 .. 1
  <2>1. v \div m \in Nat
    BY DivMod DEF Byte
  <2> QED BY <2>1
<1>2. \A k \in 0 .. 7 : Bit(v, k) \in 0 .. 1
  BY <1>1, PowerOfTwoDef DEF Bit, Powers
<1>3. v = 128 * ((v \div 128) % 2) + 64 * ((v \div 64) % 2) + 32 * ((v \div 32) % 2)
          + 16 * ((v \div 16) % 2) + 8 * ((v \div 8) % 2) + 4 * ((v \div 4) % 2)
          + 2 * ((v \div 2) % 2) + ((v \div 1) % 2)
  BY DEF Byte
<1>4. v = 128 * Bit(v, 7) + 64 * Bit(v, 6) + 32 * Bit(v, 5) + 16 * Bit(v, 4) + 8 * Bit(v, 3)
          + 4 * Bit(v, 2) + 2 * Bit(v, 1) + Bit(v, 0)
  BY <1>3, SmallPowers, SMT DEF Bit, Byte
<1> QED BY <1>2, <1>4 DEF Octet

(* The byte w is v with one bit changed. *)
Changed(v, w, k, bit) ==
  /\ w \in Byte
  /\ \A j \in 0 .. 7 : Bit(w, j) = IF j = k THEN bit ELSE Bit(v, j)

(* Changing one bit of a byte leaves a byte and the other bits. *)
LEMMA PutBit ==
  ASSUME NEW v \in Byte, NEW k \in 0 .. 7, NEW bit \in 0 .. 1
  PROVE  Changed(v, v + (bit - Bit(v, k)) * PowerOfTwo[k], k, bit)
<1> DEFINE old == [j \in 0 .. 7 |-> Bit(v, j)]
           new == [old EXCEPT ![k] = bit]
<1>1. old \in [0 .. 7 -> 0 .. 1] /\ old[k] = Bit(v, k) /\ v = Octet(old)
  BY BitsOctet
<1>2. new \in [0 .. 7 -> 0 .. 1] /\ \A j \in 0 .. 7 : new[j] = IF j = k THEN bit ELSE Bit(v, j)
  BY <1>1
<1>3. \A j \in 0 .. 7 : new[j] = IF j = k THEN bit ELSE old[j]
  BY <1>1
<1> HIDE DEF old, new
<1>4. Octet(new) = v + (bit - Bit(v, k)) * PowerOfTwo[k]
  <2>1. PICK o7, o6, o5, o4, o3, o2, o1, o0 \in 0 .. 1 :
          /\ old[7] = o7 /\ old[6] = o6 /\ old[5] = o5 /\ old[4] = o4
          /\ old[3] = o3 /\ old[2] = o2 /\ old[1] = o1 /\ old[0] = o0
    BY <1>1
  <2>2. k \in {0, 1, 2, 3, 4, 5, 6, 7}
    OBVIOUS
  <2>3. /\ new[7] = (IF k = 7 THEN bit ELSE o7) /\ new[6] = (IF k = 6 THEN bit ELSE o6)
        /\ new[5] = (IF k = 5 THEN bit ELSE o5) /\ new[4] = (IF k = 4 THEN bit ELSE o4)
        /\ new[3] = (IF k = 3 THEN bit ELSE o3) /\ new[2] = (IF k = 2 THEN bit ELSE o2)
        /\ new[1] = (IF k = 1 THEN bit ELSE o1) /\ new[0] = (IF k = 0 THEN bit ELSE o0)
    BY <1>3, <2>1
  <2>4. Octet(new) = Octet(old) + (bit - old[k]) * PowerOfTwo[k]
    <3>1. CASE k = 0
      <4>1. Octet(new) = Octet(old) + (bit - o0) * 1
        BY <2>1, <2>3, <3>1 DEF Octet
      <4> QED BY <2>1, <3>1, <4>1, SmallPowers
    <3>2. CASE k = 1
      <4>1. Octet(new) = Octet(old) + (bit - o1) * 2
        BY <2>1, <2>3, <3>2 DEF Octet
      <4> QED BY <2>1, <3>2, <4>1, SmallPowers
    <3>3. CASE k = 2
      <4>1. Octet(new) = Octet(old) + (bit - o2) * 4
        BY <2>1, <2>3, <3>3 DEF Octet
      <4> QED BY <2>1, <3>3, <4>1, SmallPowers
    <3>4. CASE k = 3
      <4>1. Octet(new) = Octet(old) + (bit - o3) * 8
        BY <2>1, <2>3, <3>4 DEF Octet
      <4> QED BY <2>1, <3>4, <4>1, SmallPowers
    <3>5. CASE k = 4
      <4>1. Octet(new) = Octet(old) + (bit - o4) * 16
        BY <2>1, <2>3, <3>5 DEF Octet
      <4> QED BY <2>1, <3>5, <4>1, SmallPowers
    <3>6. CASE k = 5
      <4>1. Octet(new) = Octet(old) + (bit - o5) * 32
        BY <2>1, <2>3, <3>6 DEF Octet
      <4> QED BY <2>1, <3>6, <4>1, SmallPowers
    <3>7. CASE k = 6
      <4>1. Octet(new) = Octet(old) + (bit - o6) * 64
        BY <2>1, <2>3, <3>7 DEF Octet
      <4> QED BY <2>1, <3>7, <4>1, SmallPowers
    <3>8. CASE k = 7
      <4>1. Octet(new) = Octet(old) + (bit - o7) * 128
        BY <2>1, <2>3, <3>8 DEF Octet
      <4> QED BY <2>1, <3>8, <4>1, SmallPowers
    <3> QED BY <2>2, <3>1, <3>2, <3>3, <3>4, <3>5, <3>6, <3>7, <3>8
  <2> QED BY <1>1, <2>4
<1> QED BY <1>2, <1>4, OctetBits DEF Changed
-----------------------------------------------------------------------------
-----------------------------------------------------------------------------
(* A bit of a PDU is a bit of one of its bytes. *)
LEMMA Position ==
  ASSUME NEW length \in Nat, NEW b \in 0 .. 8 * length - 1
  PROVE  b \div 8 + 1 \in 1 .. length /\ b % 8 \in 0 .. 7 /\ b = 8 * (b \div 8) + (b % 8)
OBVIOUS

(* A PDU of so many bytes. *)
Pdu(length) == [1 .. length -> Byte]

(* Its bits. *)
LEMMA PduBits ==
  ASSUME NEW length \in Nat, NEW data \in Pdu(length), NEW b \in 0 .. 8 * length - 1
  PROVE  /\ data[b \div 8 + 1] \in Byte
         /\ BitAt(data, b) = Bit(data[b \div 8 + 1], 7 - (b % 8))
         /\ BitAt(data, b) \in 0 .. 1
<1>1. b \div 8 + 1 \in 1 .. length /\ 7 - (b % 8) \in 0 .. 7
  BY Position
<1>2. data[b \div 8 + 1] \in Byte
  BY <1>1 DEF Pdu
<1>3. BitAt(data, b) = Bit(data[b \div 8 + 1], 7 - (b % 8))
  BY Zenon DEF BitAt, Bit
<1> QED BY <1>1, <1>2, <1>3, BitsOctet, Zenon

(* The PDU new is data with one bit changed. *)
Changes(data, new, length, b, bit) ==
  /\ new \in Pdu(length)
  /\ \A c \in 0 .. 8 * length - 1 : BitAt(new, c) = IF c = b THEN bit ELSE BitAt(data, c)

(* Setting a bit of a PDU sets that one only. *)
LEMMA PutLemma ==
  ASSUME NEW length \in Nat, NEW data \in Pdu(length), NEW b \in 0 .. 8 * length - 1,
         NEW bit \in 0 .. 1
  PROVE  Changes(data, Put(data, b, bit), length, b, bit)
<1> DEFINE i == b \div 8 + 1
           k == 7 - (b % 8)
           w == data[i] + (bit - Bit(data[i], k)) * PowerOfTwo[k]
           new == [data EXCEPT ![i] = w]
<1>1. i \in 1 .. length /\ k \in 0 .. 7 /\ data[i] \in Byte
  <2>1. i \in 1 .. length /\ k \in 0 .. 7
    BY Position
  <2> QED BY <2>1 DEF Pdu
<1>2. Put(data, b, bit) = new
  <2>1. BitAt(data, b) = Bit(data[i], k)
    BY PduBits
  <2> QED BY <2>1, Zenon DEF Put
<1>3. Changed(data[i], w, k, bit)
  <2> HIDE DEF i, k
  <2> QED BY <1>1, PutBit
<1> HIDE DEF w
<1>4. new \in Pdu(length) /\ \A h \in 1 .. length : new[h] = IF h = i THEN w ELSE data[h]
  BY <1>1, <1>3 DEF Pdu, Changed
<1> HIDE DEF new
<1>5. ASSUME NEW c \in 0 .. 8 * length - 1
      PROVE  BitAt(new, c) = IF c = b THEN bit ELSE BitAt(data, c)
  <2> DEFINE ci == c \div 8 + 1
             ck == 7 - (c % 8)
  <2>1. ci \in 1 .. length /\ ck \in 0 .. 7
    BY Position
  <2>2. BitAt(new, c) = Bit(new[ci], ck) /\ BitAt(data, c) = Bit(data[ci], ck)
    BY <1>4, PduBits
  <2>3. c = b <=> ci = i /\ ck = k
    BY Position
  <2> HIDE DEF ci, ck, i, k
  <2> QED BY <1>3, <1>4, <2>1, <2>2, <2>3 DEF Changed
<1> QED BY <1>2, <1>4, <1>5 DEF Changes

-----------------------------------------------------------------------------
(* Binary digit j of a number of so many, from the most significant one. *)
Digit(raw, width, j) == (raw \div PowerOfTwo[width - j]) % 2

(* The bits from offset on are the number's. *)
Holds(data, offset, width, raw) ==
  \A j \in 1 .. width : BitAt(data, offset + j - 1) = Digit(raw, width, j)

(* It is a digit. *)
LEMMA DigitType ==
  ASSUME NEW raw \in Nat, NEW width \in Nat, NEW j \in 1 .. width
  PROVE  Digit(raw, width, j) \in 0 .. 1
<1> DEFINE m == PowerOfTwo[width - j]
<1>1. m \in Nat \ {0}
  BY PowerOfTwoDef DEF Powers
<1> HIDE DEF m
<1>2. raw \div m \in Nat
  BY <1>1, DivMod
<1>3. ((raw \div m) % 2) \in 0 .. 1
  BY <1>2
<1> QED BY <1>3 DEF m, Digit

(* The loop of set_bits. *)
SetLoop(v, data, offset, width, raw) ==
  v = [i \in 0 .. width |->
         IF i = 0 THEN data
         ELSE Put(v[i - 1], offset + i - 1, (raw \div PowerOfTwo[width - i]) % 2)]

(* The PDU new is data with the number written from offset on. *)
Written(data, new, length, offset, width, raw) ==
  /\ new \in Pdu(length)
  /\ Holds(new, offset, width, raw)
  /\ \A c \in (0 .. 8 * length - 1) \ (offset .. offset + width - 1) :
       BitAt(new, c) = BitAt(data, c)

(* set_bits writes the number's digits and no other bit. *)
LEMMA SetBits ==
  ASSUME NEW length \in Nat, NEW data \in Pdu(length), NEW offset \in Nat, NEW width \in Nat,
         \A b \in offset .. offset + width - 1 : b < 8 * length,
         NEW raw \in Nat
  PROVE  Written(data, set_bits(data, offset, width, raw), length, offset, width, raw)
<1> DEFINE S == Pdu(length)
           h == [x \in (1 .. width) \X S |-> Put(x[2], offset + x[1] - 1, Digit(raw, width, x[1]))]
           w == CHOOSE v : SetLoop(v, data, offset, width, raw)
<1>1. \A j \in 1 .. width : offset + j - 1 \in 0 .. 8 * length - 1 /\ Digit(raw, width, j) \in 0 .. 1
  BY DigitType
<1>2. h \in [(1 .. width) \X S -> S]
  <2>1. ASSUME NEW x \in (1 .. width) \X S
        PROVE  Put(x[2], offset + x[1] - 1, Digit(raw, width, x[1])) \in S
    <3>1. x[1] \in 1 .. width /\ x[2] \in S
      OBVIOUS
    <3> QED BY <1>1, <3>1, PutLemma DEF Changes
  <2> HIDE DEF S
  <2> QED BY <2>1
<1>3. PICK u : Loops(u, width, S, data, h)
  <2> HIDE DEF h, S
  <2>1. data \in S
    BY DEF S
  <2> QED BY <1>2, <2>1, LoopExists
<1>4. SetLoop(u, data, offset, width, raw)
  <2>1. ASSUME NEW i \in 0 .. width
        PROVE  u[i] = IF i = 0 THEN data
                      ELSE Put(u[i - 1], offset + i - 1, (raw \div PowerOfTwo[width - i]) % 2)
    <3>1. CASE i = 0
      BY <1>3, <3>1 DEF Loops
    <3>2. CASE i # 0
      <4>1. i \in 1 .. width /\ i - 1 \in 0 .. width
        BY <3>2
      <4>2. u[i] = h[<<i, u[i - 1]>>] /\ u[i - 1] \in S
        BY <1>3, <4>1 DEF Loops
      <4> HIDE DEF S
      <4> QED BY <3>2, <4>1, <4>2 DEF Digit
    <3> QED BY <3>1, <3>2
  <2>2. u = [i \in 0 .. width |-> u[i]]
    BY <1>3 DEF Loops
  <2> QED BY <2>1, <2>2 DEF SetLoop
<1>5. SetLoop(w, data, offset, width, raw)
  BY <1>4
<1>6. set_bits(data, offset, width, raw) = w[width]
  BY DEF set_bits, SetLoop
<1> HIDE DEF h, w
<1>7. w[0] = data /\ \A i \in 1 .. width : w[i] = Put(w[i - 1], offset + i - 1, Digit(raw, width, i))
  BY <1>5 DEF SetLoop, Digit
<1> DEFINE Done(i) ==
      /\ w[i] \in S
      /\ \A j \in 1 .. i : BitAt(w[i], offset + j - 1) = Digit(raw, width, j)
      /\ \A c \in (0 .. 8 * length - 1) \ (offset .. offset + i - 1) :
           BitAt(w[i], c) = BitAt(data, c)
    P == {i \in Nat : i <= width => Done(i)}
<1>8. 0 \in P
  <2>1. Done(0)
    BY <1>7
  <2> QED BY <2>1
<1>9. ASSUME NEW i \in P PROVE i + 1 \in P
  <2> SUFFICES ASSUME i + 1 <= width PROVE Done(i + 1)
    OBVIOUS
  <2>1. Done(i) /\ i \in Nat
    OBVIOUS
  <2> DEFINE b == offset + i
             bit == Digit(raw, width, i + 1)
  <2>2. i + 1 \in 1 .. width /\ (i + 1) - 1 = i /\ offset + (i + 1) - 1 = b
    BY <2>1
  <2>3. b \in 0 .. 8 * length - 1 /\ bit \in 0 .. 1 /\ w[i + 1] = Put(w[i], b, bit)
    BY <1>1, <1>7, <2>2
  <2> HIDE DEF bit
  <2>4. /\ w[i + 1] \in S
        /\ \A c \in 0 .. 8 * length - 1 : BitAt(w[i + 1], c) = IF c = b THEN bit ELSE BitAt(w[i], c)
    <3>1. w[i] \in S
      BY <2>1
    <3> HIDE DEF b
    <3>2. Changes(w[i], w[i + 1], length, b, bit)
      BY <2>3, <3>1, PutLemma
    <3> QED BY <3>2 DEF Changes
  <2>5. ASSUME NEW j \in 1 .. i + 1
        PROVE  BitAt(w[i + 1], offset + j - 1) = Digit(raw, width, j)
    <3>1. CASE j = i + 1
      BY <2>2, <2>3, <2>4, <3>1 DEF bit
    <3>2. CASE j # i + 1
      <4>1. j \in 1 .. i /\ offset + j - 1 \in 0 .. 8 * length - 1 /\ offset + j - 1 # b
        <5>1. j \in 1 .. i /\ j \in 1 .. width
          BY <2>1, <3>2
        <5> QED BY <1>1, <5>1
      <4>2. BitAt(w[i], offset + j - 1) = Digit(raw, width, j)
        BY <2>1, <4>1
      <4> QED BY <2>4, <4>1, <4>2
    <3> QED BY <3>1, <3>2
  <2>6. ASSUME NEW c \in (0 .. 8 * length - 1) \ (offset .. offset + (i + 1) - 1)
        PROVE  BitAt(w[i + 1], c) = BitAt(data, c)
    <3>1. c \in (0 .. 8 * length - 1) \ (offset .. offset + i - 1) /\ c # b
      BY <2>1
    <3> QED BY <2>1, <2>4, <3>1
  <2> QED BY <2>4, <2>5, <2>6
<1> HIDE DEF P, Done
<1>10. P = Nat
  <2>1. P \in SUBSET Nat
    BY DEF P
  <2> QED BY <1>8, <1>9, <2>1, Induction
<1>11. Done(width)
  BY <1>10 DEF P
<1> QED BY <1>6, <1>11 DEF Done, Holds, Written

(* The loop of get_bits. *)
GetLoop(v, data, offset, width) ==
  v = [i \in 0 .. width |-> IF i = 0 THEN 0 ELSE 2 * v[i - 1] + BitAt(data, offset + i - 1)]

(* get_bits reads back what the bits hold. *)
LEMMA GetBits ==
  ASSUME NEW length \in Nat, NEW data \in Pdu(length), NEW offset \in Nat, NEW width \in Nat,
         \A b \in offset .. offset + width - 1 : b < 8 * length,
         NEW raw \in Nat, raw < PowerOfTwo[width],
         Holds(data, offset, width, raw)
  PROVE  get_bits(data, offset, width) = raw
<1> DEFINE d == [j \in 1 .. width |-> BitAt(data, offset + j - 1)]
           g == CHOOSE v : GetLoop(v, data, offset, width)
           two == 2
<1>1. \A j \in 1 .. width : d[j] = Digit(raw, width, j) /\ d[j] \in Nat
  BY DigitType DEF Holds
<1>2. \A v : GetLoop(v, data, offset, width) <=> Horner(v, d, two, width)
  <2>1. \A v : \A i \in 0 .. width :
          (IF i = 0 THEN 0 ELSE 2 * v[i - 1] + BitAt(data, offset + i - 1)) =
            (IF i = 0 THEN 0 ELSE two * v[i - 1] + d[i])
    OBVIOUS
  <2> HIDE DEF d, two
  <2> QED BY <2>1 DEF GetLoop, Horner
<1> HIDE DEF d, two
<1>3. \E v : Horner(v, d, two, width)
  <2>1. two \in Nat
    BY DEF two
  <2> QED BY <1>1, <2>1, HornerExists
<1>4. Horner(g, d, two, width)
  BY <1>2, <1>3
<1>5. get_bits(data, offset, width) = g[width]
  BY DEF get_bits, GetLoop
<1> HIDE DEF g
<1>6. g[width] = raw
  <2>1. two \in Nat \ {0} /\ Powers(PowerOfTwo, two)
    BY PowerOfTwoDef DEF two
  <2>2. \A j \in 1 .. width : d[j] = (raw \div PowerOfTwo[width - j]) % two
    BY <1>1 DEF Digit, two
  <2> QED BY <1>4, <2>1, <2>2, HornerDigits
<1> QED BY <1>5, <1>6
-----------------------------------------------------------------------------
-----------------------------------------------------------------------------
(* A function on 1 .. n is a sequence of length n. *)
LEMMA FunSeq ==
  ASSUME NEW S, NEW n \in Nat, NEW f \in [1 .. n -> S]
  PROVE  f \in Seq(S) /\ Len(f) = n
<1>1. f \in Seq(S)
  BY SeqDef
<1>2. Len(f) \in Nat /\ DOMAIN f = 1 .. Len(f)
  BY <1>1, LenProperties
<1>3. 1 .. n = 1 .. Len(f)
  BY <1>2
<1>4. Len(f) = n
  <2>1. n # 0 => n \in 1 .. Len(f)
    BY <1>3
  <2>2. Len(f) # 0 => Len(f) \in 1 .. n
    BY <1>2, <1>3
  <2> QED BY <1>2, <2>1, <2>2
<1> QED BY <1>1, <1>4

(* g is s and then r. *)
Parts(g, s, r) ==
  /\ Len(g) = Len(s) + Len(r)
  /\ \A i \in 1 .. Len(s) : g[i] = s[i]
  /\ \A i \in 1 .. Len(r) : g[Len(s) + i] = r[i]

(* A concatenation is. *)
LEMMA ConcatParts ==
  ASSUME NEW S, NEW s \in Seq(S), NEW r \in Seq(S)
  PROVE  s \o r \in Seq(S) /\ Parts(s \o r, s, r)
<1>1. Len(s) \in Nat /\ Len(r) \in Nat
  OBVIOUS
<1>2. /\ s \o r \in Seq(S) /\ Len(s \o r) = Len(s) + Len(r)
      /\ \A i \in 1 .. Len(s) + Len(r) :
           (s \o r)[i] = IF i <= Len(s) THEN s[i] ELSE r[i - Len(s)]
  BY ConcatProperties
<1>3. \A i \in 1 .. Len(r) :
        Len(s) + i \in 1 .. Len(s) + Len(r) /\ ~(Len(s) + i <= Len(s)) /\ (Len(s) + i) - Len(s) = i
  BY <1>1
<1>4. \A i \in 1 .. Len(s) : i \in 1 .. Len(s) + Len(r) /\ i <= Len(s)
  BY <1>1
<1> QED BY <1>2, <1>3, <1>4 DEF Parts

(* f is s, r and u, one after the other. *)
Joined(f, s, r, u) ==
  /\ Len(f) = Len(s) + Len(r) + Len(u)
  /\ SubSeq(f, 1, Len(s)) = s
  /\ SubSeq(f, Len(s) + 1, Len(s) + Len(r)) = r
  /\ SubSeq(f, Len(s) + Len(r) + 1, Len(f)) = u

(* A concatenation can be taken apart again. *)
LEMMA Joins ==
  ASSUME NEW S, NEW s \in Seq(S), NEW r \in Seq(S), NEW u \in Seq(S)
  PROVE  s \o r \o u \in Seq(S) /\ Joined(s \o r \o u, s, r, u)
<1> DEFINE f == (s \o r) \o u
           k == Len(s)
           l == Len(r)
           m == Len(u)
<1>1. /\ k \in Nat /\ l \in Nat /\ m \in Nat
      /\ s \in [1 .. k -> S] /\ r \in [1 .. l -> S] /\ u \in [1 .. m -> S]
  BY LenProperties
<1>2. /\ f \in Seq(S) /\ Len(f) = k + l + m
      /\ \A i \in 1 .. k : f[i] = s[i]
      /\ \A i \in 1 .. l : f[k + i] = r[i]
      /\ \A i \in 1 .. m : f[k + l + i] = u[i]
  <2> DEFINE g == s \o r
  <2>1. g \in Seq(S) /\ Parts(g, s, r)
    BY ConcatParts
  <2>2. f = g \o u
    BY DEF g
  <2> HIDE DEF f, g
  <2>3. f \in Seq(S) /\ Parts(f, g, u)
    BY <2>1, <2>2, ConcatParts
  <2>4. \A i \in 1 .. k : i \in 1 .. k + l
    BY <1>1
  <2>5. \A i \in 1 .. l : k + i \in 1 .. k + l
    BY <1>1
  <2> QED BY <2>1, <2>3, <2>4, <2>5 DEF Parts
<1> HIDE DEF f
<1>3. SubSeq(f, 1, k) = s
  <2>1. SubSeq(f, 1, k) = [i \in 1 .. k |-> f[i]]
    BY <1>1, <1>2
  <2>2. s = [i \in 1 .. k |-> s[i]]
    BY <1>1
  <2> QED BY <1>2, <2>1, <2>2
<1>4. SubSeq(f, k + 1, k + l) = r
  <2>1. SubSeq(f, k + 1, k + l) = [i \in 1 .. l |-> f[k + i]]
    BY <1>1, <1>2
  <2>2. r = [i \in 1 .. l |-> r[i]]
    BY <1>1
  <2> QED BY <1>2, <2>1, <2>2
<1>5. SubSeq(f, k + l + 1, Len(f)) = u
  <2>1. SubSeq(f, k + l + 1, k + l + m) = [i \in 1 .. m |-> f[k + l + i]]
    BY <1>1, <1>2
  <2>2. u = [i \in 1 .. m |-> u[i]]
    BY <1>1
  <2> QED BY <1>2, <2>1, <2>2
<1> QED BY <1>2, <1>3, <1>4, <1>5 DEF Joined, f

(* The loop of from_bytes. *)
FromLoop(v, bytes) ==
  v = [i \in 0 .. Len(bytes) |-> IF i = 0 THEN 0 ELSE 256 * v[i - 1] + bytes[i]]

(* int.from_bytes undoes int.to_bytes, of a number that fits. *)
LEMMA FromTo ==
  ASSUME NEW length \in Nat, NEW n \in Nat, n < PowerOf256[length]
  PROVE  /\ to_bytes(n, length) \in Pdu(length)
         /\ from_bytes(to_bytes(n, length)) = n
<1> DEFINE d == to_bytes(n, length)
           g == CHOOSE v : FromLoop(v, d)
           base == 256
<1>1. \A i \in 1 .. length : /\ d[i] = (n \div PowerOf256[length - i]) % 256
                             /\ d[i] \in Byte
  <2> TAKE i \in 1 .. length
  <2> DEFINE m == PowerOf256[length - i]
  <2>1. m \in Nat \ {0}
    BY PowerOf256Def DEF Powers
  <2>2. d[i] = (n \div m) % 256
    BY DEF to_bytes
  <2> HIDE DEF m
  <2>3. n \div m \in Nat
    BY <2>1, DivMod
  <2>4. ((n \div m) % 256) \in Byte
    BY <2>3 DEF Byte
  <2> QED BY <2>2, <2>4 DEF m
<1>2. d \in Pdu(length)
  <2>1. d = [i \in 1 .. length |-> d[i]]
    BY DEF to_bytes
  <2> HIDE DEF d
  <2> QED BY <1>1, <2>1 DEF Pdu
<1>3. Len(d) = length
  <2> HIDE DEF d
  <2> QED BY <1>2, FunSeq DEF Pdu
<1> HIDE DEF d
<1>4. \A v : FromLoop(v, d) <=> Horner(v, d, base, length)
  BY <1>3 DEF FromLoop, Horner
<1>5. from_bytes(d) = g[length]
  BY <1>3 DEF from_bytes, FromLoop
<1> HIDE DEF base
<1>6. \E v : Horner(v, d, base, length)
  <2>1. base \in Nat
    BY DEF base
  <2>2. ASSUME NEW i \in 1 .. length PROVE d[i] \in Nat
    <3>1. d[i] \in Byte
      BY <1>1
    <3> QED BY <3>1 DEF Byte
  <2> QED BY <2>1, <2>2, HornerExists
<1>7. Horner(g, d, base, length)
  BY <1>4, <1>6
<1> HIDE DEF g
<1>8. g[length] = n
  <2>1. base \in Nat \ {0} /\ Powers(PowerOf256, base)
    BY PowerOf256Def DEF base
  <2>2. \A i \in 1 .. length : d[i] = (n \div PowerOf256[length - i]) % base
    BY <1>1 DEF base
  <2> QED BY <1>7, <2>1, <2>2, HornerDigits
<1> QED BY <1>2, <1>5, <1>8 DEF d

-----------------------------------------------------------------------------
(* The lengths of a transport. *)
LEMMA Lengths ==
  ASSUME NEW t \in Transport
  PROVE  /\ truncation_lengths(t).fresh \in Nat /\ truncation_lengths(t).mac \in Nat
         /\ Trailer(t) = truncation_lengths(t).fresh + truncation_lengths(t).mac
         /\ Trailer(t) \in Nat
         /\ t = "CLASSIC_CAN" => Trailer(t) = 4
         /\ t = "CAN_FD" => Trailer(t) > 8
<1>1. t \in {"CLASSIC_CAN", "CAN_FD"}
  BY DEF Transport
<1> QED BY <1>1, CodecAssumption DEF truncation_lengths, Trailer, CAN_MAX_PAYLOAD_BYTES

(* The MAC of the model is a sequence of its length. *)
LEMMA MacLength ==
  ASSUME NEW t \in Transport
  PROVE  MacBytes(t) \in Seq(Int) /\ Len(MacBytes(t)) = truncation_lengths(t).mac
<1> DEFINE n == truncation_lengths(t).mac
<1>1. n \in Nat
  BY Lengths
<1>2. MacBytes(t) = [i \in 1 .. n |-> 256 - i]
  BY DEF MacBytes
<1> HIDE DEF n
<1>3. MacBytes(t) \in [1 .. n -> Int]
  BY <1>1, <1>2
<1>4. MacBytes(t) \in Seq(Int) /\ Len(MacBytes(t)) = n
  BY <1>1, <1>3, FunSeq
<1> QED BY <1>4 DEF n

(* What f was built from: payload, counter and MAC. *)
BuiltFrom(f, x, full, t) ==
  /\ f \in Seq(Int)
  /\ Len(f) = Len(x) + Trailer(t)
  /\ parse_secured_pdu(f, t) =
       [payload |-> x, mac |-> MacBytes(t),
        fresh |-> full % PowerOf256[truncation_lengths(t).fresh]]

(* parse_secured_pdu undoes build_secured_pdu, on the same transport. *)
LEMMA ParseBuilt ==
  ASSUME NEW t \in Transport, NEW x \in Seq(Byte), NEW full \in Nat
  PROVE  BuiltFrom(build_secured_pdu(x, full, MacBytes(t), t), x, full, t)
<1> DEFINE k == truncation_lengths(t).fresh
           l == truncation_lengths(t).mac
           cut == full % PowerOf256[k]
           r == to_bytes(cut, k)
           u == MacBytes(t)
           f == build_secured_pdu(x, full, u, t)
<1>1. k \in Nat /\ l \in Nat /\ Trailer(t) = k + l /\ Len(x) \in Nat
  BY Lengths
<1>2. cut \in Nat /\ cut < PowerOf256[k]
  <2> DEFINE m == PowerOf256[k]
  <2>1. m \in Nat \ {0}
    BY <1>1, PowerOf256Def DEF Powers
  <2> HIDE DEF m
  <2>2. full % m \in Nat /\ full % m < m
    BY <2>1
  <2> QED BY <2>2 DEF m
<1>3. r \in Pdu(k) /\ from_bytes(r) = cut
  <2> HIDE DEF k, cut
  <2>1. k \in Nat /\ cut \in Nat /\ cut < PowerOf256[k]
    BY <1>1, <1>2
  <2> QED BY <2>1, FromTo
<1>4. r \in Seq(Int) /\ Len(r) = k
  <2> HIDE DEF r, k
  <2>1. r \in Pdu(k)
    BY <1>3
  <2>2. r \in Seq(Byte) /\ Len(r) = k
    BY <1>1, <2>1, FunSeq DEF Pdu
  <2>3. Byte \subseteq Int
    BY DEF Byte
  <2> QED BY <2>2, <2>3, SeqMonotonic
<1>5. u \in Seq(Int) /\ Len(u) = l
  BY MacLength
<1>6. x \in Seq(Int)
  <2>1. Byte \subseteq Int
    BY DEF Byte
  <2> QED BY <2>1, SeqMonotonic
<1>7. f = x \o r \o u
  BY DEF build_secured_pdu
<1>8. parse_secured_pdu(f, t) =
        [payload |-> SubSeq(f, 1, Len(f) - Trailer(t)),
         fresh |-> from_bytes(SubSeq(f, Len(f) - Trailer(t) + 1, Len(f) - l)),
         mac |-> SubSeq(f, Len(f) - l + 1, Len(f))]
  BY DEF parse_secured_pdu
<1> HIDE DEF k, l, cut, r, u, f
<1>9. f \in Seq(Int) /\ Joined(f, x, r, u)
  BY <1>4, <1>5, <1>6, <1>7, Joins
<1>10. /\ Len(f) = Len(x) + k + l /\ Len(f) - Trailer(t) = Len(x) /\ Len(f) - l = Len(x) + k
       /\ Len(f) = Len(x) + Trailer(t)
  BY <1>1, <1>4, <1>5, <1>9 DEF Joined
<1>11. /\ SubSeq(f, 1, Len(x)) = x
       /\ SubSeq(f, Len(x) + 1, Len(x) + k) = r
       /\ SubSeq(f, Len(x) + k + 1, Len(f)) = u
  BY <1>4, <1>9 DEF Joined
<1>12. parse_secured_pdu(f, t) = [payload |-> x, fresh |-> cut, mac |-> u]
  BY <1>3, <1>8, <1>10, <1>11
<1> QED BY <1>9, <1>10, <1>12 DEF BuiltFrom, f, cut, k, u

(* The bytes of a frame that can be sent are bytes. *)
LEMMA BytesBuilt ==
  ASSUME NEW t \in Transport, NEW x \in Seq(Byte), NEW full \in Nat,
         Routable(build_secured_pdu(x, full, MacBytes(t), t))
  PROVE  build_secured_pdu(x, full, MacBytes(t), t) \in Seq(Byte)
<1> DEFINE k == truncation_lengths(t).fresh
           l == truncation_lengths(t).mac
           cut == full % PowerOf256[k]
           r == to_bytes(cut, k)
           u == MacBytes(t)
           f == build_secured_pdu(x, full, u, t)
<1>1. k \in Nat /\ l \in Nat /\ Trailer(t) = k + l /\ Len(x) \in Nat
  BY Lengths
<1>2. Len(f) = Len(x) + Trailer(t) /\ Len(f) <= 64
  BY ParseBuilt DEF BuiltFrom, Routable, CAN_FD_MAX_PAYLOAD_BYTES
<1>3. l <= 64
  <2> HIDE DEF k, l, f
  <2> QED BY <1>1, <1>2
<1>4. u \in Seq(Byte)
  <2>1. u = [i \in 1 .. l |-> 256 - i]
    BY DEF MacBytes
  <2> HIDE DEF l, u
  <2>2. u \in [1 .. l -> Byte]
    BY <1>1, <1>3, <2>1 DEF Byte
  <2> QED BY <1>1, <2>2, FunSeq
<1>5. r \in Seq(Byte)
  <2> DEFINE m == PowerOf256[k]
  <2>1. m \in Nat \ {0}
    BY <1>1, PowerOf256Def DEF Powers
  <2>2. cut \in Nat /\ cut < m
    <3>1. cut = full % m
      OBVIOUS
    <3> HIDE DEF m, cut
    <3> QED BY <2>1, <3>1
  <2>3. r \in Pdu(k)
    <3> HIDE DEF k, cut
    <3> QED BY <1>1, <2>2, FromTo DEF k
  <2> HIDE DEF r, k
  <2> QED BY <1>1, <2>3, FunSeq DEF Pdu
<1>6. f = x \o r \o u
  BY DEF build_secured_pdu
<1> HIDE DEF r, u, f
<1>7. f \in Seq(Byte)
  BY <1>4, <1>5, <1>6, Joins
<1> QED BY <1>7 DEF f, u
-----------------------------------------------------------------------------
-----------------------------------------------------------------------------
(* What a signal's bits hold that was given the value v, or none. *)
RawOf(s, v) == IF v = Unset THEN 0 ELSE Raw(s, v)

Carries(data, s, v) == Holds(data, Layout[s].offset_bits, Layout[s].width_bits, RawOf(s, v))

(* A value the application gives the signal, and that fits. *)
Given(s, v) == v = Unset \/ (v \in Value[s] /\ InRange(s, v))

(* A buffer holds what its signals were given since it was made. *)
BufferInv ==
  /\ txBuffers = [p \in SignalPdu |-> txBuffers[p]]
  /\ packed = [s \in Signal |-> packed[s]]
  /\ \A s \in Signal :
       LET p == Layout[s].pdu_id
       IN  /\ Given(s, packed[s])
           /\ IF txBuffers[p] = NoBuffer
              THEN packed[s] = Unset
              ELSE /\ txBuffers[p] \in Pdu(Layout[s].pdu_length_bytes)
                   /\ Carries(txBuffers[p], s, packed[s])

Frame ==
  [pdu : SignalPdu, bytes : Seq(Byte), interface : Transport, transport : Transport,
   payload : Seq(Byte), fresh : Nat, meant : [Signal -> Int \cup {Unset}]]

(* A frame on the wire, and what its payload holds. *)
Sound(f) ==
  /\ BuiltFrom(f.bytes, f.payload, f.fresh, f.transport)
  /\ f.interface = route_to_bus(f.bytes)
  /\ f.transport = "CLASSIC_CAN" => Len(f.payload) = 4
  /\ \A s \in Signal :
       /\ Given(s, f.meant[s])
       /\ Layout[s].pdu_id = f.pdu /\ Len(f.payload) = Layout[s].pdu_length_bytes
            => Carries(f.payload, s, f.meant[s])

SoundFrame == {f \in Frame : Sound(f)}

(* What the handler was told is what the bits held. *)
ShownInv ==
  /\ shown \in [Signal -> Int \cup {Unset}]
  /\ meant = [s \in Signal |-> meant[s]]
  /\ \A s \in Signal :
       /\ Given(s, meant[s])
       /\ shown[s] = Unset
            \/ shown[s] = RawOf(s, meant[s]) * Layout[s].factor + Layout[s].offset

WireInv == BufferInv /\ queue \in Seq(SoundFrame) /\ ShownInv

(* The layout table's types. *)
LEMMA LayoutFacts ==
  ASSUME NEW s \in Signal
  PROVE  /\ Layout[s].pdu_id \in SignalPdu /\ Layout[s].pdu_length_bytes \in Nat
         /\ Layout[s].offset_bits \in Nat /\ Layout[s].width_bits \in Nat
         /\ Layout[s].factor \in Nat \ {0} /\ Layout[s].offset \in Int
         /\ \A b \in Layout[s].offset_bits .. Layout[s].offset_bits + Layout[s].width_bits - 1 :
              b < 8 * Layout[s].pdu_length_bytes
<1>1. Layout[s] \in [pdu_id : SignalPdu, pdu_length_bytes : Nat, offset_bits : Nat,
                     width_bits : Nat, factor : Nat \ {0}, offset : Int]
  BY LayoutAssumption
<1>2. \A b \in BitsOf(s) : b < 8 * Layout[s].pdu_length_bytes
  BY LayoutAssumption
<1> QED BY <1>1, <1>2 DEF BitsOf

(* No PDU is the absence of a buffer. *)
LEMMA PduIsBuffer ==
  ASSUME NEW length \in Nat, NEW data \in Pdu(length)
  PROVE  data # NoBuffer /\ data \in Seq(Byte) /\ Len(data) = length
<1>1. data \in Seq(Byte) /\ Len(data) = length
  BY FunSeq DEF Pdu
<1>2. data \in Seq(Int)
  <2>1. Byte \subseteq Int
    BY DEF Byte
  <2> QED BY <1>1, <2>1, SeqMonotonic
<1> QED BY <1>1, <1>2, LayoutAssumption

(* What is in range is a number of so many bits. *)
LEMMA RawRange ==
  ASSUME NEW s \in Signal, NEW v, Given(s, v)
  PROVE  RawOf(s, v) \in Nat /\ RawOf(s, v) < PowerOfTwo[Layout[s].width_bits]
<1> DEFINE m == PowerOfTwo[Layout[s].width_bits]
<1>1. m \in Nat \ {0}
  BY LayoutFacts, PowerOfTwoDef DEF Powers
<1>2. CASE v = Unset
  BY <1>1, <1>2 DEF RawOf
<1>3. CASE v # Unset
  <2>1. Raw(s, v) \in 0 .. m - 1
    BY <1>3 DEF Given, InRange
  <2> HIDE DEF m
  <2>2. Raw(s, v) \in Nat /\ Raw(s, v) < m
    BY <1>1, <2>1
  <2> QED BY <1>3, <2>2 DEF m, RawOf
<1> QED BY <1>2, <1>3

(* A new buffer holds 0 for each of its signals. *)
LEMMA ZerosCarry ==
  ASSUME NEW length \in Nat, NEW s \in Signal, length = Layout[s].pdu_length_bytes
  PROVE  /\ [i \in 1 .. length |-> 0] \in Pdu(length)
         /\ Carries([i \in 1 .. length |-> 0], s, Unset)
<1> DEFINE zeros == [i \in 1 .. length |-> 0]
           offset == Layout[s].offset_bits
           width == Layout[s].width_bits
<1>1. zeros \in Pdu(length) /\ \A i \in 1 .. length : zeros[i] = 0
  BY DEF Pdu, Byte
<1>2. ASSUME NEW m \in Nat \ {0} PROVE (0 \div m) % 2 = 0
  <2>1. (0 * m + 0) \div m = 0
    BY DivUnique
  <2>2. 0 \div m = 0
    BY <2>1
  <2> QED BY <2>2
<1> HIDE DEF zeros
<1>3. ASSUME NEW j \in 1 .. width
      PROVE  BitAt(zeros, offset + j - 1) = Digit(0, width, j)
  <2> DEFINE b == offset + j - 1
  <2>1. b \in 0 .. 8 * length - 1 /\ width - j \in Nat
    BY LayoutFacts
  <2> HIDE DEF b, width
  <2>2. b \div 8 + 1 \in 1 .. length /\ 7 - (b % 8) \in 0 .. 7
    BY <2>1, Position
  <2>3. BitAt(zeros, b) = (0 \div PowerOfTwo[7 - (b % 8)]) % 2
    BY <1>1, <2>2, Zenon DEF BitAt
  <2>4. PowerOfTwo[7 - (b % 8)] \in Nat \ {0} /\ PowerOfTwo[width - j] \in Nat \ {0}
    BY <2>1, <2>2, PowerOfTwoDef DEF Powers
  <2>5. BitAt(zeros, b) = 0 /\ Digit(0, width, j) = 0
    BY <1>2, <2>3, <2>4, Zenon DEF Digit
  <2> QED BY <2>5 DEF b
<1> QED BY <1>1, <1>3 DEF zeros, Carries, Holds, RawOf

(* Packing a signal into the buffer: every signal of the PDU has its value. *)
Packs(x, s, value) ==
  /\ x \in Pdu(Layout[s].pdu_length_bytes)
  /\ \A r \in Signal : Layout[r].pdu_id = Layout[s].pdu_id =>
       Carries(x, r, [packed EXCEPT ![s] = value][r])

LEMMA Packing ==
  ASSUME BufferInv, NEW s \in Signal, NEW value \in Value[s], InRange(s, value)
  PROVE  Packs(Packed(s, value), s, value)
<1> DEFINE p == Layout[s].pdu_id
           length == Layout[s].pdu_length_bytes
           b0 == Buffer(p, length)
           offset == Layout[s].offset_bits
           width == Layout[s].width_bits
           raw == Raw(s, value)
           x == set_bits(b0, offset, width, raw)
<1>1. /\ length \in Nat /\ offset \in Nat /\ width \in Nat
      /\ \A b \in offset .. offset + width - 1 : b < 8 * length
  BY LayoutFacts
<1>2. value # Unset /\ value \in Int
  BY PeriodicAssumption
<1>3. raw \in Nat /\ RawOf(s, value) = raw
  <2>1. Given(s, value)
    BY DEF Given
  <2> QED BY <1>2, <2>1, RawRange DEF RawOf
<1>4. \A r \in Signal : Layout[r].pdu_id = p => Layout[r].pdu_length_bytes = length
  BY LayoutAssumption
<1>5. b0 \in Pdu(length) /\ \A r \in Signal : Layout[r].pdu_id = p => Carries(b0, r, packed[r])
  <2>1. CASE txBuffers[p] = NoBuffer
    <3>1. b0 = [i \in 1 .. length |-> 0]
      BY <2>1 DEF Buffer
    <3>2. ASSUME NEW r \in Signal, Layout[r].pdu_id = p
          PROVE  b0 \in Pdu(length) /\ Carries(b0, r, packed[r])
      <4>1. packed[r] = Unset /\ length = Layout[r].pdu_length_bytes
        BY <1>4, <2>1, <3>2 DEF BufferInv
      <4> HIDE DEF length, b0
      <4> QED BY <1>1, <3>1, <4>1, ZerosCarry
    <3> QED BY <3>2
  <2>2. CASE txBuffers[p] # NoBuffer
    <3>1. b0 = txBuffers[p]
      BY <2>2 DEF Buffer
    <3> QED BY <2>2, <3>1 DEF BufferInv
  <2> QED BY <2>1, <2>2
<1> HIDE DEF b0, raw
<1>6. Written(b0, x, length, offset, width, raw)
  <2> HIDE DEF length, offset, width
  <2> QED BY <1>1, <1>3, <1>5, SetBits
<1> HIDE DEF x
<1>7. ASSUME NEW r \in Signal, Layout[r].pdu_id = p
      PROVE  Carries(x, r, [packed EXCEPT ![s] = value][r])
  <2>1. CASE r = s
    <3>1. [packed EXCEPT ![s] = value][r] = value
      BY <2>1 DEF BufferInv
    <3> QED BY <1>3, <1>6, <2>1, <3>1 DEF Carries, Written
  <2>2. CASE r # s
    <3>1. [packed EXCEPT ![s] = value][r] = packed[r]
      BY <2>2 DEF BufferInv
    <3>2. Carries(b0, r, packed[r])
      BY <1>5, <1>7
    <3>3. ASSUME NEW j \in 1 .. Layout[r].width_bits
          PROVE  BitAt(x, Layout[r].offset_bits + j - 1) = BitAt(b0, Layout[r].offset_bits + j - 1)
      <4> DEFINE c == Layout[r].offset_bits + j - 1
      <4>1. c \in BitsOf(r) /\ c \in Nat
        BY LayoutFacts DEF BitsOf
      <4>2. c < 8 * length /\ c \notin BitsOf(s)
        BY <1>4, <1>7, <2>2, <4>1, LayoutAssumption
      <4>3. c \in (0 .. 8 * length - 1) \ (offset .. offset + width - 1)
        BY <1>1, <4>1, <4>2 DEF BitsOf
      <4> QED BY <1>6, <4>3 DEF Written
    <3> QED BY <3>1, <3>2, <3>3 DEF Carries, Holds
  <2> QED BY <2>1, <2>2
<1>8. Packed(s, value) = x
  BY DEF Packed, x, b0, raw
<1> QED BY <1>6, <1>7, <1>8 DEF Packs, Written

(* The application packs a signal. *)
LEMMA PackInv ==
  ASSUME WireInv, NEW s \in Signal, NEW value \in Value[s], Pack(s, value)
  PROVE  WireInv'
<1> DEFINE p == Layout[s].pdu_id
           x == Packed(s, value)
<1>1. /\ InRange(s, value) /\ txBuffers' = [txBuffers EXCEPT ![p] = x]
      /\ packed' = [packed EXCEPT ![s] = value] /\ UNCHANGED <<queue, shown, meant>>
  BY DEF Pack, pack_signal
<1>2. Packs(x, s, value) /\ BufferInv
  BY <1>1, Packing DEF WireInv
<1>3. p \in SignalPdu /\ Layout[s].pdu_length_bytes \in Nat
  BY LayoutFacts
<1> HIDE DEF x
<1>4. x # NoBuffer
  BY <1>2, <1>3, PduIsBuffer DEF Packs
<1>5. value # Unset /\ Given(s, value)
  BY <1>1, PeriodicAssumption DEF Given
<1>6. /\ txBuffers' = [q \in SignalPdu |-> txBuffers'[q]]
      /\ packed' = [r \in Signal |-> packed'[r]]
  BY <1>1, <1>2 DEF BufferInv
<1>7. ASSUME NEW r \in Signal
      PROVE  /\ Given(r, packed'[r])
             /\ IF txBuffers'[Layout[r].pdu_id] = NoBuffer
                THEN packed'[r] = Unset
                ELSE /\ txBuffers'[Layout[r].pdu_id] \in Pdu(Layout[r].pdu_length_bytes)
                     /\ Carries(txBuffers'[Layout[r].pdu_id], r, packed'[r])
  <2>1. Layout[r].pdu_id \in SignalPdu
    BY LayoutFacts
  <2>2. CASE Layout[r].pdu_id = p
    <3>1. txBuffers'[Layout[r].pdu_id] = x
      BY <1>1, <1>2, <1>3, <2>2 DEF BufferInv
    <3>2. Layout[r].pdu_length_bytes = Layout[s].pdu_length_bytes
      BY <2>2, LayoutAssumption
    <3>3. Carries(x, r, packed'[r])
      BY <1>1, <1>2, <2>2 DEF Packs
    <3>4. Given(r, packed'[r])
      BY <1>1, <1>2, <1>5 DEF BufferInv
    <3> QED BY <1>2, <1>4, <3>1, <3>2, <3>3, <3>4 DEF Packs
  <2>3. CASE Layout[r].pdu_id # p
    <3>1. packed'[r] = packed[r] /\ txBuffers'[Layout[r].pdu_id] = txBuffers[Layout[r].pdu_id]
      BY <1>1, <1>2, <2>1, <2>3 DEF BufferInv
    <3> QED BY <1>2, <3>1 DEF BufferInv
  <2> QED BY <2>2, <2>3
<1>8. BufferInv'
  BY <1>6, <1>7 DEF BufferInv, Given, Carries, RawOf, Holds
<1>9. ShownInv'
  BY <1>1 DEF WireInv, ShownInv
<1> QED BY <1>1, <1>8, <1>9 DEF WireInv

(* Padding makes a CLASSIC_CAN payload 4 bytes long, and leaves one alone that is. *)
LEMMA Padding ==
  ASSUME NEW t \in Transport, NEW length \in Nat, NEW x \in Pdu(length), Fits(x, t)
  PROVE  /\ Padded(x, t) \in Seq(Byte)
         /\ t = "CLASSIC_CAN" => Len(Padded(x, t)) = 4
         /\ Len(Padded(x, t)) = length => Padded(x, t) = x
<1>1. x \in Seq(Byte) /\ Len(x) = length
  BY PduIsBuffer
<1>2. CASE t # "CLASSIC_CAN"
  BY <1>1, <1>2 DEF Padded
<1>3. CASE t = "CLASSIC_CAN"
  <2> DEFINE n == 4 - length
             zeros == [i \in 1 .. n |-> 0]
  <2>1. length <= 4 /\ n \in Nat
    BY <1>1, <1>3 DEF Fits
  <2>2. Padded(x, t) = x \o zeros
    BY <1>1, <1>3 DEF Padded
  <2>3. zeros \in [1 .. n -> Byte]
    BY DEF Byte
  <2>4. n = 0 => zeros = << >>
    OBVIOUS
  <2> HIDE DEF zeros
  <2>5. zeros \in Seq(Byte) /\ Len(zeros) = n
    <3> HIDE DEF n
    <3> QED BY <2>1, <2>3, FunSeq
  <2>6. x \o zeros \in Seq(Byte) /\ Len(x \o zeros) = 4
    <3>1. x \o zeros \in Seq(Byte) /\ Len(x \o zeros) = Len(x) + Len(zeros)
      BY <1>1, <2>5, ConcatProperties
    <3> QED BY <1>1, <2>1, <2>5, <3>1
  <2>7. n = 0 => x \o zeros = x
    BY <1>1, <2>4, ConcatEmptySeq
  <2>8. 4 = length => n = 0
    BY <2>1
  <2> HIDE DEF n
  <2> QED BY <2>2, <2>6, <2>7, <2>8
<1> QED BY <1>2, <1>3

(* The fields of a frame. *)
LEMMA FrameType ==
  ASSUME NEW p \in SignalPdu, NEW bytes \in Seq(Byte), NEW i \in Transport,
         NEW t \in Transport, NEW payload \in Seq(Byte), NEW full \in Nat,
         NEW given \in [Signal -> Int \cup {Unset}]
  PROVE  [pdu |-> p, bytes |-> bytes, interface |-> i, transport |-> t, payload |-> payload,
          fresh |-> full, meant |-> given] \in Frame
BY DEF Frame

(* A PDU that is sent becomes a sound frame: its payload holds what was packed. *)
LEMMA SentIsSound ==
  ASSUME BufferInv, NEW s \in Signal, NEW value \in Value[s], InRange(s, value),
         NEW t \in Transport, NEW full \in FreshnessSample, NEW x, x = Packed(s, value),
         NEW frame, frame = [Transmitted(Layout[s].pdu_id, x, full, t) EXCEPT !.meant[s] = value],
         Fits(x, t), Routable(frame.bytes)
  PROVE  frame \in SoundFrame
<1> DEFINE length == Layout[s].pdu_length_bytes
           payload == Padded(x, t)
           bytes == build_secured_pdu(payload, full, MacBytes(t), t)
           given == [packed EXCEPT ![s] = value]
<1>1. /\ frame.pdu = Layout[s].pdu_id /\ frame.bytes = bytes
      /\ frame.interface = route_to_bus(bytes) /\ frame.transport = t
      /\ frame.payload = payload /\ frame.fresh = full /\ frame.meant = given
  BY DEF Transmitted
<1>2. frame = [pdu |-> Layout[s].pdu_id, bytes |-> bytes, interface |-> route_to_bus(bytes),
               transport |-> t, payload |-> payload, fresh |-> full, meant |-> given]
  BY DEF Transmitted
<1>3. length \in Nat /\ Layout[s].pdu_id \in SignalPdu
  BY LayoutFacts
<1>4. Packs(x, s, value)
  BY Packing
<1>5. /\ payload \in Seq(Byte) /\ (t = "CLASSIC_CAN" => Len(payload) = 4)
      /\ (Len(payload) = length => payload = x)
  <2>1. x \in Pdu(length)
    BY <1>4 DEF Packs
  <2> HIDE DEF length
  <2> QED BY <1>3, <2>1, Padding
<1>6. full \in Nat
  BY PeriodicAssumption
<1>7. BuiltFrom(bytes, payload, full, t) /\ bytes \in Seq(Byte)
  <2>1. Routable(bytes)
    BY <1>1
  <2> HIDE DEF payload
  <2> QED BY <1>5, <1>6, <2>1, ParseBuilt, BytesBuilt
<1>8. route_to_bus(bytes) \in Transport
  BY DEF route_to_bus, Transport
<1>9. given \in [Signal -> Int \cup {Unset}] /\ \A r \in Signal : Given(r, given[r])
  <2>1. Given(s, value) /\ value \in Int
    BY PeriodicAssumption DEF Given
  <2>2. \A r \in Signal : Given(r, packed[r]) /\ packed[r] \in Int \cup {Unset}
    BY PeriodicAssumption DEF BufferInv, Given
  <2>3. packed \in [Signal -> Int \cup {Unset}]
    BY <2>2 DEF BufferInv
  <2> QED BY <2>1, <2>2, <2>3
<1>10. ASSUME NEW r \in Signal, Layout[r].pdu_id = Layout[s].pdu_id,
              Len(payload) = Layout[r].pdu_length_bytes
       PROVE  Carries(payload, r, given[r])
  <2>1. Layout[r].pdu_length_bytes = length
    BY <1>10, LayoutAssumption
  <2>2. payload = x
    BY <1>5, <1>10, <2>1
  <2>3. Carries(x, r, given[r])
    BY <1>4, <1>10 DEF Packs
  <2> HIDE DEF given, payload
  <2> QED BY <2>2, <2>3
<1> HIDE DEF payload, bytes, given
<1>11. frame \in Frame
  <2>1. /\ Layout[s].pdu_id \in SignalPdu /\ bytes \in Seq(Byte)
        /\ route_to_bus(bytes) \in Transport /\ t \in Transport /\ payload \in Seq(Byte)
        /\ full \in Nat /\ given \in [Signal -> Int \cup {Unset}]
    BY <1>3, <1>5, <1>6, <1>7, <1>8, <1>9
  <2> HIDE DEF length
  <2> QED BY <1>2, <2>1, FrameType
<1>12. Sound(frame)
  BY <1>1, <1>5, <1>7, <1>9, <1>10 DEF Sound
<1> QED BY <1>11, <1>12 DEF SoundFrame

(* A callback sends, or fails to. *)
LEMMA CallbackInv ==
  ASSUME WireInv, SchedulerTyped, Callback
  PROVE  WireInv'
<1> DEFINE s == EntrySignal[cursor]
           p == Layout[s].pdu_id
<1>1. s \in Signal
  <2>1. cursor \in 0 .. registered /\ registered \in 0 .. Len(Period) /\ cursor # 0
    BY DEF SchedulerTyped, Callback, Due
  <2>2. cursor \in Entry
    BY <2>1, PeriodFacts
  <2> QED BY <2>2, PeriodicAssumption
<1>2. shown' = shown /\ meant' = meant
  BY DEF Callback, SendOutOfRange, Send
<1> HIDE DEF s
<1>3. CASE \E value \in Value[s] : SendOutOfRange(value)
  BY <1>2, <1>3 DEF SendOutOfRange, WireInv, BufferInv, ShownInv
<1>4. ASSUME NEW value \in Value[s], NEW t \in Transport, NEW full \in FreshnessSample,
             Send(value, t, full)
      PROVE  WireInv'
  <2> DEFINE x == Packed(s, value)
             frame == [Transmitted(p, x, full, t) EXCEPT !.meant[s] = value]
  <2>1. /\ InRange(s, value) /\ txBuffers' = [txBuffers EXCEPT ![p] = NoBuffer]
        /\ packed' = Forget(p)
    BY <1>4 DEF Send, send_signal, s
  <2>2. \/ Fits(x, t) /\ Routable(frame.bytes) /\ queue' = Append(queue, frame)
        \/ queue' = queue
    BY <1>4 DEF Send, s
  <2> HIDE DEF x, frame
  <2>3. queue' \in Seq(SoundFrame)
    <3>1. CASE queue' = queue
      BY <3>1 DEF WireInv
    <3>2. CASE Fits(x, t) /\ Routable(frame.bytes) /\ queue' = Append(queue, frame)
      <4>1. frame \in SoundFrame
        BY <1>1, <2>1, <3>2, SentIsSound DEF x, frame, WireInv
      <4> QED BY <3>2, <4>1, AppendProperties DEF WireInv
    <3> QED BY <2>2, <3>1, <3>2
  <2>4. BufferInv'
    <3>1. /\ p \in SignalPdu /\ txBuffers'[p] = NoBuffer
          /\ \A q \in SignalPdu : q # p => txBuffers'[q] = txBuffers[q]
          /\ txBuffers' = [q \in SignalPdu |-> txBuffers'[q]]
      BY <1>1, <2>1, LayoutFacts DEF WireInv, BufferInv
    <3>2. /\ packed' = [r \in Signal |-> packed'[r]]
          /\ \A r \in Signal : packed'[r] = IF Layout[r].pdu_id = p THEN Unset ELSE packed[r]
      BY <2>1 DEF Forget
    <3> HIDE DEF p
    <3>3. ASSUME NEW r \in Signal
          PROVE  /\ Given(r, packed'[r])
                 /\ IF txBuffers'[Layout[r].pdu_id] = NoBuffer
                    THEN packed'[r] = Unset
                    ELSE /\ txBuffers'[Layout[r].pdu_id] \in Pdu(Layout[r].pdu_length_bytes)
                         /\ Carries(txBuffers'[Layout[r].pdu_id], r, packed'[r])
      <4>1. CASE Layout[r].pdu_id = p
        BY <3>1, <3>2, <4>1 DEF Given
      <4>2. CASE Layout[r].pdu_id # p
        <5>1. Layout[r].pdu_id \in SignalPdu
          BY LayoutFacts
        <5>2. packed'[r] = packed[r] /\ txBuffers'[Layout[r].pdu_id] = txBuffers[Layout[r].pdu_id]
          BY <3>1, <3>2, <4>2, <5>1
        <5> QED BY <5>2 DEF WireInv, BufferInv
      <4> QED BY <4>1, <4>2
    <3> QED BY <3>1, <3>2, <3>3 DEF BufferInv, Given, Carries, RawOf, Holds
  <2>5. ShownInv'
    BY <1>2 DEF WireInv, ShownInv
  <2> QED BY <2>3, <2>4, <2>5 DEF WireInv
<1>5. \E value \in Value[s] :
        \/ SendOutOfRange(value)
        \/ \E t \in Transport, full \in FreshnessSample : Send(value, t, full)
  BY DEF Callback, s
<1> QED BY <1>3, <1>4, <1>5

(* A frame parses on its own transport only. *)
Apart(f) ==
  /\ f.interface = f.transport
  /\ ~Malformed(f.bytes, f.transport)
  /\ \A t \in Transport \ {f.transport} : Malformed(f.bytes, t)

LEMMA SoundApart ==
  ASSUME NEW f \in SoundFrame
  PROVE  Apart(f)
<1>1. /\ f.transport \in Transport /\ f.payload \in Seq(Byte) /\ Len(f.payload) \in Nat
      /\ Len(f.bytes) = Len(f.payload) + Trailer(f.transport)
      /\ f.interface = route_to_bus(f.bytes)
      /\ f.transport = "CLASSIC_CAN" => Len(f.payload) = 4
  <2>1. f \in Frame /\ Sound(f)
    BY DEF SoundFrame
  <2> QED BY <2>1 DEF Frame, Sound, BuiltFrom
<1>2. /\ Trailer("CLASSIC_CAN") = 4
      /\ Trailer("CAN_FD") > 8 /\ Trailer("CAN_FD") \in Nat
  BY Lengths DEF Transport
<1> DEFINE n == Len(f.bytes)
<1>3. CASE f.transport = "CLASSIC_CAN"
  <2>1. n = 8
    <3>1. Len(f.payload) = 4 /\ n = Len(f.payload) + Trailer("CLASSIC_CAN")
      BY <1>1, <1>3
    <3> QED BY <1>2, <3>1
  <2> HIDE DEF n
  <2>2. f.interface = "CLASSIC_CAN"
    <3>1. route_to_bus(f.bytes) = "CLASSIC_CAN"
      BY <2>1 DEF n, route_to_bus, CAN_MAX_PAYLOAD_BYTES
    <3> QED BY <1>1, <3>1
  <2>3. ~Malformed(f.bytes, "CLASSIC_CAN")
    BY <1>2, <2>1 DEF n, Malformed
  <2>4. Malformed(f.bytes, "CAN_FD")
    BY <1>2, <2>1 DEF n, Malformed
  <2> QED BY <1>3, <2>2, <2>3, <2>4 DEF Apart, Transport
<1>4. CASE f.transport = "CAN_FD"
  <2>1. n > 8 /\ n \in Nat /\ n >= Trailer("CAN_FD")
    BY <1>1, <1>2, <1>4
  <2> HIDE DEF n
  <2>2. /\ f.interface = "CAN_FD"
        /\ ~Malformed(f.bytes, "CAN_FD") /\ Malformed(f.bytes, "CLASSIC_CAN")
    BY <1>1, <1>2, <2>1 DEF n, route_to_bus, Malformed, CAN_MAX_PAYLOAD_BYTES
  <2> QED BY <1>4, <2>2 DEF Apart, Transport
<1> QED BY <1>1, <1>3, <1>4 DEF Transport

(* A receiver reads a signal as it was packed. *)
LEMMA UnpackSound ==
  ASSUME NEW f \in SoundFrame, NEW s \in Signal, Layout[s].pdu_id = f.pdu,
         Len(f.payload) = Layout[s].pdu_length_bytes
  PROVE  unpack_signal(f.payload, s)
           = RawOf(s, f.meant[s]) * Layout[s].factor + Layout[s].offset
<1> DEFINE length == Layout[s].pdu_length_bytes
           offset == Layout[s].offset_bits
           width == Layout[s].width_bits
           raw == RawOf(s, f.meant[s])
           data == f.payload
<1>1. /\ length \in Nat /\ offset \in Nat /\ width \in Nat
      /\ \A b \in offset .. offset + width - 1 : b < 8 * length
  BY LayoutFacts
<1>2. f \in Frame /\ Sound(f)
  BY DEF SoundFrame
<1>3. data \in Pdu(length)
  BY <1>2 DEF Frame, Pdu
<1>4. raw \in Nat /\ raw < PowerOfTwo[width]
  BY <1>2, RawRange DEF Sound
<1>5. Holds(data, offset, width, raw)
  BY <1>2 DEF Sound, Carries
<1>6. get_bits(data, offset, width) = raw
  <2> HIDE DEF length, offset, width, raw, data
  <2> QED BY <1>1, <1>3, <1>4, <1>5, GetBits
<1> QED BY <1>6 DEF unpack_signal

(* A receiver takes a frame. *)
LEMMA ReceiveInv ==
  ASSUME WireInv, NEW t \in Transport, Receive(t)
  PROVE  WireInv'
<1> DEFINE f == Head(queue)
           data == parse_secured_pdu(f.bytes, t).payload
           values == unpack_signal_from_pdu(f.pdu, data)
           Taken == ~Malformed(f.bytes, t) /\ Unpackable(f.pdu, data)
<1>1. /\ queue # << >> /\ queue' = Tail(queue) /\ txBuffers' = txBuffers /\ packed' = packed
      /\ IF Taken
         THEN /\ shown' = [s \in Signal |-> IF s \in DOMAIN values THEN values[s] ELSE shown[s]]
              /\ meant' = [s \in Signal |-> IF s \in DOMAIN values THEN f.meant[s] ELSE meant[s]]
         ELSE UNCHANGED <<shown, meant>>
  BY DEF Receive
<1>2. f \in SoundFrame /\ queue' \in Seq(SoundFrame)
  BY <1>1, HeadTailProperties DEF WireInv
<1> HIDE DEF f
<1>3. f \in Frame /\ Sound(f) /\ Apart(f)
  BY <1>2, SoundApart DEF SoundFrame
<1>4. Taken => t = f.transport /\ data = f.payload
  <2>1. ~Malformed(f.bytes, t) => t = f.transport
    BY <1>3 DEF Apart
  <2>2. t = f.transport => data = f.payload
    BY <1>3 DEF Sound, BuiltFrom
  <2> QED BY <2>1, <2>2
<1>5. DOMAIN values = {r \in Signal : Layout[r].pdu_id = f.pdu}
      /\ \A s \in DOMAIN values : values[s] = unpack_signal(data, s)
  BY DEF unpack_signal_from_pdu
<1>6. ASSUME Taken, NEW s \in DOMAIN values
      PROVE  /\ s \in Signal /\ Given(s, f.meant[s])
             /\ values[s] = RawOf(s, f.meant[s]) * Layout[s].factor + Layout[s].offset
             /\ values[s] \in Int
  <2>1. s \in Signal /\ Layout[s].pdu_id = f.pdu
    BY <1>5
  <2>2. Len(f.payload) = Layout[s].pdu_length_bytes
    BY <1>4, <1>6, <2>1 DEF Unpackable
  <2>3. values[s] = unpack_signal(f.payload, s) /\ Given(s, f.meant[s])
    BY <1>3, <1>4, <1>5, <1>6, <2>1 DEF Sound
  <2>4. values[s] = RawOf(s, f.meant[s]) * Layout[s].factor + Layout[s].offset
    BY <1>2, <2>1, <2>2, <2>3, UnpackSound
  <2>5. RawOf(s, f.meant[s]) \in Nat /\ Layout[s].factor \in Nat /\ Layout[s].offset \in Int
    BY <2>1, <2>3, RawRange, LayoutFacts
  <2> QED BY <2>1, <2>3, <2>4, <2>5
<1> HIDE DEF data, values, Taken
<1>7. ShownInv'
  <2>1. CASE Taken
    <3>1. /\ shown' = [s \in Signal |-> IF s \in DOMAIN values THEN values[s] ELSE shown[s]]
          /\ meant' = [s \in Signal |-> IF s \in DOMAIN values THEN f.meant[s] ELSE meant[s]]
      BY <1>1, <2>1
    <3>2. ASSUME NEW s \in Signal
          PROVE  /\ shown'[s] \in Int \cup {Unset} /\ Given(s, meant'[s])
                 /\ shown'[s] = Unset
                      \/ shown'[s] = RawOf(s, meant'[s]) * Layout[s].factor + Layout[s].offset
      <4>1. CASE s \in DOMAIN values
        BY <1>6, <2>1, <3>1, <4>1
      <4>2. CASE s \notin DOMAIN values
        <5>1. shown'[s] = shown[s] /\ meant'[s] = meant[s]
          BY <3>1, <4>2
        <5> QED BY <5>1 DEF WireInv, ShownInv
      <4> QED BY <4>1, <4>2
    <3>3. shown' \in [Signal -> Int \cup {Unset}] /\ meant' = [s \in Signal |-> meant'[s]]
      BY <3>1, <3>2
    <3> QED BY <3>2, <3>3 DEF ShownInv, Given, RawOf
  <2>2. CASE ~Taken
    BY <1>1, <2>2 DEF WireInv, ShownInv
  <2> QED BY <2>1, <2>2
<1>8. BufferInv'
  BY <1>1 DEF WireInv, BufferInv
<1> QED BY <1>2, <1>7, <1>8 DEF WireInv
-----------------------------------------------------------------------------
(* A step of the application, of a receiver, or of the scheduler. *)
LEMMA WireStep == WireInv /\ SchedulerInv /\ [Next]_vars => WireInv'
<1> SUFFICES ASSUME WireInv, SchedulerInv, [Next]_vars PROVE WireInv'
  OBVIOUS
<1>1. CASE UNCHANGED <<txBuffers, queue, shown, packed, meant>>
  BY <1>1 DEF WireInv, BufferInv, ShownInv
<1>2. ASSUME Setup \/ Tick \/ (Skip /\ UNCHANGED <<txBuffers, queue, shown, packed, meant>>)
             \/ UNCHANGED vars
      PROVE  UNCHANGED <<txBuffers, queue, shown, packed, meant>>
  BY <1>2 DEF Setup, Tick, vars
<1>3. CASE Callback
  BY <1>3, CallbackInv DEF SchedulerInv
<1>4. ASSUME NEW s \in Signal, NEW value \in Value[s], Pack(s, value)
      PROVE  WireInv'
  BY <1>4, PackInv
<1>5. ASSUME NEW t \in Transport, Receive(t)
      PROVE  WireInv'
  BY <1>5, ReceiveInv
<1> QED BY <1>1, <1>2, <1>3, <1>4, <1>5 DEF Next

(* From the application's value to the handler's: the buffers, the frames under
   way and what the handler was told agree, in every reachable state. *)
THEOREM WireInvariance == Spec => []WireInv
<1>1. Init => WireInv
  <2> SUFFICES ASSUME Init PROVE WireInv
    OBVIOUS
  <2>1. BufferInv
    BY LayoutFacts DEF Init, PackagerInit, BufferInv, Given
  <2>2. queue \in Seq(SoundFrame)
    BY EmptySeq DEF Init
  <2>3. ShownInv
    BY DEF Init, ShownInv, Given
  <2> QED BY <2>1, <2>2, <2>3 DEF WireInv
<1>2. WireInv /\ SchedulerInv /\ [Next]_vars => WireInv'
  BY WireStep
<1>3. Spec => []SchedulerInv
  BY SchedulerInvariance
<1> QED BY <1>1, <1>2, <1>3, PTL DEF Spec

(* Every frame on the bus is a sound one. *)
LEMMA QueuedIsSound ==
  ASSUME WireInv, NEW i \in DOMAIN queue
  PROVE  queue[i] \in SoundFrame
BY DEF WireInv

(* The type invariant: every buffer and every frame is made of bytes. *)
THEOREM PeriodicTypes == Spec => []PeriodicTypeOK
<1>1. WireInv /\ SchedulerInv => PeriodicTypeOK
  <2> SUFFICES ASSUME WireInv, SchedulerInv PROVE PeriodicTypeOK
    OBVIOUS
  <2>1. BufferTyped
    <3> SUFFICES ASSUME NEW p \in SignalPdu, txBuffers[p] # NoBuffer
                 PROVE  \E s \in Signal : Layout[s].pdu_id = p
                          /\ Len(txBuffers[p]) = Layout[s].pdu_length_bytes
                          /\ \A i \in DOMAIN txBuffers[p] : txBuffers[p][i] \in Byte
      BY DEF BufferTyped
    <3>1. PICK s \in Signal : Layout[s].pdu_id = p
      BY DEF SignalPdu
    <3> DEFINE data == txBuffers[p]
               length == Layout[s].pdu_length_bytes
    <3>2. data \in Pdu(length) /\ length \in Nat
      BY <3>1, LayoutFacts DEF WireInv, BufferInv
    <3> HIDE DEF data, length
    <3>3. Len(data) = length
      BY <3>2, PduIsBuffer
    <3>4. \A i \in DOMAIN data : data[i] \in Byte
      BY <3>2 DEF Pdu
    <3> QED BY <3>1, <3>3, <3>4 DEF data, length
  <2>2. ASSUME NEW i \in DOMAIN queue, NEW j \in DOMAIN queue[i].bytes
        PROVE  queue[i].bytes[j] \in Byte
    <3>1. queue[i].bytes \in Seq(Byte)
      BY QueuedIsSound DEF SoundFrame, Frame
    <3> QED BY <3>1
  <2>3. ASSUME NEW s \in Signal
        PROVE  {packed[s], meant[s]} \subseteq Value[s] \cup {Unset}
    <3>1. Given(s, packed[s])
      BY DEF WireInv, BufferInv
    <3>2. Given(s, meant[s])
      BY DEF WireInv, ShownInv
    <3> QED BY <3>1, <3>2 DEF Given
  <2>4. shown \in [Signal -> Int \cup {Unset}] /\ SchedulerTyped
    BY DEF WireInv, ShownInv, SchedulerInv
  <2> QED BY <2>1, <2>2, <2>3, <2>4 DEF PeriodicTypeOK
<1> QED BY <1>1, WireInvariance, SchedulerInvariance, PTL

(* The handler is told the value that was packed, to half a factor: packing a
   signal leaves its siblings alone, and no send takes along what another one
   left. *)
THEOREM DecodedIsPackedHolds == Spec => []DecodedIsPacked
<1>1. WireInv => DecodedIsPacked
  <2> SUFFICES ASSUME WireInv, NEW s \in Signal, shown[s] # Unset
               PROVE  2 * (shown[s] - (IF meant[s] = Unset THEN Layout[s].offset ELSE meant[s]))
                        \in -Layout[s].factor .. Layout[s].factor
    BY DEF DecodedIsPacked
  <2>1. /\ shown[s] = RawOf(s, meant[s]) * Layout[s].factor + Layout[s].offset
        /\ Given(s, meant[s])
    BY DEF WireInv, ShownInv
  <2>2. Layout[s].factor \in Nat \ {0} /\ Layout[s].offset \in Int
    BY LayoutFacts
  <2> DEFINE d == Layout[s].factor
             o == Layout[s].offset
             v == meant[s]
  <2> HIDE DEF d, o
  <2>3. CASE v = Unset
    <3>1. shown[s] = 0 * d + o
      BY <2>1, <2>3 DEF RawOf, d, o
    <3>2. d \in Nat \ {0} /\ o \in Int
      BY <2>2 DEF d, o
    <3>3. 2 * (shown[s] - o) \in -d .. d
      BY <3>1, <3>2
    <3> QED BY <2>3, <3>3 DEF d, o
  <2>4. CASE v # Unset
    <3>1. v \in Int
      BY <2>1, <2>4, PeriodicAssumption DEF Given
    <3> DEFINE n == v - o
               q == RoundHalfEven(n, d)
    <3>2. d \in Nat \ {0} /\ o \in Int /\ n \in Int
      BY <2>2, <3>1 DEF d, o
    <3>3. shown[s] = q * d + o
      BY <2>1, <2>4 DEF RawOf, Raw, d, o
    <3> HIDE DEF v
    <3>4. q \in Int /\ 2 * (q * d - n) \in -d .. d
      <4> HIDE DEF n
      <4> QED BY <3>2, RoundError
    <3> HIDE DEF q
    <3>5. shown[s] - v = q * d - n
      <4>1. q * d \in Int
        BY <3>2, <3>4
      <4> QED BY <3>1, <3>2, <3>3, <4>1
    <3> HIDE DEF n
    <3>6. 2 * (shown[s] - v) \in -d .. d
      BY <3>4, <3>5
    <3> QED BY <2>4, <3>6 DEF d, v
  <2> QED BY <2>3, <2>4
<1> QED BY <1>1, WireInvariance, PTL

(* A receiver on the same transport gets the payload, the MAC, and the counter to
   the length of its field: for every profile, counter and payload. *)
THEOREM ParsedAsBuiltHolds == Spec => []ParsedAsBuilt
<1>1. WireInv => ParsedAsBuilt
  <2> SUFFICES ASSUME WireInv, NEW i \in DOMAIN queue
               PROVE  LET f == queue[i]
                      IN  /\ ~Malformed(f.bytes, f.transport)
                          /\ parse_secured_pdu(f.bytes, f.transport) =
                               [payload |-> f.payload, mac |-> MacBytes(f.transport),
                                fresh |-> f.fresh
                                            % PowerOf256[truncation_lengths(f.transport).fresh]]
    BY DEF ParsedAsBuilt
  <2> DEFINE f == queue[i]
  <2>1. f \in SoundFrame
    BY QueuedIsSound
  <2> HIDE DEF f
  <2>2. ~Malformed(f.bytes, f.transport)
    BY <2>1, SoundApart DEF Apart
  <2>3. BuiltFrom(f.bytes, f.payload, f.fresh, f.transport)
    BY <2>1 DEF SoundFrame, Sound
  <2> QED BY <2>2, <2>3 DEF f, BuiltFrom
<1> QED BY <1>1, WireInvariance, PTL

(* A frame goes out on the interface of the transport it was built for, and does
   not parse on the other one. *)
THEOREM TransportsApartHolds == Spec => []TransportsApart
<1>1. WireInv => TransportsApart
  <2> SUFFICES ASSUME WireInv, NEW i \in DOMAIN queue PROVE Apart(queue[i])
    BY DEF TransportsApart, Apart
  <2> QED BY QueuedIsSound, SoundApart
<1> QED BY <1>1, WireInvariance, PTL
=============================================================================
