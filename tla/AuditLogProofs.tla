---------------------------- MODULE AuditLogProofs ----------------------------
(***************************************************************************)
(* Proofs about AuditLog: what a journal that verifies can hold, whatever  *)
(* was done to its entries, and what a journal that was left alone holds.  *)
(*                                                                         *)
(* The walk of verify_integrity pins the i-th hash to the first i events   *)
(* of the journal, whatever the entries are, by induction on the position; *)
(* the induction is a least counterexample, LeastNatural.  The last hash   *)
(* then decides: no alteration reaches _prev_hash, which stands for all    *)
(* that was logged, and as long as no hash was computed again the hash of  *)
(* every entry is a beginning of what was logged (HashesLogged).           *)
(***************************************************************************)
EXTENDS AuditLog, SequenceTheorems, WellFoundedInduction, TLAPS

(* Every nonempty set of naturals has a least element. *)
LEMMA LeastNatural ==
  ASSUME NEW T \in SUBSET Nat, T # {}
  PROVE  \E n \in T : \A m \in T : n <= m
<1> DEFINE R == OpToRel(<, Nat)
<1>1. IsWellFoundedOn(R, Nat)
  BY NatLessThanWellFounded
<1>2. R = {ss \in Nat \X Nat : ss[1] < ss[2]}
  BY DEF OpToRel
<1>3. PICK n \in T : \A m \in T : ~(<<m, n>> \in R)
  <2> HIDE DEF R
  <2> QED BY <1>1, WFMin
<1>4. \A m \in T : ~(m < n)
  BY <1>2, <1>3
<1> QED BY <1>4

-----------------------------------------------------------------------------
Entry == [event : Event, hash : Seq(Event)]

(* The fields of an entry. *)
LEMMA EntryTyped ==
  ASSUME NEW e \in Entry
  PROVE  e.event \in Event /\ e.hash \in Seq(Event)
BY DEF Entry

(* What stands at position i of a journal that holds the last n events. *)
Newest(n, i) ==
  LET at == Len(logged) - n + i
  IN  [event |-> logged[at], hash |-> SubSeq(logged, 1, at)]

Typed ==
  /\ entries \in Seq(Entry) /\ Len(entries) <= MaxEntries
  /\ logged \in Seq(Event)
  /\ tampered \in BOOLEAN /\ rehashed \in BOOLEAN

HashesLogged ==
  /\ prevHash = logged
  /\ ~rehashed =>
       \A i \in DOMAIN entries :
         LET hash == entries[i].hash
         IN  Len(hash) \in 1 .. Len(logged) /\ hash = SubSeq(logged, 1, Len(hash))

Untouched ==
  ~tampered =>
    /\ ~rehashed
    /\ Len(entries) = IF Len(logged) <= MaxEntries THEN Len(logged) ELSE MaxEntries
    /\ \A i \in DOMAIN entries : entries[i] = Newest(Len(entries), i)

Inv == Typed /\ HashesLogged /\ Untouched

(* A beginning of what was logged is one after the next event too. *)
LEMMA BeginningKept ==
  ASSUME NEW s \in Seq(Event), NEW e \in Event, NEW n \in 0 .. Len(s)
  PROVE  SubSeq(Append(s, e), 1, n) = SubSeq(s, 1, n)
<1>1. /\ Append(s, e) \in Seq(Event) /\ Len(Append(s, e)) = Len(s) + 1
      /\ \A i \in 1 .. n : Append(s, e)[i] = s[i]
  OBVIOUS
<1>2. /\ SubSeq(s, 1, n) \in Seq(Event) /\ Len(SubSeq(s, 1, n)) = n
      /\ \A i \in 1 .. n : SubSeq(s, 1, n)[i] = s[i]
  OBVIOUS
<1>3. /\ SubSeq(Append(s, e), 1, n) \in Seq(Event) /\ Len(SubSeq(Append(s, e), 1, n)) = n
      /\ \A i \in 1 .. n : SubSeq(Append(s, e), 1, n)[i] = Append(s, e)[i]
  BY <1>1
<1> QED BY <1>1, <1>2, <1>3, SeqEqual

(* log: the new entry's hash is all that was logged, and the oldest entry of a
   full journal goes. *)
LEMMA LogInv ==
  ASSUME Inv, NEW event \in Event, log(event)
  PROVE  Inv'
<1> DEFINE new == [event |-> event, hash |-> Append(logged, event)]
           grown == Append(entries, new)
           n == Len(entries)
<1> USE AuditAssumption
<1>1. /\ entries \in Seq(Entry) /\ n \in Nat /\ n <= MaxEntries
      /\ logged \in Seq(Event) /\ prevHash = logged
  BY DEF Inv, Typed, HashesLogged
<1>2. /\ prevHash' = Append(logged, event) /\ logged' = Append(logged, event)
      /\ entries' = Evict(grown) /\ tampered' = tampered /\ rehashed' = rehashed
  BY <1>1 DEF log, chain_hash
<1>3. /\ logged' \in Seq(Event) /\ Len(logged') = Len(logged) + 1
      /\ logged'[Len(logged) + 1] = event
      /\ \A i \in 1 .. Len(logged) : logged'[i] = logged[i]
      /\ SubSeq(logged', 1, Len(logged')) = logged'
  BY <1>1, <1>2, AppendProperties, SubSeqFull
<1>4. new \in Entry
  BY <1>2, <1>3 DEF Entry
<1> HIDE DEF new, Entry
<1>5. /\ grown \in Seq(Entry) /\ Len(grown) = n + 1 /\ grown[n + 1] = new
      /\ \A i \in 1 .. n : grown[i] = entries[i]
  BY <1>1, <1>4, AppendProperties
<1> HIDE DEF grown
<1>6. ASSUME ~rehashed, NEW i \in 1 .. n + 1
      PROVE  /\ Len(grown[i].hash) \in 1 .. Len(logged')
             /\ grown[i].hash = SubSeq(logged', 1, Len(grown[i].hash))
  <2>1. CASE i = n + 1
    <3>1. grown[i].hash = logged'
      BY <1>2, <1>5, <2>1 DEF new
    <3>2. Len(logged') \in 1 .. Len(logged')
      BY <1>1, <1>3
    <3> QED BY <1>3, <3>1, <3>2
  <2>2. CASE i # n + 1
    <3>1. i \in 1 .. n /\ i \in DOMAIN entries
      BY <1>1, <2>2
    <3> DEFINE h == entries[i].hash
    <3>2. Len(h) \in 1 .. Len(logged) /\ h = SubSeq(logged, 1, Len(h))
      BY <1>6, <3>1 DEF Inv, HashesLogged
    <3>3. SubSeq(logged', 1, Len(h)) = SubSeq(logged, 1, Len(h))
      BY <1>1, <1>2, <3>2, BeginningKept
    <3> QED BY <1>1, <1>3, <1>5, <3>1, <3>2, <3>3
  <2> QED BY <2>1, <2>2
<1>7. \/ n + 1 <= MaxEntries /\ entries' = grown
      \/ n = MaxEntries /\ entries' = Tail(grown)
  BY <1>1, <1>2, <1>5 DEF Evict
<1>8. \/ n + 1 <= MaxEntries /\ entries' = grown
      \/ /\ n = MaxEntries /\ entries' \in Seq(Entry) /\ Len(entries') = n
         /\ \A i \in 1 .. n : entries'[i] = grown[i + 1]
  <2>1. grown # << >>
    BY <1>1, <1>5
  <2>2. /\ Tail(grown) \in Seq(Entry) /\ Len(Tail(grown)) = n
        /\ \A i \in 1 .. n : Tail(grown)[i] = grown[i + 1]
    <3>1. Len(grown) - 1 = n
      BY <1>1, <1>5
    <3> HIDE DEF n
    <3> QED BY <1>5, <2>1, <3>1, HeadTailProperties
  <2> QED BY <1>7, <2>2
<1>9. Typed'
  BY <1>1, <1>2, <1>3, <1>5, <1>8 DEF Inv, Typed
<1>10. HashesLogged'
  <2> SUFFICES ASSUME ~rehashed, NEW i \in DOMAIN entries'
               PROVE  /\ Len(entries'[i].hash) \in 1 .. Len(logged')
                      /\ entries'[i].hash = SubSeq(logged', 1, Len(entries'[i].hash))
    BY <1>2 DEF HashesLogged
  <2>1. CASE entries' = grown
    BY <1>5, <1>6, <2>1
  <2>2. CASE entries' \in Seq(Entry) /\ Len(entries') = n /\ \A j \in 1 .. n : entries'[j] = grown[j + 1]
    <3>1. i \in 1 .. n /\ i + 1 \in 1 .. n + 1 /\ entries'[i] = grown[i + 1]
      BY <1>1, <2>2
    <3> QED BY <1>6, <3>1
  <2> QED BY <1>8, <2>1, <2>2
<1>11. Untouched'
  <2> SUFFICES ASSUME ~tampered
               PROVE  /\ ~rehashed
                      /\ Len(entries') = IF Len(logged') <= MaxEntries THEN Len(logged') ELSE MaxEntries
                      /\ \A i \in DOMAIN entries' : entries'[i] = Newest(Len(entries), i)'
    BY <1>2 DEF Untouched
  <2>0. ~rehashed
    BY DEF Inv, Untouched
  <2>1. /\ n = IF Len(logged) <= MaxEntries THEN Len(logged) ELSE MaxEntries
        /\ \A i \in 1 .. n : entries[i] = Newest(n, i)
    BY <1>1 DEF Inv, Untouched
  <2>2. ASSUME NEW i \in 1 .. n + 1
        PROVE  grown[i] = [event |-> logged'[Len(logged) - n + i],
                           hash  |-> SubSeq(logged', 1, Len(logged) - n + i)]
    <3>1. CASE i = n + 1
      <4>1. grown[i] = [event |-> event, hash |-> logged'] /\ Len(logged) - n + i = Len(logged')
        BY <1>1, <1>2, <1>3, <1>5, <3>1 DEF new
      <4> QED BY <1>3, <4>1
    <3>2. CASE i # n + 1
      <4> DEFINE at == Len(logged) - n + i
      <4>1. i \in 1 .. n /\ at \in 1 .. Len(logged)
        BY <1>1, <2>1, <3>2
      <4>2. grown[i] = [event |-> logged[at], hash |-> SubSeq(logged, 1, at)]
        BY <1>5, <2>1, <4>1 DEF Newest
      <4>3. SubSeq(logged', 1, at) = SubSeq(logged, 1, at)
        BY <1>1, <1>2, <4>1, BeginningKept
      <4> QED BY <1>3, <4>1, <4>2, <4>3
    <3> QED BY <3>1, <3>2
  <2>3. CASE n + 1 <= MaxEntries /\ entries' = grown
    <3>1. Len(logged) = n /\ Len(logged') = n + 1 /\ Len(entries') = n + 1
      BY <1>1, <1>3, <1>5, <2>1, <2>3
    <3>2. ASSUME NEW i \in DOMAIN entries' PROVE entries'[i] = Newest(Len(entries), i)'
      <4>1. i \in 1 .. n + 1 /\ Len(logged') - Len(entries') + i = Len(logged) - n + i
        BY <1>1, <1>5, <2>3, <3>1
      <4> QED BY <2>2, <2>3, <4>1 DEF Newest
    <3> QED BY <1>1, <2>0, <2>3, <3>1, <3>2
  <2>4. CASE /\ n = MaxEntries /\ entries' \in Seq(Entry) /\ Len(entries') = n
             /\ \A j \in 1 .. n : entries'[j] = grown[j + 1]
    <3>1. Len(logged) >= n /\ Len(logged') = Len(logged) + 1
      BY <1>1, <1>3, <2>1, <2>4
    <3>2. ASSUME NEW i \in DOMAIN entries' PROVE entries'[i] = Newest(Len(entries), i)'
      <4>1. /\ i \in 1 .. n /\ i + 1 \in 1 .. n + 1
            /\ Len(logged') - Len(entries') + i = Len(logged) - n + (i + 1)
        <5>1. DOMAIN entries' = 1 .. n
          BY <2>4
        <5>2. Len(entries') = n /\ Len(logged) \in Nat
          BY <1>1, <2>4
        <5> HIDE DEF n
        <5> QED BY <1>1, <3>1, <5>1, <5>2
      <4>2. entries'[i] = grown[i + 1]
        BY <2>4, <4>1
      <4> QED BY <2>2, <4>1, <4>2 DEF Newest
    <3> QED BY <1>1, <2>0, <2>4, <3>1, <3>2
  <2> QED BY <1>8, <2>3, <2>4
<1> QED BY <1>9, <1>10, <1>11 DEF Inv

(* r is one shorter than s and has only elements of s. *)
OneLess(s, r) ==
  /\ Len(r) = Len(s) - 1
  /\ \A j \in 1 .. Len(s) - 1 : \E i \in 1 .. Len(s) : r[j] = s[i]

(* What RemoveAt leaves was there before. *)
LEMMA RemoveAtLemma ==
  ASSUME NEW S, NEW s \in Seq(S), NEW p \in 1 .. Len(s)
  PROVE  RemoveAt(s, p) \in Seq(S) /\ OneLess(s, RemoveAt(s, p))
<1> DEFINE a == SubSeq(s, 1, p - 1)
           b == SubSeq(s, p + 1, Len(s))
<1>1. a \in Seq(S) /\ Len(a) = p - 1 /\ \A j \in 1 .. p - 1 : a[j] = s[j]
  OBVIOUS
<1>2. b \in Seq(S) /\ Len(b) = Len(s) - p /\ \A j \in 1 .. Len(s) - p : b[j] = s[p + j]
  OBVIOUS
<1>3. RemoveAt(s, p) = a \o b
  BY DEF RemoveAt
<1> HIDE DEF a, b
<1>4. /\ a \o b \in Seq(S) /\ Len(a \o b) = Len(s) - 1
      /\ \A j \in 1 .. Len(s) - 1 : (a \o b)[j] = IF j <= p - 1 THEN a[j] ELSE b[j - (p - 1)]
  <2>1. Len(a) + Len(b) = Len(s) - 1
    BY <1>1, <1>2
  <2>2. /\ a \o b \in Seq(S) /\ Len(a \o b) = Len(a) + Len(b)
        /\ \A j \in 1 .. Len(a) + Len(b) :
             (a \o b)[j] = IF j <= Len(a) THEN a[j] ELSE b[j - Len(a)]
    BY <1>1, <1>2, ConcatProperties
  <2> QED BY <1>1, <2>1, <2>2
<1>5. ASSUME NEW j \in 1 .. Len(s) - 1 PROVE \E i \in 1 .. Len(s) : (a \o b)[j] = s[i]
  <2>1. CASE j <= p - 1
    BY <1>1, <1>4, <2>1
  <2>2. CASE ~(j <= p - 1)
    <3>1. j - (p - 1) \in 1 .. Len(s) - p /\ p + (j - (p - 1)) \in 1 .. Len(s)
      BY <2>2
    <3>2. (a \o b)[j] = s[p + (j - (p - 1))]
      BY <1>2, <1>4, <2>2, <3>1
    <3> QED BY <3>1, <3>2
  <2> QED BY <2>1, <2>2
<1> QED BY <1>3, <1>4, <1>5 DEF OneLess

(* Unless a hash was computed again, every hash is one that was there. *)
OldHashes ==
  ~rehashed' =>
    /\ ~rehashed
    /\ \A j \in DOMAIN entries' : \E i \in DOMAIN entries : entries'[j].hash = entries[i].hash

(* An alteration of the entries leaves _prev_hash alone, and every hash it
   does not compute again. *)
LEMMA TamperInv ==
  ASSUME Inv, Tamper
  PROVE  Inv'
<1>1. /\ entries \in Seq(Entry) /\ DOMAIN entries = 1 .. Len(entries)
      /\ Len(entries) <= MaxEntries /\ Len(entries) \in Nat /\ logged \in Seq(Event)
      /\ tampered' = TRUE /\ prevHash' = prevHash /\ logged' = logged /\ rehashed \in BOOLEAN
  BY DEF Inv, Typed, Tamper
<1>2. entries' \in Seq(Entry) /\ Len(entries') <= Len(entries) /\ rehashed' \in BOOLEAN /\ OldHashes
  <2>1. CASE Modify
    <3>1. PICK i \in DOMAIN entries, event \in Event :
            \E hash \in {entries[i].hash, chain_hash(HashBefore(i), event)} :
              /\ entries' = [entries EXCEPT ![i] = [event |-> event, hash |-> hash]]
              /\ rehashed' = (rehashed \/ hash # entries[i].hash)
      BY <2>1 DEF Modify
    <3>2. PICK hash \in {entries[i].hash, chain_hash(HashBefore(i), event)} :
            /\ entries' = [entries EXCEPT ![i] = [event |-> event, hash |-> hash]]
            /\ rehashed' = (rehashed \/ hash # entries[i].hash)
      BY <3>1
    <3> DEFINE new == [event |-> event, hash |-> hash]
    <3>3. new \in Entry
      <4>1. \A k \in DOMAIN entries : entries[k].hash \in Seq(Event)
        <5>1. \A k \in DOMAIN entries : entries[k] \in Entry
          BY <1>1
        <5> QED BY <5>1, EntryTyped
      <4>2. HashBefore(i) \in Seq(Event)
        <5>1. CASE i = 1
          BY <5>1, EmptySeq DEF HashBefore, Genesis
        <5>2. CASE i # 1
          <6>1. i - 1 \in DOMAIN entries
            BY <1>1, <5>2
          <6> QED BY <4>1, <5>2, <6>1 DEF HashBefore
        <5> QED BY <5>1, <5>2
      <4>3. hash \in Seq(Event)
        BY <4>1, <4>2, AppendProperties DEF chain_hash
      <4> QED BY <4>3 DEF Entry
    <3>4. entries' = [entries EXCEPT ![i] = new] /\ new.hash = hash
      BY <3>2
    <3> HIDE DEF new
    <3>5. /\ entries' \in Seq(Entry) /\ Len(entries') = Len(entries)
          /\ \A j \in 1 .. Len(entries) : entries'[j] = IF j = i THEN new ELSE entries[j]
      BY <1>1, <3>3, <3>4, ExceptSeq
    <3>6. DOMAIN entries' = DOMAIN entries
      BY <1>1, <3>5
    <3>7. ASSUME ~rehashed', NEW j \in DOMAIN entries'
          PROVE  entries'[j].hash = entries[j].hash
      <4>1. hash = entries[i].hash
        BY <3>2, <3>7
      <4> QED BY <1>1, <3>4, <3>5, <3>6, <4>1
    <3>8. rehashed' \in BOOLEAN /\ (~rehashed' => ~rehashed)
      BY <3>2
    <3> QED BY <1>1, <3>5, <3>6, <3>7, <3>8 DEF OldHashes
  <2>2. CASE Delete
    <3>1. PICK i \in 1 .. Len(entries) : entries' = RemoveAt(entries, i)
      BY <1>1, <2>2 DEF Delete
    <3>2. /\ entries' \in Seq(Entry) /\ Len(entries') = Len(entries) - 1
          /\ \A j \in 1 .. Len(entries) - 1 : \E h \in 1 .. Len(entries) : entries'[j] = entries[h]
      <4>1. entries' \in Seq(Entry) /\ OneLess(entries, entries')
        BY <1>1, <3>1, RemoveAtLemma
      <4> QED BY <4>1 DEF OneLess
    <3>3. DOMAIN entries' = 1 .. Len(entries) - 1
      BY <1>1, <3>2
    <3>4. ASSUME NEW j \in DOMAIN entries' PROVE \E h \in DOMAIN entries : entries'[j].hash = entries[h].hash
      <4>1. PICK h \in 1 .. Len(entries) : entries'[j] = entries[h]
        BY <3>2, <3>3
      <4> QED BY <1>1, <4>1
    <3>5. Len(entries') <= Len(entries)
      BY <1>1, <3>2
    <3>6. rehashed' = rehashed
      BY <2>2 DEF Delete
    <3> QED BY <1>1, <3>2, <3>4, <3>5, <3>6 DEF OldHashes
  <2>3. CASE Exchange
    <3>1. PICK i \in DOMAIN entries, j \in DOMAIN entries :
            entries' = [entries EXCEPT ![i] = entries[j], ![j] = entries[i]]
      BY <2>3 DEF Exchange
    <3>2. entries[i] \in Entry /\ entries[j] \in Entry
      BY <1>1
    <3> DEFINE once == [entries EXCEPT ![i] = entries[j]]
    <3>3. /\ once \in Seq(Entry) /\ Len(once) = Len(entries)
          /\ \A h \in DOMAIN entries : once[h] = IF h = i THEN entries[j] ELSE entries[h]
      BY <1>1, <3>2, ExceptSeq
    <3>4. entries' = [once EXCEPT ![j] = entries[i]]
      BY <3>1
    <3> HIDE DEF once
    <3>5. /\ entries' \in Seq(Entry) /\ Len(entries') = Len(entries)
          /\ \A h \in DOMAIN entries : entries'[h] = IF h = j THEN entries[i] ELSE once[h]
      BY <1>1, <3>2, <3>3, <3>4, ExceptSeq
    <3>6. DOMAIN entries' = DOMAIN entries
      BY <1>1, <3>5
    <3>7. \A k \in DOMAIN entries' : \E h \in DOMAIN entries : entries'[k].hash = entries[h].hash
      BY <1>1, <3>3, <3>5, <3>6, SMTT(30)
    <3>8. rehashed' = rehashed
      BY <2>3 DEF Exchange
    <3> QED BY <1>1, <3>5, <3>7, <3>8 DEF OldHashes
  <2> QED BY <2>1, <2>2, <2>3 DEF Tamper
<1>3. Typed'
  BY <1>1, <1>2, AuditAssumption DEF Typed
<1>4. HashesLogged'
  BY <1>1, <1>2 DEF Inv, HashesLogged, OldHashes
<1>5. Untouched'
  BY <1>1 DEF Untouched
<1> QED BY <1>3, <1>4, <1>5 DEF Inv

(* The invariant of the journal. *)
LEMMA InvAlways == Spec => []Inv
<1>1. ASSUME Init PROVE Inv
  <2>1. entries = << >> /\ logged = << >> /\ prevHash = << >> /\ tampered = FALSE /\ rehashed = FALSE
    BY <1>1 DEF Init, Genesis
  <2>2. /\ entries \in Seq(Entry) /\ Len(entries) = 0 /\ DOMAIN entries = {}
        /\ logged \in Seq(Event) /\ Len(logged) = 0
    BY <2>1, EmptySeq
  <2>3. Typed
    <3>1. Len(entries) <= MaxEntries
      BY <2>2, AuditAssumption
    <3>2. tampered \in BOOLEAN /\ rehashed \in BOOLEAN
      BY <2>1
    <3> QED BY <2>2, <3>1, <3>2, Zenon DEF Typed
  <2>4. HashesLogged
    BY <2>1, <2>2 DEF HashesLogged
  <2>5. Untouched
    BY <2>1, <2>2, AuditAssumption DEF Untouched
  <2> QED BY <2>3, <2>4, <2>5 DEF Inv
<1>2. Inv /\ [Next]_vars => Inv'
  <2> SUFFICES ASSUME Inv, [Next]_vars PROVE Inv'
    OBVIOUS
  <2>1. CASE UNCHANGED vars
    BY <2>1 DEF vars, Inv, Typed, HashesLogged, Untouched, Newest
  <2> QED BY <2>1, LogInv, TamperInv DEF Next
<1> QED BY <1>1, <1>2, PTL DEF Spec

-----------------------------------------------------------------------------
(* The journal's events are a sequence over Event. *)
LEMMA EventsTyped ==
  ASSUME Inv
  PROVE  /\ Events \in Seq(Event) /\ Len(Events) = Len(entries)
         /\ \A i \in 1 .. Len(entries) : Events[i] = entries[i].event
<1>1. /\ entries \in Seq(Entry) /\ DOMAIN entries = 1 .. Len(entries) /\ Len(entries) \in Nat
  BY DEF Inv, Typed
<1>2. Events = [i \in 1 .. Len(entries) |-> entries[i].event]
  BY <1>1 DEF Events
<1>3. \A i \in 1 .. Len(entries) : entries[i].event \in Event
  <2>1. \A i \in 1 .. Len(entries) : entries[i] \in Entry
    BY <1>1
  <2> QED BY <2>1, EntryTyped
<1> QED BY <1>1, <1>2, <1>3

(* A beginning and the event after it are the beginning one longer. *)
LEMMA BeginningGrows ==
  ASSUME NEW s \in Seq(Event), NEW n \in 1 .. Len(s)
  PROVE  SubSeq(s, 1, n) = Append(SubSeq(s, 1, n - 1), s[n])
<1> DEFINE before == SubSeq(s, 1, n - 1)
           grown == Append(before, s[n])
<1>1. /\ before \in Seq(Event) /\ Len(before) = n - 1
      /\ \A i \in 1 .. n - 1 : before[i] = s[i]
  OBVIOUS
<1>2. /\ SubSeq(s, 1, n) \in Seq(Event) /\ Len(SubSeq(s, 1, n)) = n
      /\ \A i \in 1 .. n : SubSeq(s, 1, n)[i] = s[i]
  OBVIOUS
<1>3. s[n] \in Event /\ n \in Nat
  OBVIOUS
<1> HIDE DEF before
<1>4. /\ grown \in Seq(Event) /\ Len(grown) = (n - 1) + 1
      /\ \A i \in 1 .. n - 1 : grown[i] = before[i]
      /\ grown[(n - 1) + 1] = s[n]
  BY <1>1, <1>3, AppendProperties
<1> HIDE DEF grown
<1>5. /\ Len(grown) = n
      /\ \A i \in 1 .. n : SubSeq(s, 1, n)[i] = grown[i]
  BY <1>1, <1>2, <1>3, <1>4
<1>6. SubSeq(s, 1, n) = grown
  BY <1>2, <1>4, <1>5, SeqEqual
<1> QED BY <1>6 DEF grown, before

(* The walk of verify_integrity: the hash of an entry stands for the events of
   the journal up to it, whatever the entries are. *)
LEMMA VerifiedWalk ==
  ASSUME Inv, verify_integrity, NEW i \in DOMAIN entries
  PROVE  entries[i].hash = SubSeq(Events, 1, i)
<1> DEFINE T == {k \in DOMAIN entries : entries[k].hash # SubSeq(Events, 1, k)}
<1>1. entries \in Seq(Entry) /\ DOMAIN entries = 1 .. Len(entries) /\ Len(entries) \in Nat
  BY DEF Inv, Typed
<1>2. /\ Events \in Seq(Event) /\ Len(Events) = Len(entries)
      /\ \A k \in DOMAIN entries : Events[k] = entries[k].event
  BY <1>1, EventsTyped
<1>3. \A k \in DOMAIN entries : entries[k].hash = Append(HashBefore(k), Events[k])
  BY <1>2 DEF verify_integrity, chain_hash
<1>4. \A k \in DOMAIN entries : SubSeq(Events, 1, k) = Append(SubSeq(Events, 1, k - 1), Events[k])
  BY <1>1, <1>2, BeginningGrows
<1>5. T = {}
  <2> SUFFICES ASSUME T # {} PROVE FALSE
    OBVIOUS
  <2>1. T \in SUBSET Nat
    BY <1>1
  <2>2. PICK k \in T : \A m \in T : k <= m
    <3> HIDE DEF T
    <3> QED BY <2>1, LeastNatural
  <2>3. HashBefore(k) = SubSeq(Events, 1, k - 1)
    <3>1. CASE k = 1
      <4>1. SubSeq(Events, 1, 0) = << >>
        BY <1>2
      <4> QED BY <3>1, <4>1 DEF HashBefore, Genesis
    <3>2. CASE k # 1
      <4>1. k - 1 \in DOMAIN entries /\ k - 1 \notin T
        BY <1>1, <2>2, <3>2
      <4> QED BY <3>2, <4>1 DEF HashBefore
    <3> QED BY <3>1, <3>2
  <2> QED BY <1>3, <1>4, <2>2, <2>3
<1> QED BY <1>5

(* Two sequences that agree as far as the first goes. *)
LEMMA AgreeIsPrefix ==
  ASSUME NEW S, NEW s \in Seq(S), NEW t \in Seq(S), Len(s) <= Len(t),
         \A i \in 1 .. Len(s) : s[i] = t[i]
  PROVE  IsPrefix(s, t)
<1>1. /\ SubSeq(s, 1, Len(s)) \in Seq(S) /\ Len(SubSeq(s, 1, Len(s))) = Len(s)
      /\ \A i \in 1 .. Len(s) : SubSeq(s, 1, Len(s))[i] = s[i]
  OBVIOUS
<1>2. /\ SubSeq(t, 1, Len(s)) \in Seq(S) /\ Len(SubSeq(t, 1, Len(s))) = Len(s)
      /\ \A i \in 1 .. Len(s) : SubSeq(t, 1, Len(s))[i] = t[i]
  OBVIOUS
<1>3. SubSeq(s, 1, Len(s)) = SubSeq(t, 1, Len(s))
  BY <1>1, <1>2, SeqEqual
<1> QED BY <1>3 DEF IsPrefix

(* Every variable of the journal keeps its type, and it never holds more than
   its limit. *)
THEOREM JournalTypes == Spec => []TypeOK
<1>1. ASSUME Inv PROVE TypeOK
  <2>1. /\ \A i \in DOMAIN entries : entries[i] \in Entry
        /\ Len(entries) <= MaxEntries /\ prevHash \in Seq(Event)
        /\ logged \in Seq(Event) /\ tampered \in BOOLEAN /\ rehashed \in BOOLEAN
    BY <1>1 DEF Inv, Typed, HashesLogged
  <2> QED BY <2>1 DEF TypeOK, Entry
<1> QED BY <1>1, InvAlways, PTL

(* For any limit, any events and any number of alterations, hashes computed
   again among them: a journal that verifies and ends with an entry that log
   chained is all that was logged, and one whose hashes are all of log is a
   beginning of what was logged. *)
THEOREM GenuineIfVerified == Spec => []VerifiedIsGenuine
<1>1. ASSUME Inv PROVE VerifiedIsGenuine
  <2> SUFFICES ASSUME verify_integrity
               PROVE  /\ ~rehashed => IsPrefix(Events, logged)
                      /\ entries # << >> /\ Last(entries).hash = prevHash => Events = logged
    BY DEF VerifiedIsGenuine
  <2>1. /\ entries \in Seq(Entry) /\ DOMAIN entries = 1 .. Len(entries) /\ logged \in Seq(Event)
        /\ Len(entries) \in Nat /\ Len(logged) \in Nat /\ prevHash = logged
    BY <1>1 DEF Inv, Typed, HashesLogged
  <2>2. Events \in Seq(Event) /\ Len(Events) = Len(entries)
    BY <1>1, EventsTyped
  <2>3. ASSUME entries # << >>
        PROVE  Len(entries) \in DOMAIN entries /\ Last(entries).hash = Events
    <3>1. Len(entries) \in DOMAIN entries
      BY <2>1, <2>3
    <3>2. entries[Len(entries)].hash = SubSeq(Events, 1, Len(entries))
      BY <1>1, <3>1, VerifiedWalk
    <3>3. SubSeq(Events, 1, Len(entries)) = Events
      BY <2>2, SubSeqFull
    <3> QED BY <3>1, <3>2, <3>3 DEF Last
  <2>4. ASSUME ~rehashed PROVE IsPrefix(Events, logged)
    <3>1. CASE entries = << >>
      <4>1. Len(Events) = 0
        BY <2>2, <3>1
      <4>2. Len(Events) <= Len(logged) /\ \A i \in 1 .. Len(Events) : Events[i] = logged[i]
        BY <2>1, <4>1
      <4> QED BY <2>1, <2>2, <4>2, AgreeIsPrefix
    <3>2. CASE entries # << >>
      <4>1. /\ Last(entries).hash = Events
            /\ Len(Last(entries).hash) \in 1 .. Len(logged)
            /\ Last(entries).hash = SubSeq(logged, 1, Len(Last(entries).hash))
        BY <1>1, <2>3, <2>4, <3>2 DEF Inv, HashesLogged, Last
      <4>2. Len(Events) \in 1 .. Len(logged) /\ Events = SubSeq(logged, 1, Len(Events))
        BY <4>1
      <4>3. \A i \in 1 .. Len(Events) : SubSeq(logged, 1, Len(Events))[i] = logged[i]
        BY <2>1, <4>2
      <4>4. \A i \in 1 .. Len(Events) : Events[i] = logged[i]
        BY <4>2, <4>3
      <4> QED BY <2>1, <2>2, <4>2, <4>4, AgreeIsPrefix
    <3> QED BY <3>1, <3>2
  <2> QED BY <2>1, <2>3, <2>4
<1> QED BY <1>1, InvAlways, PTL

(* A journal that was left alone holds the newest events, in order, and
   verifies until the first eviction and never again. *)
THEOREM NewestKept == Spec => []KeepsNewest
<1>1. ASSUME Inv PROVE KeepsNewest
  <2> SUFFICES ASSUME ~tampered
               PROVE  /\ IsSuffix(Events, logged)
                      /\ Len(logged) > MaxEntries => Len(entries) = MaxEntries
                      /\ verify_integrity <=> Len(logged) <= MaxEntries
    BY DEF KeepsNewest
  <2> DEFINE n == Len(entries)
             off == Len(logged) - n
  <2>1. /\ entries \in Seq(Entry) /\ DOMAIN entries = 1 .. n /\ logged \in Seq(Event)
        /\ n \in Nat /\ Len(logged) \in Nat /\ MaxEntries \in Nat \ {0}
    BY <1>1, AuditAssumption DEF Inv, Typed
  <2>2. n = (IF Len(logged) <= MaxEntries THEN Len(logged) ELSE MaxEntries) /\ off \in Nat
    <3>1. n = IF Len(logged) <= MaxEntries THEN Len(logged) ELSE MaxEntries
      BY <1>1, Zenon DEF Inv, Untouched
    <3> HIDE DEF n
    <3> QED BY <2>1, <3>1
  <2>3. ASSUME NEW i \in 1 .. n
        PROVE  /\ entries[i].event = logged[off + i]
               /\ entries[i].hash = SubSeq(logged, 1, off + i)
    <3>1. \A k \in DOMAIN entries : entries[k] = Newest(n, k)
      BY <1>1, Zenon DEF Inv, Untouched
    <3>2. entries[i] = Newest(n, i)
      BY <2>1, <3>1
    <3> QED BY <3>2 DEF Newest
  <2>4. /\ Events \in Seq(Event) /\ Len(Events) = n
        /\ \A i \in 1 .. n : Events[i] = entries[i].event
    BY <1>1, EventsTyped
  <2>off. off = Len(logged) - n
    OBVIOUS
  <2> HIDE DEF n, off
  <2>5. IsSuffix(Events, logged)
    <3>1. /\ Reverse(Events) \in Seq(Event) /\ Len(Reverse(Events)) = n
          /\ \A i \in 1 .. n : Reverse(Events)[i] = Events[n - i + 1]
      BY <2>1, <2>4 DEF Reverse
    <3>2. /\ Reverse(logged) \in Seq(Event) /\ Len(Reverse(logged)) = Len(logged)
          /\ \A i \in 1 .. Len(logged) : Reverse(logged)[i] = logged[Len(logged) - i + 1]
      BY <2>1 DEF Reverse
    <3>3. ASSUME NEW i \in 1 .. n PROVE Reverse(Events)[i] = Reverse(logged)[i]
      <4>1. n - i + 1 \in 1 .. n /\ off + (n - i + 1) = Len(logged) - i + 1 /\ i \in 1 .. Len(logged)
        <5>1. i <= n /\ n <= Len(logged) /\ i >= 1 /\ i \in Nat
          BY <2>1, <2>2
        <5>2. n \in Nat /\ Len(logged) \in Nat
          BY <2>1
        <5> QED BY <5>1, <5>2, <2>off
      <4>2. Events[n - i + 1] = logged[off + (n - i + 1)]
        BY <2>3, <2>4, <4>1
      <4> QED BY <3>1, <3>2, <4>1, <4>2
    <3>4. IsPrefix(Reverse(Events), Reverse(logged))
      BY <2>1, <2>2, <3>1, <3>2, <3>3, AgreeIsPrefix
    <3> QED BY <3>4 DEF IsSuffix
  <2>6. ASSUME Len(logged) <= MaxEntries PROVE verify_integrity
    <3>1. off = 0
      BY <2>1, <2>2, <2>6, <2>off
    <3> SUFFICES ASSUME NEW i \in 1 .. n
                 PROVE  entries[i].hash = Append(HashBefore(i), entries[i].event)
      BY <2>1 DEF verify_integrity, chain_hash
    <3>2. /\ entries[i].event = logged[i] /\ entries[i].hash = SubSeq(logged, 1, i)
          /\ i \in 1 .. Len(logged)
      BY <2>1, <2>2, <2>3, <2>6, <2>off, <3>1
    <3>3. HashBefore(i) = SubSeq(logged, 1, i - 1)
      <4>1. CASE i = 1
        BY <2>1, <4>1 DEF HashBefore, Genesis
      <4>2. CASE i # 1
        <5>1. i - 1 \in 1 .. n /\ off + (i - 1) = i - 1
          BY <2>1, <3>1, <4>2
        <5>2. entries[i - 1].hash = SubSeq(logged, 1, off + (i - 1))
          BY <2>3, <5>1
        <5> QED BY <4>2, <5>1, <5>2 DEF HashBefore
      <4> QED BY <4>1, <4>2
    <3> QED BY <2>1, <3>2, <3>3, BeginningGrows
  <2>7. ASSUME ~(Len(logged) <= MaxEntries) PROVE ~verify_integrity
    <3>1. off >= 1 /\ 1 \in 1 .. n
      BY <2>1, <2>2, <2>7, <2>off
    <3>2. entries[1].hash = SubSeq(logged, 1, off + 1) /\ off + 1 \in 1 .. Len(logged)
      <4>1. entries[1].hash = SubSeq(logged, 1, off + 1)
        BY <2>3, <3>1
      <4>2. n \in Nat /\ Len(logged) \in Nat /\ n >= 1
        BY <2>1, <3>1
      <4> QED BY <2>2, <2>off, <4>1, <4>2
    <3>3. Len(SubSeq(logged, 1, off + 1)) = off + 1
      BY <2>1, <3>2
    <3> SUFFICES ASSUME verify_integrity PROVE FALSE
      OBVIOUS
    <3>4. entries[1].hash = SubSeq(Events, 1, 1)
      BY <1>1, <2>1, <3>1, VerifiedWalk
    <3>5. Len(SubSeq(Events, 1, 1)) = 1
      BY <2>4, <3>1
    <3>6. off + 1 = 1
      BY <3>2, <3>3, <3>4, <3>5
    <3> QED BY <2>2, <3>1, <3>6
  <2>8. Len(logged) > MaxEntries => n = MaxEntries
    BY <2>1, <2>2
  <2> QED BY <2>5, <2>6, <2>7, <2>8 DEF n
<1> QED BY <1>1, InvAlways, PTL
=============================================================================
