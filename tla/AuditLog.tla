------------------------------- MODULE AuditLog -------------------------------
(***************************************************************************)
(* HashChainedLog of sim/dem.py: an append-only journal of max_entries     *)
(* entries, each hashed together with the hash before it, and what can     *)
(* happen to its entries behind its back.                                  *)
(*                                                                         *)
(* SHA-256 is taken to be injective: the hash of an entry is the sequence  *)
(* of all events it was computed from, down to the genesis hash << >>.  It *)
(* has no key: whoever alters an entry can compute its hash again.  An     *)
(* event stands for the whole entry (event, timestamp and detail).         *)
(***************************************************************************)
EXTENDS SequencesExt, Naturals

CONSTANTS Event,
          MaxEntries, \* HashChainedLog._max
          MaxLogged   \* bound: calls of log, and events behind a recomputed hash

ASSUME AuditAssumption == MaxEntries \in Nat \ {0}

VARIABLES
  entries,   \* HashChainedLog._entries
  prevHash,  \* HashChainedLog._prev_hash
  logged,    \* history: the events of all calls of log
  tampered,  \* history: entries were changed other than by log
  rehashed   \* history: an entry was given a hash that log did not give it

vars == <<entries, prevHash, logged, tampered, rehashed>>

Genesis == << >>

Init ==
  /\ entries = << >>
  /\ prevHash = Genesis
  /\ logged = << >>
  /\ tampered = FALSE
  /\ rehashed = FALSE

(* Mutation: an entry is hashed without the hash before it. *)
chain_hashAlone(prev, event) == << event >>

chain_hash(prev, event) == Append(prev, event)

(* Mutations: a full journal drops its new entry; it grows by one more. *)
EvictNewest(s) == IF Len(s) > MaxEntries THEN Front(s) ELSE s
EvictLate(s) == IF Len(s) > MaxEntries + 1 THEN Tail(s) ELSE s

Evict(s) == IF Len(s) > MaxEntries THEN Tail(s) ELSE s

log(event) ==
  LET hash == chain_hash(prevHash, event)
  IN  /\ Len(logged) < MaxLogged
      /\ prevHash' = hash
      /\ entries' = Evict(Append(entries, [event |-> event, hash |-> hash]))
      /\ logged' = Append(logged, event)
      /\ UNCHANGED <<tampered, rehashed>>

HashBefore(i) == IF i = 1 THEN Genesis ELSE entries[i - 1].hash

(* entries() hands out the entries themselves, with their hashes.  One of them
   is altered, and keeps its hash or is given the one that fits it again. *)
Modify ==
  \E i \in DOMAIN entries, event \in Event :
    \E hash \in {entries[i].hash, chain_hash(HashBefore(i), event)} :
      /\ Len(hash) <= MaxLogged
      /\ [event |-> event, hash |-> hash] # entries[i]
      /\ entries' = [entries EXCEPT ![i] = [event |-> event, hash |-> hash]]
      /\ rehashed' = (rehashed \/ hash # entries[i].hash)

(* Entries are removed from _entries, or exchanged in it. *)
Delete ==
  /\ \E i \in DOMAIN entries : entries' = RemoveAt(entries, i)
  /\ UNCHANGED rehashed

Exchange ==
  /\ \E i, j \in DOMAIN entries :
       i < j /\ entries' = [entries EXCEPT ![i] = entries[j], ![j] = entries[i]]
  /\ UNCHANGED rehashed

Tamper ==
  /\ Modify \/ Delete \/ Exchange
  /\ tampered' = TRUE
  /\ UNCHANGED <<prevHash, logged>>

Next == (\E event \in Event : log(event)) \/ Tamper

Spec == Init /\ [][Next]_vars
-----------------------------------------------------------------------------
verify_integrity ==
  \A i \in DOMAIN entries : entries[i].hash = chain_hash(HashBefore(i), entries[i].event)

Events == [i \in DOMAIN entries |-> entries[i].event]

(* Type invariant. *)
TypeOK ==
  /\ \A i \in DOMAIN entries : entries[i] \in [event : Event, hash : Seq(Event)]
  /\ Len(entries) <= MaxEntries
  /\ prevHash \in Seq(Event)
  /\ logged \in Seq(Event)
  /\ tampered \in BOOLEAN
  /\ rehashed \in BOOLEAN

(* What verify_integrity vouches for.  As long as no hash was computed again, a
   journal that verifies is a beginning of what was logged, in order: entries
   can be missing at its end only.  With hashes computed again it can hold
   anything, until log is called: _prev_hash is out of reach of the entries, so
   a journal that verifies and ends with an entry that log chained to it is all
   that was logged, whatever was done to the entries before. *)
VerifiedIsGenuine ==
  verify_integrity =>
    /\ ~rehashed => IsPrefix(Events, logged)
    /\ entries # << >> /\ Last(entries).hash = prevHash => Events = logged

(* What the class promises: "any modification or deletion of a past entry
   breaks the chain and is detected by verify_integrity()".  It does not hold:
   no hash of a later entry covers the last one, and the walk does not compare
   where it ends with _prev_hash. *)
AlterationDetected == verify_integrity => Events = logged

(* A journal that was left alone holds the newest events, in order.  It
   verifies until the first eviction and never again: the hash before its
   oldest entry is gone, although FIFO eviction and a walk from genesis are
   both design rules of the class. *)
KeepsNewest ==
  ~tampered =>
    /\ IsSuffix(Events, logged)
    /\ Len(logged) > MaxEntries => Len(entries) = MaxEntries
    /\ verify_integrity <=> Len(logged) <= MaxEntries
=============================================================================
