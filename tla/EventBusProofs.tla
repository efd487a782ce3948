---------------------------- MODULE EventBusProofs ----------------------------
(***************************************************************************)
(* Proofs about EventBus, for any number of clients, handlers and events.  *)
(*                                                                         *)
(* The invariants the runs check are not inductive.  Inv adds to them how  *)
(* the list, the loops over it and their payloads hang together: whoever   *)
(* has been sent the event of a loop, or noted as dead by it, stands       *)
(* before its position (SentPassed, DeadPassed), for a removal moves       *)
(* entries towards the head and never back; and an event is handed to one  *)
(* broadcast only (HandedOnce), by the cursor.  What the loop of removals  *)
(* leaves of the list is an induction on its length, told as the absence   *)
(* of a least counterexample (LeastNatural).                               *)
(***************************************************************************)
EXTENDS EventBus, SequenceTheorems, WellFoundedInduction, TLAPS

(* Every nonempty set of naturals has a least element. *)
LEMMA LeastNatural ==
  ASSUME NEW T \in SUBSET Nat, T # {}
  PROVE  \E n \in T : \A m \in T : n <= m
<1> DEFINE R == OpToRel(<, Nat)
<1>1. IsWellFoundedOn(R, Nat)
  BY NatLessThanWellFounded
<1>2. R = {ss \in Nat \X Nat : ss[1] < ss[2]}
  BY DEF OpToRel
<1>3. PICK n \in T : \A m \in T : ~(<<m, n>> \in R)
  <2> HIDE DEF R
  <2> QED BY <1>1, WFMin
<1>4. \A m \in T : ~(m < n)
  BY <1>2, <1>3
<1> QED BY <1>4

-----------------------------------------------------------------------------
(* s lost some entries to become r: each entry of r stands in s, and nowhere
   before its place in r. *)
Shrinks(s, r) ==
  \A j \in DOMAIN r : \E i \in DOMAIN s : i >= j /\ s[i] = r[j]

(* list.remove: of a list without duplicates it leaves the other entries. *)
LEMMA RemoveLemma ==
  ASSUME NEW S, NEW s \in Seq(S), IsInjective(s), NEW e \in S
  PROVE  /\ remove(s, e) \in Seq(S)
         /\ IsInjective(remove(s, e))
         /\ Shrinks(s, remove(s, e))
         /\ \A x \in S : Contains(remove(s, e), x) <=> Contains(s, x) /\ x # e
<1>1. CASE ~Contains(s, e)
  <2>1. remove(s, e) = s
    BY <1>1 DEF remove
  <2>2. Shrinks(s, s)
    BY DEF Shrinks
  <2> QED BY <1>1, <2>1, <2>2
<1>2. CASE Contains(s, e)
  <2> DEFINE p == CHOOSE i \in DOMAIN s : s[i] = e
             r == [j \in 1 .. Len(s) - 1 |-> s[IF j < p THEN j ELSE j + 1]]
  <2>4. p \in 1 .. Len(s) /\ s[p] = e
    BY <1>2 DEF Contains
  <2>5. remove(s, e) = r
    BY <1>2 DEF remove
  <2> HIDE DEF p
  <2>6. r \in Seq(S) /\ Len(r) = Len(s) - 1
    BY <2>4
  <2>7. IsInjective(r)
    BY <2>4, <2>6 DEF IsInjective
  <2>8. Shrinks(s, r)
    BY <2>4, <2>6 DEF Shrinks
  <2>9. ASSUME NEW x \in S
        PROVE  Contains(r, x) <=> Contains(s, x) /\ x # e
    <3>1. ASSUME Contains(r, x) PROVE Contains(s, x) /\ x # e
      BY <2>4, <2>6, <3>1 DEF Contains, IsInjective
    <3>2. ASSUME Contains(s, x), x # e PROVE Contains(r, x)
      <4>1. PICK i \in 1 .. Len(s) : s[i] = x
        BY <3>2 DEF Contains
      <4>2. i < p \/ i > p
        BY <2>4, <3>2, <4>1
      <4>3. \E j \in 1 .. Len(r) : r[j] = x
        <5>1. CASE i < p
          <6>1. i \in 1 .. Len(r) /\ r[i] = x
            BY <2>4, <2>6, <4>1, <5>1
          <6> QED BY <6>1
        <5>2. CASE i > p
          <6>1. i - 1 \in 1 .. Len(r) /\ r[i - 1] = x
            BY <2>4, <2>6, <4>1, <5>2
          <6> QED BY <6>1
        <5> QED BY <4>2, <5>1, <5>2
      <4> QED BY <4>3 DEF Contains
    <3> QED BY <3>1, <3>2
  <2> QED BY <2>5, <2>6, <2>7, <2>8, <2>9
<1> QED BY <1>1, <1>2

(* The loop over the dead clients: after k removals. *)
Removed(f, list, gone, n) ==
  f = [k \in 0 .. n |-> IF k = 0 THEN list ELSE remove(f[k - 1], gone[k])]

(* The loop runs to its end, by induction on the number of removals. *)
LEMMA RemovalExists ==
  ASSUME NEW list, NEW gone, NEW n \in Nat
  PROVE  \E f : Removed(f, list, gone, n)
<1> DEFINE T == {m \in Nat : ~\E f : Removed(f, list, gone, m)}
<1>1. SUFFICES ASSUME T # {} PROVE FALSE
  OBVIOUS
<1>2. PICK m \in T : \A k \in T : m <= k
  BY <1>1, LeastNatural
<1>3. m # 0
  <2>1. Removed([k \in 0 .. 0 |-> list], list, gone, 0)
    BY DEF Removed
  <2> QED BY <2>1
<1>4. PICK f : Removed(f, list, gone, m - 1)
  <2>1. m - 1 \in Nat /\ ~(m <= m - 1)
    BY <1>3
  <2> QED BY <1>2, <2>1
<1> DEFINE g == [k \in 0 .. m |-> IF k = m THEN remove(f[m - 1], gone[m]) ELSE f[k]]
<1>5. Removed(g, list, gone, m)
  <2>1. DOMAIN g = 0 .. m
    OBVIOUS
  <2>2. ASSUME NEW k \in 0 .. m
        PROVE  g[k] = IF k = 0 THEN list ELSE remove(g[k - 1], gone[k])
    <3>1. k # 0 => g[k - 1] = f[k - 1]
      BY <1>3
    <3>2. CASE k = m
      BY <1>3, <3>1, <3>2
    <3>3. CASE k # m
      <4>1. k \in 0 .. m - 1
        BY <1>3, <3>3
      <4>2. f[k] = IF k = 0 THEN list ELSE remove(f[k - 1], gone[k])
        BY <1>4, <4>1 DEF Removed
      <4> QED BY <3>1, <3>3, <4>2
    <3> QED BY <3>2, <3>3
  <2> QED BY <2>2 DEF Removed
<1> QED BY <1>5

(* The list after the removals, for a list without duplicates. *)
LEMMA WithoutLemma ==
  ASSUME NEW S, NEW list \in Seq(S), IsInjective(list), NEW gone \in Seq(S)
  PROVE  /\ Without(list, gone) \in Seq(S)
         /\ IsInjective(Without(list, gone))
         /\ Shrinks(list, Without(list, gone))
         /\ \A x \in S : Contains(Without(list, gone), x) <=> Contains(list, x) /\ ~Contains(gone, x)
<1> DEFINE n == Len(gone)
           w == CHOOSE f : Removed(f, list, gone, n)
           Good(k) == /\ w[k] \in Seq(S)
                      /\ IsInjective(w[k])
                      /\ Shrinks(list, w[k])
                      /\ \A x \in S : Contains(w[k], x) <=>
                           Contains(list, x) /\ ~\E i \in 1 .. k : gone[i] = x
           T == {k \in 0 .. n : ~Good(k)}
<1>1. n \in Nat
  OBVIOUS
<1>2. Without(list, gone) = w[n]
  BY DEF Without, Removed
<1>3. Removed(w, list, gone, n)
  BY <1>1, RemovalExists
<1> HIDE DEF w, n
<1>4. w[0] = list /\ \A k \in 1 .. n : w[k] = remove(w[k - 1], gone[k])
  BY <1>1, <1>3 DEF Removed
<1>5. Good(0)
  BY <1>4 DEF Shrinks
<1>6. ASSUME NEW k \in 1 .. n, Good(k - 1) PROVE Good(k)
  <2>1. gone[k] \in S
    BY <1>6 DEF n
  <2>2. /\ w[k] \in Seq(S)
        /\ IsInjective(w[k])
        /\ Shrinks(w[k - 1], w[k])
        /\ \A x \in S : Contains(w[k], x) <=> Contains(w[k - 1], x) /\ x # gone[k]
    <3>1. w[k - 1] \in Seq(S) /\ IsInjective(w[k - 1])
      BY <1>6
    <3>2. w[k] = remove(w[k - 1], gone[k])
      BY <1>4, <1>6
    <3> DEFINE v == w[k - 1]
               e == gone[k]
    <3> HIDE DEF Good, v, e
    <3>3. v \in Seq(S) /\ IsInjective(v) /\ e \in S
      BY <2>1, <3>1 DEF v, e
    <3>4. /\ remove(v, e) \in Seq(S)
          /\ IsInjective(remove(v, e))
          /\ Shrinks(v, remove(v, e))
          /\ \A x \in S : Contains(remove(v, e), x) <=> Contains(v, x) /\ x # e
      BY <3>3, RemoveLemma
    <3> QED BY <3>2, <3>4 DEF v, e
  <2>3. Shrinks(list, w[k])
    <3> SUFFICES ASSUME NEW j \in DOMAIN w[k]
                 PROVE  \E i \in DOMAIN list : i >= j /\ list[i] = w[k][j]
      BY DEF Shrinks
    <3>1. PICK h \in DOMAIN w[k - 1] : h >= j /\ w[k - 1][h] = w[k][j]
      BY <2>2 DEF Shrinks
    <3>2. PICK i \in DOMAIN list : i >= h /\ list[i] = w[k - 1][h]
      BY <1>6 DEF Shrinks
    <3>3. i \in Nat /\ h \in Nat /\ j \in Nat
      BY <1>6, <2>2, SMTT(30)
    <3> QED BY <3>1, <3>2, <3>3
  <2>4. ASSUME NEW x \in S
        PROVE  Contains(w[k], x) <=> Contains(list, x) /\ ~\E i \in 1 .. k : gone[i] = x
    <3>1. (\E i \in 1 .. k : gone[i] = x) <=> gone[k] = x \/ \E i \in 1 .. k - 1 : gone[i] = x
      <4>1. \A i : i \in 1 .. k <=> i = k \/ i \in 1 .. k - 1
        OBVIOUS
      <4> QED BY <4>1
    <3> QED BY <1>6, <2>2, <3>1
  <2> QED BY <2>2, <2>3, <2>4
<1>7. T = {}
  <2> SUFFICES ASSUME T # {} PROVE FALSE
    OBVIOUS
  <2>1. T \in SUBSET Nat
    BY <1>1
  <2>2. PICK m \in T : \A k \in T : m <= k
    <3> HIDE DEF T
    <3> QED BY <2>1, LeastNatural
  <2>3. m # 0 /\ m \in 1 .. n /\ m - 1 \in 0 .. n /\ ~(m <= m - 1)
    BY <1>1, <1>5
  <2>4. Good(m - 1)
    BY <2>2, <2>3
  <2> QED BY <1>6, <2>3, <2>4
<1>8. Good(n)
  BY <1>1, <1>7
<1> QED BY <1>2, <1>8 DEF Contains, n

-----------------------------------------------------------------------------
(* The inductive invariant. *)
IsEvent(payload) == payload.type = "dem_event"

(* A registered client has connected, and its own handler has not taken it off
   the list. *)
Registered ==
  \A c \in Client :
    Contains(connections, c) =>
      /\ peer[c] # "new"
      /\ status[c] \in {"sending", "receiving", "failed"}

Started == \A c \in Client : peer[c] = "new" <=> status[c] = "idle"

NewUnsent == \A c \in Client : peer[c] = "new" => received[c] = << >>

(* Clients noted as dead are gone for good, stand before the loop's position
   if they are registered at all, and are noted once. *)
DeadClosed == \A t \in Task : \A i \in DOMAIN dead[t] : peer[dead[t][i]] = "closed"

DeadPassed ==
  \A t \in Task : \A i \in DOMAIN dead[t], j \in DOMAIN connections :
    connections[j] = dead[t][i] => j <= position[t]

DeadOnce == \A t \in Task : IsInjective(dead[t])

(* So does the client of a suspended send, which is not noted yet. *)
Awaited ==
  \A t \in Task : \A c \in awaited[t] :
    /\ peer[c] # "new"
    /\ \A i \in DOMAIN dead[t] : dead[t][i] # c
    /\ \A j \in DOMAIN connections : connections[j] = c => j <= position[t]

Sending == \A t \in Task : status[t] = "sending" => pending[t] # << >>

(* Only events before the cursor were handed out, each to one broadcast and
   once, and an event whose loop has not begun was sent to nobody. *)
Handed ==
  /\ \A c \in Client : \A i \in DOMAIN received[c] : received[c][i].n <= cursor
  /\ \A t \in Task : \A i \in DOMAIN pending[t] :
       IsEvent(pending[t][i]) => pending[t][i].n <= cursor

HandedOnce ==
  \A t, u \in Task : \A i \in DOMAIN pending[t], j \in DOMAIN pending[u] :
    IsEvent(pending[t][i]) /\ pending[t][i] = pending[u][j] => t = u /\ i = j

TailUnsent ==
  \A t \in Task : \A i \in DOMAIN pending[t] :
    i > 1 /\ IsEvent(pending[t][i]) =>
      \A c \in Client : ~Contains(received[c], pending[t][i])

(* Whoever was sent the event of a loop stands before the loop's position. *)
SentPassed ==
  \A t \in Task : pending[t] # << >> /\ IsEvent(pending[t][1]) =>
    \A j \in DOMAIN connections :
      Contains(received[connections[j]], pending[t][1]) => j <= position[t]

SocketInv == Registered /\ Started /\ NewUnsent /\ OpenStaysRegistered
DeadInv == DeadClosed /\ DeadPassed /\ DeadOnce /\ Awaited
EventInv == Handed /\ HandedOnce /\ TailUnsent /\ SentPassed /\ EventSentOnce

Inv == TypeOK /\ SocketInv /\ Sending /\ DeadInv /\ EventInv

(* Initially nothing is registered, pending, noted or sent. *)
LEMMA InvInit == Init => Inv
<1> SUFFICES ASSUME Init PROVE Inv
  OBVIOUS
<1>1. TypeOK
  <2>1. << >> \in Seq(Client) /\ << >> \in Seq(Payload) /\ IsInjective(<< >>)
    BY DEF IsInjective
  <2> QED BY <2>1, EventBusAssumption DEF Init, TypeOK
<1>2. SocketInv
  BY DEF Init, SocketInv, Registered, Started, NewUnsent, OpenStaysRegistered, Contains, Task
<1>3. Sending /\ DeadInv
  BY DEF Init, Sending, DeadInv, DeadClosed, DeadPassed, DeadOnce, Awaited, IsInjective
<1>4. EventInv
  BY DEF Init, EventInv, Handed, HandedOnce, TailUnsent, SentPassed, EventSentOnce, Contains
<1> QED BY <1>1, <1>2, <1>3, <1>4 DEF Inv

-----------------------------------------------------------------------------
(* What every step of task t does before it sends or settles: no socket opens
   again, the list only loses entries except for t itself, which it may gain at
   its end, and keeps every open client. *)
Moved(t) ==
  /\ connections' \in Seq(Client) /\ IsInjective(connections')
  /\ peer' \in [Client -> {"new", "open", "closed"}]
  /\ logged' \in 0 .. MaxEvents /\ cursor' \in 0 .. logged' /\ cursor <= cursor'
  /\ \A c \in Client : /\ peer[c] = "closed" => peer'[c] = "closed"
                       /\ peer'[c] = "new" => peer[c] = "new"
                       /\ peer[c] = "new" /\ c # t => peer'[c] = "new"
                       /\ peer'[c] = "open" => Contains(connections', c)
                       /\ Contains(connections', c) => peer'[c] # "new"
  /\ t \in Client => peer'[t] # "new"
  /\ \A j \in DOMAIN connections' :
       \/ \E i \in DOMAIN connections : i >= j /\ connections[i] = connections'[j]
       \/ connections'[j] = t /\ peer[t] = "new"

(* What the other loops, and t's own, rely on survives such a step: a client
   that is not new moves towards the head of the list or off it. *)
LEMMA MovedKeeps ==
  ASSUME Inv, NEW t \in Task, Moved(t), NEW u \in Task
  PROVE  /\ \A i \in DOMAIN dead[u] : peer'[dead[u][i]] = "closed"
         /\ \A i \in DOMAIN dead[u], j \in DOMAIN connections' :
              connections'[j] = dead[u][i] => j <= position[u]
         /\ \A c \in awaited[u] :
              /\ peer'[c] # "new"
              /\ \A i \in DOMAIN dead[u] : dead[u][i] # c
              /\ \A j \in DOMAIN connections' : connections'[j] = c => j <= position[u]
         /\ pending[u] # << >> /\ IsEvent(pending[u][1]) =>
              \A j \in DOMAIN connections' :
                Contains(received[connections'[j]], pending[u][1]) => j <= position[u]
<1>1. /\ connections \in Seq(Client) /\ connections' \in Seq(Client)
      /\ dead[u] \in Seq(Client) /\ position[u] \in Nat
      /\ received \in [Client -> Seq(Payload)]
  BY DEF Inv, TypeOK, Moved
<1>11. DOMAIN connections \subseteq Nat /\ DOMAIN connections' \subseteq Nat
  BY <1>1
<1>2. ASSUME NEW i \in DOMAIN dead[u] PROVE dead[u][i] \in Client /\ peer[dead[u][i]] = "closed"
  BY <1>1 DEF Inv, DeadInv, DeadClosed
<1>3. ASSUME NEW j \in DOMAIN connections', peer[connections'[j]] # "new"
      PROVE  \E h \in DOMAIN connections : h >= j /\ connections[h] = connections'[j]
  BY <1>3 DEF Moved
<1>4. \A i \in DOMAIN dead[u] : peer'[dead[u][i]] = "closed"
  BY <1>2 DEF Moved
<1>5. ASSUME NEW i \in DOMAIN dead[u], NEW j \in DOMAIN connections', connections'[j] = dead[u][i]
      PROVE  j <= position[u]
  <2>1. PICK h \in DOMAIN connections : h >= j /\ connections[h] = connections'[j]
    BY <1>2, <1>3, <1>5
  <2>2. h <= position[u]
    BY <1>5, <2>1 DEF Inv, DeadInv, DeadPassed
  <2>3. h \in Nat /\ j \in Nat
    BY <1>11
  <2> QED BY <1>1, <2>1, <2>2, <2>3
<1>6. ASSUME pending[u] # << >>, IsEvent(pending[u][1]), NEW j \in DOMAIN connections',
             Contains(received[connections'[j]], pending[u][1])
      PROVE  j <= position[u]
  <2>1. connections'[j] \in Client
    BY <1>1
  <2>2. peer[connections'[j]] # "new"
    BY <1>6, <2>1 DEF Inv, SocketInv, NewUnsent, Contains
  <2>3. PICK h \in DOMAIN connections : h >= j /\ connections[h] = connections'[j]
    BY <1>3, <2>2
  <2>4. h <= position[u]
    BY <1>6, <2>3 DEF Inv, EventInv, SentPassed
  <2>5. h \in Nat /\ j \in Nat
    BY <1>11
  <2> QED BY <1>1, <2>3, <2>4, <2>5
<1>7. ASSUME NEW c \in awaited[u]
      PROVE  /\ peer'[c] # "new"
             /\ \A i \in DOMAIN dead[u] : dead[u][i] # c
             /\ \A j \in DOMAIN connections' : connections'[j] = c => j <= position[u]
  <2>1. c \in Client
    BY DEF Inv, TypeOK
  <2>2. /\ peer[c] # "new"
        /\ \A i \in DOMAIN dead[u] : dead[u][i] # c
        /\ \A j \in DOMAIN connections : connections[j] = c => j <= position[u]
    BY DEF Inv, DeadInv, Awaited
  <2>3. ASSUME NEW j \in DOMAIN connections', connections'[j] = c
        PROVE  j <= position[u]
    <3>1. PICK h \in DOMAIN connections : h >= j /\ connections[h] = connections'[j]
      BY <1>3, <2>2, <2>3
    <3>2. h <= position[u] /\ h \in Nat /\ j \in Nat
      BY <1>11, <2>2, <2>3, <3>1
    <3> QED BY <1>1, <3>1, <3>2
  <2>4. peer'[c] # "new"
    BY <2>1, <2>2 DEF Moved
  <2> QED BY <2>2, <2>3, <2>4
<1> QED BY <1>4, <1>5, <1>6, <1>7

(* What t is to send: events handed out to nobody else, each once. *)
Handable(t, payloads) ==
  /\ payloads \in Seq(Payload)
  /\ \A i \in DOMAIN payloads : IsEvent(payloads[i]) => payloads[i].n <= cursor'
  /\ \A i, j \in DOMAIN payloads : IsEvent(payloads[i]) /\ payloads[i] = payloads[j] => i = j
  /\ \A u \in Task \ {t} : \A i \in DOMAIN payloads, j \in DOMAIN pending[u] :
       IsEvent(payloads[i]) => payloads[i] # pending[u][j]
  /\ \A i \in DOMAIN payloads : i > 1 /\ IsEvent(payloads[i]) =>
       \A c \in Client : ~Contains(received[c], payloads[i])

(* t's loop has gone through the first `reached` entries and noted `gone`. *)
Ready(t, reached, gone) ==
  /\ pending' = [pending EXCEPT ![t] = pending'[t]]
  /\ Handable(t, pending'[t]) /\ pending'[t] # << >>
  /\ reached \in Nat /\ reached < Len(connections')
  /\ IsEvent(pending'[t][1]) =>
       \A j \in DOMAIN connections' :
         Contains(received[connections'[j]], pending'[t][1]) => j <= reached
  /\ gone \in Seq(Client) /\ IsInjective(gone)
  /\ \A i \in DOMAIN gone : peer'[gone[i]] = "closed"
  /\ \A i \in DOMAIN gone, j \in DOMAIN connections' : connections'[j] = gone[i] => j <= reached

(* A step that ends in a send keeps the invariant. *)
LEMMA SendNextInv ==
  ASSUME Inv, NEW t \in Task, Moved(t), NEW reached, NEW gone, Ready(t, reached, gone),
         SendNext(t, connections', reached, gone)
  PROVE  Inv'
<1> DEFINE c == connections'[reached + 1]
           payload == pending'[t][1]
<1>1. /\ connections' \in Seq(Client) /\ reached \in Nat
      /\ reached + 1 \in DOMAIN connections' /\ c \in Client
  BY DEF Moved, Ready
<1>2. /\ pending'[t] \in Seq(Payload) /\ pending'[t] # << >>
      /\ payload = Head(pending'[t]) /\ payload \in Payload
      /\ 1 \in DOMAIN pending'[t]
  BY DEF Ready, Handable
<1>3. pending' \in [Task -> Seq(Payload)] /\ \A u \in Task \ {t} : pending'[u] = pending[u]
  BY <1>2 DEF Ready, Inv, TypeOK
<1>4. /\ status' = [status EXCEPT ![t] = "sending"]
      /\ position' = [position EXCEPT ![t] = reached + 1]
  BY DEF SendNext
<1>5. /\ received' \in [Client -> Seq(Payload)]
      /\ \A d \in Client :
           \/ received'[d] = received[d]
           \/ /\ d = c /\ IsEvent(payload) /\ peer'[c] = "open"
              /\ received'[d] = Append(received[d], payload)
  <2>1. received \in [Client -> Seq(Payload)] /\ Append(received[c], payload) \in Seq(Payload)
    BY <1>1, <1>2 DEF Inv, TypeOK
  <2>2. \/ received' = received
        \/ /\ IsEvent(payload) /\ peer'[c] = "open"
           /\ received' = [received EXCEPT ![c] = Append(received[c], payload)]
    BY <1>2 DEF SendNext, IsEvent
  <2> HIDE DEF c, payload
  <2> QED BY <1>1, <2>1, <2>2
<1>6. shown' \in [Client -> Payload \cup {NoState}]
  BY <1>1, <1>2 DEF SendNext, Inv, TypeOK
<1>7. \/ /\ dead' = [dead EXCEPT ![t] = gone]
         /\ awaited' = [awaited EXCEPT ![t] = {c}] /\ peer'[c] = "open"
      \/ /\ dead' = [dead EXCEPT ![t] = Append(gone, c)] /\ peer'[c] = "closed"
         /\ awaited' = [awaited EXCEPT ![t] = {}]
  <2>1. peer'[c] \in {"new", "open", "closed"} /\ peer'[c] # "new"
    BY <1>1 DEF Moved, Contains
  <2> QED BY <2>1 DEF SendNext
<1>8. /\ connections \in Seq(Client)
      /\ pending \in [Task -> Seq(Payload)] /\ dead \in [Task -> Seq(Client)]
      /\ awaited \in [Task -> SUBSET Client]
      /\ position \in [Task -> Nat] /\ received \in [Client -> Seq(Payload)]
      /\ gone \in Seq(Client) /\ cursor \in Nat /\ cursor' \in Nat
      /\ cursor <= cursor'
  BY EventBusAssumption DEF Inv, TypeOK, Ready, Moved
<1> HIDE DEF c, payload
<1>9. TypeOK'
  <2>1. Append(gone, c) \in Seq(Client)
    BY <1>1, <1>8
  <2>2. {} \in SUBSET Client /\ {c} \in SUBSET Client
    BY <1>1
  <2>3. awaited' = [awaited EXCEPT ![t] = {c}] \/ awaited' = [awaited EXCEPT ![t] = {}]
    BY <1>7
  <2>4. awaited' \in [Task -> SUBSET Client]
    BY <1>8, <2>2, <2>3
  <2>5. dead' \in [Task -> Seq(Client)]
    BY <1>7, <1>8, <2>1
  <2>6. /\ status' \in [Task -> {"idle", "sending", "receiving", "done", "failed"}]
        /\ position' \in [Task -> Nat]
    BY <1>1, <1>4, <1>8, SMTT(30) DEF Inv, TypeOK
  <2> QED BY <1>3, <1>5, <1>6, <2>5, <2>6, <2>4 DEF Moved, TypeOK
<1>10. SocketInv'
  <2>1. status' \in [Task -> {"idle", "sending", "receiving", "done", "failed"}]
    BY <1>9 DEF TypeOK
  <2>2. ASSUME NEW d \in Client, Contains(connections', d)
        PROVE  peer'[d] # "new" /\ status'[d] \in {"sending", "receiving", "failed"}
    <3>1. peer'[d] # "new"
      BY <2>2 DEF Moved
    <3>2. CASE d = t
      BY <1>4, <3>1, <3>2 DEF Inv, TypeOK
    <3>3. CASE d # t
      <4>1. Contains(connections, d)
        <5>1. PICK j \in DOMAIN connections' : connections'[j] = d
          BY <1>1, <2>2 DEF Contains
        <5>2. PICK i \in DOMAIN connections : connections[i] = d
          BY <3>3, <5>1 DEF Moved
        <5> QED BY <1>8, <5>2 DEF Contains
      <4> QED BY <1>4, <3>1, <3>3, <4>1 DEF Inv, TypeOK, SocketInv, Registered, Task
    <3> QED BY <3>2, <3>3
  <2>3. ASSUME NEW d \in Client PROVE peer'[d] = "new" <=> status'[d] = "idle"
    <3>1. CASE d = t
      BY <1>4, <3>1 DEF Inv, TypeOK, Moved
    <3>2. CASE d # t
      <4>1. status'[d] = status[d]
        BY <1>4, <3>2 DEF Inv, TypeOK, Task
      <4>2. peer'[d] = "new" <=> peer[d] = "new"
        BY <3>2 DEF Moved
      <4> QED BY <4>1, <4>2 DEF Inv, SocketInv, Started
    <3> QED BY <3>1, <3>2
  <2>4. ASSUME NEW d \in Client, peer'[d] = "new" PROVE received'[d] = << >>
    BY <1>5, <2>4 DEF Inv, SocketInv, NewUnsent, Moved
  <2>5. \A d \in Client : peer'[d] = "open" => Contains(connections', d)
    BY DEF Moved
  <2> QED BY <2>2, <2>3, <2>4, <2>5 DEF SocketInv, Registered, Started, NewUnsent, OpenStaysRegistered
<1>11. Sending'
  BY <1>2, <1>3, <1>4 DEF Sending, Inv, TypeOK
<1>12. DeadInv'
  <2>1. ASSUME NEW u \in Task, u # t
        PROVE  /\ \A i \in DOMAIN dead'[u] : peer'[dead'[u][i]] = "closed"
               /\ \A i \in DOMAIN dead'[u], j \in DOMAIN connections' :
                    connections'[j] = dead'[u][i] => j <= position'[u]
               /\ IsInjective(dead'[u])
               /\ \A d \in awaited'[u] :
                    /\ peer'[d] # "new"
                    /\ \A i \in DOMAIN dead'[u] : dead'[u][i] # d
                    /\ \A j \in DOMAIN connections' : connections'[j] = d => j <= position'[u]
    <3>1. dead'[u] = dead[u] /\ position'[u] = position[u] /\ awaited'[u] = awaited[u]
      BY <1>4, <1>7, <1>8, <2>1
    <3>2. IsInjective(dead[u])
      BY DEF Inv, DeadInv, DeadOnce
    <3> QED BY <3>1, <3>2, MovedKeeps
  <2>2. /\ \A i \in DOMAIN dead'[t] : peer'[dead'[t][i]] = "closed"
        /\ \A i \in DOMAIN dead'[t], j \in DOMAIN connections' :
             connections'[j] = dead'[t][i] => j <= position'[t]
        /\ IsInjective(dead'[t])
        /\ \A d \in awaited'[t] :
             /\ peer'[d] # "new"
             /\ \A i \in DOMAIN dead'[t] : dead'[t][i] # d
             /\ \A j \in DOMAIN connections' : connections'[j] = d => j <= position'[t]
    <3>1. position'[t] = reached + 1
      BY <1>4, <1>8
    <3>2. \A j \in DOMAIN connections' : connections'[j] = c => j <= reached + 1
      BY <1>1 DEF c, Moved, IsInjective
    <3>3. \A i \in DOMAIN gone : gone[i] # c
      BY <1>1 DEF c, Ready
    <3>4. CASE dead'[t] = gone /\ awaited'[t] = {c} /\ peer'[c] = "open"
      <4>1. \A i \in DOMAIN gone, j \in DOMAIN connections' :
              connections'[j] = gone[i] => j <= reached + 1
        BY <1>1 DEF Ready
      <4> QED BY <3>1, <3>4, <3>2, <3>3, <4>1 DEF Ready
    <3>5. CASE dead'[t] = Append(gone, c) /\ peer'[c] = "closed" /\ awaited'[t] = {}
      <4>1. ASSUME NEW i \in DOMAIN Append(gone, c)
            PROVE  \/ i \in DOMAIN gone /\ Append(gone, c)[i] = gone[i]
                   \/ i = Len(gone) + 1 /\ Append(gone, c)[i] = c
        BY <1>1, <1>8, SMTT(30)
      <4>2. IsInjective(Append(gone, c))
        BY <1>8, <3>3, <4>1 DEF Ready, IsInjective
      <4>3. \A i \in DOMAIN gone, j \in DOMAIN connections' :
              connections'[j] = gone[i] => j <= reached + 1
        BY <1>1 DEF Ready
      <4> QED BY <3>1, <3>5, <3>2, <4>1, <4>2, <4>3 DEF Ready
    <3> QED BY <1>7, <1>8, <3>4, <3>5
  <2> QED BY <2>1, <2>2 DEF DeadInv, DeadClosed, DeadPassed, DeadOnce, Awaited
<1>13. ASSUME NEW d \in Client, received'[d] # received[d]
       PROVE  /\ received'[d] = Append(received[d], payload)
              /\ d = c /\ IsEvent(payload) /\ ~Contains(received[d], payload)
  <2>1. d = c /\ IsEvent(payload) /\ received'[d] = Append(received[d], payload)
    BY <1>5, <1>13
  <2>2. ~Contains(received[c], payload)
    BY <1>1, <2>1 DEF Ready, c, payload
  <2> QED BY <2>1, <2>2
<1>14. ASSUME NEW d \in Client, NEW e, Contains(received'[d], e)
       PROVE  Contains(received[d], e) \/ (d = c /\ IsEvent(payload) /\ e = payload)
  <2>1. CASE received'[d] = received[d]
    BY <1>14, <2>1
  <2>2. CASE received'[d] # received[d]
    <3>1. received'[d] = Append(received[d], payload) /\ received[d] \in Seq(Payload)
      BY <1>8, <1>13, <2>2
    <3> QED BY <1>2, <1>13, <1>14, <2>2, <3>1 DEF Contains
  <2> QED BY <2>1, <2>2
<1>15. Handed'
  <2>1. ASSUME NEW d \in Client, NEW i \in DOMAIN received'[d] PROVE received'[d][i].n <= cursor'
    <3>1. /\ received'[d] \in Seq(Payload) /\ Contains(received'[d], received'[d][i])
          /\ received'[d][i] \in Payload
      BY <1>5 DEF Contains
    <3>2. CASE Contains(received[d], received'[d][i])
      <4>1. PICK h \in DOMAIN received[d] : received[d][h] = received'[d][i]
        BY <1>8, <3>2 DEF Contains
      <4>2. received'[d][i].n <= cursor
        BY <4>1 DEF Inv, EventInv, Handed
      <4>3. received'[d][i].n \in Nat
        BY <3>1 DEF Payload
      <4> QED BY <1>8, <4>2, <4>3
    <3>3. CASE IsEvent(payload) /\ received'[d][i] = payload
      BY <1>2, <3>3 DEF payload, Ready, Handable
    <3> QED BY <1>14, <3>1, <3>2, <3>3
  <2>2. ASSUME NEW u \in Task, NEW i \in DOMAIN pending'[u], IsEvent(pending'[u][i])
        PROVE  pending'[u][i].n <= cursor'
    <3>1. CASE u = t
      BY <2>2, <3>1 DEF Ready, Handable
    <3>2. CASE u # t
      <4>1. pending'[u] = pending[u] /\ pending[u][i] \in Payload
        BY <1>3, <1>8, <2>2, <3>2
      <4>2. pending[u][i].n <= cursor
        BY <2>2, <4>1 DEF Inv, EventInv, Handed
      <4> QED BY <1>8, <4>1, <4>2 DEF Payload
    <3> QED BY <3>1, <3>2
  <2> QED BY <2>1, <2>2 DEF Handed
<1>16. HandedOnce'
  <2> SUFFICES ASSUME NEW u \in Task, NEW v \in Task,
                      NEW i \in DOMAIN pending'[u], NEW j \in DOMAIN pending'[v],
                      IsEvent(pending'[u][i]), pending'[u][i] = pending'[v][j]
               PROVE  u = v /\ i = j
    BY DEF HandedOnce
  <2>1. CASE u = t /\ v = t
    BY <2>1 DEF Ready, Handable
  <2>2. CASE u = t /\ v # t
    BY <1>3, <2>2 DEF Ready, Handable
  <2>3. CASE u # t /\ v = t
    BY <1>3, <2>3 DEF Ready, Handable
  <2>4. CASE u # t /\ v # t
    <3>1. pending'[u] = pending[u] /\ pending'[v] = pending[v]
      BY <1>3, <2>4
    <3>2. HandedOnce
      BY DEF Inv, EventInv
    <3> QED BY <3>1, <3>2 DEF HandedOnce
  <2> QED BY <2>1, <2>2, <2>3, <2>4
<1>17. ASSUME NEW u \in Task, NEW i \in DOMAIN pending'[u], IsEvent(pending'[u][i]),
              pending'[u][i] = payload
       PROVE  u = t /\ i = 1
  BY <1>2, <1>16, <1>17 DEF HandedOnce, payload
<1>18. TailUnsent'
  <2> SUFFICES ASSUME NEW u \in Task, NEW i \in DOMAIN pending'[u], i > 1,
                      IsEvent(pending'[u][i]), NEW d \in Client,
                      Contains(received'[d], pending'[u][i])
               PROVE  FALSE
    BY DEF TailUnsent
  <2>1. i # 1
    BY <1>3
  <2>2. Contains(received[d], pending'[u][i])
    BY <1>14, <1>17, <2>1
  <2>3. CASE u = t
    BY <2>2, <2>3 DEF Ready, Handable
  <2>4. CASE u # t
    BY <1>3, <2>2, <2>4 DEF Inv, EventInv, TailUnsent
  <2> QED BY <2>3, <2>4
<1>19. SentPassed'
  <2> SUFFICES ASSUME NEW u \in Task, pending'[u] # << >>, IsEvent(pending'[u][1]),
                      NEW j \in DOMAIN connections',
                      Contains(received'[connections'[j]], pending'[u][1])
               PROVE  j <= position'[u]
    BY DEF SentPassed
  <2>1. connections'[j] \in Client /\ j \in Nat
    BY <1>1
  <2>2. CASE u = t
    <3>1. position'[u] = reached + 1
      BY <1>4, <1>8, <2>2
    <3>2. CASE Contains(received[connections'[j]], pending'[u][1])
      BY <1>1, <2>1, <2>2, <3>1, <3>2 DEF Ready
    <3>3. CASE connections'[j] = c
      <4>1. j = reached + 1
        BY <1>1, <3>3 DEF c, Moved, IsInjective
      <4> QED BY <1>1, <3>1, <4>1
    <3> QED BY <1>14, <2>1, <3>2, <3>3
  <2>3. CASE u # t
    <3>1. pending'[u] = pending[u] /\ position'[u] = position[u] /\ 1 \in DOMAIN pending'[u]
      BY <1>3, <1>4, <1>8, <2>3
    <3>2. Contains(received[connections'[j]], pending[u][1])
      BY <1>14, <1>17, <2>1, <2>3, <3>1
    <3> QED BY <3>1, <3>2, MovedKeeps
  <2> QED BY <2>2, <2>3
<1>20. EventSentOnce'
  <2> SUFFICES ASSUME NEW d \in Client, NEW i \in DOMAIN received'[d],
                      NEW j \in DOMAIN received'[d], received'[d][i] = received'[d][j]
               PROVE  i = j
    BY DEF EventSentOnce
  <2>1. CASE received'[d] = received[d]
    BY <2>1 DEF Inv, EventInv, EventSentOnce
  <2>2. CASE received'[d] # received[d]
    <3>1. /\ received'[d] = Append(received[d], payload) /\ received[d] \in Seq(Payload)
          /\ ~Contains(received[d], payload)
      BY <1>8, <1>13, <2>2
    <3>2. \A h \in DOMAIN received'[d] :
            \/ h \in DOMAIN received[d] /\ received'[d][h] = received[d][h] /\ received[d][h] # payload
            \/ h = Len(received[d]) + 1 /\ received'[d][h] = payload
      BY <1>2, <3>1 DEF Contains
    <3> QED BY <3>1, <3>2 DEF Inv, EventInv, EventSentOnce
  <2> QED BY <2>1, <2>2
<1> QED BY <1>9, <1>10, <1>11, <1>12, <1>15, <1>16, <1>18, <1>19, <1>20 DEF Inv, EventInv

(* A step that ends with nothing left to send keeps the invariant. *)
LEMMA SettleInv ==
  ASSUME Inv, NEW t \in Task, Moved(t), NEW outcome \in {"receiving", "done", "failed"},
         t \in Client => outcome # "done", Settle(t, outcome)
  PROVE  Inv'
<1>1. /\ connections \in Seq(Client) /\ connections' \in Seq(Client)
      /\ status \in [Task -> {"idle", "sending", "receiving", "done", "failed"}]
      /\ pending \in [Task -> Seq(Payload)] /\ dead \in [Task -> Seq(Client)]
      /\ awaited \in [Task -> SUBSET Client]
      /\ position \in [Task -> Nat] /\ received \in [Client -> Seq(Payload)]
      /\ cursor \in Nat /\ cursor' \in Nat /\ cursor <= cursor'
  BY EventBusAssumption DEF Inv, TypeOK, Moved
<1>2. /\ status' = [status EXCEPT ![t] = outcome]
      /\ pending' = [pending EXCEPT ![t] = << >>]
      /\ position' = [position EXCEPT ![t] = 0]
      /\ awaited' = [awaited EXCEPT ![t] = {}]
      /\ dead' = [dead EXCEPT ![t] = << >>]
      /\ received' = received /\ shown' = shown
  BY DEF Settle
<1>3. pending'[t] = << >> /\ dead'[t] = << >> /\ awaited'[t] = {}
  BY <1>1, <1>2
<1>4. ASSUME NEW u \in Task, u # t
      PROVE  /\ status'[u] = status[u] /\ pending'[u] = pending[u]
             /\ position'[u] = position[u] /\ dead'[u] = dead[u]
             /\ awaited'[u] = awaited[u]
  BY <1>1, <1>2, <1>4
<1>5. TypeOK'
  <2>1. << >> \in Seq(Payload) /\ << >> \in Seq(Client)
    OBVIOUS
  <2>2. /\ status' \in [Task -> {"idle", "sending", "receiving", "done", "failed"}]
        /\ pending' \in [Task -> Seq(Payload)] /\ dead' \in [Task -> Seq(Client)]
        /\ position' \in [Task -> Nat] /\ awaited' \in [Task -> SUBSET Client]
    BY <1>1, <1>2, <2>1
  <2>3. /\ received' \in [Client -> Seq(Payload)]
        /\ shown' \in [Client -> Payload \cup {NoState}]
    BY <1>2 DEF Inv, TypeOK
  <2> QED BY <2>2, <2>3 DEF Moved, TypeOK
<1>6. SocketInv'
  <2>1. ASSUME NEW d \in Client, Contains(connections', d)
        PROVE  peer'[d] # "new" /\ status'[d] \in {"sending", "receiving", "failed"}
    <3>1. peer'[d] # "new"
      BY <2>1 DEF Moved
    <3>2. CASE d = t
      BY <1>1, <1>2, <3>1, <3>2
    <3>3. CASE d # t
      <4>1. Contains(connections, d)
        <5>1. PICK j \in DOMAIN connections' : connections'[j] = d
          BY <1>1, <2>1 DEF Contains
        <5>2. PICK i \in DOMAIN connections : connections[i] = d
          BY <3>3, <5>1 DEF Moved
        <5> QED BY <1>1, <5>2 DEF Contains
      <4> QED BY <1>4, <3>1, <3>3, <4>1 DEF Inv, SocketInv, Registered, Task
    <3> QED BY <3>2, <3>3
  <2>2. ASSUME NEW d \in Client PROVE peer'[d] = "new" <=> status'[d] = "idle"
    <3>1. CASE d = t
      BY <1>1, <1>2, <3>1 DEF Moved
    <3>2. CASE d # t
      <4>1. status'[d] = status[d]
        BY <1>4, <3>2 DEF Task
      <4>2. peer'[d] = "new" <=> peer[d] = "new"
        BY <3>2 DEF Moved
      <4> QED BY <4>1, <4>2 DEF Inv, SocketInv, Started
    <3> QED BY <3>1, <3>2
  <2>3. ASSUME NEW d \in Client, peer'[d] = "new" PROVE received'[d] = << >>
    BY <1>2, <2>3 DEF Inv, SocketInv, NewUnsent, Moved
  <2>4. \A d \in Client : peer'[d] = "open" => Contains(connections', d)
    BY DEF Moved
  <2> QED BY <2>1, <2>2, <2>3, <2>4 DEF SocketInv, Registered, Started, NewUnsent, OpenStaysRegistered
<1>7. Sending'
  BY <1>1, <1>2, <1>4 DEF Sending, Inv
<1>8. DeadInv'
  <2>1. ASSUME NEW u \in Task, u # t
        PROVE  /\ \A i \in DOMAIN dead'[u] : peer'[dead'[u][i]] = "closed"
               /\ \A i \in DOMAIN dead'[u], j \in DOMAIN connections' :
                    connections'[j] = dead'[u][i] => j <= position'[u]
               /\ IsInjective(dead'[u])
               /\ \A d \in awaited'[u] :
                    /\ peer'[d] # "new"
                    /\ \A k \in DOMAIN dead'[u] : dead'[u][k] # d
                    /\ \A j \in DOMAIN connections' : connections'[j] = d => j <= position'[u]
    <3>1. IsInjective(dead[u])
      BY DEF Inv, DeadInv, DeadOnce
    <3> QED BY <1>4, <2>1, <3>1, MovedKeeps
  <2>2. DOMAIN dead'[t] = {} /\ IsInjective(dead'[t]) /\ awaited'[t] = {}
    BY <1>3 DEF IsInjective
  <2> QED BY <2>1, <2>2 DEF DeadInv, DeadClosed, DeadPassed, DeadOnce, Awaited
<1>9. \A u \in Task : pending'[u] = << >> \/ (u # t /\ pending'[u] = pending[u])
  BY <1>3, <1>4
<1>10. Handed'
  <2>1. ASSUME NEW d \in Client, NEW i \in DOMAIN received'[d] PROVE received'[d][i].n <= cursor'
    <3>1. received[d][i] \in Payload
      BY <1>1, <1>2
    <3>2. received[d][i].n \in Nat /\ received[d][i].n <= cursor
      BY <1>2, <3>1 DEF Payload, Inv, EventInv, Handed
    <3> QED BY <1>1, <1>2, <3>2
  <2>2. ASSUME NEW u \in Task, NEW i \in DOMAIN pending'[u], IsEvent(pending'[u][i])
        PROVE  pending'[u][i].n <= cursor'
    <3>1. pending'[u] = pending[u] /\ pending[u][i] \in Payload
      BY <1>1, <1>9, <2>2
    <3>2. pending[u][i].n \in Nat /\ pending[u][i].n <= cursor
      BY <2>2, <3>1 DEF Payload, Inv, EventInv, Handed
    <3> QED BY <1>1, <3>1, <3>2
  <2> QED BY <2>1, <2>2 DEF Handed
<1>11. HandedOnce'
  <2>1. HandedOnce
    BY DEF Inv, EventInv
  <2> QED BY <1>9, <2>1 DEF HandedOnce
<1>12. TailUnsent'
  <2>1. TailUnsent
    BY DEF Inv, EventInv
  <2> QED BY <1>2, <1>9, <2>1 DEF TailUnsent
<1>13. SentPassed'
  <2> SUFFICES ASSUME NEW u \in Task, pending'[u] # << >>, IsEvent(pending'[u][1]),
                      NEW j \in DOMAIN connections',
                      Contains(received'[connections'[j]], pending'[u][1])
               PROVE  j <= position'[u]
    BY DEF SentPassed
  <2>1. u # t /\ pending'[u] = pending[u] /\ position'[u] = position[u]
    BY <1>3, <1>4
  <2> QED BY <1>2, <2>1, MovedKeeps
<1>14. EventSentOnce'
  BY <1>2 DEF Inv, EventInv, EventSentOnce
<1> QED BY <1>5, <1>6, <1>7, <1>8, <1>10, <1>11, <1>12, <1>13, <1>14 DEF Inv, EventInv

(* broadcast: it sends the first payload to the first entry, or has nobody or
   nothing to send to. *)
LEMMA BroadcastInv ==
  ASSUME Inv, NEW t \in Task, Moved(t), NEW payloads, Handable(t, payloads),
         payloads # << >> /\ IsEvent(payloads[1]) =>
           \A c \in Client : ~Contains(received[c], payloads[1]),
         Broadcast(t, connections', payloads)
  PROVE  Inv'
<1>1. CASE connections' = << >> \/ payloads = << >>
  <2>1. Settle(t, Finished(t))
    BY <1>1 DEF Broadcast
  <2>2. Finished(t) \in {"receiving", "done", "failed"} /\ (t \in Client => Finished(t) # "done")
    BY DEF Finished
  <2> QED BY <2>1, <2>2, SettleInv
<1>2. CASE connections' # << >> /\ payloads # << >>
  <2>1. /\ pending' = [pending EXCEPT ![t] = Dated(payloads)]
        /\ SendNext(t, connections', 0, << >>)
    BY <1>2 DEF Broadcast
  <2>2. payloads \in Seq(Payload) /\ connections' \in Seq(Client) /\ Len(connections') > 0
    BY <1>2 DEF Handable, Moved
  <2>3. pending'[t] = Dated(payloads) /\ pending' = [pending EXCEPT ![t] = pending'[t]]
    BY <2>1 DEF Inv, TypeOK
  <2>4. /\ Handable(t, Dated(payloads)) /\ Dated(payloads) # << >>
        /\ IsEvent(Dated(payloads)[1]) =>
             \A c \in Client : ~Contains(received[c], Dated(payloads)[1])
    <3>1. CASE IsEvent(payloads[1])
      <4>1. Dated(payloads) = payloads
        BY <1>2, <2>2, <3>1 DEF Dated, IsEvent
      <4> QED BY <1>2, <3>1, <4>1
    <3>2. CASE ~IsEvent(payloads[1])
      <4>1. payloads[1] \in Payload /\ payloads[1] = Head(payloads)
        BY <1>2, <2>2
      <4>2. Dated(payloads) = <<EcuState(logged')>>
        BY <3>2, <4>1 DEF Dated, IsEvent, Payload
      <4>3. EcuState(logged') \in Payload /\ ~IsEvent(EcuState(logged'))
        BY EventBusAssumption DEF EcuState, Payload, IsEvent, Moved
      <4> HIDE DEF EcuState
      <4>4. /\ Dated(payloads) \in Seq(Payload)
            /\ \A i \in DOMAIN Dated(payloads) : ~IsEvent(Dated(payloads)[i])
            /\ Dated(payloads) # << >> /\ 1 \in DOMAIN Dated(payloads)
        BY <4>2, <4>3
      <4> HIDE DEF Dated
      <4> QED BY <4>4 DEF Handable
    <3> QED BY <3>1, <3>2
  <2>5. Ready(t, 0, << >>)
    <3>1. << >> \in Seq(Client) /\ IsInjective(<< >>) /\ DOMAIN << >> = {}
      BY DEF IsInjective
    <3>2. IsEvent(pending'[t][1]) =>
            \A j \in DOMAIN connections' : ~Contains(received[connections'[j]], pending'[t][1])
      BY <2>2, <2>3, <2>4
    <3> QED BY <2>2, <2>3, <2>4, <3>1, <3>2 DEF Ready
  <2> QED BY <2>1, <2>5, SendNextInv
<1> QED BY <1>1, <1>2

-----------------------------------------------------------------------------
(* A step that leaves the list and the sockets alone. *)
LEMMA MovedUnchanged ==
  ASSUME Inv, NEW t \in Task, UNCHANGED <<connections, peer>>,
         logged' \in 0 .. MaxEvents, cursor' \in 0 .. logged', cursor <= cursor',
         t \in Client => peer[t] # "new"
  PROVE  Moved(t)
<1>1. connections \in Seq(Client) /\ DOMAIN connections \subseteq Nat
  BY DEF Inv, TypeOK
<1>2. \A c \in Client : /\ peer[c] = "open" => Contains(connections, c)
                        /\ Contains(connections, c) => peer[c] # "new"
  BY DEF Inv, SocketInv, OpenStaysRegistered, Registered
<1>3. \A c \in Client : /\ Contains(connections', c) => Contains(connections, c)
                        /\ Contains(connections, c) => Contains(connections', c)
  BY DEF Contains
<1>4. \A j \in DOMAIN connections' :
        \E i \in DOMAIN connections : i >= j /\ connections[i] = connections'[j]
  BY <1>1
<1>5. /\ connections' \in Seq(Client) /\ IsInjective(connections')
      /\ peer' \in [Client -> {"new", "open", "closed"}] /\ peer' = peer
  BY DEF Inv, TypeOK
<1>6. ASSUME NEW c \in Client
      PROVE  /\ peer[c] = "closed" => peer'[c] = "closed"
             /\ peer'[c] = "new" => peer[c] = "new"
             /\ peer[c] = "new" /\ c # t => peer'[c] = "new"
             /\ peer'[c] = "open" => Contains(connections', c)
             /\ Contains(connections', c) => peer'[c] # "new"
  BY <1>2, <1>3, <1>5
<1> QED BY <1>4, <1>5, <1>6 DEF Moved

(* The events a request handler takes from the log are those past the cursor,
   which no one else has. *)
LEMMA BroadcastUpdatesInv ==
  ASSUME Inv, NEW h \in Handler, NEW n \in 0 .. MaxEvents - logged, broadcast_updates(h, n)
  PROVE  Inv'
<1> DEFINE k == logged' - cursor
           fresh == [i \in 1 .. k |-> Event(cursor + i)]
           payloads == Append(fresh, EcuState(0))
<1>1. h \in Task
  BY DEF Task
<1>2. /\ logged \in 0 .. MaxEvents /\ cursor \in 0 .. logged
      /\ logged' = logged + n /\ cursor' = logged'
  BY DEF broadcast_updates, new_dem_events, Inv, TypeOK
<1>3. /\ logged' \in 0 .. MaxEvents /\ cursor' \in 0 .. logged' /\ cursor <= cursor'
      /\ k \in Nat /\ cursor \in Nat /\ cursor' \in Nat /\ cursor' = cursor + k
  BY <1>2, EventBusAssumption
<1>4. Moved(h)
  BY <1>1, <1>3, MovedUnchanged, EventBusAssumption DEF broadcast_updates
<1> HIDE DEF k
<1>5. /\ payloads \in Seq(Payload) /\ Len(payloads) = k + 1
      /\ \A i \in 1 .. k : payloads[i] = Event(cursor + i)
      /\ payloads[k + 1] = EcuState(0)
  <2>1. \A i \in 1 .. k : Event(cursor + i) \in Payload
    BY <1>3 DEF Event, Payload
  <2>2. EcuState(0) \in Payload
    BY DEF EcuState, Payload
  <2> HIDE DEF Event, EcuState, Payload
  <2>3. fresh \in Seq(Payload) /\ Len(fresh) = k
    BY <1>3, <2>1
  <2>4. \A i \in 1 .. k : fresh[i] = Event(cursor + i)
    OBVIOUS
  <2> HIDE DEF fresh
  <2> QED BY <1>3, <2>2, <2>3, <2>4, AppendProperties
<1> HIDE DEF payloads
<1>6. ASSUME NEW i \in DOMAIN payloads, IsEvent(payloads[i])
      PROVE  /\ i \in 1 .. k /\ payloads[i] = Event(cursor + i)
             /\ payloads[i].n = cursor + i /\ payloads[i].n <= cursor' /\ ~(payloads[i].n <= cursor)
  <2>1. i \in 1 .. k + 1
    BY <1>3, <1>5
  <2>2. i # k + 1
    BY <1>5, <1>6 DEF IsEvent, EcuState
  <2>3. i \in 1 .. k
    BY <1>3, <2>1, <2>2
  <2>4. payloads[i] = Event(cursor + i)
    BY <1>5, <2>3
  <2>5. payloads[i].n = cursor + i
    BY <2>4 DEF Event
  <2> QED BY <1>3, <2>3, <2>4, <2>5
<1>7. ASSUME NEW i \in DOMAIN payloads, IsEvent(payloads[i]), NEW c \in Client
      PROVE  ~Contains(received[c], payloads[i])
  <2>1. received[c] \in Seq(Payload)
    BY DEF Inv, TypeOK
  <2> QED BY <1>6, <1>7, <2>1 DEF Contains, Inv, EventInv, Handed
<1>8. Handable(h, payloads)
  <2>1. ASSUME NEW i \in DOMAIN payloads, NEW j \in DOMAIN payloads,
               IsEvent(payloads[i]), payloads[i] = payloads[j]
        PROVE  i = j
    <3>1. cursor + i = cursor + j /\ i \in Nat /\ j \in Nat
      BY <1>3, <1>6, <2>1
    <3> QED BY <1>3, <3>1
  <2>2. ASSUME NEW u \in Task \ {h}, NEW i \in DOMAIN payloads, NEW j \in DOMAIN pending[u],
               IsEvent(payloads[i]), payloads[i] = pending[u][j]
        PROVE  FALSE
    BY <1>6, <2>2 DEF Inv, EventInv, Handed
  <2> QED BY <1>5, <1>6, <1>7, <2>1, <2>2 DEF Handable
<1>9. payloads # << >> /\ 1 \in DOMAIN payloads
  BY <1>3, <1>5
<1>10. Broadcast(h, connections', payloads)
  BY DEF broadcast_updates, payloads, k
<1> QED BY <1>1, <1>4, <1>7, <1>8, <1>9, <1>10, BroadcastInv

(* The newly connected client is the last entry, and nobody's event. *)
LEMMA ConnectInv ==
  ASSUME Inv, NEW c \in Client, connect(c)
  PROVE  Inv'
<1>1. c \in Task
  BY DEF Task
<1>2. /\ connections \in Seq(Client) /\ IsInjective(connections)
      /\ peer \in [Client -> {"new", "open", "closed"}]
      /\ peer[c] = "new" /\ peer' = [peer EXCEPT ![c] = "open"]
      /\ connections' = Append(connections, c) /\ logged' = logged /\ cursor' = cursor
  BY DEF connect, Inv, TypeOK
<1>3. ~Contains(connections, c)
  BY <1>2 DEF Inv, SocketInv, Registered
<1>4. /\ connections' \in Seq(Client)
      /\ DOMAIN connections' = 1 .. Len(connections) + 1
      /\ \A j \in DOMAIN connections :
           j \in DOMAIN connections' /\ connections'[j] = connections[j]
      /\ \A j \in DOMAIN connections' :
           \/ j \in DOMAIN connections /\ connections'[j] = connections[j] /\ connections[j] # c
           \/ j = Len(connections) + 1 /\ connections'[j] = c
      /\ Len(connections) + 1 \in DOMAIN connections' /\ connections'[Len(connections) + 1] = c
  BY <1>2, <1>3 DEF Contains
<1>5. IsInjective(connections')
  BY <1>2, <1>4 DEF IsInjective
<1>6. \A d \in Client : /\ Contains(connections', d) => d = c \/ Contains(connections, d)
                        /\ d = c \/ Contains(connections, d) => Contains(connections', d)
  BY <1>2, <1>4 DEF Contains
<1>7. Moved(c)
  <2>1. /\ peer' \in [Client -> {"new", "open", "closed"}]
        /\ peer'[c] = "open" /\ \A d \in Client \ {c} : peer'[d] = peer[d]
    BY <1>2
  <2>2. \A d \in Client : /\ peer[d] = "open" => Contains(connections, d)
                          /\ Contains(connections, d) => peer[d] # "new"
    BY DEF Inv, SocketInv, OpenStaysRegistered, Registered
  <2>3. \A j \in DOMAIN connections' :
          \/ \E i \in DOMAIN connections : i >= j /\ connections[i] = connections'[j]
          \/ connections'[j] = c /\ peer[c] = "new"
    BY <1>2, <1>4
  <2>5. ASSUME NEW d \in Client
        PROVE  /\ peer[d] = "closed" => peer'[d] = "closed"
               /\ peer'[d] = "new" => peer[d] = "new"
               /\ peer[d] = "new" /\ d # c => peer'[d] = "new"
               /\ peer'[d] = "open" => Contains(connections', d)
               /\ Contains(connections', d) => peer'[d] # "new"
    <3>1. CASE d = c
      BY <1>2, <1>6, <2>1, <3>1
    <3>2. CASE d # c
      <4>1. peer'[d] = peer[d]
        BY <2>1, <3>2
      <4> QED BY <1>6, <2>2, <3>2, <4>1
    <3> QED BY <3>1, <3>2
  <2>4. logged' \in 0 .. MaxEvents /\ cursor' \in 0 .. logged' /\ cursor <= cursor'
    BY <1>2, EventBusAssumption DEF Inv, TypeOK
  <2> QED BY <1>4, <1>5, <2>1, <2>3, <2>4, <2>5 DEF Moved
<1>8. Handable(c, <<EcuState(0)>>) /\ ~IsEvent(<<EcuState(0)>>[1])
  <2>1. EcuState(0) \in Payload /\ ~IsEvent(EcuState(0))
    BY DEF EcuState, Payload, IsEvent
  <2> HIDE DEF EcuState
  <2>2. /\ <<EcuState(0)>> \in Seq(Payload)
        /\ \A i \in DOMAIN <<EcuState(0)>> : ~IsEvent(<<EcuState(0)>>[i])
    BY <2>1
  <2> QED BY <2>1, <2>2 DEF Handable
<1>9. Broadcast(c, connections', <<EcuState(0)>>)
  BY DEF connect
<1> QED BY <1>1, <1>7, <1>8, <1>9, BroadcastInv

(* The clients noted when the loop is resumed, one more perhaps, are gone and
   have been passed, each noted once. *)
LEMMA NotedLemma ==
  ASSUME Inv, NEW t \in Task, NEW noted \in Noted(t)
  PROVE  /\ noted \in Seq(Client) /\ IsInjective(noted)
         /\ \A i \in DOMAIN noted : peer[noted[i]] = "closed"
         /\ \A i \in DOMAIN noted, j \in DOMAIN connections :
              connections[j] = noted[i] => j <= position[t]
<1>1. /\ dead[t] \in Seq(Client) /\ IsInjective(dead[t])
      /\ \A i \in DOMAIN dead[t] : peer[dead[t][i]] = "closed"
      /\ \A i \in DOMAIN dead[t], j \in DOMAIN connections :
           connections[j] = dead[t][i] => j <= position[t]
  BY DEF Inv, TypeOK, DeadInv, DeadClosed, DeadPassed, DeadOnce
<1>2. CASE noted = dead[t]
  BY <1>1, <1>2
<1>3. CASE noted # dead[t]
  <2>1. PICK c \in awaited[t] : peer[c] = "closed" /\ noted = Append(dead[t], c)
    BY <1>3 DEF Noted
  <2>2. /\ c \in Client
        /\ \A i \in DOMAIN dead[t] : dead[t][i] # c
        /\ \A j \in DOMAIN connections : connections[j] = c => j <= position[t]
    BY DEF Inv, TypeOK, DeadInv, Awaited
  <2>3. noted \in Seq(Client)
    BY <1>1, <2>1, <2>2
  <2>4. ASSUME NEW i \in DOMAIN noted
        PROVE  \/ i \in DOMAIN dead[t] /\ noted[i] = dead[t][i]
               \/ i = Len(dead[t]) + 1 /\ noted[i] = c
    BY <1>1, <2>1, <2>2, SMTT(30)
  <2>5. IsInjective(noted)
    BY <1>1, <2>2, <2>4 DEF IsInjective
  <2> QED BY <1>1, <2>1, <2>2, <2>3, <2>4, <2>5
<1> QED BY <1>2, <1>3

(* The loop goes on where it is. *)
LEMMA SendOnInv ==
  ASSUME Inv, NEW t \in Task, SendOn(t)
  PROVE  Inv'
<1>1. /\ status[t] = "sending" /\ position[t] < Len(connections)
      /\ UNCHANGED <<connections, peer, logged, cursor, pending>>
  BY DEF SendOn
<1>noted. PICK noted \in Noted(t) : SendNext(t, connections', position[t], noted)
  BY DEF SendOn
<1>2. /\ pending \in [Task -> Seq(Payload)] /\ pending[t] \in Seq(Payload)
      /\ logged \in 0 .. MaxEvents /\ cursor \in 0 .. logged
      /\ position[t] \in Nat
  BY DEF Inv, TypeOK
<1>3. Moved(t)
  <2>1. /\ logged' \in 0 .. MaxEvents /\ cursor' \in 0 .. logged' /\ cursor <= cursor'
        /\ UNCHANGED <<connections, peer>>
    BY <1>1, <1>2, EventBusAssumption
  <2>2. t \in Client => peer[t] # "new"
    BY <1>1 DEF Inv, SocketInv, Started
  <2> QED BY <2>1, <2>2, MovedUnchanged
<1>4. pending' = [pending EXCEPT ![t] = pending'[t]] /\ pending'[t] # << >>
  BY <1>1, <1>2 DEF Inv, Sending
<1>5. Handable(t, pending'[t])
  <2>1. pending'[t] = pending[t] /\ cursor' = cursor
    BY <1>1
  <2>2. \A u \in Task \ {t} : \A i \in DOMAIN pending[t], j \in DOMAIN pending[u] :
          IsEvent(pending[t][i]) => pending[t][i] # pending[u][j]
    BY DEF Inv, EventInv, HandedOnce
  <2>3. \A i, j \in DOMAIN pending[t] : IsEvent(pending[t][i]) /\ pending[t][i] = pending[t][j] => i = j
    BY DEF Inv, EventInv, HandedOnce
  <2>4. \A i \in DOMAIN pending[t] : IsEvent(pending[t][i]) => pending[t][i].n <= cursor
    BY DEF Inv, EventInv, Handed
  <2>5. \A i \in DOMAIN pending[t] : i > 1 /\ IsEvent(pending[t][i]) =>
          \A c \in Client : ~Contains(received[c], pending[t][i])
    BY DEF Inv, EventInv, TailUnsent
  <2> QED BY <1>2, <2>1, <2>2, <2>3, <2>4, <2>5 DEF Handable
<1>6. Ready(t, position[t], noted)
  <2>1. IsEvent(pending'[t][1]) =>
          \A j \in DOMAIN connections' :
            Contains(received[connections'[j]], pending'[t][1]) => j <= position[t]
    BY <1>1, <1>4, MovedKeeps, <1>3
  <2>2. /\ noted \in Seq(Client) /\ IsInjective(noted)
        /\ \A i \in DOMAIN noted : peer'[noted[i]] = "closed"
        /\ \A i \in DOMAIN noted, j \in DOMAIN connections' :
             connections'[j] = noted[i] => j <= position[t]
    BY <1>1, NotedLemma
  <2>3. position[t] < Len(connections')
    BY <1>1
  <2> QED BY <1>2, <1>4, <1>5, <2>1, <2>2, <2>3 DEF Ready
<1> QED BY <1>noted, <1>3, <1>6, SendNextInv

(* The dead are removed, or as many of them as come before one that another
   task has removed: t's own client closes then. *)
LEMMA EndLoopInv ==
  ASSUME Inv, NEW t \in Task, EndLoop(t)
  PROVE  Inv'
<1>noted. PICK noted \in Noted(t) :
            LET missing == SelectInSeq(noted, LAMBDA c : ~Contains(connections, c))
            IN  IF missing = 0
                THEN /\ connections' = Without(connections, noted)
                     /\ UNCHANGED peer
                     /\ Broadcast(t, connections', Tail(pending[t]))
                ELSE /\ connections' = Without(connections, SubSeq(noted, 1, missing - 1))
                     /\ peer' = [c \in Client |-> IF c = t THEN "closed" ELSE peer[c]]
                     /\ Settle(t, "failed")
  BY DEF EndLoop
<1> DEFINE missing == SelectInSeq(noted, LAMBDA c : ~Contains(connections, c))
           prefix == SubSeq(noted, 1, missing - 1)
<1>1. /\ status[t] = "sending" /\ logged' = logged /\ cursor' = cursor
      /\ IF missing = 0
         THEN /\ connections' = Without(connections, noted)
              /\ UNCHANGED peer
              /\ Broadcast(t, connections', Tail(pending[t]))
         ELSE /\ connections' = Without(connections, prefix)
              /\ peer' = [c \in Client |-> IF c = t THEN "closed" ELSE peer[c]]
              /\ Settle(t, "failed")
  BY <1>noted DEF EndLoop
<1>2. /\ connections \in Seq(Client) /\ IsInjective(connections)
      /\ peer \in [Client -> {"new", "open", "closed"}]
      /\ pending \in [Task -> Seq(Payload)] /\ pending[t] \in Seq(Payload)
      /\ logged \in 0 .. MaxEvents /\ cursor \in 0 .. logged
      /\ noted \in Seq(Client)
  BY NotedLemma DEF Inv, TypeOK
<1>3. \A i \in DOMAIN noted : peer[noted[i]] = "closed"
  BY NotedLemma
<1>4. ASSUME NEW gone \in Seq(Client), connections' = Without(connections, gone),
             \A i \in DOMAIN gone : peer[gone[i]] = "closed",
             \/ peer' = peer
             \/ peer' = [c \in Client |-> IF c = t THEN "closed" ELSE peer[c]]
      PROVE  Moved(t)
  <2>1. /\ connections' \in Seq(Client) /\ IsInjective(connections')
        /\ Shrinks(connections, connections')
        /\ \A x \in Client : Contains(connections', x) <=> Contains(connections, x) /\ ~Contains(gone, x)
    BY <1>2, <1>4, WithoutLemma
  <2>10. t \in Client => peer[t] # "new"
    BY <1>1 DEF Inv, SocketInv, Started
  <2>2. ASSUME NEW c \in Client, peer[c] # "closed" PROVE ~Contains(gone, c)
    BY <1>4, <2>2 DEF Contains
  <2>3. peer' \in [Client -> {"new", "open", "closed"}]
    BY <1>2, <1>4
  <2>4. ASSUME NEW c \in Client
        PROVE  peer'[c] = peer[c] \/ (peer[c] # "new" /\ peer'[c] = "closed")
    BY <1>2, <1>4, <2>10
  <2>5. ASSUME NEW c \in Client
        PROVE  /\ peer[c] = "open" => Contains(connections, c)
               /\ Contains(connections, c) => peer[c] # "new"
    BY DEF Inv, SocketInv, OpenStaysRegistered, Registered
  <2>6. ASSUME NEW c \in Client
        PROVE  /\ peer[c] = "closed" => peer'[c] = "closed"
               /\ peer'[c] = "new" => peer[c] = "new"
               /\ peer[c] = "new" /\ c # t => peer'[c] = "new"
    BY <2>4
  <2>7. ASSUME NEW c \in Client
        PROVE  /\ peer'[c] = "open" => Contains(connections', c)
               /\ Contains(connections', c) => peer'[c] # "new"
    BY <2>1, <2>2, <2>4, <2>5
  <2>8. logged' \in 0 .. MaxEvents /\ cursor' \in 0 .. logged' /\ cursor <= cursor'
    BY <1>1, <1>2, EventBusAssumption
  <2>9. \A j \in DOMAIN connections' :
          \E i \in DOMAIN connections : i >= j /\ connections[i] = connections'[j]
    BY <2>1 DEF Shrinks
  <2>11. t \in Client => peer'[t] # "new"
    BY <2>4, <2>10
  <2> QED BY <2>1, <2>3, <2>6, <2>7, <2>8, <2>9, <2>11 DEF Moved
<1>5. CASE missing = 0
  <2>1. Moved(t)
    BY <1>1, <1>2, <1>3, <1>4, <1>5
  <2>2. pending[t] # << >>
    BY <1>1 DEF Inv, Sending
  <2> DEFINE rest == Tail(pending[t])
  <2>3. /\ rest \in Seq(Payload)
        /\ \A i \in DOMAIN rest : i + 1 \in DOMAIN pending[t] /\ i + 1 > 1 /\ rest[i] = pending[t][i + 1]
        /\ DOMAIN rest \subseteq Nat
    BY <1>2, <2>2
  <2> HIDE DEF rest
  <2>4. \A i \in DOMAIN rest : IsEvent(rest[i]) =>
          \A c \in Client : ~Contains(received[c], rest[i])
    BY <2>3 DEF Inv, EventInv, TailUnsent
  <2>5. Handable(t, rest)
    <3>1. \A i \in DOMAIN rest : IsEvent(rest[i]) => rest[i].n <= cursor'
      BY <1>1, <2>3 DEF Inv, EventInv, Handed
    <3>2. ASSUME NEW i \in DOMAIN rest, NEW j \in DOMAIN rest, IsEvent(rest[i]), rest[i] = rest[j]
          PROVE  i = j
      <4>1. i + 1 = j + 1
        BY <2>3, <3>2 DEF Inv, EventInv, HandedOnce
      <4> QED BY <2>3, <4>1
    <3>3. \A u \in Task \ {t} : \A i \in DOMAIN rest, j \in DOMAIN pending[u] :
            IsEvent(rest[i]) => rest[i] # pending[u][j]
      BY <2>3 DEF Inv, EventInv, HandedOnce
    <3> QED BY <2>3, <2>4, <3>1, <3>2, <3>3 DEF Handable
  <2>6. rest # << >> /\ IsEvent(rest[1]) => \A c \in Client : ~Contains(received[c], rest[1])
    BY <2>3, <2>4
  <2>7. Broadcast(t, connections', rest)
    BY <1>1, <1>5 DEF rest
  <2> QED BY <2>1, <2>5, <2>6, <2>7, BroadcastInv
<1>6. CASE missing # 0
  <2>1. missing \in 1 .. Len(noted)
    <3> DEFINE I == {i \in 1 .. Len(noted) : ~Contains(connections, noted[i])}
    <3>1. missing = IF I # {} THEN Min(I) ELSE 0
      BY DEF SelectInSeq
    <3>2. I # {} /\ I \in SUBSET Nat
      BY <1>6, <3>1
    <3>3. missing = CHOOSE x \in I : \A y \in I : x <= y
      BY <3>1, <3>2 DEF Min
    <3>4. missing \in I
      <4> HIDE DEF I, missing
      <4> QED BY <3>2, <3>3, LeastNatural
    <3> QED BY <3>4
  <2>2. prefix \in Seq(Client) /\ \A i \in DOMAIN prefix : i \in DOMAIN noted /\ prefix[i] = noted[i]
    <3> HIDE DEF missing
    <3> QED BY <1>2, <2>1
  <2>3. /\ connections' = Without(connections, prefix)
        /\ peer' = [c \in Client |-> IF c = t THEN "closed" ELSE peer[c]]
        /\ Settle(t, "failed")
    BY <1>1, <1>6
  <2>4. Moved(t)
    <3> HIDE DEF prefix
    <3> QED BY <1>1, <1>3, <1>4, <2>2, <2>3
  <2> QED BY <2>3, <2>4, SettleInv
<1> QED BY <1>5, <1>6

(* A client goes away: it may still be on the list, and nothing else moves. *)
LEMMA PeerClosesInv ==
  ASSUME Inv, NEW c \in Client, PeerCloses(c)
  PROVE  Inv'
<1>1. /\ peer[c] = "open" /\ peer' = [peer EXCEPT ![c] = "closed"]
      /\ UNCHANGED <<connections, logged, cursor, status, pending, position, awaited, dead, received, shown>>
  BY DEF PeerCloses, taskVars
<1>2. /\ peer \in [Client -> {"new", "open", "closed"}]
      /\ peer' \in [Client -> {"new", "open", "closed"}]
      /\ peer'[c] = "closed" /\ \A d \in Client \ {c} : peer'[d] = peer[d]
  BY <1>1 DEF Inv, TypeOK
<1>3. TypeOK'
  BY <1>1, <1>2 DEF Inv, TypeOK, Payload, NoState
<1>4. SocketInv'
  <2>1. \A d \in Client : Contains(connections', d) <=> Contains(connections, d)
    BY <1>1 DEF Contains
  <2>2. ASSUME NEW d \in Client
        PROVE  /\ peer'[d] = "new" <=> peer[d] = "new"
               /\ peer'[d] = "open" => peer[d] = "open"
    BY <1>1, <1>2
  <2> QED BY <1>1, <2>1, <2>2
          DEF Inv, SocketInv, Registered, Started, NewUnsent, OpenStaysRegistered
<1>5. Sending'
  BY <1>1 DEF Inv, Sending
<1>6. DeadInv'
  <2>1. ASSUME NEW t \in Task, NEW i \in DOMAIN dead[t] PROVE peer'[dead[t][i]] = "closed"
    <3>1. dead[t][i] \in Client /\ peer[dead[t][i]] = "closed"
      BY DEF Inv, TypeOK, DeadInv, DeadClosed
    <3> QED BY <1>2, <3>1
  <2>2. ASSUME NEW t \in Task, NEW d \in awaited[t]
        PROVE  /\ peer'[d] # "new"
               /\ \A i \in DOMAIN dead[t] : dead[t][i] # d
               /\ \A j \in DOMAIN connections : connections[j] = d => j <= position[t]
    <3>1. d \in Client
      BY DEF Inv, TypeOK
    <3> QED BY <1>2, <3>1 DEF Inv, DeadInv, Awaited
  <2> QED BY <1>1, <2>1, <2>2 DEF Inv, DeadInv, DeadClosed, DeadPassed, DeadOnce, Awaited
<1>7. EventInv'
  BY <1>1 DEF Inv, EventInv, Handed, HandedOnce, TailUnsent, SentPassed, EventSentOnce, Contains
<1> QED BY <1>3, <1>4, <1>5, <1>6, <1>7 DEF Inv

(* A client's own handler takes it off the list. *)
LEMMA DisconnectInv ==
  ASSUME Inv, NEW c \in Client, disconnect(c)
  PROVE  Inv'
<1>1. /\ status[c] = "receiving" /\ peer[c] = "closed"
      /\ connections' = remove(connections, c)
      /\ \E s \in {"done", "failed"} : status' = [status EXCEPT ![c] = s]
      /\ UNCHANGED <<peer, logged, cursor, pending, position, awaited, dead, received, shown>>
  BY DEF disconnect
<1>2. /\ connections \in Seq(Client) /\ IsInjective(connections)
      /\ status \in [Task -> {"idle", "sending", "receiving", "done", "failed"}]
      /\ position \in [Task -> Nat] /\ DOMAIN connections \subseteq Nat
  BY DEF Inv, TypeOK
<1>3. /\ connections' \in Seq(Client) /\ IsInjective(connections')
      /\ Shrinks(connections, connections') /\ DOMAIN connections' \subseteq Nat
      /\ \A d \in Client : Contains(connections', d) <=> Contains(connections, d) /\ d # c
  <2>1. /\ connections' \in Seq(Client) /\ IsInjective(connections')
        /\ Shrinks(connections, connections')
        /\ \A d \in Client : Contains(connections', d) <=> Contains(connections, d) /\ d # c
    BY <1>1, <1>2, RemoveLemma
  <2>2. DOMAIN connections' \subseteq Nat
    BY <2>1
  <2> QED BY <2>1, <2>2
<1>4. /\ \A d \in Task \ {c} : status'[d] = status[d]
      /\ status'[c] \in {"done", "failed"}
      /\ status' \in [Task -> {"idle", "sending", "receiving", "done", "failed"}]
  BY <1>1, <1>2 DEF Task
<1>5. TypeOK'
  BY <1>1, <1>3, <1>4 DEF Inv, TypeOK
<1>6. SocketInv'
  <2>1. Registered'
    BY <1>1, <1>3, <1>4 DEF Inv, SocketInv, Registered, Task
  <2>2. Started'
    BY <1>1, <1>4 DEF Inv, SocketInv, Started, Task
  <2>3. NewUnsent'
    BY <1>1 DEF Inv, SocketInv, NewUnsent
  <2>4. OpenStaysRegistered'
    BY <1>1, <1>3 DEF Inv, SocketInv, OpenStaysRegistered
  <2> QED BY <2>1, <2>2, <2>3, <2>4 DEF SocketInv
<1>7. Sending'
  BY <1>1, <1>4 DEF Inv, Sending, Task
<1>8. ASSUME NEW j \in DOMAIN connections'
      PROVE  \E i \in DOMAIN connections : i >= j /\ connections[i] = connections'[j]
  BY <1>3 DEF Shrinks
<1>9. DeadInv'
  <2>1. ASSUME NEW t \in Task, NEW i \in DOMAIN dead[t], NEW j \in DOMAIN connections',
               connections'[j] = dead[t][i]
        PROVE  j <= position[t]
    <3>1. PICK h \in DOMAIN connections : h >= j /\ connections[h] = connections'[j]
      BY <1>8
    <3>2. h <= position[t]
      BY <2>1, <3>1 DEF Inv, DeadInv, DeadPassed
    <3> QED BY <1>2, <1>3, <3>1, <3>2
  <2>2. ASSUME NEW t \in Task, NEW d \in awaited[t], NEW j \in DOMAIN connections', connections'[j] = d
        PROVE  j <= position[t]
    <3>1. PICK h \in DOMAIN connections : h >= j /\ connections[h] = connections'[j]
      BY <1>8
    <3>2. h <= position[t]
      BY <2>2, <3>1 DEF Inv, DeadInv, Awaited
    <3> QED BY <1>2, <1>3, <3>1, <3>2
  <2>3. Awaited'
    BY <1>1, <2>2 DEF Inv, DeadInv, Awaited
  <2> QED BY <1>1, <2>1, <2>3 DEF Inv, DeadInv, DeadClosed, DeadPassed, DeadOnce
<1>10. EventInv'
  <2>1. ASSUME NEW t \in Task, pending[t] # << >>, IsEvent(pending[t][1]),
               NEW j \in DOMAIN connections', Contains(received[connections'[j]], pending[t][1])
        PROVE  j <= position[t]
    <3>1. PICK h \in DOMAIN connections : h >= j /\ connections[h] = connections'[j]
      BY <1>8
    <3>2. h <= position[t]
      BY <2>1, <3>1 DEF Inv, EventInv, SentPassed
    <3> QED BY <1>2, <1>3, <3>1, <3>2
  <2> QED BY <1>1, <2>1 DEF Inv, EventInv, Handed, HandedOnce, TailUnsent, SentPassed, EventSentOnce
<1> QED BY <1>5, <1>6, <1>7, <1>9, <1>10 DEF Inv

(* Every step of the event loop keeps the invariant. *)
LEMMA InvNext == Inv /\ [Next]_vars => Inv'
<1> SUFFICES ASSUME Inv, [Next]_vars PROVE Inv'
  OBVIOUS
<1>1. ASSUME NEW h \in Handler, NEW n \in 0 .. MaxEvents - logged, broadcast_updates(h, n)
      PROVE  Inv'
  BY <1>1, BroadcastUpdatesInv
<1>2. ASSUME NEW c \in Client, connect(c) \/ PeerCloses(c) \/ disconnect(c)
      PROVE  Inv'
  BY <1>2, ConnectInv, PeerClosesInv, DisconnectInv
<1>3. ASSUME NEW t \in Task, Resume(t)
      PROVE  Inv'
  BY <1>3, SendOnInv, EndLoopInv DEF Resume
<1>4. CASE UNCHANGED vars
  BY <1>4 DEF vars, taskVars, Inv, TypeOK, SocketInv, Registered, Started, NewUnsent, OpenStaysRegistered,
              Sending, DeadInv, DeadClosed, DeadPassed, DeadOnce, Awaited, EventInv, Handed, HandedOnce,
              TailUnsent, SentPassed, EventSentOnce, Contains
<1> QED BY <1>1, <1>2, <1>3, <1>4 DEF Next

(* The invariant of the event loop. *)
LEMMA InvAlways == Spec => []Inv
<1>1. Inv /\ [Next]_vars => Inv'
  BY InvNext
<1> QED BY InvInit, <1>1, PTL DEF Spec

(* Every variable of the event bus keeps its type, and no client is on the
   list twice. *)
THEOREM EventBusTypes == Spec => []TypeOK
<1>1. Inv => TypeOK
  BY DEF Inv
<1> QED BY <1>1, InvAlways, PTL

(* No client is sent the same DEM event twice, for any number of clients and
   overlapping broadcasts. *)
THEOREM SentOnce == Spec => []EventSentOnce
<1>1. Inv => EventSentOnce
  BY DEF Inv, EventInv
<1> QED BY <1>1, InvAlways, PTL

(* A client that is still there stays registered. *)
THEOREM OpenRegistered == Spec => []OpenStaysRegistered
<1>1. Inv => OpenStaysRegistered
  BY DEF Inv, SocketInv
<1> QED BY <1>1, InvAlways, PTL

(* Only a client whose handler has yet to notice, or died before it could, is
   registered after it has gone. *)
THEOREM GhostsOnly == Spec => []NoGhosts
<1>1. Inv => NoGhosts
  BY DEF Inv, SocketInv, Registered, NoGhosts
<1> QED BY <1>1, InvAlways, PTL

(* No broadcast notes a client as dead twice: the loop over the dead removes
   no client a second time, and list.remove fails only for a client that
   another task has removed. *)
THEOREM NotedOnce == Spec => []DeadOnce
<1>1. Inv => DeadOnce
  BY DEF Inv, DeadInv
<1> QED BY <1>1, InvAlways, PTL
=============================================================================
