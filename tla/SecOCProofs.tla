----------------------------- MODULE SecOCProofs -----------------------------
(***************************************************************************)
(* Theorems about the SecOC core, for every set of PDUs and payloads, every*)
(* modulus, window and threshold, and every bound.                         *)
(*                                                                         *)
(* First the reconstruction of a truncated freshness value (Freshness),    *)
(* for every modulus, window, committed value and received field.          *)
(*                                                                         *)
(* The inductive invariant IInv adds to the stated invariants what makes   *)
(* them inductive: every frame in sent[p] is one the sender of p can have  *)
(* built (Genuine), which is what lets an accepted frame be traced back.   *)
(***************************************************************************)
EXTENDS SecOC, TLAPS

(* Division with remainder: the quotient and remainder of n by m. *)
LEMMA DivMod ==
  ASSUME NEW n \in Nat, NEW m \in Nat \ {0}
  PROVE  /\ n \div m \in Nat
         /\ n % m \in 0 .. m - 1
         /\ n = (n \div m) * m + (n % m)
  OBVIOUS

(* Multiples of m that are less than m apart are equal. *)
LEMMA MultiplesApart ==
  ASSUME NEW m \in Nat \ {0}, NEW a \in Int, NEW b \in Int,
         a * m < b * m + m, b * m < a * m + m
  PROVE  a = b
  OBVIOUS

(* A multiple of m plus a remainder has that remainder. *)
LEMMA ModOfSum ==
  ASSUME NEW m \in Nat \ {0}, NEW q \in Nat, NEW r \in 0 .. m - 1
  PROVE  (q * m + r) % m = r
  OBVIOUS

(* The committed value lies in its own epoch. *)
LEMMA BaseBounds ==
  ASSUME NEW last \in Nat
  PROVE  /\ Base(last) \in Nat
         /\ Base(last) <= last
         /\ last < Base(last) + Modulus
<1>1. last \div Modulus \in Nat /\ last % Modulus \in 0 .. Modulus - 1
      /\ last = (last \div Modulus) * Modulus + (last % Modulus)
  BY DivMod, FreshnessAssumption
<1>2. (last \div Modulus) * Modulus \in Nat
  BY <1>1, FreshnessAssumption
<1> QED
  BY <1>1, <1>2, FreshnessAssumption DEF Base

(* A candidate is a counter value within one epoch above the committed one:
   it never equals or precedes the committed value. *)
LEMMA CandidateBeyond ==
  ASSUME NEW last \in Nat, NEW t \in 0 .. Modulus - 1
  PROVE  /\ Candidate(last, t) \in Nat
         /\ last < Candidate(last, t)
         /\ Candidate(last, t) <= last + Modulus
  BY BaseBounds, FreshnessAssumption DEF Candidate

(* The received field is the truncation of the reconstructed value, so the
   MAC is checked over exactly the bits that were on the wire. *)
THEOREM CandidateCongruent ==
  ASSUME NEW last \in Nat, NEW t \in 0 .. Modulus - 1
  PROVE  Truncate(Candidate(last, t), Modulus) = t
<1> DEFINE q == last \div Modulus
<1>1. q \in Nat
  BY DivMod, FreshnessAssumption
<1>2. (q * Modulus + t) % Modulus = t
  BY <1>1, ModOfSum, FreshnessAssumption
<1> HIDE DEF q
<1>3. \A r \in Nat : (r * Modulus + t) % Modulus = t
  BY ModOfSum, FreshnessAssumption
<1>4. q + 1 \in Nat /\ (q + 1) * Modulus + t = q * Modulus + t + Modulus
  BY <1>1, FreshnessAssumption
<1>5. (q * Modulus + t + Modulus) % Modulus = t
  BY <1>3, <1>4
<1> QED
  BY <1>2, <1>5 DEF q, Candidate, Base, Truncate

(* Completeness: a value at most one epoch above the committed one is
   recovered exactly from its truncated field. *)
THEOREM CandidateExact ==
  ASSUME NEW last \in Nat, NEW v \in Nat, last < v, v <= last + Modulus
  PROVE  Candidate(last, Truncate(v, Modulus)) = v
<1> DEFINE c == Candidate(last, v % Modulus)
<1>1. v % Modulus \in 0 .. Modulus - 1
  BY DivMod, FreshnessAssumption
<1>2. c \in Nat /\ last < c /\ c <= last + Modulus
  BY <1>1, CandidateBeyond
<1>3. c % Modulus = v % Modulus
  BY <1>1, CandidateCongruent DEF Truncate
<1> DEFINE qc == c \div Modulus
           qv == v \div Modulus
<1>4. /\ c = qc * Modulus + (c % Modulus) /\ qc \in Nat
      /\ v = qv * Modulus + (v % Modulus) /\ qv \in Nat
  BY <1>2, DivMod, FreshnessAssumption
<1> HIDE DEF c, qc, qv
<1>5. qc * Modulus \in Nat /\ qv * Modulus \in Nat
  BY <1>4, FreshnessAssumption
<1>6. qc * Modulus < qv * Modulus + Modulus /\ qv * Modulus < qc * Modulus + Modulus
  BY <1>1, <1>2, <1>3, <1>4, <1>5, FreshnessAssumption
<1>7. qc = qv
  BY <1>4, <1>6, MultiplesApart, FreshnessAssumption
<1> QED
  BY <1>3, <1>4, <1>7 DEF c, Truncate

(* Two counter values with the same field are at least a modulus apart. *)
THEOREM CongruentApart ==
  ASSUME NEW a \in Nat, NEW b \in Nat, a < b, a % Modulus = b % Modulus
  PROVE  b >= a + Modulus
<1> DEFINE qa == a \div Modulus
           qb == b \div Modulus
           r == a % Modulus
<1>1. /\ a = qa * Modulus + r /\ qa \in Nat /\ r \in 0 .. Modulus - 1
      /\ b = qb * Modulus + r /\ qb \in Nat
  BY DivMod, FreshnessAssumption
<1> HIDE DEF qa, qb, r
<1>2. qa * Modulus \in Nat /\ qb * Modulus \in Nat
  BY <1>1, FreshnessAssumption
<1>3. qa * Modulus < qb * Modulus
  BY <1>1, <1>2
<1>4. CASE qb * Modulus < qa * Modulus + Modulus
  <2>1. qa = qb
    BY <1>1, <1>2, <1>3, <1>4, MultiplesApart, FreshnessAssumption
  <2> QED
    BY <1>2, <1>3, <2>1
<1>5. CASE qb * Modulus >= qa * Modulus + Modulus
  BY <1>1, <1>2, <1>5, FreshnessAssumption
<1> QED
  BY <1>2, <1>4, <1>5, FreshnessAssumption
-----------------------------------------------------------------------------
(* A frame as transmit_secured builds it for p, or its shortened form: the MAC
   covers the payload and the field that are in the frame, under a key p has
   had. *)
Genuine(p, f) ==
  /\ f \in Frame
  /\ f.layout \in Transport
  /\ f.fresh \in 0 .. WireModulus[f.layout] - 1
  /\ f.mac.key[1] = p /\ f.mac.key[2] # 0
  /\ f.mac.length = f.layout
  /\ f.mac.bytes = Covered(f.payload, f.fresh, f.layout)
  /\ f.mac.last = f.fresh % WireModulus["CLASSIC_CAN"]

SentGenuine == \A p \in Pdu : \A f \in sent[p] : Genuine(p, f)

(* The full value an accepted frame got is its field, modulo Modulus. *)
AcceptedCongruent ==
  \A p \in Pdu : \A i \in DOMAIN accepted[p] :
    Truncate(accepted[p][i].full, Modulus) = accepted[p][i].frame.fresh

IInv == /\ TypeOK /\ SentGenuine
        /\ FreshnessRises /\ AcceptedWasSent /\ AcceptedCongruent
-----------------------------------------------------------------------------
(* Each transport has a field of its own, no longer than the counter. *)
LEMMA WireTyped ==
  ASSUME NEW t \in Transport
  PROVE  WireModulus[t] \in Nat \ {0} /\ WireModulus[t] <= Modulus
  BY SecOCAssumption, FreshnessAssumption

(* A field short enough for its transport truncates to itself: the shorter
   modulus divides the longer one. *)
LEMMA WireField ==
  ASSUME NEW last \in Nat, NEW t \in Transport, NEW n \in 0 .. WireModulus[t] - 1
  PROVE  /\ n \in 0 .. Modulus - 1
         /\ Truncate(Candidate(last, n), WireModulus[t]) = n
<1> DEFINE w == WireModulus[t]
           c == Candidate(last, n)
           k == Modulus \div w
           q == c \div Modulus
<1>1. w \in Nat \ {0} /\ w <= Modulus /\ Modulus % w = 0
  BY SecOCAssumption, FreshnessAssumption
<1>2. n \in 0 .. Modulus - 1
  BY <1>1, FreshnessAssumption
<1> HIDE DEF w
<1>3. k \in Nat /\ Modulus = k * w
  <2>1. k \in Nat /\ Modulus = k * w + (Modulus % w)
    BY <1>1, DivMod, FreshnessAssumption
  <2> HIDE DEF k
  <2>2. k * w \in Nat
    BY <1>1, <2>1
  <2> QED
    BY <1>1, <2>1, <2>2
<1>4. c \in Nat /\ c % Modulus = n
  BY <1>2, CandidateBeyond, CandidateCongruent DEF Truncate
<1> HIDE DEF c
<1>5. q \in Nat /\ c = q * Modulus + n
  BY <1>4, DivMod, FreshnessAssumption
<1> HIDE DEF k, q
<1>6. q * k \in Nat /\ q * Modulus = (q * k) * w
  BY <1>1, <1>3, <1>5
<1>7. ((q * k) * w + n) % w = n
  BY <1>1, <1>6, ModOfSum DEF w
<1> QED
  BY <1>2, <1>5, <1>6, <1>7 DEF w, c, Truncate

(* A field is its high bytes and those CLASSIC_CAN carries. *)
LEMMA FieldSplit ==
  ASSUME NEW t \in Transport, NEW n \in 0 .. WireModulus[t] - 1
  PROVE  LET w == WireModulus["CLASSIC_CAN"]
         IN  /\ w \in Nat \ {0}
             /\ n % w \in 0 .. w - 1
             /\ n \div w \in High
             /\ n = (n \div w) * w + (n % w)
             /\ t = "CLASSIC_CAN" => n % w = n
<1> DEFINE w == WireModulus["CLASSIC_CAN"]
           k == Modulus \div w
           h == n \div w
<1>1. "CLASSIC_CAN" \in Transport
  BY DEF Transport
<1>2. w \in Nat \ {0} /\ Modulus % w = 0 /\ Modulus \in Nat \ {0} /\ w <= Modulus
  BY <1>1, SecOCAssumption, FreshnessAssumption
<1>3. n \in Nat /\ n < Modulus
  BY SecOCAssumption, FreshnessAssumption
<1>4. t = "CLASSIC_CAN" => n < w
  BY WireTyped
<1> HIDE DEF w
<1>5. h \in Nat /\ n % w \in 0 .. w - 1 /\ n = h * w + (n % w)
  BY <1>2, <1>3, DivMod
<1>6. k \in Nat /\ Modulus = k * w
  <2>1. k \in Nat /\ Modulus = k * w + (Modulus % w)
    BY <1>2, DivMod
  <2> HIDE DEF k
  <2>2. k * w \in Nat
    BY <1>2, <2>1
  <2> QED
    BY <1>2, <2>1, <2>2
<1>7. n < w => n % w = n
  BY <1>2, <1>3
<1> HIDE DEF h, k
<1>8. h \in 0 .. k - 1
  <2>1. h * w <= n /\ h * w < k * w
    BY <1>2, <1>3, <1>5, <1>6
  <2> QED
    BY <1>2, <1>5, <1>6, <2>1
<1> QED
  BY <1>2, <1>4, <1>5, <1>7, <1>8 DEF w, h, k, High

(* The covered bytes of a transport determine the payload and the field. *)
LEMMA CoveredInjective ==
  ASSUME NEW t \in Transport, NEW x \in Payload, NEW y \in Payload,
         NEW m \in 0 .. WireModulus[t] - 1, NEW n \in 0 .. WireModulus[t] - 1,
         Covered(x, m, t) = Covered(y, n, t),
         m % WireModulus["CLASSIC_CAN"] = n % WireModulus["CLASSIC_CAN"]
  PROVE  x = y /\ m = n
<1> DEFINE w == WireModulus["CLASSIC_CAN"]
           hm == m \div w
           hn == n \div w
<1>1. hm \in High /\ m = hm * w + (m % w) /\ (t = "CLASSIC_CAN" => m % w = m)
  BY FieldSplit
<1>2. hn \in High /\ n = hn * w + (n % w) /\ (t = "CLASSIC_CAN" => n % w = n)
  BY FieldSplit
<1>3. CASE t = "CLASSIC_CAN"
  BY <1>1, <1>2, <1>3 DEF Covered
<1>4. CASE t = "CAN_FD"
  <2>1. Joined[x][hm] = Joined[y][hn]
    BY <1>4 DEF Covered
  <2> HIDE DEF hm, hn
  <2>2. x = y /\ hm = hn
    BY <1>1, <1>2, <2>1, SecOCAssumption
  <2> QED
    BY <1>1, <1>2, <2>2
<1> QED
  BY <1>3, <1>4 DEF Transport

(* What is covered ahead of the last field bytes is a string of bytes. *)
LEMMA CoveredTyped ==
  ASSUME NEW t \in Transport, NEW x \in Payload, NEW n \in 0 .. WireModulus[t] - 1
  PROVE  Covered(x, n, t) \in Bytes /\ n % WireModulus["CLASSIC_CAN"] \in Nat
<1>1. n \div WireModulus["CLASSIC_CAN"] \in High /\ n % WireModulus["CLASSIC_CAN"] \in Nat
  BY FieldSplit
<1>2. \A h \in High : Joined[x][h] \in Bytes
  BY SecOCAssumption
<1> QED
  BY <1>1, <1>2, SecOCAssumption DEF Covered

(* What transmit_secured builds is genuine, ... *)
LEMMA NextFrameGenuine ==
  ASSUME TypeOK, NEW p \in Pdu, NEW x \in Payload, NEW t \in Transport, Fits(x, t)
  PROVE  Genuine(p, NextFrame(p, x, t))
<1> DEFINE n == Truncate(lastValid[p] + 1, WireModulus[t])
           y == WirePayload(x, t)
<1>1. y \in Payload
  BY SecOCAssumption DEF WirePayload, Fits
<1>2. n \in 0 .. WireModulus[t] - 1
  <2>1. WireModulus[t] \in Nat \ {0} /\ lastValid[p] + 1 \in Nat
    BY WireTyped DEF TypeOK, FreshnessTyped
  <2> QED
    BY <2>1, DivMod DEF Truncate
<1>3. /\ WireModulus[t] \in Nat
      /\ <<p, keyEpoch[p]>> \in Pdu \X Nat /\ keyEpoch[p] # 0
  BY SecOCAssumption, FreshnessAssumption DEF TypeOK, FreshnessTyped
<1>4. NextFrame(p, x, t) =
        [layout |-> t, payload |-> y, fresh |-> n,
         mac |-> [key |-> <<p, keyEpoch[p]>>, bytes |-> Covered(y, n, t),
                  last |-> n % WireModulus["CLASSIC_CAN"], length |-> t]]
  BY DEF NextFrame, build_secured_pdu, generate_mac
<1> HIDE DEF n, y
<1>5. Covered(y, n, t) \in Bytes /\ n % WireModulus["CLASSIC_CAN"] \in Nat
  BY <1>1, <1>2, CoveredTyped
<1> QED
  BY <1>1, <1>2, <1>3, <1>4, <1>5 DEF Genuine, Frame, Mac

(* ... and so is its shortened form, where it has one: the same bytes are
   covered, and the MAC is the beginning of the longer one. *)
LEMMA ShortenedGenuine ==
  ASSUME NEW p, NEW f, Genuine(p, f), Divides(f)
  PROVE  Genuine(p, Shortened(f)) /\ Shortened(f).layout = "CLASSIC_CAN"
<1> DEFINE w == WireModulus["CLASSIC_CAN"]
           g == Shortened(f)
           x == Covered(f.payload, f.fresh, "CAN_FD")
<1>1. f.layout = "CAN_FD" /\ x \in Four /\ Four \subseteq Payload
  BY SecOCAssumption DEF Divides, Four
<1>2. "CLASSIC_CAN" \in Transport /\ "CAN_FD" \in Transport
  BY DEF Transport
<1>3. f.fresh % w \in 0 .. w - 1 /\ f.fresh % w \in Nat
  BY <1>1, <1>2, FieldSplit DEF Genuine
<1>4. (f.fresh % w) % w = f.fresh % w
  BY <1>2, <1>3, FieldSplit
<1>5. /\ g.layout = "CLASSIC_CAN" /\ g.payload = x /\ g.fresh = f.fresh % w
      /\ g.mac = [f.mac EXCEPT !.length = "CLASSIC_CAN"]
  BY DEF Shortened
<1>6. f.mac \in Mac /\ f.mac.bytes = x /\ f.mac.last = f.fresh % w
      /\ f.mac.key[1] = p /\ f.mac.key[2] # 0
  BY <1>1 DEF Genuine, Frame
<1> HIDE DEF w, x
<1>7. /\ g.mac \in Mac /\ g.mac.bytes = x /\ g.mac.last = f.fresh % w
      /\ g.mac.key = f.mac.key /\ g.mac.length = "CLASSIC_CAN"
  BY <1>2, <1>5, <1>6 DEF Mac
<1>8. g \in Frame
  BY <1>1, <1>2, <1>3, <1>5, <1>7 DEF Frame, Shortened, x, w
<1> QED
  BY <1>1, <1>2, <1>3, <1>4, <1>5, <1>6, <1>7, <1>8 DEF Genuine, Covered, w

(* Hence everything on the wire for a PDU is genuine. *)
LEMMA WireGenuine ==
  ASSUME SentGenuine, NEW p \in Pdu, NEW f \in Wire(p)
  PROVE  Genuine(p, f)
  BY ShortenedGenuine DEF SentGenuine, Wire

(* The heart of authenticity: of all the channel may hand over, only an
   unaltered frame built for this PDU, or its shortened form, passes the
   checks. *)
LEMMA AcceptedGenuine ==
  ASSUME TypeOK, SentGenuine, NEW p \in Pdu, NEW t \in Transport,
         NEW g \in Incoming, Verdict(p, g, t) = "ACCEPTED"
  PROVE  /\ g \in Wire(p)
         /\ g.layout = t
         /\ g.fresh = Truncate(Candidate(lastValid[p], g.fresh), WireModulus[t])
<1> DEFINE full == Candidate(lastValid[p], g.fresh)
           n == Truncate(full, WireModulus[t])
<1>1. /\ g.layout = t
      /\ g.mac = [key |-> <<p, keyEpoch[p]>>, bytes |-> Covered(g.payload, n, t),
                  last |-> n % WireModulus["CLASSIC_CAN"], length |-> t]
  BY DEF Verdict, Parses, verify_mac, generate_mac
<1>2. keyEpoch[p] # 0 /\ lastValid[p] \in Nat /\ t # "RUNT"
  BY DEF TypeOK, FreshnessTyped, Transport
<1>3. PICK q \in Pdu : \E f \in Wire(q) : g = f \/ g \in Corrupted(f)
  BY DEF Incoming, OnWire
<1>a. PICK f \in Wire(q) : g = f \/ g \in Corrupted(f)
  BY <1>3
<1>4. Genuine(q, f)
  BY WireGenuine
<1>b. g.fresh \in 0 .. WireModulus[t] - 1 => n = g.fresh
  BY <1>2, WireField
<1> HIDE DEF n, full
<1>5. g = f /\ q = p
  <2>1. CASE g = f
    BY <1>1, <1>4, <2>1 DEF Genuine
  <2>2. ASSUME g.mac = f.mac, g.layout = f.layout, g.payload \in Payload,
               g.fresh \in 0 .. WireModulus[t] - 1
        PROVE  g.payload = f.payload /\ g.fresh = f.fresh /\ q = p
    <3>1. /\ Covered(g.payload, g.fresh, t) = Covered(f.payload, f.fresh, t)
          /\ g.fresh % WireModulus["CLASSIC_CAN"] = f.fresh % WireModulus["CLASSIC_CAN"]
          /\ f.fresh \in 0 .. WireModulus[t] - 1 /\ f.payload \in Payload /\ q = p
      BY <1>1, <1>4, <1>b, <2>2 DEF Genuine, Frame
    <3> QED
      BY <2>2, <3>1, CoveredInjective
  <2>3. ASSUME NEW x \in Room(f.layout), g = [f EXCEPT !.payload = x]
        PROVE  g = f /\ q = p
    <3>1. /\ g.mac = f.mac /\ g.layout = f.layout /\ g.payload = x
          /\ g.fresh = f.fresh
      BY <1>4, <2>3 DEF Genuine, Frame
    <3>2. x \in Payload
      BY SecOCAssumption DEF Room, Four
    <3>3. f.payload = x /\ q = p
      BY <1>1, <1>4, <2>2, <3>1, <3>2 DEF Genuine
    <3> QED
      BY <1>4, <2>3, <3>3 DEF Genuine, Frame
  <2>4. ASSUME NEW m \in 0 .. WireModulus[f.layout] - 1, g = [f EXCEPT !.fresh = m]
        PROVE  g = f /\ q = p
    <3>1. /\ g.mac = f.mac /\ g.layout = f.layout /\ g.payload = f.payload
          /\ g.fresh = m /\ g.payload \in Payload
      BY <1>4, <2>4 DEF Genuine, Frame
    <3>2. f.fresh = m /\ q = p
      BY <1>1, <2>2, <3>1
    <3> QED
      BY <1>4, <2>4, <3>2 DEF Genuine, Frame
  <2>5. CASE g = [f EXCEPT !.mac.key = <<@[1], 0>>]
    BY <1>1, <1>2, <1>4, <2>5 DEF Genuine, Frame, Mac
  <2>6. CASE g = [f EXCEPT !.layout = "RUNT"]
    BY <1>1, <1>2, <1>4, <2>6 DEF Genuine, Frame
  <2> QED
    BY <1>a, <2>1, <2>3, <2>4, <2>5, <2>6 DEF Corrupted
<1>6. g.fresh \in 0 .. WireModulus[t] - 1
  BY <1>1, <1>4, <1>5 DEF Genuine
<1> QED
  BY <1>1, <1>5, <1>6, <1>b DEF n, full
-----------------------------------------------------------------------------
(* The invariant holds initially: nothing was sent or accepted. *)
LEMMA InitIInv == Init => IInv
<1> SUFFICES ASSUME Init PROVE IInv
  OBVIOUS
<1>1. TypeOK
  <2>1. FreshnessTyped
    BY DEF Init, FreshnessTyped
  <2>2. PolicyTyped
    BY DEF Init, PolicyTyped, EcuStateValue
  <2>3. BusTyped
    BY DEF Init, BusInit, BusTyped
  <2> QED
    BY <2>1, <2>2, <2>3 DEF TypeOK
<1>2. SentGenuine
  BY DEF Init, SentGenuine
<1>3. FreshnessRises /\ AcceptedWasSent /\ AcceptedCongruent
  BY DEF Init, FreshnessRises, AcceptedWasSent, AcceptedCongruent
<1> QED
  BY <1>1, <1>2, <1>3 DEF IInv

(* A delivery is of a frame on the PDU's wire, and keeps the types. *)
LEMMA DeliverTyped ==
  ASSUME TypeOK, SentGenuine, NEW p \in Pdu, NEW t \in Transport, NEW f \in Incoming,
         Deliver(p, f, t)
  PROVE  f \in Wire(p) /\ f \in Frame /\ FreshnessTyped' /\ PolicyTyped'
<1> USE DEF TypeOK
<1>1. f \in Wire(p) /\ f \in Frame
  BY AcceptedGenuine, WireGenuine DEF Deliver, Genuine
<1>2. f.fresh \in 0 .. WireModulus[f.layout] - 1 /\ f.layout \in Transport
  BY <1>1, WireGenuine DEF Genuine
<1> DEFINE full == Candidate(lastValid[p], f.fresh)
<1>3. full \in Nat
  BY <1>2, WireField, CandidateBeyond DEF FreshnessTyped
<1> HIDE DEF full
<1>4. FreshnessTyped'
  <2>1. lastValid' = [lastValid EXCEPT ![p] = full]
        /\ accepted' = [accepted EXCEPT ![p] = Append(@, [frame |-> f, full |-> full])]
        /\ UNCHANGED <<keyEpoch, sent>>
    BY DEF Deliver, commit_freshness, full
  <2> DEFINE Delivery == [frame : Frame, full : Nat]
             d == [frame |-> f, full |-> full]
  <2>a. d \in Delivery /\ accepted[p] \in Seq(Delivery)
    BY <1>1, <1>3 DEF FreshnessTyped
  <2>2. Append(accepted[p], d) \in Seq(Delivery)
    <3> HIDE DEF Delivery, d
    <3> QED
      BY <2>a
  <2> QED
    BY <1>3, <2>1, <2>2 DEF FreshnessTyped
<1>5. PolicyTyped'
  BY DEF Deliver, PolicyTyped
<1> QED
  BY <1>1, <1>4, <1>5

(* A refusal keeps the types. *)
LEMMA RefuseTyped ==
  ASSUME TypeOK, NEW p \in Pdu, NEW t \in Transport, NEW f, Refuse(p, f, t)
  PROVE  FreshnessTyped' /\ PolicyTyped'
<1>1. FreshnessTyped'
  BY DEF TypeOK, Refuse, FreshnessTyped
<1>2. PolicyTyped'
  BY DEF TypeOK, Refuse, record_failure, Escalates, PolicyTyped, DemCode, EcuStateValue
<1> QED
  BY <1>1, <1>2

(* What each kind of step does to the variables the invariants speak of;
   every other part of the state is only ever typed. *)
LEMMA TypeStep == TypeOK /\ SentGenuine /\ [Next]_vars => TypeOK'
<1> SUFFICES ASSUME TypeOK, SentGenuine, [Next]_vars PROVE TypeOK'
  OBVIOUS
<1> USE DEF TypeOK
<1>1. ASSUME NEW p \in Pdu, NEW x \in Payload, NEW t \in Transport,
             transmit_secured(p, x, t)
      PROVE  TypeOK'
  <2>1. NextFrame(p, x, t) \in Frame
    BY <1>1, NextFrameGenuine DEF transmit_secured, Genuine
  <2>2. FreshnessTyped'
    BY <1>1, <2>1 DEF transmit_secured, FreshnessTyped
  <2>3. PolicyTyped'
    BY <1>1 DEF transmit_secured, PolicyTyped, policyVars
  <2>4. BusTyped'
    BY <1>1 DEF transmit_secured, BusTyped, busVars
  <2> QED
    BY <2>2, <2>3, <2>4
<1>2. ASSUME NEW p \in Pdu, NEW t \in Transport, NEW f \in Incoming, Accept(p, f, t)
      PROVE  TypeOK'
  <2>1. f \in Frame /\ FreshnessTyped' /\ PolicyTyped'
    BY <1>2, DeliverTyped DEF Accept
  <2>2. BusTyped'
    BY <1>2, <2>1 DEF Accept, publish, BusTyped
  <2> QED
    BY <2>1, <2>2
<1>3. ASSUME NEW p \in Pdu, NEW t \in Transport, NEW f \in Incoming, Reject(p, f, t)
      PROVE  TypeOK'
  <2>1. FreshnessTyped' /\ PolicyTyped'
    BY <1>3, RefuseTyped DEF Reject
  <2>2. BusTyped'
    BY <1>3 DEF Reject, BusTyped, busVars
  <2> QED
    BY <2>1, <2>2
<1>4. CASE receive_frame
  <2>1. FreshnessTyped' /\ PolicyTyped'
    BY <1>4 DEF receive_frame, FreshnessTyped, PolicyTyped, policyVars
  <2>2. BusTyped'
    BY <1>4 DEF receive_frame, consume, BusTyped
  <2> QED
    BY <2>1, <2>2
<1>5. CASE on_reset
  <2>1. FreshnessTyped' /\ BusTyped'
    BY <1>5 DEF on_reset, FreshnessTyped, BusTyped, busVars
  <2>2. PolicyTyped'
    BY <1>5 DEF on_reset, PolicyTyped, EcuStateValue
  <2> QED
    BY <2>1, <2>2
<1>6. CASE reset_ecu
  <2>1. FreshnessTyped' /\ BusTyped'
    BY <1>6 DEF reset_ecu, FreshnessTyped, BusTyped, busVars
  <2>2. PolicyTyped'
    BY <1>6 DEF reset_ecu, PolicyTyped, EcuStateValue
  <2> QED
    BY <2>1, <2>2
<1>7. ASSUME NEW p \in Pdu, NEW value \in ResyncValue, reinitialize_window(p, value)
      PROVE  TypeOK'
  <2>1. BusTyped' /\ PolicyTyped'
    BY <1>7 DEF reinitialize_window, BusTyped, PolicyTyped, policyVars, busVars
  <2>2. FreshnessTyped'
    <3>1. value \in Nat
      BY SecOCAssumption
    <3>2. (lastValid \in [Pdu -> Nat])'
      BY <1>7, <3>1 DEF reinitialize_window, FreshnessTyped
    <3>3. (accepted \in [Pdu -> Seq([frame : Frame, full : Nat])])'
      <4> DEFINE Delivery == [frame : Frame, full : Nat]
      <4>1. accepted \in [Pdu -> Seq(Delivery)]
            /\ accepted' = [accepted EXCEPT ![p] = << >>]
        BY <1>7 DEF reinitialize_window, FreshnessTyped
      <4> HIDE DEF Delivery
      <4>2. (accepted \in [Pdu -> Seq(Delivery)])'
        BY <4>1
      <4> QED
        BY <4>2 DEF Delivery
    <3> QED
      BY <1>7, <3>2, <3>3 DEF reinitialize_window, FreshnessTyped
  <2> QED
    BY <2>1, <2>2
<1>8. ASSUME NEW p \in Pdu, rotate_key(p)
      PROVE  TypeOK'
  <2>1. BusTyped' /\ PolicyTyped'
    BY <1>8 DEF rotate_key, BusTyped, PolicyTyped, policyVars, busVars
  <2>2. FreshnessTyped'
    <3>1. (keyEpoch \in [Pdu -> Nat \ {0}])'
      BY <1>8 DEF rotate_key, FreshnessTyped
    <3> QED
      BY <1>8, <3>1 DEF rotate_key, FreshnessTyped
  <2> QED
    BY <2>1, <2>2
<1>9. CASE Restart
  <2>1. FreshnessTyped'
    <3>1. (keyEpoch \in [Pdu -> Nat \ {0}])'
      BY <1>9 DEF Restart, FreshnessTyped
    <3> QED
      BY <1>9, <3>1 DEF Restart, FreshnessTyped
  <2>2. PolicyTyped'
    BY <1>9 DEF Restart, PolicyTyped, DemCode, EcuStateValue
  <2>3. BusTyped'
    BY <1>9 DEF Restart, start, BusTyped
  <2> QED
    BY <2>1, <2>2, <2>3
<1>10. CASE UNCHANGED vars
  BY <1>10 DEF FreshnessTyped, PolicyTyped, BusTyped, vars, policyVars, busVars
<1> QED
  BY <1>1, <1>2, <1>3, <1>4, <1>5, <1>6, <1>7, <1>8, <1>9, <1>10
     DEF Next, Transmit, Receive, receive_secured, Resync, RotateKey, RestartBounded

(* Every step but four leaves the histories and the counter alone. *)
LEMMA HistorySteps ==
  ASSUME TypeOK, SentGenuine, [Next]_vars
  PROVE  \/ \E p \in Pdu, x \in Payload, t \in Transport :
              Fits(x, t) /\ transmit_secured(p, x, t)
         \/ \E p \in Pdu, t \in Transport : \E f \in Incoming : Accept(p, f, t)
         \/ \E p \in Pdu, value \in ResyncValue : reinitialize_window(p, value)
         \/ UNCHANGED <<lastValid, sent, accepted>>
<1>1. ASSUME NEW p \in Pdu, NEW t \in Transport, NEW f \in Incoming, Reject(p, f, t)
      PROVE  UNCHANGED <<lastValid, sent, accepted>>
  BY <1>1 DEF Reject, Refuse
<1>2. CASE receive_frame \/ on_reset \/ reset_ecu \/ Restart \/ (\E p \in Pdu : rotate_key(p))
  BY <1>2 DEF receive_frame, on_reset, reset_ecu, Restart, rotate_key
<1>3. CASE UNCHANGED vars
  BY <1>3 DEF vars
<1>4. ASSUME NEW p \in Pdu, NEW x \in Payload, NEW t \in Transport, transmit_secured(p, x, t)
      PROVE  Fits(x, t)
  BY <1>4 DEF transmit_secured
<1> QED
  BY <1>1, <1>2, <1>3, <1>4
     DEF Next, Transmit, Receive, receive_secured, Resync, RotateKey, RestartBounded

(* A genuine frame more disturbs no invariant. *)
LEMMA BuiltKeeps ==
  ASSUME IInv, NEW p \in Pdu, NEW f, Genuine(p, f),
         sent' = [sent EXCEPT ![p] = @ \cup {f}],
         UNCHANGED <<lastValid, accepted>>
  PROVE  (SentGenuine /\ FreshnessRises /\ AcceptedWasSent /\ AcceptedCongruent)'
<1>1. SentGenuine'
  BY DEF IInv, SentGenuine, Genuine, TypeOK, FreshnessTyped
<1>2. FreshnessRises'
  BY DEF IInv, FreshnessRises
<1>3. AcceptedWasSent'
  <2>1. \A q \in Pdu : Wire(q) \subseteq Wire(q)'
    BY DEF IInv, Wire, TypeOK, FreshnessTyped
  <2> QED
    BY <2>1 DEF IInv, AcceptedWasSent
<1>4. AcceptedCongruent'
  BY DEF IInv, AcceptedCongruent
<1> QED
  BY <1>1, <1>2, <1>3, <1>4

(* So does a delivery: it commits a counter above all earlier ones, congruent
   to the field of a frame that was built for the PDU. *)
LEMMA DeliverKeeps ==
  ASSUME IInv, NEW p \in Pdu, NEW t \in Transport, NEW f \in Incoming, Deliver(p, f, t)
  PROVE  (SentGenuine /\ FreshnessRises /\ AcceptedWasSent /\ AcceptedCongruent)'
<1> USE DEF IInv
<1> DEFINE full == Candidate(lastValid[p], f.fresh)
           d == [frame |-> f, full |-> full]
<1>1. /\ lastValid' = [lastValid EXCEPT ![p] = full]
      /\ accepted' = [accepted EXCEPT ![p] = Append(accepted[p], d)]
      /\ UNCHANGED sent
  BY DEF Deliver, commit_freshness
<1>2. f \in Wire(p) /\ f.fresh = Truncate(full, WireModulus[f.layout])
  BY AcceptedGenuine DEF Deliver
<1>3. f \in Frame /\ f.layout \in Transport /\ f.fresh \in 0 .. WireModulus[f.layout] - 1
  BY <1>2, WireGenuine DEF Genuine
<1>4. lastValid[p] \in Nat /\ f.fresh \in 0 .. Modulus - 1
  BY <1>3, WireField DEF TypeOK, FreshnessTyped
<1>5. full \in Nat /\ lastValid[p] < full /\ Truncate(full, Modulus) = f.fresh
  BY <1>4, CandidateBeyond, CandidateCongruent
<1>6. d.frame = f /\ d.full = full
  OBVIOUS
<1> HIDE DEF full, d
<1>7. /\ \A q \in Pdu \ {p} : accepted'[q] = accepted[q] /\ lastValid'[q] = lastValid[q]
      /\ lastValid'[p] = full
      /\ accepted'[p] = Append(accepted[p], d)
  BY <1>1 DEF TypeOK, FreshnessTyped
<1> DEFINE Delivery == [frame : Frame, full : Nat]
           n == Len(accepted[p])
<1>a. accepted[p] \in Seq(Delivery) /\ d \in Delivery
  BY <1>3, <1>5 DEF TypeOK, FreshnessTyped, d
<1>b. \A e \in Delivery : e.full \in Nat
  OBVIOUS
<1> HIDE DEF Delivery
<1>c. /\ n \in Nat /\ DOMAIN accepted[p] = 1 .. n
      /\ DOMAIN accepted'[p] = 1 .. n + 1
      /\ \A i \in 1 .. n : accepted'[p][i] = accepted[p][i]
      /\ accepted'[p][n + 1] = d
  BY <1>7, <1>a
<1>e. \A i \in 1 .. n : accepted[p][i].full \in Nat
  BY <1>a, <1>b
<1> HIDE DEF n
<1>8. SentGenuine'
  BY <1>1 DEF SentGenuine, Genuine
<1>9. FreshnessRises'
  <2>1. ASSUME NEW q \in Pdu \ {p}
        PROVE  /\ \A i \in DOMAIN accepted'[q] : accepted'[q][i].full <= lastValid'[q]
               /\ \A i, j \in DOMAIN accepted'[q] :
                    i < j => accepted'[q][i].full < accepted'[q][j].full
    BY <1>7 DEF FreshnessRises
  <2>2. \A i \in 1 .. n : accepted[p][i].full <= lastValid[p]
    BY <1>c DEF FreshnessRises
  <2>3. \A i \in 1 .. n + 1 : accepted'[p][i].full <= full
    <3>1. ASSUME NEW i \in 1 .. n
          PROVE  accepted'[p][i].full <= full
      <4>1. accepted'[p][i] = accepted[p][i]
        BY <1>c
      <4>2. accepted[p][i].full \in Nat /\ accepted[p][i].full <= lastValid[p]
        BY <1>e, <2>2
      <4> QED
        BY <1>4, <1>5, <4>1, <4>2
    <3>2. accepted'[p][n + 1].full <= full
      BY <1>5, <1>6, <1>c
    <3>3. \A i \in 1 .. n + 1 : i \in 1 .. n \/ i = n + 1
      BY <1>c
    <3> QED
      BY <3>1, <3>2, <3>3
  <2>4. \A i, j \in 1 .. n + 1 :
          i < j => accepted'[p][i].full < accepted'[p][j].full
    <3>1. \A i, j \in 1 .. n : i < j => accepted[p][i].full < accepted[p][j].full
      BY <1>c DEF FreshnessRises
    <3>2. ASSUME NEW i \in 1 .. n, NEW j \in 1 .. n, i < j
          PROVE  accepted'[p][i].full < accepted'[p][j].full
      BY <1>c, <3>1, <3>2
    <3>3. ASSUME NEW i \in 1 .. n
          PROVE  accepted'[p][i].full < full
      <4>1. accepted'[p][i] = accepted[p][i]
        BY <1>c
      <4>2. accepted[p][i].full \in Nat /\ accepted[p][i].full <= lastValid[p]
        BY <1>e, <2>2
      <4> QED
        BY <1>4, <1>5, <4>1, <4>2
    <3>4. \A i, j \in 1 .. n + 1 : i < j => i \in 1 .. n /\ (j \in 1 .. n \/ j = n + 1)
      BY <1>c
    <3> QED
      BY <1>6, <1>c, <3>2, <3>3, <3>4
  <2> QED
    BY <1>7, <1>c, <2>1, <2>3, <2>4 DEF FreshnessRises
<1>10. AcceptedWasSent'
  <2>1. \A q \in Pdu : Wire(q)' = Wire(q)
    BY <1>1 DEF Wire
  <2> QED
    BY <1>2, <1>6, <1>7, <1>c, <2>1 DEF AcceptedWasSent
<1>11. AcceptedCongruent'
  <2>1. \A q \in Pdu : \A i \in DOMAIN accepted[q] :
          Truncate(accepted[q][i].full, Modulus) = accepted[q][i].frame.fresh
    BY DEF AcceptedCongruent
  <2>2. ASSUME NEW q \in Pdu \ {p}
        PROVE  \A i \in DOMAIN accepted'[q] :
                 Truncate(accepted'[q][i].full, Modulus) = accepted'[q][i].frame.fresh
    BY <1>7, <2>1
  <2>3. \A i \in 1 .. n + 1 :
          Truncate(accepted'[p][i].full, Modulus) = accepted'[p][i].frame.fresh
    <3>1. \A i \in 1 .. n + 1 : i \in 1 .. n \/ i = n + 1
      BY <1>c
    <3> QED
      BY <1>5, <1>6, <1>c, <2>1, <3>1
  <2> QED
    BY <1>c, <2>2, <2>3 DEF AcceptedCongruent
<1> QED
  BY <1>8, <1>9, <1>10, <1>11

(* And every step that leaves the counter and the histories alone. *)
LEMMA HistoryKept ==
  ASSUME IInv, UNCHANGED <<lastValid, sent, accepted>>
  PROVE  (SentGenuine /\ FreshnessRises /\ AcceptedWasSent /\ AcceptedCongruent)'
BY DEF IInv, SentGenuine, Genuine, FreshnessRises, AcceptedWasSent, AcceptedCongruent, Wire

(* Every step preserves the invariant: an acceptance is of a genuine frame and
   commits a counter above all earlier ones; no other step adds a delivery. *)
LEMMA InvStep == IInv /\ [Next]_vars => IInv'
<1> SUFFICES ASSUME IInv, [Next]_vars PROVE IInv'
  OBVIOUS
<1> USE DEF IInv
<1>1. TypeOK'
  BY TypeStep
<1> DEFINE Invs == SentGenuine /\ FreshnessRises /\ AcceptedWasSent /\ AcceptedCongruent
<1>2. ASSUME NEW p \in Pdu, NEW x \in Payload, NEW t \in Transport,
             Fits(x, t), transmit_secured(p, x, t)
      PROVE  Invs'
  <2>1. /\ sent' = [sent EXCEPT ![p] = @ \cup {NextFrame(p, x, t)}]
        /\ UNCHANGED <<lastValid, accepted>>
    BY <1>2 DEF transmit_secured
  <2>2. Genuine(p, NextFrame(p, x, t))
    BY <1>2, NextFrameGenuine
  <2> QED
    BY <2>1, <2>2, BuiltKeeps
<1>3. ASSUME NEW p \in Pdu, NEW t \in Transport, NEW f \in Incoming, Accept(p, f, t)
      PROVE  Invs'
  BY <1>3, DeliverKeeps DEF Accept
<1>4. ASSUME NEW p \in Pdu, NEW value \in ResyncValue, reinitialize_window(p, value)
      PROVE  Invs'
  <2>1. /\ UNCHANGED sent
        /\ lastValid' = [lastValid EXCEPT ![p] = value]
        /\ accepted' = [accepted EXCEPT ![p] = << >>]
    BY <1>4 DEF reinitialize_window
  <2>2. /\ \A q \in Pdu \ {p} : accepted'[q] = accepted[q] /\ lastValid'[q] = lastValid[q]
        /\ accepted'[p] = << >>
    BY <2>1 DEF TypeOK, FreshnessTyped
  <2>a. DOMAIN accepted'[p] = {}
    BY <2>2
  <2>3. SentGenuine'
    BY <2>1 DEF SentGenuine, Genuine
  <2>4. FreshnessRises'
    <3>1. ASSUME NEW q \in Pdu \ {p}
          PROVE  /\ \A i \in DOMAIN accepted'[q] : accepted'[q][i].full <= lastValid'[q]
                 /\ \A i, j \in DOMAIN accepted'[q] :
                      i < j => accepted'[q][i].full < accepted'[q][j].full
      BY <2>2 DEF FreshnessRises
    <3> QED
      BY <2>a, <3>1 DEF FreshnessRises
  <2>5. AcceptedWasSent'
    <3>1. \A q \in Pdu : Wire(q)' = Wire(q)
      BY <2>1 DEF Wire
    <3> QED
      BY <2>2, <2>a, <3>1 DEF AcceptedWasSent
  <2>6. AcceptedCongruent'
    BY <2>2, <2>a DEF AcceptedCongruent
  <2> QED
    BY <2>3, <2>4, <2>5, <2>6
<1>5. ASSUME UNCHANGED <<lastValid, sent, accepted>>
      PROVE  Invs'
  BY <1>5, HistoryKept
<1>6. Invs'
  BY <1>2, <1>3, <1>4, <1>5, HistorySteps
<1> QED
  BY <1>1, <1>6 DEF IInv

(* The steps that touch the failure counts, the lockout or the DEM. *)
LEMMA PolicySteps ==
  ASSUME [Next]_vars
  PROVE  \/ \E p \in Pdu, t \in Transport : \E f \in Incoming : Reject(p, f, t)
         \/ on_reset \/ reset_ecu \/ Restart
         \/ UNCHANGED <<failCount, lockedOut, ecuState, dem>>
  BY DEF Next, Transmit, Receive, receive_secured, Resync, RotateKey, RestartBounded,
         transmit_secured, Accept, Deliver, receive_frame, reinitialize_window, rotate_key,
         vars, policyVars

(* The invariant, in every reachable state. *)
THEOREM Invariance == Spec => []IInv
  BY InitIInv, InvStep, PTL DEF Spec

(* Type correctness of the core. *)
THEOREM TypeCorrect == Spec => []TypeOK
  BY Invariance, PTL DEF IInv

(* Anti-replay: accepted counters rise strictly and are committed, for every
   channel behaviour, key change, reset and restart. *)
THEOREM AntiReplayHolds == Spec => []FreshnessRises
  BY Invariance, PTL DEF IInv

(* Authenticity: whatever is accepted for a PDU was built for that PDU, or is
   the shortened form of what was. *)
THEOREM AuthenticityHolds == Spec => []AcceptedWasSent
  BY Invariance, PTL DEF IInv

(* A frame is not accepted a second time within a modulus of the first. *)
THEOREM ReacceptanceBound == Spec => []NoReacceptanceWithinModulus
<1>1. IInv => NoReacceptanceWithinModulus
  <2> SUFFICES ASSUME IInv, NEW p \in Pdu,
                      NEW i \in DOMAIN accepted[p], NEW j \in DOMAIN accepted[p],
                      i < j, accepted[p][i].frame = accepted[p][j].frame
               PROVE  accepted[p][j].full >= accepted[p][i].full + Modulus
    BY DEF NoReacceptanceWithinModulus
  <2> DEFINE a == accepted[p][i].full
             b == accepted[p][j].full
  <2>1. a < b /\ a % Modulus = b % Modulus
    BY DEF IInv, FreshnessRises, AcceptedCongruent, Truncate
  <2>2. a \in Nat /\ b \in Nat
    <3> DEFINE Delivery == [frame : Frame, full : Nat]
    <3>1. accepted[p] \in Seq(Delivery)
      BY DEF IInv, TypeOK, FreshnessTyped
    <3>2. \A d \in Delivery : d.full \in Nat
      OBVIOUS
    <3> HIDE DEF Delivery
    <3> QED
      BY <3>1, <3>2
  <2> HIDE DEF a, b
  <2>3. b >= a + Modulus
    BY <2>1, <2>2, CongruentApart
  <2> QED
    BY <2>3 DEF a, b
<1> QED
  BY <1>1, Invariance, PTL

(* A stale frame fails on freshness: the counter it would be given is its old
   one plus a modulus, beyond the window. *)
THEOREM StaleHolds == Spec => []StaleIsOutOfWindow
<1>1. IInv => StaleIsOutOfWindow
  <2> SUFFICES ASSUME IInv, NEW p \in Pdu, NEW i \in DOMAIN accepted[p],
                      lastValid[p] + Window < accepted[p][i].full + Modulus
               PROVE  Verdict(p, accepted[p][i].frame, accepted[p][i].frame.layout)
                        = "FRESHNESS_OUT_OF_WINDOW"
    BY DEF StaleIsOutOfWindow
  <2> DEFINE f == accepted[p][i].frame
             a == accepted[p][i].full
             last == lastValid[p]
             q == a \div Modulus
  <2>1. f.fresh = a % Modulus /\ a <= last
    BY DEF IInv, AcceptedCongruent, FreshnessRises, Truncate
  <2>2. a \in Nat /\ last \in Nat
    <3> DEFINE Delivery == [frame : Frame, full : Nat]
    <3>1. accepted[p] \in Seq(Delivery) /\ last \in Nat
      BY DEF IInv, TypeOK, FreshnessTyped
    <3>2. \A d \in Delivery : d.full \in Nat
      OBVIOUS
    <3> HIDE DEF Delivery, last
    <3> QED
      BY <3>1, <3>2
  <2>3. last + Window < a + Modulus
    OBVIOUS
  <2> HIDE DEF f, a, last
  <2>4. q \in Nat /\ a % Modulus \in 0 .. Modulus - 1 /\ a = q * Modulus + (a % Modulus)
    BY <2>2, DivMod, FreshnessAssumption
  <2> HIDE DEF q
  <2>5. (a + Modulus) % Modulus = a % Modulus
    <3>1. a + Modulus = (q + 1) * Modulus + (a % Modulus)
      BY <2>2, <2>4, FreshnessAssumption
    <3> QED
      BY <2>4, <3>1, ModOfSum, FreshnessAssumption, SMTT(30)
  <2>6. Candidate(last, f.fresh) = a + Modulus
    BY <2>1, <2>2, <2>3, <2>5, CandidateExact, FreshnessAssumption DEF Truncate
  <2>7. ~ValidFreshness(last, f.fresh)
    BY <2>2, <2>3, <2>6, FreshnessAssumption DEF ValidFreshness, InWindow
  <2> QED
    BY <2>7 DEF Verdict, Parses, last, f
<1> QED
  BY <1>1, Invariance, PTL

(* A clean CAN_FD round trip is accepted in every reachable state. *)
THEOREM RoundTripFDHolds == Spec => []RoundTripFD
<1>1. TypeOK => RoundTripFD
  <2> SUFFICES ASSUME TypeOK, NEW p \in Pdu, NEW x \in Payload
               PROVE  Verdict(p, NextFrame(p, x, "CAN_FD"), "CAN_FD") = "ACCEPTED"
    BY DEF RoundTripFD
  <2> DEFINE next == lastValid[p] + 1
             f == NextFrame(p, x, "CAN_FD")
  <2>1. lastValid[p] \in Nat /\ WireModulus["CAN_FD"] = Modulus
    BY SecOCAssumption DEF TypeOK, FreshnessTyped
  <2>2. /\ f.layout = "CAN_FD" /\ f.payload = x
        /\ f.fresh = Truncate(next, Modulus)
        /\ f.mac = generate_mac(p, x, next, "CAN_FD")
    BY <2>1 DEF NextFrame, build_secured_pdu, WirePayload
  <2> HIDE DEF f
  <2>3. Candidate(lastValid[p], f.fresh) = next
    BY <2>1, <2>2, CandidateExact, FreshnessAssumption
  <2>4. ValidFreshness(lastValid[p], f.fresh)
    BY <2>1, <2>3, FreshnessAssumption DEF ValidFreshness, InWindow
  <2>5. Verdict(p, f, "CAN_FD") = "ACCEPTED"
    BY <2>2, <2>3, <2>4 DEF Verdict, Parses, verify_mac
  <2> QED
    BY <2>5 DEF f
<1> QED
  BY <1>1, TypeCorrect, PTL
(* Of the numbers that follow last, no two of the first m are congruent. *)
LEMMA OnePerClass ==
  ASSUME NEW m \in Nat \ {0}, NEW last \in Nat, NEW a \in last + 1 .. last + m,
         NEW b \in last + 1 .. last + m, a % m = b % m
  PROVE  a = b
<1> DEFINE qa == a \div m
           qb == b \div m
           r == a % m
<1>1. /\ a = qa * m + r /\ qa \in Nat /\ r \in 0 .. m - 1
      /\ b = qb * m + r /\ qb \in Nat
  <2>1. a \in Nat /\ b \in Nat
    OBVIOUS
  <2> QED
    BY <2>1, DivMod
<1> HIDE DEF qa, qb, r
<1>2. qa * m \in Nat /\ qb * m \in Nat
  BY <1>1
<1>3. qa * m < qb * m + m /\ qb * m < qa * m + m
  BY <1>1, <1>2
<1>4. qa = qb
  BY <1>1, <1>3, MultiplesApart
<1> QED
  BY <1>1, <1>4

(* The CLASSIC_CAN frame built next passes the checks exactly when its counter
   fits the short field within its epoch: the receiver's candidate and that
   counter are congruent modulo the short field's modulus, so that a candidate
   within the window can only be the counter itself. *)
THEOREM RoundTripClassicHolds ==
  ASSUME Window <= WireModulus["CLASSIC_CAN"]
  PROVE  Spec => []RoundTripClassic
<1>1. TypeOK => RoundTripClassic
  <2> SUFFICES ASSUME TypeOK, NEW p \in Pdu, NEW x \in Short
               PROVE  Verdict(p, NextFrame(p, x, "CLASSIC_CAN"), "CLASSIC_CAN") = "ACCEPTED"
                        <=> Truncate(lastValid[p] + 1, Modulus) < WireModulus["CLASSIC_CAN"]
    BY DEF RoundTripClassic
  <2> DEFINE w == WireModulus["CLASSIC_CAN"]
             last == lastValid[p]
             next == last + 1
             n == next % w
             c == Candidate(last, n)
             f == NextFrame(p, x, "CLASSIC_CAN")
  <2>1. w \in Nat \ {0} /\ Window <= w /\ "CLASSIC_CAN" \in Transport
    BY WireTyped DEF Transport
  <2>2. last \in Nat /\ next \in Nat
    BY DEF TypeOK, FreshnessTyped
  <2>3. /\ f.layout = "CLASSIC_CAN" /\ f.fresh = n
        /\ f.mac = [key |-> <<p, keyEpoch[p]>>, bytes |-> Covered(f.payload, n, "CLASSIC_CAN"),
                    last |-> n % w, length |-> "CLASSIC_CAN"]
    BY DEF NextFrame, build_secured_pdu, generate_mac, Truncate
  <2> HIDE DEF f, last
  <2>4. n \in 0 .. w - 1
    BY <2>1, <2>2, DivMod
  <2>5. c % w = n
    BY <2>1, <2>2, <2>4, WireField DEF Truncate
  <2>6. Verdict(p, f, "CLASSIC_CAN") = "ACCEPTED" <=> ValidFreshness(last, n)
    BY <2>3, <2>5 DEF Verdict, Parses, verify_mac, generate_mac, Truncate, last
  <2>7. n \in 0 .. Modulus - 1 /\ c \in Nat /\ last < c /\ c % Modulus = n
    BY <2>1, <2>2, <2>4, WireField, CandidateBeyond, CandidateCongruent DEF Truncate
  <2> HIDE DEF c, n
  <2>8. ASSUME ValidFreshness(last, n) PROVE next % Modulus < w
    <3>1. c <= last + Window
      BY <2>2, <2>7, <2>8, FreshnessAssumption DEF ValidFreshness, InWindow, c
    <3>2. c \in last + 1 .. last + w /\ next \in last + 1 .. last + w
      BY <2>1, <2>2, <2>7, <3>1, FreshnessAssumption
    <3>3. c = next
      BY <2>1, <2>2, <2>5, <3>2, OnePerClass DEF n
    <3> QED
      BY <2>1, <2>4, <2>7, <3>3
  <2>9. ASSUME next % Modulus < w PROVE ValidFreshness(last, n)
    <3>1. next % Modulus \in 0 .. w - 1
      BY <2>1, <2>2, <2>9, DivMod, FreshnessAssumption
    <3>2. Candidate(last, next % Modulus) = next
      BY <2>2, CandidateExact, FreshnessAssumption DEF Truncate
    <3>3. n = next % Modulus
      BY <2>1, <2>2, <3>1, <3>2, WireField DEF Truncate, n
    <3> QED
      BY <2>2, <3>2, <3>3, FreshnessAssumption DEF ValidFreshness, InWindow
  <2> QED
    BY <2>6, <2>8, <2>9 DEF f, last, Truncate
<1> QED
  BY <1>1, TypeCorrect, PTL
-----------------------------------------------------------------------------
(* A failure locks the ECU exactly when it takes its PDU to the threshold. *)
LEMMA LockoutStep == TypeOK /\ LockoutJustified /\ [Next]_vars => LockoutJustified'
<1> SUFFICES ASSUME TypeOK, LockoutJustified, [Next]_vars PROVE LockoutJustified'
  OBVIOUS
<1> USE DEF LockoutJustified
<1>1. ASSUME NEW p \in Pdu, NEW t \in Transport, NEW f \in Incoming, Reject(p, f, t)
      PROVE  LockoutJustified'
  <2> DEFINE escalates == Escalates(failCount[p] + 1)
  <2>1. /\ failCount' = [failCount EXCEPT ![p] = @ + 1]
        /\ lockedOut' = (lockedOut \/ escalates)
        /\ ecuState' = IF escalates THEN "SECURITY_VIOLATION_LOCKOUT" ELSE ecuState
        /\ dem'["SAFE_STATE_ENTERED"] =
             IF escalates THEN dem["SAFE_STATE_ENTERED"] + 1 ELSE dem["SAFE_STATE_ENTERED"]
    BY <1>1 DEF Reject, Refuse, record_failure, TypeOK, PolicyTyped, DemCode
  <2>2. /\ failCount \in [Pdu -> Nat] /\ dem["SAFE_STATE_ENTERED"] \in Nat
        /\ lockedOut \in BOOLEAN /\ MaxAuthFailures \in Nat
    BY SecOCAssumption DEF TypeOK, PolicyTyped, DemCode
  <2>3. /\ failCount'[p] = failCount[p] + 1
        /\ \A q \in Pdu \ {p} : failCount'[q] = failCount[q]
        /\ \A q \in Pdu : failCount'[q] >= failCount[q]
    BY <2>1, <2>2
  <2> HIDE DEF escalates
  <2>4. CASE escalates
    <3>1. ~lockedOut /\ failCount'[p] >= MaxAuthFailures
      BY <2>3, <2>4 DEF Escalates, escalates
    <3>2. dem'["SAFE_STATE_ENTERED"] > 0
      BY <2>1, <2>2, <2>4
    <3>3. lockedOut' /\ ecuState' = "SECURITY_VIOLATION_LOCKOUT"
      BY <2>1, <2>4, Zenon
    <3> QED
      BY <3>1, <3>2, <3>3
  <2>5. CASE ~escalates
    <3>1. /\ lockedOut' = lockedOut /\ ecuState' = ecuState
          /\ dem'["SAFE_STATE_ENTERED"] = dem["SAFE_STATE_ENTERED"]
      BY <2>1, <2>2, <2>5
    <3>2. lockedOut \/ ~(failCount'[p] >= MaxAuthFailures)
      BY <2>3, <2>5 DEF Escalates, escalates
    <3>3. \A q \in Pdu : failCount[q] >= MaxAuthFailures => failCount'[q] >= MaxAuthFailures
      BY <2>2, <2>3
    <3> QED
      BY <2>3, <3>1, <3>2, <3>3
  <2> QED
    BY <2>4, <2>5
<1>2. CASE on_reset
  BY <1>2 DEF on_reset
<1>3. CASE reset_ecu \/ Restart
  BY <1>3, SecOCAssumption DEF reset_ecu, Restart
<1>4. CASE UNCHANGED <<failCount, lockedOut, ecuState, dem>>
  BY <1>4
<1> QED
  BY <1>1, <1>2, <1>3, <1>4, PolicySteps

(* Lockout is consistent, justified and never missed. *)
THEOREM LockoutHolds == Spec => []LockoutJustified
<1>1. Init => LockoutJustified
  BY SecOCAssumption DEF Init, LockoutJustified
<1> QED
  BY <1>1, LockoutStep, TypeCorrect, PTL DEF Spec

(* A refusal is logged before it is counted, an escalation with it. *)
LEMMA RefuseAudited ==
  ASSUME TypeOK, FailuresAudited, NEW p \in Pdu, NEW t \in Transport, NEW f, Refuse(p, f, t)
  PROVE  FailuresAudited'
<1>1. /\ failCount' = [failCount EXCEPT ![p] = @ + 1]
      /\ dem'["SECOC_AUTH_FAIL"] = dem["SECOC_AUTH_FAIL"] + 1
      /\ dem'["SAFE_STATE_ENTERED"] \in
           {dem["SAFE_STATE_ENTERED"], dem["SAFE_STATE_ENTERED"] + 1}
  BY DEF Refuse, record_failure, TypeOK, PolicyTyped, DemCode
<1>2. /\ failCount \in [Pdu -> Nat] /\ dem["SAFE_STATE_ENTERED"] \in Nat
      /\ dem["SECOC_AUTH_FAIL"] \in Nat
  BY DEF TypeOK, PolicyTyped, DemCode
<1> QED
  BY <1>1, <1>2 DEF FailuresAudited

(* Every counted failure and every lockout entry is in the DEM log. *)
THEOREM AuditHolds == Spec => []FailuresAudited
<1>1. Init => FailuresAudited
  BY DEF Init, FailuresAudited, DemCode
<1>2. TypeOK /\ FailuresAudited /\ [Next]_vars => FailuresAudited'
  <2> SUFFICES ASSUME TypeOK, FailuresAudited, [Next]_vars PROVE FailuresAudited'
    OBVIOUS
  <2> USE DEF FailuresAudited
  <2>1. ASSUME NEW p \in Pdu, NEW t \in Transport, NEW f \in Incoming, Reject(p, f, t)
        PROVE  FailuresAudited'
    BY <2>1, RefuseAudited DEF Reject
  <2>2. CASE on_reset
    BY <2>2 DEF on_reset
  <2>3. CASE reset_ecu
    BY <2>3 DEF reset_ecu, TypeOK, PolicyTyped, DemCode
  <2>4. CASE Restart
    BY <2>4 DEF Restart, DemCode
  <2>5. CASE UNCHANGED <<failCount, lockedOut, ecuState, dem>>
    BY <2>5
  <2> QED
    BY <2>1, <2>2, <2>3, <2>4, <2>5, PolicySteps
<1> QED
  BY <1>1, <1>2, TypeCorrect, PTL DEF Spec

(* A rejection changes no counter, key, delivery or bus state. *)
THEOREM RejectionInertHolds == Spec => RejectionInert
<1>1. TypeOK /\ [Next]_vars =>
        [(\E p \in Pdu : failCount'[p] > failCount[p])
           => UNCHANGED <<lastValid, keyEpoch, accepted, busVars>>]_vars
  <2> SUFFICES ASSUME TypeOK, [Next]_vars, NEW p \in Pdu, failCount'[p] > failCount[p]
               PROVE  UNCHANGED <<lastValid, keyEpoch, accepted, busVars>>
    OBVIOUS
  <2>1. failCount[p] \in Nat
    BY DEF TypeOK, PolicyTyped
  <2>2. ASSUME NEW q \in Pdu, NEW t \in Transport, NEW f \in Incoming, Reject(q, f, t)
        PROVE  UNCHANGED <<lastValid, keyEpoch, accepted, busVars>>
    BY <2>2 DEF Reject, Refuse
  <2>3. CASE on_reset \/ reset_ecu \/ Restart
    BY <2>1, <2>3 DEF on_reset, reset_ecu, Restart
  <2>4. CASE UNCHANGED <<failCount, lockedOut, ecuState, dem>>
    BY <2>1, <2>4
  <2> QED
    BY <2>2, <2>3, <2>4, PolicySteps
<1> QED
  BY <1>1, TypeCorrect, PTL DEF Spec, RejectionInert
-----------------------------------------------------------------------------
(* The core implements the abstract promise of AntiReplay. *)
THEOREM ImplementsAntiReplay == Spec => AntiReplaySpec
<1> DEFINE W == [p \in Pdu |-> Wire(p)]
<1>1. Init => Promise!Init
  BY DEF Init, Promise!Init, Wire
<1>2. IInv /\ [Next]_vars => [Promise!Next]_(Promise!promiseVars)
  <2> SUFFICES ASSUME IInv, [Next]_vars
               PROVE  Promise!Next \/ UNCHANGED <<W, lastValid, accepted>>
    BY DEF Promise!promiseVars
  <2> USE DEF IInv
  <2>a. ASSUME UNCHANGED sent PROVE W' = W
    BY <2>a DEF Wire
  <2>1. ASSUME NEW p \in Pdu, NEW x \in Payload, NEW t \in Transport,
               Fits(x, t), transmit_secured(p, x, t)
        PROVE  Promise!Next
    <3>1. /\ \A q \in Pdu \ {p} : sent'[q] = sent[q]
          /\ sent[p] \subseteq sent'[p]
          /\ UNCHANGED <<lastValid, accepted>>
      BY <2>1 DEF transmit_secured, TypeOK, FreshnessTyped
    <3>2. \A q \in Pdu \ {p} : Wire(q)' = Wire(q)
      BY <3>1 DEF Wire
    <3>3. Wire(p) \subseteq Wire(p)'
      BY <3>1 DEF Wire
    <3>4. W' = [W EXCEPT ![p] = @ \cup W'[p]]
      BY <3>2, <3>3
    <3>5. W'[p] \subseteq Frame
      <4>1. \A g \in sent'[p] : Genuine(p, g)
        BY <2>1, NextFrameGenuine DEF transmit_secured, SentGenuine, TypeOK, FreshnessTyped
      <4> QED
        BY <4>1, ShortenedGenuine DEF Wire, Genuine
    <3> QED
      BY <3>1, <3>4, <3>5 DEF Promise!Next, Promise!Offer
  <2>2. ASSUME NEW p \in Pdu, NEW t \in Transport, NEW f \in Incoming, Accept(p, f, t)
        PROVE  Promise!Next
    <3> DEFINE full == Candidate(lastValid[p], f.fresh)
    <3>1. /\ lastValid' = [lastValid EXCEPT ![p] = full]
          /\ accepted' = [accepted EXCEPT ![p] = Append(@, [frame |-> f, full |-> full])]
          /\ UNCHANGED sent
      BY <2>2 DEF Accept, Deliver, commit_freshness
    <3>2. f \in Wire(p)
      BY <2>2, AcceptedGenuine DEF Accept, Deliver
    <3>3. ValidFreshness(lastValid[p], f.fresh)
      BY <2>2 DEF Accept, Deliver, Verdict
    <3>4. f.fresh \in 0 .. Modulus - 1 /\ lastValid[p] \in Nat
      BY <3>2, WireGenuine, WireField DEF Genuine, TypeOK, FreshnessTyped
    <3>5. full \in lastValid[p] + 1 .. lastValid[p] + Window
      BY <3>3, <3>4, CandidateBeyond, FreshnessAssumption, SMTT(30) DEF ValidFreshness, InWindow
    <3> HIDE DEF full
    <3>6. Promise!Deliver(p, f, full)
      BY <2>a, <3>1, <3>2 DEF Promise!Deliver
    <3> QED
      BY <3>2, <3>5, <3>6 DEF Promise!Next
  <2>3. ASSUME NEW p \in Pdu, NEW value \in ResyncValue, reinitialize_window(p, value)
        PROVE  Promise!Next
    <3>1. /\ lastValid' = [lastValid EXCEPT ![p] = value] /\ value \in Nat
          /\ accepted' = [accepted EXCEPT ![p] = << >>]
          /\ UNCHANGED sent
      BY <2>3, SecOCAssumption DEF reinitialize_window
    <3>2. lastValid'[p] = value
      BY <3>1 DEF TypeOK, FreshnessTyped
    <3> QED
      BY <2>a, <3>1, <3>2 DEF Promise!Next, Promise!Resynchronise
  <2> QED
    BY <2>a, <2>1, <2>2, <2>3, HistorySteps
<1> QED
  BY <1>1, <1>2, Invariance, PTL DEF Spec, AntiReplaySpec, Promise!Spec
=============================================================================
