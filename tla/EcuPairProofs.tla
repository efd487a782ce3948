---------------------------- MODULE EcuPairProofs ----------------------------
(***************************************************************************)
(* EcuPair: lockout silences the pair, bounds the attempts between two     *)
(* resets, and the application gets no payload twice.                      *)
(*                                                                         *)
(* But for send_signal, which publishes what it builds, a step of the pair *)
(* is a step of the SecOC core, whose invariant therefore holds of it.     *)
(***************************************************************************)
EXTENDS EcuPair, SecOCProofs

PairInv ==
  /\ PairTypeOK
  /\ IInv
  /\ LockoutJustified
  /\ AttemptsBounded
  /\ AttemptsCounted
  /\ CountersSignalled
  /\ NoDoubleDelivery
-----------------------------------------------------------------------------
(* Every step of the pair but a signal is a step of the core. *)
LEMMA StepOfCore ==
  ASSUME [PairNext]_pairVars
  PROVE  \/ \E p \in Pdu, x \in Payload : send_signal(p, x)
         \/ [Next]_vars
<1>1. ASSUME NEW p \in Pdu, NEW f \in Incoming, route_from_bus(p, f)
      PROVE  [Next]_vars
  <2>1. Dropped(p) \/ Delivered(p, f) \/ Rejected(p, f)
    BY <1>1 DEF route_from_bus, on_frame_received, Verified
  <2>2. CASE Dropped(p)
    BY <2>2 DEF Dropped
  <2>3. CASE Delivered(p, f) \/ Rejected(p, f)
    BY <2>3 DEF Delivered, Rejected, Next, Receive, receive_secured, Transport
  <2> QED
    BY <2>1, <2>2, <2>3
<1>2. CASE TakeFrame
  BY <1>2 DEF TakeFrame, Next
<1>3. ASSUME NEW e \in Ecu, on_startup(e) \/ shutdown(e) \/ ecu_on_reset(e)
      PROVE  [Next]_vars
  BY <1>3 DEF on_startup, shutdown, ecu_on_reset, Next
<1>4. ASSUME NEW p \in Pdu, register_signal_handler(p)
      PROVE  [Next]_vars
  BY <1>4 DEF register_signal_handler
<1>5. CASE UNCHANGED pairVars
  BY <1>5 DEF pairVars
<1> QED
  BY <1>1, <1>2, <1>3, <1>4, <1>5 DEF PairNext, SendSignal, FrameArrives

(* The steps that change anything the invariants count. *)
LEMMA PairSteps ==
  ASSUME [PairNext]_pairVars
  PROVE  \/ \E p \in Pdu, x \in Payload : send_signal(p, x)
         \/ \E p \in Pdu : \E f \in Incoming :
              ecuState = "NORMAL_OPERATION" /\ (Delivered(p, f) \/ Rejected(p, f))
         \/ \E e \in Ecu : ecu_on_reset(e)
         \/ /\ UNCHANGED <<lastValid, sent, accepted, policyVars, txCount, rxAccepted, handled>>
            /\ queue' = queue \/ (queue # << >> /\ queue' = Tail(queue))
<1> DEFINE Rest ==
             /\ UNCHANGED <<lastValid, sent, accepted, policyVars, txCount, rxAccepted, handled>>
             /\ queue' = queue \/ (queue # << >> /\ queue' = Tail(queue))
<1>1. ASSUME NEW p \in Pdu, Dropped(p)
      PROVE  Rest
  BY <1>1 DEF Dropped, CountRejected, vars, policyVars, busVars
<1>2. ASSUME NEW e \in Ecu, on_startup(e) \/ shutdown(e)
      PROVE  Rest
  BY <1>2 DEF on_startup, shutdown, vars, policyVars, busVars
<1>3. ASSUME NEW p \in Pdu, register_signal_handler(p)
      PROVE  Rest
  BY <1>3 DEF register_signal_handler, vars, policyVars, busVars
<1>4. CASE TakeFrame
  BY <1>4 DEF TakeFrame, receive_frame, consume, ecuVars, policyVars
<1>5. CASE UNCHANGED pairVars
  BY <1>5 DEF pairVars, vars, policyVars, busVars, ecuVars
<1> QED
  BY <1>1, <1>2, <1>3, <1>4, <1>5
     DEF PairNext, SendSignal, FrameArrives, route_from_bus, on_frame_received, Verified
-----------------------------------------------------------------------------
(* A signal keeps the invariant of the core. *)
LEMMA SignalStep ==
  ASSUME IInv, NEW p \in Pdu, NEW x \in Payload, send_signal(p, x)
  PROVE  IInv'
<1> DEFINE f == NextFrame(p, x, "CAN_FD")
<1>1. /\ sent' = [sent EXCEPT ![p] = @ \cup {f}]
      /\ queue' = Append(queue, [pdu |-> p, frame |-> f])
      /\ lastFrame' = [lastFrame EXCEPT ![p] = f]
      /\ UNCHANGED <<lastValid, keyEpoch, policyVars, accepted>>
  BY DEF send_signal, BuildAndPublish, publish
<1>2. TypeOK /\ Fits(x, "CAN_FD") /\ "CAN_FD" \in Transport
  BY DEF IInv, Fits, Transport
<1>3. Genuine(p, f)
  BY <1>2, NextFrameGenuine
<1> HIDE DEF f
<1>4. f \in Frame
  BY <1>3 DEF Genuine
<1>5. TypeOK'
  <2>1. FreshnessTyped'
    BY <1>1, <1>2, <1>4 DEF TypeOK, FreshnessTyped
  <2>2. PolicyTyped'
    BY <1>1, <1>2 DEF TypeOK, PolicyTyped, policyVars
  <2>3. BusTyped'
    BY <1>1, <1>2, <1>4 DEF TypeOK, BusTyped
  <2> QED
    BY <2>1, <2>2, <2>3 DEF TypeOK
<1> QED
  BY <1>1, <1>3, <1>5, BuiltKeeps DEF IInv

(* What the receiver delivers was built for the PDU and takes its counter
   further: to the field on the wire, as long as that is below the modulus. *)
LEMMA DeliveredFacts ==
  ASSUME IInv, NEW p \in Pdu, NEW f \in Incoming, Delivered(p, f)
  PROVE  /\ f \in sent[p] /\ f.payload \in Payload
         /\ lastValid[p] < lastValid'[p] /\ lastValid'[p] \in Nat
         /\ lastValid'[p] < Modulus => lastValid'[p] = f.fresh
         /\ \A q \in Pdu \ {p} : lastValid'[q] = lastValid[q]
         /\ UNCHANGED <<sent, failCount, lockedOut, ecuState, sinceReset, txCount>>
<1> DEFINE full == Candidate(lastValid[p], f.fresh)
<1>1. /\ Verdict(p, f, "CAN_FD") = "ACCEPTED"
      /\ lastValid' = [lastValid EXCEPT ![p] = full]
      /\ UNCHANGED <<sent, failCount, lockedOut, ecuState, sinceReset, txCount>>
  BY DEF Delivered, Accept, Deliver, commit_freshness
<1>2. f \in sent[p] /\ f.layout = "CAN_FD"
  <2>1. f \in Wire(p) /\ f.layout = "CAN_FD"
    BY <1>1, AcceptedGenuine DEF IInv, Transport
  <2> QED
    BY <2>1 DEF Wire, Shortened
<1>3. Genuine(p, f)
  BY <1>2 DEF IInv, SentGenuine
<1>4. f.payload \in Payload /\ f.fresh \in 0 .. Modulus - 1
  BY <1>2, <1>3, SecOCAssumption DEF Genuine, Frame
<1>5. lastValid \in [Pdu -> Nat]
  BY DEF IInv, TypeOK, FreshnessTyped
<1>6. full \in Nat /\ lastValid[p] < full /\ full % Modulus = f.fresh
  BY <1>4, <1>5, CandidateBeyond, CandidateCongruent DEF Truncate
<1> HIDE DEF full
<1>7. full < Modulus => full = f.fresh
  BY <1>6, FreshnessAssumption
<1> QED
  BY <1>1, <1>2, <1>4, <1>5, <1>6, <1>7

(* Type correctness. *)
LEMMA PairTypeStep ==
  ASSUME PairTypeOK, IInv, TypeOK', [PairNext]_pairVars
  PROVE  PairTypeOK'
<1> USE DEF PairTypeOK
<1>1. ASSUME NEW p \in Pdu, NEW x \in Payload, send_signal(p, x)
      PROVE  PairTypeOK'
  BY <1>1 DEF send_signal, BuildAndPublish
<1>2. ASSUME NEW p \in Pdu, NEW f \in Incoming, Delivered(p, f)
      PROVE  PairTypeOK'
  <2>1. f.payload \in Payload
    BY <1>2, DeliveredFacts
  <2>2. handled' \in [Pdu -> Seq(Payload)]
    <3>1. Append(handled[p], f.payload) \in Seq(Payload)
      BY <2>1
    <3> QED
      BY <1>2, <3>1 DEF Delivered
  <2> QED
    BY <1>2, <2>2 DEF Delivered
<1>3. ASSUME NEW p \in Pdu, CountRejected(p)
      PROVE  PairTypeOK'
  BY <1>3 DEF CountRejected
<1>4. ASSUME NEW e \in Ecu, on_startup(e) \/ shutdown(e) \/ ecu_on_reset(e)
      PROVE  PairTypeOK'
  BY <1>4 DEF on_startup, shutdown, ecu_on_reset
<1>5. ASSUME NEW p \in Pdu, register_signal_handler(p)
      PROVE  PairTypeOK'
  BY <1>5 DEF register_signal_handler
<1>6. CASE TakeFrame \/ UNCHANGED pairVars
  BY <1>6 DEF TakeFrame, pairVars, ecuVars
<1> QED
  BY <1>1, <1>2, <1>3, <1>4, <1>5, <1>6
     DEF PairNext, SendSignal, FrameArrives, route_from_bus, on_frame_received, Verified,
         Rejected, Dropped

(* A frame is verified outside lockout only, and the failure that reaches the
   threshold locks: no PDU comes past it, and no two come to it. *)
LEMMA AttemptsStep ==
  ASSUME PairInv, [PairNext]_pairVars
  PROVE  (AttemptsBounded /\ AttemptsCounted)'
<1> USE DEF AttemptsBounded, AttemptsCounted
<1>1. /\ sinceReset \in [Pdu -> Nat] /\ failCount \in [Pdu -> Nat] /\ lockedOut \in BOOLEAN
      /\ MaxAuthFailures \in Nat \ {0}
  BY SecOCAssumption DEF PairInv, IInv, TypeOK, PolicyTyped
<1>2. AttemptsBounded /\ AttemptsCounted
  BY DEF PairInv
<1>3. ASSUME NEW p \in Pdu, NEW f \in Incoming, ecuState = "NORMAL_OPERATION", Rejected(p, f)
      PROVE  (AttemptsBounded /\ AttemptsCounted)'
  <2>1. ~lockedOut
    BY <1>3 DEF PairInv, LockoutJustified
  <2>2. /\ failCount' = [failCount EXCEPT ![p] = @ + 1]
        /\ sinceReset' = [sinceReset EXCEPT ![p] = @ + 1]
        /\ lockedOut' = (failCount[p] + 1 >= MaxAuthFailures)
    BY <1>3, <2>1 DEF Rejected, Reject, Refuse, record_failure, Escalates
  <2>3. \A q \in Pdu : sinceReset[q] < MaxAuthFailures /\ sinceReset[q] <= failCount[q]
    BY <1>2, <2>1
  <2>4. /\ sinceReset'[p] = sinceReset[p] + 1 /\ failCount'[p] = failCount[p] + 1
        /\ \A q \in Pdu \ {p} : sinceReset'[q] = sinceReset[q] /\ failCount'[q] = failCount[q]
    BY <1>1, <2>2
  <2>5. AttemptsBounded'
    <3>1. \A q \in Pdu \ {p} : sinceReset'[q] \in Nat /\ sinceReset'[q] < MaxAuthFailures
      BY <1>1, <2>3, <2>4
    <3>2. sinceReset'[p] \in Nat /\ sinceReset'[p] <= MaxAuthFailures
      BY <1>1, <2>3, <2>4
    <3>3. \A q \in Pdu : sinceReset'[q] <= MaxAuthFailures
      BY <1>1, <3>1, <3>2
    <3>4. \A q \in Pdu : sinceReset'[q] = MaxAuthFailures => q = p
      BY <1>1, <3>1
    <3> QED
      BY <3>3, <3>4
  <2>6. \A q \in Pdu : sinceReset'[q] <= failCount'[q]
    BY <1>1, <2>3, <2>4
  <2>7. ~lockedOut' => \A q \in Pdu : sinceReset'[q] < MaxAuthFailures
    <3>1. ~lockedOut' => ~(failCount[p] + 1 >= MaxAuthFailures)
      BY <2>2, Zenon
    <3>2. ~lockedOut' => sinceReset'[p] < MaxAuthFailures
      BY <1>1, <2>3, <2>4, <3>1
    <3> QED
      BY <2>3, <2>4, <3>2
  <2> QED
    BY <2>5, <2>6, <2>7
<1>4. ASSUME NEW e \in Ecu, ecu_on_reset(e)
      PROVE  (AttemptsBounded /\ AttemptsCounted)'
  <2>1. sinceReset' = [p \in Pdu |-> 0] /\ failCount' = failCount
    BY <1>4 DEF ecu_on_reset, on_reset
  <2> QED
    BY <1>1, <2>1
<1>5. CASE UNCHANGED <<failCount, lockedOut, sinceReset>>
  BY <1>2, <1>5
<1> QED
  BY <1>3, <1>4, <1>5, PairSteps DEF send_signal, BuildAndPublish, Delivered, Accept, Deliver,
     policyVars

(* A remainder is no more than what it is a remainder of. *)
LEMMA ModBelow ==
  ASSUME NEW n \in Nat, NEW m \in Nat \ {0}
  PROVE  n % m \in Nat /\ n % m <= n
<1> DEFINE q == n \div m
           r == n % m
<1>1. q \in Nat /\ r \in Nat /\ n = q * m + r
  BY DivMod
<1> HIDE DEF q, r
<1>2. q * m \in Nat
  BY <1>1
<1>3. r <= n
  BY <1>1, <1>2
<1> QED
  BY <1>1, <1>3 DEF r

(* A signal raises the count of those sent, a delivery the counter: to one a
   signal was given, and by as many deliveries at most. *)
LEMMA DeliveryStep ==
  ASSUME PairInv, [PairNext]_pairVars
  PROVE  (CountersSignalled /\ NoDoubleDelivery)'
<1>1. /\ lastValid \in [Pdu -> Nat] /\ txCount \in [Pdu -> Nat]
      /\ handled \in [Pdu -> Seq(Payload)] /\ sent \in [Pdu -> SUBSET Frame]
      /\ \A p \in Pdu : \A f \in sent[p] : f.fresh \in Nat
  BY DEF PairInv, PairTypeOK, IInv, TypeOK, FreshnessTyped, Frame
<1>2. CountersSignalled /\ NoDoubleDelivery /\ IInv
  BY DEF PairInv
<1>3. ASSUME NEW p \in Pdu, NEW x \in Payload, send_signal(p, x)
      PROVE  (CountersSignalled /\ NoDoubleDelivery)'
  <2> DEFINE f == NextFrame(p, x, "CAN_FD")
  <2>1. /\ sent' = [sent EXCEPT ![p] = @ \cup {f}]
        /\ txCount' = [txCount EXCEPT ![p] = @ + 1]
        /\ UNCHANGED <<lastValid, handled>>
    BY <1>3 DEF send_signal, BuildAndPublish
  <2>2. f.fresh = (lastValid[p] + 1) % Modulus
    BY SecOCAssumption DEF NextFrame, build_secured_pdu, Truncate
  <2>3. f.fresh \in Nat /\ f.fresh <= lastValid[p] + 1
    <3>1. lastValid[p] + 1 \in Nat
      BY <1>1
    <3> QED
      BY <2>2, <3>1, ModBelow, FreshnessAssumption
  <2> HIDE DEF f
  <2>4. /\ sent'[p] = sent[p] \cup {f} /\ txCount'[p] = txCount[p] + 1
        /\ \A q \in Pdu \ {p} : sent'[q] = sent[q] /\ txCount'[q] = txCount[q]
    BY <1>1, <2>1
  <2>5. CountersSignalled'
    BY <1>1, <1>2, <2>1, <2>3, <2>4 DEF CountersSignalled
  <2>6. NoDoubleDelivery'
    BY <1>1, <1>2, <2>1, <2>4 DEF NoDoubleDelivery
  <2> QED
    BY <2>5, <2>6
<1>4. ASSUME NEW p \in Pdu, NEW f \in Incoming, Delivered(p, f)
      PROVE  (CountersSignalled /\ NoDoubleDelivery)'
  <2>1. /\ f \in sent[p]
        /\ lastValid[p] < lastValid'[p] /\ lastValid'[p] \in Nat
        /\ lastValid'[p] < Modulus => lastValid'[p] = f.fresh
        /\ \A q \in Pdu \ {p} : lastValid'[q] = lastValid[q]
        /\ UNCHANGED <<sent, txCount>>
    BY <1>2, <1>4, DeliveredFacts
  <2>2. handled' = handled \/ handled' = [handled EXCEPT ![p] = Append(@, f.payload)]
    BY <1>4 DEF Delivered
  <2>3. f.payload \in Payload
    BY <1>2, <1>4, DeliveredFacts
  <2>4. /\ \A q \in Pdu \ {p} : handled'[q] = handled[q]
        /\ Len(handled'[p]) <= Len(handled[p]) + 1 /\ Len(handled'[p]) \in Nat
        /\ \A i \in DOMAIN handled'[p] :
             (i \in DOMAIN handled[p] /\ handled'[p][i] = handled[p][i])
               \/ handled'[p][i] = f.payload
    <3>1. CASE handled' = handled
      BY <1>1, <3>1
    <3>2. CASE handled' = [handled EXCEPT ![p] = Append(@, f.payload)]
      <4>1. handled[p] \in Seq(Payload) /\ handled'[p] = Append(handled[p], f.payload)
        BY <1>1, <3>2
      <4>2. \A q \in Pdu \ {p} : handled'[q] = handled[q]
        BY <1>1, <3>2
      <4> QED
        BY <2>3, <4>1, <4>2
    <3> QED
      BY <2>2, <3>1, <3>2
  <2>5. CountersSignalled'
    <3>1. Len(handled'[p]) <= lastValid'[p]
      BY <1>1, <1>2, <2>1, <2>4 DEF CountersSignalled
    <3>2. lastValid'[p] < Modulus =>
            lastValid'[p] <= txCount'[p] /\ \A g \in sent'[p] : g.fresh <= txCount'[p]
      BY <1>1, <1>2, <2>1, FreshnessAssumption, SMTT(30) DEF CountersSignalled
    <3> QED
      BY <1>2, <2>1, <2>4, <3>1, <3>2 DEF CountersSignalled
  <2>6. NoDoubleDelivery'
    <3>1. lastValid'[p] < Modulus => Len(handled'[p]) <= txCount'[p]
      BY <1>1, <2>1, <2>4, <2>5 DEF CountersSignalled
    <3>2. \A i \in DOMAIN handled'[p] : \E g \in sent'[p] : g.payload = handled'[p][i]
      BY <1>2, <2>1, <2>4 DEF NoDoubleDelivery
    <3> QED
      BY <1>2, <2>1, <2>4, <3>1, <3>2 DEF NoDoubleDelivery
  <2> QED
    BY <2>5, <2>6
<1>5. CASE UNCHANGED <<lastValid, sent, txCount, handled>>
  BY <1>2, <1>5 DEF CountersSignalled, NoDoubleDelivery
<1> QED
  BY <1>3, <1>4, <1>5, PairSteps DEF Rejected, Reject, Refuse, CountRejected, ecu_on_reset, on_reset
-----------------------------------------------------------------------------
(* The pair starts in the invariant, ... *)
LEMMA PairInvInit == PairInit => PairInv
<1> SUFFICES ASSUME PairInit PROVE PairInv
  OBVIOUS
<1>1. IInv /\ Init
  BY InitIInv DEF PairInit
<1>2. PairTypeOK
  BY <1>1 DEF PairInit, PairTypeOK, IInv
<1>3. LockoutJustified /\ AttemptsBounded /\ AttemptsCounted
  BY <1>1, SecOCAssumption DEF Init, LockoutJustified, AttemptsBounded, AttemptsCounted
<1>4. CountersSignalled /\ NoDoubleDelivery
  BY <1>1 DEF Init, PairInit, CountersSignalled, NoDoubleDelivery
<1> QED
  BY <1>1, <1>2, <1>3, <1>4 DEF PairInv

(* ... and every step of the pair keeps it. *)
LEMMA PairInvStep == PairInv /\ [PairNext]_pairVars => PairInv'
<1> SUFFICES ASSUME PairInv, [PairNext]_pairVars PROVE PairInv'
  OBVIOUS
<1>1. IInv /\ TypeOK /\ PairTypeOK /\ LockoutJustified
  BY DEF PairInv, IInv
<1>2. IInv'
  BY <1>1, StepOfCore, InvStep, SignalStep
<1>3. PairTypeOK'
  BY <1>1, <1>2, PairTypeStep DEF IInv
<1>4. LockoutJustified'
  <2>1. ASSUME NEW p \in Pdu, NEW x \in Payload, send_signal(p, x)
        PROVE  LockoutJustified'
    BY <1>1, <2>1 DEF send_signal, BuildAndPublish, policyVars, LockoutJustified
  <2> QED
    BY <1>1, <2>1, StepOfCore, LockoutStep
<1> QED
  BY <1>2, <1>3, <1>4, AttemptsStep, DeliveryStep DEF PairInv

(* The invariant of the pair, in every reachable state. *)
THEOREM PairInvariance == PairSpec => []PairInv
BY PairInvInit, PairInvStep, PTL DEF PairSpec

(* Type correctness of the pair. *)
THEOREM PairTypeCorrect == PairSpec => []PairTypeOK
BY PairInvariance, PTL DEF PairInv

(* The lockout of the pair is consistent, justified and never missed. *)
THEOREM PairLockoutHolds == PairSpec => []LockoutJustified
BY PairInvariance, PTL DEF PairInv

(* Between two resets no PDU has more verified failures than the threshold,
   and at most one has as many. *)
THEOREM AttemptsBoundedHolds == PairSpec => []AttemptsBounded
BY PairInvariance, PTL DEF PairInv

(* Within a modulus no more payloads are handled than were signalled, each
   one of those that were. *)
THEOREM NoDoubleDeliveryHolds == PairSpec => []NoDoubleDelivery
BY PairInvariance, PTL DEF PairInv

(* A lockout that lasts silences the pair. *)
THEOREM LockoutQuietHolds == PairSpec => LockoutQuiet
<1>1. PairInv /\ [PairNext]_pairVars =>
        [lockedOut /\ lockedOut'
           => /\ UNCHANGED <<lastValid, sent, accepted, failCount, dem, txCount, rxAccepted, handled>>
              /\ Len(queue') <= Len(queue)]_pairVars
  <2> SUFFICES ASSUME PairInv, [PairNext]_pairVars, lockedOut, lockedOut'
               PROVE  /\ UNCHANGED <<lastValid, sent, accepted, failCount, dem,
                                     txCount, rxAccepted, handled>>
                      /\ Len(queue') <= Len(queue)
    OBVIOUS
  <2>1. ecuState # "NORMAL_OPERATION"
    BY DEF PairInv, LockoutJustified
  <2>2. ASSUME NEW e \in Ecu, ecu_on_reset(e)
        PROVE  FALSE
    BY <2>2 DEF ecu_on_reset, on_reset
  <2>3. /\ UNCHANGED <<lastValid, sent, accepted, policyVars, txCount, rxAccepted, handled>>
        /\ queue' = queue \/ (queue # << >> /\ queue' = Tail(queue))
    BY <2>1, <2>2, PairSteps DEF send_signal
  <2>4. Len(queue') <= Len(queue)
    <3> DEFINE Waiting == [pdu : Pdu, frame : Frame]
    <3>1. queue \in Seq(Waiting)
      BY DEF PairInv, IInv, TypeOK, BusTyped
    <3> HIDE DEF Waiting
    <3> QED
      BY <2>3, <3>1
  <2> QED
    BY <2>3, <2>4 DEF policyVars
<1> QED
  BY <1>1, PairInvariance, PTL DEF PairSpec, LockoutQuiet
=============================================================================
