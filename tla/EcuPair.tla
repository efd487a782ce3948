------------------------------- MODULE EcuPair -------------------------------
(***************************************************************************)
(* A SenderECU and a ReceiverECU (sim/sender_ecu.py, sim/receiver_ecu.py)  *)
(* wired as sim/scenario_runner.py and tests/test_ecu_layer.py wire them:  *)
(* a router of its own each, but one SecOC, one EcuState and one CanBus,   *)
(* so what one ECU does to the policy state the other one meets.           *)
(*                                                                         *)
(* An ECU is registered with its router exactly while it is running.       *)
(***************************************************************************)
EXTENDS SecOC

CONSTANT MaxDropped  \* bound: frames of a PDU dropped in lockout

Ecu == {"ECU_TX", "ECU_RX"}

VARIABLES
  running,        \* ECUBase._running, by ECU
  signalHandlers, \* the PDUs ReceiverECU.signal_handlers has a handler for
  txCount,        \* SenderECU.tx_count
  rxAccepted,     \* ReceiverECU.rx_accepted_count
  rxRejected,     \* ReceiverECU.rx_rejected_count
  handled         \* history: the payloads the handlers were given, by PDU

ecuVars == <<running, signalHandlers, txCount, rxAccepted, rxRejected, handled>>
pairVars == <<vars, ecuVars>>

PairInit ==
  /\ Init
  /\ running = [e \in Ecu |-> TRUE]
  /\ signalHandlers = {}
  /\ txCount = [p \in Pdu |-> 0]
  /\ rxAccepted = [p \in Pdu |-> 0]
  /\ rxRejected = [p \in Pdu |-> 0]
  /\ handled = [p \in Pdu |-> << >>]
-----------------------------------------------------------------------------
(* on_startup: raises for an ECU that is running; lockout is left as it is. *)
on_startup(e) ==
  /\ ~running[e]
  /\ running' = [running EXCEPT ![e] = TRUE]
  /\ UNCHANGED <<vars, signalHandlers, txCount, rxAccepted, rxRejected, handled>>

shutdown(e) ==
  /\ running' = [running EXCEPT ![e] = FALSE]
  /\ UNCHANGED <<vars, signalHandlers, txCount, rxAccepted, rxRejected, handled>>

(* ECUBase.on_reset of either ECU resets the SecOC the two share. *)
ecu_on_reset(e) ==
  /\ on_reset
  /\ running' = [running EXCEPT ![e] = TRUE]
  /\ UNCHANGED <<signalHandlers, txCount, rxAccepted, rxRejected, handled>>

register_signal_handler(p) ==
  /\ signalHandlers' = signalHandlers \cup {p}
  /\ UNCHANGED <<vars, running, txCount, rxAccepted, rxRejected, handled>>

(* The frame is built and published without a suspension between. *)
BuildAndPublish(p, x) ==
  LET f == NextFrame(p, x, "CAN_FD")
  IN  /\ sent' = [sent EXCEPT ![p] = @ \cup {f}]
      /\ publish(p, f)
      /\ txCount' = [txCount EXCEPT ![p] = @ + 1]
      /\ UNCHANGED <<lastValid, keyEpoch, policyVars, accepted,
                     running, signalHandlers, rxAccepted, rxRejected, handled>>

(* send_signal: suppressed in lockout, but nothing asks whether the ECU is
   running. *)
send_signal(p, x) == ecuState = "NORMAL_OPERATION" /\ BuildAndPublish(p, x)

(* Mutation: an accepted frame makes up for a rejected one. *)
DeliveredForgives(p, f) ==
  /\ Accept(p, f, "CAN_FD")
  /\ rxAccepted' = [rxAccepted EXCEPT ![p] = @ + 1]
  /\ rxRejected' = [rxRejected EXCEPT ![p] = @ - 1]
  /\ UNCHANGED <<running, signalHandlers, txCount, handled>>

(* The handler, if there is one, gets the payload after the counter has been
   committed and the frame published again. *)
Delivered(p, f) ==
  /\ Accept(p, f, "CAN_FD")
  /\ rxAccepted' = [rxAccepted EXCEPT ![p] = @ + 1]
  /\ handled' = IF p \in signalHandlers
                THEN [handled EXCEPT ![p] = Append(@, f.payload)]
                ELSE handled
  /\ UNCHANGED <<running, signalHandlers, txCount, rxRejected>>

CountRejected(p) ==
  /\ rxRejected' = [rxRejected EXCEPT ![p] = @ + 1]
  /\ UNCHANGED <<running, signalHandlers, txCount, rxAccepted, handled>>

(* Mutation: a rejected frame's payload reaches the handler. *)
RejectedHandled(p, f) ==
  /\ Reject(p, f, "CAN_FD")
  /\ rxRejected' = [rxRejected EXCEPT ![p] = @ + 1]
  /\ handled' = [handled EXCEPT ![p] = Append(@, f.payload)]
  /\ UNCHANGED <<running, signalHandlers, txCount, rxAccepted>>

Rejected(p, f) == Reject(p, f, "CAN_FD") /\ CountRejected(p)

(* In lockout the frame is dropped before SecOC sees it: it is counted by
   the ECU and by nobody else. *)
Dropped(p) ==
  /\ ecuState # "NORMAL_OPERATION"
  /\ rxRejected[p] < failCount[p] + MaxDropped
  /\ CountRejected(p)
  /\ UNCHANGED vars

(* What becomes of a frame the receiver verifies. *)
Verified(p, f) == Delivered(p, f) \/ Rejected(p, f)

on_frame_received(p, f) ==
  \/ Dropped(p)
  \/ ecuState = "NORMAL_OPERATION" /\ Verified(p, f)

(* The receiver's router has no ECU to deliver to unless it is running. *)
route_from_bus(p, f) == running["ECU_RX"] /\ on_frame_received(p, f)
-----------------------------------------------------------------------------
SendSignal ==
  \E p \in Pdu, x \in Payload :
    txCount[p] < MaxSent /\ Len(queue) < MaxQueue /\ send_signal(p, x)

FrameArrives == \E p \in Pdu : \E f \in Incoming : route_from_bus(p, f)

TakeFrame == receive_frame /\ UNCHANGED ecuVars

PairNext ==
  \/ SendSignal
  \/ FrameArrives
  \/ TakeFrame
  \/ \E e \in Ecu : on_startup(e) \/ shutdown(e) \/ ecu_on_reset(e)
  \/ \E p \in Pdu : register_signal_handler(p)

PairSpec == PairInit /\ [][PairNext]_pairVars
-----------------------------------------------------------------------------
(* Type invariant. *)
PairTypeOK ==
  /\ TypeOK
  /\ running \in [Ecu -> BOOLEAN]
  /\ signalHandlers \subseteq Pdu
  /\ txCount \in [Pdu -> Nat] /\ rxAccepted \in [Pdu -> Nat] /\ rxRejected \in [Pdu -> Nat]
  /\ handled \in [Pdu -> Seq(Payload)]

(* Lockout silences the pair (SR-14; send_signal and on_frame_received, "ECU
   not in NORMAL_OPERATION"): while it lasts nothing is built, published,
   accepted, handled, verified or counted towards another lockout. *)
LockoutQuiet ==
  [][lockedOut /\ lockedOut'
       => /\ UNCHANGED <<lastValid, sent, accepted, failCount, dem, txCount, rxAccepted, handled>>
          /\ Len(queue') <= Len(queue)]_pairVars

(* Guessing is bounded: between two resets at most MAX_AUTH_FAILURES bad
   frames of a PDU reach the verifier, however many arrive, and all but one
   of the PDUs stop short of the threshold. *)
AttemptsBounded ==
  /\ \A p \in Pdu : sinceReset[p] <= MaxAuthFailures
  /\ \A p, q \in Pdu : sinceReset[p] = MaxAuthFailures /\ sinceReset[q] = MaxAuthFailures => p = q

(* End to end: until the counter has run through a modulus, the application
   gets no more payloads of a PDU than the sender has signalled, each of them
   one the sender signalled for that PDU. *)
NoDoubleDelivery ==
  \A p \in Pdu :
    /\ lastValid[p] < Modulus => Len(handled[p]) <= txCount[p]
    /\ \A i \in DOMAIN handled[p] : \E f \in sent[p] : f.payload = handled[p][i]

(* What makes the two inductive: a PDU's failures since the reset are among
   those counted, and while there is no lockout they are too few; ... *)
AttemptsCounted ==
  /\ \A p \in Pdu : sinceReset[p] <= failCount[p]
  /\ ~lockedOut => \A p \in Pdu : sinceReset[p] < MaxAuthFailures

(* ... every payload handled took the counter a step further, and up to the
   modulus neither it nor any frame has a counter beyond those signalled. *)
CountersSignalled ==
  \A p \in Pdu :
    /\ Len(handled[p]) <= lastValid[p]
    /\ lastValid[p] < Modulus =>
         /\ lastValid[p] <= txCount[p]
         /\ \A f \in sent[p] : f.fresh <= txCount[p]
=============================================================================
