-------------------------------- MODULE CanBus --------------------------------
(***************************************************************************)
(* sim/can_bus.py: the process-wide bus, a FIFO of (pdu_id, frame) pairs   *)
(* and the last frame seen for each PDU.  Its operations are atomic: the   *)
(* simulation runs on one event loop and none of them awaits.              *)
(***************************************************************************)
EXTENDS Sequences

CONSTANTS Pdu,      \* the PDU identifiers of config/secoc_profiles.json
          NoFrame   \* get_last's None

VARIABLES queue,    \* CanBus._queue, oldest first
          lastFrame \* CanBus._last_frames

busVars == <<queue, lastFrame>>

BusInit == /\ queue = << >>
           /\ lastFrame = [p \in Pdu |-> NoFrame]

(* start(): a power-on clears the queue and the registry. *)
start == /\ queue' = << >>
         /\ lastFrame' = [p \in Pdu |-> NoFrame]

(* Mutation: the frame is queued without its PDU identifier. *)
publishBare(p, frame) == /\ queue' = Append(queue, frame)
                         /\ lastFrame' = [lastFrame EXCEPT ![p] = frame]

(* publish(pdu_id, data): into the registry and onto the queue. *)
publish(p, frame) == /\ queue' = Append(queue, [pdu |-> p, frame |-> frame])
                     /\ lastFrame' = [lastFrame EXCEPT ![p] = frame]

(* consume(): the oldest frame leaves the queue; the registry keeps it. *)
consume == /\ queue # << >>
           /\ queue' = Tail(queue)
           /\ UNCHANGED lastFrame
=============================================================================
