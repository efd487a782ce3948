------------------------------ MODULE AntiReplay ------------------------------
(***************************************************************************)
(* What the SecOC core promises of its deliveries, without frames, keys or *)
(* failure handling: a message is delivered for a PDU only if it was       *)
(* offered for that PDU, each delivery is stamped with a counter value     *)
(* above every earlier one and at most Window above the last, and only a   *)
(* resynchronisation starts the stamps over.                               *)
(***************************************************************************)
EXTENDS Integers, Sequences

CONSTANTS Pdu, Message, Window

VARIABLES offered,    \* messages the sender stands for, by PDU
          edge,       \* the last stamp used, by PDU
          delivered   \* what was delivered since the last resynchronisation

promiseVars == <<offered, edge, delivered>>

Init == /\ offered = [p \in Pdu |-> {}]
        /\ edge = [p \in Pdu |-> 0]
        /\ delivered = [p \in Pdu |-> << >>]

(* One call of the sender may stand for several messages. *)
Offer(p, ms) ==
  /\ UNCHANGED <<edge, delivered>>
  /\ offered' = [offered EXCEPT ![p] = @ \cup ms]

Deliver(p, m, stamp) ==
  /\ edge' = [edge EXCEPT ![p] = stamp]
  /\ m \in offered[p]
  /\ delivered' = [delivered EXCEPT ![p] = Append(@, [frame |-> m, full |-> stamp])]
  /\ UNCHANGED offered

Resynchronise(p, stamp) ==
  /\ edge' = [edge EXCEPT ![p] = stamp]
  /\ delivered' = [delivered EXCEPT ![p] = << >>]
  /\ UNCHANGED offered

(* The witnesses are drawn from the next state, so that the steps of an
   implementation can be checked against an unbounded Message set. *)
Next ==
  \E p \in Pdu :
    \/ Offer(p, offered'[p]) /\ offered'[p] \subseteq Message
    \/ \E stamp \in edge[p] + 1 .. edge[p] + Window : \E m \in offered[p] :
         Deliver(p, m, stamp)
    \/ edge'[p] \in Nat /\ Resynchronise(p, edge'[p])

Spec == Init /\ [][Next]_promiseVars
=============================================================================
