------------------------------ MODULE MCEcuPair ------------------------------
(***************************************************************************)
(* A small instance of EcuPair: the one payload is of 4 bytes and needs no *)
(* padding.  The two PDUs are interchangeable.                             *)
(***************************************************************************)
EXTENDS EcuPair, TLC

MCPayload == {<<"msg", 0>>}
MCPadded == [x \in Short |-> x]
MCJoined == [x \in Payload |-> [h \in High |-> Append(x, h)]]
MCBytes == Payload \cup {Append(x, h) : x \in Payload, h \in High}
MCWire == [t \in Transport |-> IF t = "CLASSIC_CAN" THEN 2 ELSE Modulus]
Symmetry == Permutations(Pdu)

(* Nothing here reads or speaks of the count "consecutive". *)
Read == <<lastValid, keyEpoch, failCount, lockedOut, ecuState, dem, sinceReset, sent, accepted,
          busVars, ecuVars>>
=============================================================================
