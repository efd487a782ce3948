----------------------------- MODULE MCAppServer -----------------------------
(***************************************************************************)
(* A small instance of AppServer: payloads of 3 bytes (a message), of 4    *)
(* (the message padded, or followed by a byte 1, and the forged payload)   *)
(* and of more, which CLASSIC_CAN has no room for.                         *)
(***************************************************************************)
EXTENDS AppServer, TLC

MCForged == <<"forged", 0>>
MCPayload == {<<"msg">>, <<"msg", 0>>, <<"msg", 1>>, <<"msg", 0, 0>>, MCForged}
MCShort == {x \in MCPayload : Len(x) <= 2}
MCPadded == [x \in Short |-> IF Len(x) < 2 THEN Append(x, 0) ELSE x]
MCJoined == [x \in Payload |-> [h \in High |-> Append(x, h)]]
MCBytes == Payload \cup {Append(x, h) : x \in Payload, h \in High}
MCWire == [t \in Transport |-> IF t = "CLASSIC_CAN" THEN 2 ELSE Modulus]

(* Nothing here reads or speaks of the count "consecutive". *)
Read == <<lastValid, keyEpoch, failCount, lockedOut, ecuState, dem, sinceReset, sent, accepted,
          busVars, captured>>
=============================================================================
