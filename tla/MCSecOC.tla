------------------------------- MODULE MCSecOC -------------------------------
(***************************************************************************)
(* Small instances of SecOC.  A payload is a 3-byte message and the bytes  *)
(* after it: the message alone and the two of 4 bytes it becomes with a    *)
(* zero byte, of padding or of freshness, or with a byte 1.                *)
(***************************************************************************)
EXTENDS SecOC, TLC

MCPayload == {<<"msg">>, <<"msg", 0>>, <<"msg", 1>>}
MCPadded == [x \in Short |-> IF Len(x) < 2 THEN Append(x, 0) ELSE x]
MCWire == [t \in Transport |-> IF t = "CLASSIC_CAN" THEN 2 ELSE Modulus]

MCJoined == [x \in Payload |-> [h \in High |-> Append(x, h)]]
MCBytes == Payload \cup {Append(x, h) : x \in Payload, h \in High}

(* What the steps read or a property speaks of: states that differ only in
   the counts sinceReset and consecutive are one. *)
Read == <<lastValid, keyEpoch, failCount, lockedOut, ecuState, dem, sent, accepted, busVars>>
=============================================================================
