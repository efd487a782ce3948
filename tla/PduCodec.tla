------------------------------- MODULE PduCodec -------------------------------
(***************************************************************************)
(* The byte layout of a Secured I-PDU: sim/pdu_manager.py under the        *)
(* lengths of a security profile, the padding of SecOC.transmit_secured,   *)
(* and the choice of transport in sim/pdu_router.py.                       *)
(***************************************************************************)
EXTENDS Integers, Sequences

CONSTANTS
  FreshnessLength, AuthenticatorLength,   \* a profile's CAN_FD lengths, in bytes
  TfvLength, TmacLength                   \* and its CLASSIC_CAN lengths

Transport == {"CLASSIC_CAN", "CAN_FD"}
Byte == 0 .. 255

CAN_MAX_PAYLOAD_BYTES == 8
CAN_FD_MAX_PAYLOAD_BYTES == 64

(* SecurityProfile.reload refuses CLASSIC_CAN lengths that do not add up to
   4; that the CAN_FD trailer alone is longer than a classic frame is so in
   config/secoc_profiles.json and is checked nowhere. *)
ASSUME CodecAssumption ==
  /\ {FreshnessLength, AuthenticatorLength, TfvLength, TmacLength} \subseteq Nat
  /\ TfvLength + TmacLength = 4
  /\ FreshnessLength + AuthenticatorLength > CAN_MAX_PAYLOAD_BYTES

truncation_lengths(t) ==
  IF t = "CLASSIC_CAN" THEN [fresh |-> TfvLength, mac |-> TmacLength]
                       ELSE [fresh |-> FreshnessLength, mac |-> AuthenticatorLength]

Trailer(t) == truncation_lengths(t).fresh + truncation_lengths(t).mac
-----------------------------------------------------------------------------
(* 1 << 8 * n: how many numbers n bytes hold. *)
PowerOf256[n \in Nat] == IF n = 0 THEN 1 ELSE 256 * PowerOf256[n - 1]

(* int.to_bytes and int.from_bytes, big-endian. *)
to_bytes(n, length) == [i \in 1 .. length |-> (n \div PowerOf256[length - i]) % 256]

from_bytes(bytes) ==
  LET value[i \in 0 .. Len(bytes)] ==
        IF i = 0 THEN 0 ELSE 256 * value[i - 1] + bytes[i]
  IN  value[Len(bytes)]

(* transmit_secured pads a CLASSIC_CAN payload to 4 bytes, and raises
   SecOCTransportError when it is longer. *)
Fits(x, t) == t = "CLASSIC_CAN" => Len(x) <= 4

Padded(x, t) ==
  IF t = "CLASSIC_CAN" THEN x \o [i \in 1 .. 4 - Len(x) |-> 0] ELSE x

(* authentic_pdu || freshness || mac; the counter is cut to its low bytes. *)
build_secured_pdu(x, full, mac, t) ==
  LET length == truncation_lengths(t).fresh
  IN  x \o to_bytes(full % PowerOf256[length], length) \o mac

(* Mutation: any payload length is good for CLASSIC_CAN. *)
MalformedLax(f, t) == Len(f) < Trailer(t)

(* parse_secured_pdu raises ValueError. *)
Malformed(f, t) ==
  \/ Len(f) < Trailer(t)
  \/ t = "CLASSIC_CAN" /\ Len(f) - Trailer(t) # 4

(* Mutation: the MAC's length is taken off twice. *)
parse_secured_pduShort(f, t) ==
  LET body == Len(f) - Trailer(t)
      end  == Len(f) - truncation_lengths(t).mac
  IN  [payload |-> SubSeq(f, 1, body),
       fresh |-> from_bytes(SubSeq(f, body + 2, end)),
       mac |-> SubSeq(f, end + 1, Len(f))]

parse_secured_pdu(f, t) ==
  LET body == Len(f) - Trailer(t)
      end  == Len(f) - truncation_lengths(t).mac
  IN  [payload |-> SubSeq(f, 1, body),
       fresh |-> from_bytes(SubSeq(f, body + 1, end)),
       mac |-> SubSeq(f, end + 1, Len(f))]

(* route_to_bus of a router with both interfaces; a frame that is too large
   for either raises PayloadTooLargeError. *)
Routable(f) == Len(f) <= CAN_FD_MAX_PAYLOAD_BYTES

route_to_bus(f) == IF Len(f) <= CAN_MAX_PAYLOAD_BYTES THEN "CLASSIC_CAN" ELSE "CAN_FD"
=============================================================================
