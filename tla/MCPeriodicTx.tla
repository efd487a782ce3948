----------------------------- MODULE MCPeriodicTx -----------------------------
(***************************************************************************)
(* Two periodic entries, the first on a PDU of 4 bytes whose two signals   *)
(* share a byte, the second on one of 5 bytes; the profile of              *)
(* config/secoc_profiles.json.                                             *)
(***************************************************************************)
EXTENDS PeriodicTx, TLC

MCLayout ==
  ("speed" :> [pdu_id |-> 1, pdu_length_bytes |-> 4, offset_bits |-> 6, width_bits |-> 3,
               factor |-> 2, offset |-> -1])
  @@ ("brake" :> [pdu_id |-> 1, pdu_length_bytes |-> 4, offset_bits |-> 9, width_bits |-> 2,
                  factor |-> 1, offset |-> 0])
  @@ ("level" :> [pdu_id |-> 2, pdu_length_bytes |-> 5, offset_bits |-> 14, width_bits |-> 4,
                  factor |-> 4, offset |-> 1])

MCPeriod == <<4, 5>>
MCValue == ("speed" :> {3, 100}) @@ ("brake" :> {0, 3}) @@ ("level" :> {18})
MCEntrySignal == <<"speed", "level">>
=============================================================================
