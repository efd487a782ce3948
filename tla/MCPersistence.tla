---------------------------- MODULE MCPersistence ----------------------------
(***************************************************************************)
(* Persistence with the three components of secure_boot.py.                *)
(***************************************************************************)
EXTENDS Persistence, TLC

MCComponent == <<"code", "config", "keys">>
MCShipped == [p \in Profile |-> "1.0"]
Symmetry == Permutations(Pdu) \cup Permutations(Profile) \cup Permutations(Firmware)
=============================================================================
