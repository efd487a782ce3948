------------------------------ MODULE Freshness ------------------------------
(***************************************************************************)
(* The arithmetic of sim/freshness_manager.py: a Secured I-PDU carries     *)
(* only a truncated freshness value, and the receiver reconstructs the     *)
(* full counter from the truncated field and the last committed value.     *)
(*                                                                         *)
(* Modulus is 2^(8 * freshness_length) of the FreshnessManager (65536 in   *)
(* every configuration the repository builds) and Window is its            *)
(* window_size (16).                                                       *)
(***************************************************************************)
EXTENDS Integers

CONSTANTS Modulus, Window

ASSUME FreshnessAssumption == /\ Modulus \in Nat \ {0}
                              /\ Window \in Nat \ {0}

(***************************************************************************)
(* What transmit_secured puts in the frame: full % (1 << (8 * length)),    *)
(* where the modulus m is that of the TRANSPORT's freshness length.        *)
(***************************************************************************)
Truncate(full, m) == full % m

Base(last) == (last \div Modulus) * Modulus

(* Mutation: no step to the next epoch. *)
CandidateSameEpoch(last, truncated) == Base(last) + truncated

(* Mutation: the field is taken for a distance from the committed value. *)
CandidateRelative(last, truncated) == last + truncated

(***************************************************************************)
(* The candidate full value for a received truncated one: the same epoch   *)
(* as the last committed value, or the next epoch when that one is not     *)
(* beyond it.                                                              *)
(***************************************************************************)
Candidate(last, truncated) ==
  LET candidate == Base(last) + truncated
  IN  IF candidate <= last THEN candidate + Modulus ELSE candidate

(***************************************************************************)
(* validate_freshness: accepted iff 0 < candidate - last <= window_size.   *)
(***************************************************************************)
InWindow(last, full) == 0 < full - last /\ full - last <= Window

ValidFreshness(last, truncated) == InWindow(last, Candidate(last, truncated))
=============================================================================
