------------------------------ MODULE MCEventBus -------------------------------
(***************************************************************************)
(* The event bus with two clients and two request handlers, and at most    *)
(* one DEM event between them.                                             *)
(***************************************************************************)
EXTENDS EventBus

(* All that the steps and the properties of the run read: `shown` is written
   only, and read by EveryClientServed. *)
Read == <<connections, peer, logged, cursor, taskVars, received>>
=============================================================================
