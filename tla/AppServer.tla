------------------------------ MODULE AppServer ------------------------------
(***************************************************************************)
(* The application server: AppState (api/state.py) and the endpoints of    *)
(* api/routers that drive the SecOC core and the CAN bus, the attack       *)
(* simulations included.  No endpoint suspends between reading and         *)
(* changing the state (the first real await is the broadcast that follows, *)
(* see EventBus), so each is one step.                                     *)
(***************************************************************************)
EXTENDS SecOC

CONSTANTS ForgedPayload   \* FuzzingEngine's payload, b"\xDE\xAD\xBE\xEF"

ASSUME AppServerAssumption == ForgedPayload \in Payload

VARIABLE captured   \* ReplayAttack._captured

serverVars == <<vars, captured>>

ServerInit == Init /\ captured = [p \in Pdu |-> NoFrame]

Entry(p, f) == [pdu |-> p, frame |-> f]

(* FuzzingEngine.generate_forged_pdu: CAN_FD frames with an all-ones MAC,
   which no key of the server gives, and the freshness 1 or the highest one,
   or a frame that is too short.  (The MAC names p as the function does, for
   context only: its key is one p never had.) *)
Forged(p, fresh, layout) ==
  [layout |-> layout, payload |-> ForgedPayload, fresh |-> fresh,
   mac |-> [key |-> <<p, 0>>, bytes |-> Covered(ForgedPayload, fresh, "CAN_FD"),
            last |-> fresh % WireModulus["CLASSIC_CAN"], length |-> "CAN_FD"]]

generate_forged_pdu(p, mode) ==
  CASE mode = "MALFORMED_STRUCTURE" -> Forged(p, 0, "RUNT")
    [] mode = "INVALID_MAC" -> Forged(p, 1 % Modulus, "CAN_FD")
    [] mode = "WRONG_FRESHNESS" -> Forged(p, Modulus - 1, "CAN_FD")

(* The endpoints that are calls of the core and nothing more. *)
secoc_endpoint == (Transmit \/ Receive \/ reset_ecu) /\ UNCHANGED captured

(* POST /keys/{pdu_id}/provision and /rotate. *)
key_endpoint == RotateKey /\ UNCHANGED captured

(* POST /can/send: MessageInjector.inject publishes whatever it is given; a
   frame that was built, whole or shortened, or, for all others, one with a
   forged MAC. *)
Injectable == OnWire \cup {generate_forged_pdu(p, "INVALID_MAC") : p \in Pdu}

can_send(p, f) ==
  /\ publish(p, f)
  /\ UNCHANGED <<lastValid, keyEpoch, policyVars, sent, accepted, captured>>

(* POST /attack/replay/capture: what was last on the bus for the PDU, with
   None overwriting an earlier capture. *)
capture(p) ==
  /\ captured' = [captured EXCEPT ![p] = lastFrame[p]]
  /\ UNCHANGED vars
-----------------------------------------------------------------------------
(* POST /attack/replay/replay: the captured frame, if any, joins the end of
   the queue, and the frame at the head of it is the one received. *)
Injected(p) ==
  IF captured[p] = NoFrame THEN queue ELSE Append(queue, Entry(p, captured[p]))

Observed(p) ==
  IF captured[p] = NoFrame THEN lastFrame ELSE [lastFrame EXCEPT ![p] = captured[p]]

replay_accepted(p, t) ==
  LET f == Head(Injected(p)).frame
  IN  /\ Injected(p) # << >>
      /\ Deliver(p, f, t)
      /\ queue' = Append(Tail(Injected(p)), Entry(p, f))
      /\ lastFrame' = [Observed(p) EXCEPT ![p] = f]
      /\ UNCHANGED captured

replay_rejected(p, t) ==
  /\ Injected(p) # << >>
  /\ Refuse(p, Head(Injected(p)).frame, t)
  /\ queue' = Tail(Injected(p))
  /\ lastFrame' = Observed(p)
  /\ UNCHANGED captured

(* The transport is parsed after the frame has been taken off the queue: a
   request with an unknown one has lost it. *)
replay_bad_transport(p) ==
  /\ Injected(p) # << >>
  /\ queue' = Tail(Injected(p))
  /\ lastFrame' = Observed(p)
  /\ UNCHANGED <<lastValid, keyEpoch, policyVars, sent, accepted, captured>>

replay(p) ==
  \/ \E t \in Transport : replay_accepted(p, t) \/ replay_rejected(p, t)
  \/ replay_bad_transport(p)
-----------------------------------------------------------------------------
(* MitmAttack.intercept flips a bit of the first byte: of the payload, or of
   the freshness field when the payload is empty. *)
Tampered(f) ==
  {[f EXCEPT !.payload = x] : x \in Room(f.layout) \ {f.payload}}
    \cup {[f EXCEPT !.fresh = n] : n \in (0 .. WireModulus[f.layout] - 1) \ {f.fresh}}

(* POST /attack/mitm: the frame is built and tampered with inside the call;
   the original never leaves it, so it is not among the frames sent. *)
mitm(p, x, t) ==
  /\ Fits(x, t)
  /\ \E f \in Tampered(NextFrame(p, x, t)) : receive_secured(p, f, t)
  /\ UNCHANGED captured

ForgeMode == {"MALFORMED_STRUCTURE", "INVALID_MAC", "WRONG_FRESHNESS"}

(* POST /attack/forge: the forged frame goes to the receiver directly. *)
forge(p, mode) ==
  /\ receive_secured(p, generate_forged_pdu(p, mode), "CAN_FD")
  /\ UNCHANGED captured

(* POST /test/{vtc_id}/run: reset_environment empties the live bus under the
   server; no scenario leaves a frame of its own on it, as those that send
   need asyncio.run, which fails inside the server's event loop. *)
run_scenario ==
  /\ start
  /\ UNCHANGED <<lastValid, keyEpoch, policyVars, sent, accepted, captured>>

server_restart == RestartBounded /\ captured' = [p \in Pdu |-> NoFrame]
-----------------------------------------------------------------------------
Attack(p) ==
  \/ \E x \in Payload, t \in Transport : mitm(p, x, t)
  \/ \E mode \in ForgeMode : forge(p, mode)

ServerNext ==
  \/ secoc_endpoint
  \/ key_endpoint
  \/ \E p \in Pdu : \E f \in Injectable : Len(queue) < MaxQueue /\ can_send(p, f)
  \/ \E p \in Pdu : capture(p)
  \/ \E p \in Pdu : Len(queue) < MaxQueue /\ replay(p)
  \/ \E p \in Pdu : Attack(p)
  \/ run_scenario
  \/ server_restart

ServerSpec == ServerInit /\ [][ServerNext]_serverVars
-----------------------------------------------------------------------------
(* After POST /ecu/reset a lockout takes a fresh run of MAX_AUTH_FAILURES
   failures of one PDU.  (SecOC.reset alone would not do: it keeps the
   failure counts.) *)
LockoutNeedsFreshRun ==
  lockedOut => \E p \in Pdu : sinceReset[p] >= MaxAuthFailures

(* A tampered or forged frame "is rejected, and the rejection is logged as a
   DEM security event" (USERINFO.md): in whatever state the attack finds the
   server, it moves no counter, delivers nothing and leaves one event.  (No
   attack captures a frame: saying so first spares TLC most of the work.) *)
AttackRejected ==
  [][\/ /\ UNCHANGED <<lastValid, accepted, queue>>
        /\ dem'["SECOC_AUTH_FAIL"] = dem["SECOC_AUTH_FAIL"] + 1
     \/ UNCHANGED captured => ~ \E p \in Pdu : Attack(p)]_serverVars

=============================================================================
