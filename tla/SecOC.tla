-------------------------------- MODULE SecOC --------------------------------
(***************************************************************************)
(* The SecOC core of sim/secoc.py with the modules it orchestrates: the    *)
(* freshness manager, the authenticator, the PDU codec, the rejection      *)
(* classification, the fault manager and the security policy engine, over  *)
(* one ECU state, one NvM and one CAN bus.                                 *)
(*                                                                         *)
(* The caller of receive_secured is a channel that may lose, duplicate,    *)
(* reorder, misroute and corrupt frames: it may hand over any frame ever   *)
(* built, or a shortened or corrupted copy, at any time and for any PDU.   *)
(*                                                                         *)
(* A MAC is the record of its key, of the bytes it is computed over and of *)
(* the length it is cut to; equality of the records stands for             *)
(* compare_digest.  The bytes are authentic_pdu || truncated freshness and *)
(* do not name the transport: they are divided here before the length of   *)
(* the CLASSIC_CAN field, whatever the transport, so that equal bytes give *)
(* equal records.  Every PDU has key_ids of its own, as in                 *)
(* config/secoc_profiles.json, and keyEpoch counts the keys it has had.    *)
(***************************************************************************)
EXTENDS Freshness, CanBus, FiniteSets

CONSTANTS
  Payload,          \* authentic PDUs the application sends
  Short,            \* those of at most 4 bytes
  Padded,           \* Padded[x] is the short x, zero-padded to 4 bytes
  Bytes,            \* what a MAC covers ahead of the last field bytes
  Joined,           \* Joined[x][h] is x followed by the field's high bytes h
  WireModulus,      \* 2^(8 * length) of the freshness field, by transport
  MaxAuthFailures,  \* config.MAX_AUTH_FAILURES
  ResyncValue,      \* counter values a peer may report to reinitialize_window
  MaxSent,          \* bound: frames built for one PDU
  MaxFreshness,     \* bound: counter value
  MaxRejections,    \* bound: rejections logged since start-up
  MaxKeyEpoch,      \* bound: keys a PDU has had
  MaxQueue          \* bound: frames waiting on the bus

Transport == {"CLASSIC_CAN", "CAN_FD"}

(* The payloads of exactly 4 bytes; what CAN_FD carries of the freshness
   ahead of the bytes CLASSIC_CAN carries. *)
Four == {x \in Short : Padded[x] = x}
High == 0 .. Modulus \div WireModulus["CLASSIC_CAN"] - 1

(* The field is no longer than the FreshnessManager's, whose length is the
   profile's freshness_length; both moduli are powers of 256.  The high bytes
   are always as many, so joining them to a payload loses neither, and what
   becomes 4 bytes by them is the shorter payload they pad out. *)
ASSUME SecOCAssumption ==
  /\ Short \subseteq Payload
  /\ Padded \in [Short -> Short]
  /\ \A x \in Short : Padded[Padded[x]] = Padded[x]
  /\ Payload \subseteq Bytes
  /\ Joined \in [Payload -> [High -> Bytes]]
  /\ \A x, y \in Payload : \A h, k \in High :
       Joined[x][h] = Joined[y][k] => x = y /\ h = k
  /\ \A x \in Payload : \A h \in High :
       Joined[x][h] \in Four => x \in Short /\ Padded[x] = Joined[x][0]
  /\ WireModulus \in [Transport -> 1 .. Modulus]
  /\ WireModulus["CAN_FD"] = Modulus
  /\ \A t \in Transport : Modulus % WireModulus[t] = 0
  /\ MaxAuthFailures \in Nat \ {0}
  /\ ResyncValue \subseteq Nat

VARIABLES
  lastValid,    \* NvM freshness_<pdu>_last_valid
  keyEpoch,     \* which key the PDU's active key_id stands for
  failCount,    \* FaultManager._counts
  lockedOut,    \* SecurityPolicyEngine._locked_out
  ecuState,     \* EcuState.current_state
  dem,          \* DEM._events, counted by event code
  sent,         \* history: the frames transmit_secured has built, by PDU
  accepted,     \* history: what receive_secured accepted, since the last resync
  sinceReset,   \* history: rejections since the lockout was last reset
  consecutive   \* history: rejections since the last acceptance

policyVars == <<failCount, lockedOut, ecuState, dem, sinceReset, consecutive>>
vars == <<lastValid, keyEpoch, policyVars, sent, accepted, busVars>>

EcuStateValue == {"NORMAL_OPERATION", "SECURITY_VIOLATION_LOCKOUT", "BOOT_BLOCKED"}
DemCode == {"SECOC_AUTH_FAIL", "SAFE_STATE_ENTERED"}

(* A frame's layout is its length class: 8 bytes for CLASSIC_CAN, at least
   the 10-byte trailer for CAN_FD, or too short for either. *)
Mac == [key : Pdu \X Nat, bytes : Bytes, last : Nat, length : Transport]
Frame == [layout : Transport \cup {"RUNT"}, payload : Payload, fresh : Nat, mac : Mac]
-----------------------------------------------------------------------------
Init ==
  /\ lastValid = [p \in Pdu |-> 0]
  /\ keyEpoch = [p \in Pdu |-> 1]
  /\ failCount = [p \in Pdu |-> 0]
  /\ lockedOut = FALSE
  /\ ecuState = "NORMAL_OPERATION"
  /\ dem = [c \in DemCode |-> 0]
  /\ sent = [p \in Pdu |-> {}]
  /\ accepted = [p \in Pdu |-> << >>]
  /\ sinceReset = [p \in Pdu |-> 0]
  /\ consecutive = [p \in Pdu |-> 0]
  /\ BusInit

(* authentic_pdu || truncated freshness n, all but the last field bytes. *)
Covered(x, n, t) ==
  IF t = "CAN_FD" THEN Joined[x][n \div WireModulus["CLASSIC_CAN"]] ELSE x

(* Authenticator: the MAC over authentic_pdu || truncated freshness, with
   the PDU's active key, cut to the transport's length.  The shorter MAC is
   the beginning of the longer one. *)
generate_mac(p, x, full, t) ==
  LET n == Truncate(full, WireModulus[t])
  IN  [key |-> <<p, keyEpoch[p]>>, bytes |-> Covered(x, n, t),
       last |-> n % WireModulus["CLASSIC_CAN"], length |-> t]

build_secured_pdu(p, x, full, t) ==
  [layout |-> t, payload |-> x, fresh |-> Truncate(full, WireModulus[t]),
   mac |-> generate_mac(p, x, full, t)]

(* ljust to 4 bytes on CLASSIC_CAN; CAN_FD carries the payload as it is. *)
WirePayload(x, t) == IF t = "CLASSIC_CAN" THEN Padded[x] ELSE x

(* A payload CLASSIC_CAN has no room for raises SecOCTransportError. *)
Fits(x, t) == t = "CLASSIC_CAN" => x \in Short

NextFrame(p, x, t) == build_secured_pdu(p, WirePayload(x, t), lastValid[p] + 1, t)

(* transmit_secured stores nothing: the counter moves on acceptance only,
   so two transmissions in a row carry the same freshness. *)
transmit_secured(p, x, t) ==
  /\ Fits(x, t)
  /\ sent' = [sent EXCEPT ![p] = @ \cup {NextFrame(p, x, t)}]
  /\ UNCHANGED <<lastValid, keyEpoch, policyVars, accepted, busVars>>
-----------------------------------------------------------------------------
(* parse_secured_pdu succeeds iff the frame has the transport's length. *)
Parses(f, t) == f.layout = t

(* Mutation: the MAC is not computed over the payload. *)
verify_macFreshnessOnly(p, f, full, t) ==
  LET mac == generate_mac(p, f.payload, full, t)
  IN  [f.mac EXCEPT !.bytes = mac.bytes] = mac

verify_mac(p, f, full, t) == f.mac = generate_mac(p, f.payload, full, t)

(* The checks of receive_secured, in their order. *)
Verdict(p, f, t) ==
  LET full == Candidate(lastValid[p], f.fresh)
  IN  IF ~Parses(f, t) THEN "MALFORMED_STRUCTURE"
      ELSE IF ~ValidFreshness(lastValid[p], f.fresh) THEN "FRESHNESS_OUT_OF_WINDOW"
      ELSE IF ~verify_mac(p, f, full, t) THEN "MAC_MISMATCH"
      ELSE "ACCEPTED"

(* Mutations: the accepted counter is not stored; one too low is stored. *)
commit_freshnessLost(p, full) == UNCHANGED lastValid
commit_freshnessLow(p, full) == lastValid' = [lastValid EXCEPT ![p] = full - 1]

commit_freshness(p, full) == lastValid' = [lastValid EXCEPT ![p] = full]

(* A frame that passes the checks: its counter is committed. *)
Deliver(p, f, t) ==
  LET full == Candidate(lastValid[p], f.fresh)
  IN  /\ Verdict(p, f, t) = "ACCEPTED"
      /\ full <= MaxFreshness
      /\ commit_freshness(p, full)
      /\ accepted' = [accepted EXCEPT ![p] = Append(@, [frame |-> f, full |-> full])]
      /\ consecutive' = [consecutive EXCEPT ![p] = 0]
      /\ UNCHANGED <<keyEpoch, failCount, lockedOut, ecuState, dem, sent, sinceReset>>

(* After the commit the frame is published on the bus again. *)
Accept(p, f, t) ==
  /\ Deliver(p, f, t)
  /\ Len(queue) < MaxQueue
  /\ publish(p, f)

(* Mutation: lockout one failure late. *)
EscalatesLate(count) == ~lockedOut /\ count > MaxAuthFailures

(* SecurityPolicyEngine.evaluate: enters lockout once, when the count of
   the failing PDU has reached the threshold. *)
Escalates(count) == ~lockedOut /\ count >= MaxAuthFailures

(* log_rejection and record_failure: every reason is logged and counted
   alike (category AUTH). *)
record_failure(p) ==
  LET escalates == Escalates(failCount[p] + 1)
  IN  /\ failCount' = [failCount EXCEPT ![p] = @ + 1]
      /\ dem' = [dem EXCEPT !["SECOC_AUTH_FAIL"] = @ + 1,
                            !["SAFE_STATE_ENTERED"] = IF escalates THEN @ + 1 ELSE @]
      /\ lockedOut' = (lockedOut \/ escalates)
      /\ ecuState' = IF escalates THEN "SECURITY_VIOLATION_LOCKOUT" ELSE ecuState
      /\ sinceReset' = [sinceReset EXCEPT ![p] = @ + 1]
      /\ consecutive' = [consecutive EXCEPT ![p] = @ + 1]

(* A frame that fails them: the failure is logged and counted. *)
Refuse(p, f, t) ==
  /\ dem["SECOC_AUTH_FAIL"] < MaxRejections
  /\ Verdict(p, f, t) # "ACCEPTED"
  /\ record_failure(p)
  /\ UNCHANGED <<lastValid, keyEpoch, sent, accepted>>

Reject(p, f, t) == Refuse(p, f, t) /\ UNCHANGED busVars

(* The first 8 bytes of a CAN_FD frame have the CLASSIC_CAN layout.  Where
   payload and high freshness bytes are 4 bytes, the low ones come to lie in
   the CLASSIC_CAN field and the beginning of the MAC in its MAC; for every
   other payload other bytes are read as the MAC. *)
Shortened(f) ==
  [layout |-> "CLASSIC_CAN", payload |-> Covered(f.payload, f.fresh, "CAN_FD"),
   fresh |-> f.fresh % WireModulus["CLASSIC_CAN"],
   mac |-> [f.mac EXCEPT !.length = "CLASSIC_CAN"]]

Divides(f) == f.layout = "CAN_FD" /\ Covered(f.payload, f.fresh, "CAN_FD") \in Four

(* The frames built for p, whole or shortened. *)
Wire(p) == sent[p] \cup {Shortened(f) : f \in {g \in sent[p] : Divides(g)}}
OnWire == UNION {Wire(p) : p \in Pdu}

(* The authentic PDUs a frame of the layout has room for. *)
Room(layout) == IF layout = "CLASSIC_CAN" THEN Four ELSE Payload

(* The channel: any frame that was built, for whichever PDU, or its shortened
   form, or a copy of either with another payload, another freshness field, a
   MAC under a key no PDU ever had, or too short for any layout. *)
Corrupted(f) ==
  {[f EXCEPT !.payload = x] : x \in Room(f.layout)}
    \cup {[f EXCEPT !.fresh = n] : n \in 0 .. WireModulus[f.layout] - 1}
    \cup {[f EXCEPT !.mac.key = <<@[1], 0>>], [f EXCEPT !.layout = "RUNT"]}

Incoming == OnWire \cup UNION {Corrupted(f) : f \in OnWire}

receive_secured(p, f, t) == Accept(p, f, t) \/ Reject(p, f, t)
-----------------------------------------------------------------------------
(* SecOC.reset, called by ECUBase.on_reset: clears the lockout and nothing
   else; the failure counts stay. *)
on_reset ==
  /\ lockedOut' = FALSE
  /\ ecuState' = "NORMAL_OPERATION"
  /\ sinceReset' = [p \in Pdu |-> 0]
  /\ UNCHANGED <<lastValid, keyEpoch, failCount, dem, consecutive, sent, accepted, busVars>>

(* Mutation: the failure counts survive the reset. *)
reset_ecuKeepsCounts ==
  /\ lockedOut' = FALSE
  /\ ecuState' = "NORMAL_OPERATION"
  /\ sinceReset' = [p \in Pdu |-> 0]
  /\ UNCHANGED <<lastValid, keyEpoch, failCount, dem, consecutive, sent, accepted, busVars>>

(* AppState.reset_ecu (POST /ecu/reset): also clears the failure counts.  Of
   the DEM's events only those of DemCode are counted, ECU_RESET is not. *)
reset_ecu ==
  /\ lockedOut' = FALSE
  /\ ecuState' = "NORMAL_OPERATION"
  /\ failCount' = [p \in Pdu |-> 0]
  /\ sinceReset' = [p \in Pdu |-> 0]
  /\ consecutive' = [p \in Pdu |-> 0]
  /\ UNCHANGED <<lastValid, keyEpoch, dem, sent, accepted, busVars>>

(* FreshnessManager.reinitialize_window: takes over the peer's counter,
   whatever it is. *)
reinitialize_window(p, value) ==
  /\ lastValid' = [lastValid EXCEPT ![p] = value]
  /\ accepted' = [accepted EXCEPT ![p] = << >>]
  /\ UNCHANGED <<keyEpoch, policyVars, sent, busVars>>

(* KeyManager.rotate_key and provision_key generate a new key. *)
rotate_key(p) ==
  /\ keyEpoch' = [keyEpoch EXCEPT ![p] = @ + 1]
  /\ UNCHANGED <<lastValid, policyVars, sent, accepted, busVars>>

(* Mutation: the fault manager's counts outlive the process. *)
RestartKeepsCounts ==
  /\ keyEpoch' = [p \in Pdu |-> keyEpoch[p] + 1]
  /\ lockedOut' = FALSE
  /\ ecuState' = "NORMAL_OPERATION"
  /\ dem' = [c \in DemCode |-> 0]
  /\ sinceReset' = [p \in Pdu |-> 0]
  /\ consecutive' = [p \in Pdu |-> 0]
  /\ start
  /\ UNCHANGED <<lastValid, failCount, sent, accepted>>

(* The process restarts: AppState is rebuilt.  The NvM keeps the counters;
   the HSM's keys are in memory, and hmac_sha256 makes a new one for a
   key_id it does not hold. *)
Restart ==
  /\ keyEpoch' = [p \in Pdu |-> keyEpoch[p] + 1]
  /\ failCount' = [p \in Pdu |-> 0]
  /\ lockedOut' = FALSE
  /\ ecuState' = "NORMAL_OPERATION"
  /\ dem' = [c \in DemCode |-> 0]
  /\ sinceReset' = [p \in Pdu |-> 0]
  /\ consecutive' = [p \in Pdu |-> 0]
  /\ start
  /\ UNCHANGED <<lastValid, sent, accepted>>

(* CanInterface.receive_frame takes a frame off the bus. *)
receive_frame ==
  /\ consume
  /\ UNCHANGED <<lastValid, keyEpoch, policyVars, sent, accepted>>
-----------------------------------------------------------------------------
Transmit ==
  \E p \in Pdu, x \in Payload, t \in Transport :
    /\ Cardinality(sent[p]) < MaxSent
    /\ transmit_secured(p, x, t)

Receive ==
  \E f \in Incoming : \E p \in Pdu, t \in Transport : receive_secured(p, f, t)

Resync == \E p \in Pdu, value \in ResyncValue : reinitialize_window(p, value)

RotateKey == \E p \in Pdu : keyEpoch[p] < MaxKeyEpoch /\ rotate_key(p)

RestartBounded == (\A p \in Pdu : keyEpoch[p] < MaxKeyEpoch) /\ Restart

Next ==
  \/ Transmit
  \/ Receive
  \/ receive_frame
  \/ on_reset
  \/ reset_ecu
  \/ Resync
  \/ RotateKey
  \/ RestartBounded

Spec == Init /\ [][Next]_vars
-----------------------------------------------------------------------------
(* Type invariant: every variable of the core holds a value of its type. *)
FreshnessTyped ==
  /\ lastValid \in [Pdu -> Nat]
  /\ keyEpoch \in [Pdu -> Nat \ {0}]
  /\ sent \in [Pdu -> SUBSET Frame]
  /\ accepted \in [Pdu -> Seq([frame : Frame, full : Nat])]

PolicyTyped ==
  /\ failCount \in [Pdu -> Nat]
  /\ lockedOut \in BOOLEAN
  /\ ecuState \in EcuStateValue
  /\ dem \in [DemCode -> Nat]
  /\ sinceReset \in [Pdu -> Nat]
  /\ consecutive \in [Pdu -> Nat]

BusTyped ==
  /\ queue \in Seq([pdu : Pdu, frame : Frame])
  /\ lastFrame \in [Pdu -> Frame \cup {NoFrame}]

TypeOK == FreshnessTyped /\ PolicyTyped /\ BusTyped

(* Anti-replay (SR-03): the counters receive_secured accepts for a PDU rise
   strictly from one acceptance to the next, and none is beyond the value
   commit_freshness stored, whatever the channel repeats or reorders and
   across lockouts, resets, key changes and restarts. *)
FreshnessRises ==
  \A p \in Pdu :
    /\ \A i \in DOMAIN accepted[p] : accepted[p][i].full <= lastValid[p]
    /\ \A i, j \in DOMAIN accepted[p] :
         i < j => accepted[p][i].full < accepted[p][j].full

(* Authenticity (SR-01, SR-02): what receive_secured accepts for a PDU is,
   bit for bit, a frame transmit_secured built for that PDU or the first 8
   bytes of a CAN_FD frame built for it, in which the same bytes divide as a
   CLASSIC_CAN frame; and the full counter it was accepted under truncates to
   the field on the wire. *)
AcceptedWasSent ==
  \A p \in Pdu : \A i \in DOMAIN accepted[p] :
    LET f == accepted[p][i].frame
    IN  /\ f \in Wire(p)
        /\ f.fresh = Truncate(accepted[p][i].full, WireModulus[f.layout])

(* A frame that was accepted is not accepted again until the counter has
   run through a whole modulus: the MAC covers the truncated freshness only,
   so this is as much as the window gives. *)
NoReacceptanceWithinModulus ==
  \A p \in Pdu : \A i, j \in DOMAIN accepted[p] :
    i < j /\ accepted[p][i].frame = accepted[p][j].frame
      => accepted[p][j].full >= accepted[p][i].full + Modulus

(* Lockout (SR-14): the policy engine's flag and the shared ECU state agree,
   a lockout has a PDU at the threshold and a SAFE_STATE_ENTERED event to
   show for it, and a PDU at the threshold has not been missed: the event
   was logged even if on_reset has cleared the lockout since. *)
LockoutJustified ==
  LET atThreshold == \E p \in Pdu : failCount[p] >= MaxAuthFailures
  IN  /\ lockedOut <=> ecuState = "SECURITY_VIOLATION_LOCKOUT"
      /\ lockedOut => atThreshold
      /\ atThreshold => dem["SAFE_STATE_ENTERED"] > 0

(* Every failure that counts towards lockout is in the DEM log, and each
   entry into lockout took a rejection of its own. *)
FailuresAudited ==
  /\ \A p \in Pdu : failCount[p] <= dem["SECOC_AUTH_FAIL"]
  /\ dem["SAFE_STATE_ENTERED"] <= dem["SECOC_AUTH_FAIL"]

(* A stale frame is recognised as one (integration test "Replay capture +
   rejection", documents/ASPICE_SWE5_IntegrationTest.md): whatever was accepted
   and is less than a modulus minus the window behind fails on freshness,
   before its MAC is looked at. *)
StaleIsOutOfWindow ==
  \A p \in Pdu : \A i \in DOMAIN accepted[p] :
    LET d == accepted[p][i]
    IN  lastValid[p] + Window < d.full + Modulus
          => Verdict(p, d.frame, d.frame.layout) = "FRESHNESS_OUT_OF_WINDOW"

(* A clean CAN_FD round trip: in every state the program reaches, the frame
   transmit_secured would build now is one receive_secured would accept. *)
RoundTripFD ==
  \A p \in Pdu, x \in Payload :
    Verdict(p, NextFrame(p, x, "CAN_FD"), "CAN_FD") = "ACCEPTED"

(* No altered frame is accepted (USERINFO.md: in either transport mode, "a
   tampered, forged, or replayed frame is rejected"): what is accepted was
   built as it is, not shortened. *)
AcceptedAsBuilt ==
  \A p \in Pdu : \A i \in DOMAIN accepted[p] : accepted[p][i].frame \in sent[p]

(* A CLASSIC_CAN round trip is accepted exactly when the next counter value
   fits the shorter field within its epoch; everywhere else the receiver
   takes the field for a value out of its window, although USERINFO.md has a
   legitimate round trip accepted "in either transport mode".  (For a window
   no longer than the shorter modulus, as 16 <= 256.) *)
RoundTripClassic ==
  \A p \in Pdu, x \in Short :
    Verdict(p, NextFrame(p, x, "CLASSIC_CAN"), "CLASSIC_CAN") = "ACCEPTED"
      <=> Truncate(lastValid[p] + 1, Modulus) < WireModulus["CLASSIC_CAN"]

(* A rejection has no effect on what a later genuine frame meets: no counter,
   key, bus or delivery changes with it. *)
RejectionInert ==
  [][(\E p \in Pdu : failCount'[p] > failCount[p])
       => UNCHANGED <<lastValid, keyEpoch, accepted, busVars>>]_vars

(* The core implements AntiReplay: every step of it, whatever the channel
   and the key changes do, is a step or a stutter of the promise.  To build a
   frame is to offer its shortened form with it. *)
Promise == INSTANCE AntiReplay
             WITH Message <- Frame, offered <- [p \in Pdu |-> Wire(p)],
                  edge <- lastValid, delivered <- accepted
AntiReplaySpec == Promise!Spec

(* Lockout takes MAX_AUTH_FAILURES consecutive failures (USERINFO.md, "5
   consecutive AUTH-category failures"; evaluate's docstring). *)
LockoutNeedsConsecutive ==
  lockedOut => \E p \in Pdu : consecutive[p] >= MaxAuthFailures
=============================================================================
