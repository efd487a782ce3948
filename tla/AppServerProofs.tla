--------------------------- MODULE AppServerProofs ---------------------------
(***************************************************************************)
(* AppServer: under the endpoints and the attack simulations the core      *)
(* keeps its promises, an attack is rejected whatever state it finds the   *)
(* server in, and a lockout takes failures since the last POST /ecu/reset. *)
(*                                                                         *)
(* Beside the invariant of the core, OnBus: whatever waits on the bus or   *)
(* was captured from it was built (and perhaps shortened), or forged with  *)
(* a key no PDU ever had.                                                  *)
(***************************************************************************)
EXTENDS AppServer, SecOCProofs, SequenceTheorems

OnBusOf(S) ==
  /\ queue \in Seq([pdu : Pdu, frame : S])
  /\ lastFrame \in [Pdu -> S \cup {NoFrame}]
  /\ captured \in [Pdu -> S \cup {NoFrame}]

OnBus == OnBusOf(Injectable)

(* No endpoint clears a lockout and keeps the failure counts. *)
FreshRun == failCount = sinceReset /\ LockoutNeedsFreshRun

ServerInv == IInv /\ OnBus /\ FreshRun /\ FailuresAudited
-----------------------------------------------------------------------------
(* A forged frame is a frame, and fails the checks of every PDU: its key is
   one that none of them ever had. *)
LEMMA ForgedRefused ==
  ASSUME TypeOK, NEW p \in Pdu, NEW q \in Pdu, NEW mode \in ForgeMode, NEW t \in Transport
  PROVE  /\ generate_forged_pdu(q, mode) \in Frame
         /\ Verdict(p, generate_forged_pdu(q, mode), t) # "ACCEPTED"
<1> DEFINE f == generate_forged_pdu(q, mode)
<1> DEFINE Field == 0 .. WireModulus["CAN_FD"] - 1
<1>1. \E n \in Field, layout \in Transport \cup {"RUNT"} : f = Forged(q, n, layout)
  <2>1. 1 % Modulus \in Field /\ Modulus - 1 \in Field /\ 0 \in Field
    BY FreshnessAssumption, SecOCAssumption, DivMod
  <2> HIDE DEF Field
  <2>2. CASE mode = "MALFORMED_STRUCTURE"
    BY <2>1, <2>2 DEF generate_forged_pdu, Transport
  <2>3. CASE mode = "INVALID_MAC"
    BY <2>1, <2>3 DEF generate_forged_pdu, Transport
  <2>4. CASE mode = "WRONG_FRESHNESS"
    BY <2>1, <2>4 DEF generate_forged_pdu, Transport
  <2> QED
    BY <2>2, <2>3, <2>4 DEF ForgeMode
<1> HIDE DEF f
<1>2. f.mac.key = <<q, 0>> /\ f \in Frame
  <2>1. \A n \in Field : /\ Covered(ForgedPayload, n, "CAN_FD") \in Bytes
                         /\ n % WireModulus["CLASSIC_CAN"] \in Nat
    BY CoveredTyped, AppServerAssumption DEF Transport
  <2>2. \A n \in Field : n \in Nat
    BY SecOCAssumption
  <2> HIDE DEF Field
  <2> QED
    BY <1>1, <2>1, <2>2, AppServerAssumption DEF Forged, Frame, Mac, Transport
<1>3. keyEpoch[p] # 0
  BY DEF TypeOK, FreshnessTyped
<1>4. Verdict(p, f, t) # "ACCEPTED"
  BY <1>2, <1>3 DEF Verdict, verify_mac, generate_mac
<1> QED
  BY <1>2, <1>4 DEF f

(* A frame that was tampered with fails them: its MAC is over what was there. *)
LEMMA TamperedRefused ==
  ASSUME TypeOK, NEW p \in Pdu, NEW x \in Payload, NEW t \in Transport, Fits(x, t),
         NEW f \in Tampered(NextFrame(p, x, t))
  PROVE  Verdict(p, f, t) # "ACCEPTED"
<1> DEFINE g == NextFrame(p, x, t)
<1>1. Genuine(p, g) /\ g.layout = t
  BY NextFrameGenuine DEF NextFrame, build_secured_pdu
<1>2. lastValid[p] \in Nat
  BY DEF TypeOK, FreshnessTyped
<1> HIDE DEF g
<1>3. ASSUME f.mac = g.mac, f.payload \in Payload, f.fresh \in 0 .. WireModulus[t] - 1,
             f.payload # g.payload \/ f.fresh # g.fresh
      PROVE  Verdict(p, f, t) # "ACCEPTED"
  <2>1. Truncate(Candidate(lastValid[p], f.fresh), WireModulus[t]) = f.fresh
    BY <1>2, <1>3, WireField
  <2>2. /\ g.mac.bytes = Covered(g.payload, g.fresh, t)
        /\ g.mac.last = g.fresh % WireModulus["CLASSIC_CAN"]
        /\ g.payload \in Payload /\ g.fresh \in 0 .. WireModulus[t] - 1
    BY <1>1 DEF Genuine, Frame
  <2>3. \/ g.mac.bytes # Covered(f.payload, f.fresh, t)
        \/ g.mac.last # f.fresh % WireModulus["CLASSIC_CAN"]
    BY <1>3, <2>2, CoveredInjective
  <2> QED
    BY <1>3, <2>1, <2>3 DEF Verdict, verify_mac, generate_mac
<1>4. ASSUME NEW y \in Room(t) \ {g.payload}, f = [g EXCEPT !.payload = y]
      PROVE  Verdict(p, f, t) # "ACCEPTED"
  <2>1. y \in Payload
    BY SecOCAssumption DEF Room, Four
  <2>2. f.mac = g.mac /\ f.payload = y /\ f.fresh = g.fresh
    BY <1>1, <1>4 DEF Genuine, Frame
  <2> QED
    BY <1>1, <1>3, <1>4, <2>1, <2>2 DEF Genuine
<1>5. ASSUME NEW n \in (0 .. WireModulus[t] - 1) \ {g.fresh}, f = [g EXCEPT !.fresh = n]
      PROVE  Verdict(p, f, t) # "ACCEPTED"
  <2>1. f.mac = g.mac /\ f.payload = g.payload /\ f.fresh = n /\ g.payload \in Payload
    BY <1>1, <1>5 DEF Genuine, Frame
  <2> QED
    BY <1>3, <1>5, <2>1
<1> QED
  BY <1>1, <1>4, <1>5 DEF Tampered, g

(* An attack is rejected: nothing it brings passes the checks. *)
LEMMA AttackRefused ==
  ASSUME TypeOK, NEW p \in Pdu, Attack(p)
  PROVE  /\ \E t \in Transport : \E f : Refuse(p, f, t)
         /\ UNCHANGED <<busVars, captured>>
<1>1. ASSUME NEW x \in Payload, NEW t \in Transport, mitm(p, x, t)
      PROVE  \E f : Refuse(p, f, t) /\ UNCHANGED <<busVars, captured>>
  <2>1. PICK f \in Tampered(NextFrame(p, x, t)) : receive_secured(p, f, t)
    BY <1>1 DEF mitm
  <2>2. Verdict(p, f, t) # "ACCEPTED"
    BY <1>1, TamperedRefused DEF mitm
  <2> QED
    BY <1>1, <2>1, <2>2 DEF mitm, receive_secured, Accept, Deliver, Reject
<1>2. ASSUME NEW mode \in ForgeMode, forge(p, mode)
      PROVE  \E f : Refuse(p, f, "CAN_FD") /\ UNCHANGED <<busVars, captured>>
  <2>1. Verdict(p, generate_forged_pdu(p, mode), "CAN_FD") # "ACCEPTED"
    BY ForgedRefused DEF Transport
  <2> QED
    BY <1>2, <2>1 DEF forge, receive_secured, Accept, Deliver, Reject
<1> QED
  BY <1>1, <1>2 DEF Attack, Transport
-----------------------------------------------------------------------------
(* Of what may wait on the bus, only what was built can be delivered. *)
LEMMA DeliverBuilt ==
  ASSUME TypeOK, NEW p \in Pdu, NEW t \in Transport, NEW f \in Injectable, Deliver(p, f, t)
  PROVE  f \in Incoming
<1>1. ASSUME NEW q \in Pdu, f = generate_forged_pdu(q, "INVALID_MAC")
      PROVE  FALSE
  BY <1>1, ForgedRefused DEF Deliver, ForgeMode
<1> QED
  BY <1>1 DEF Injectable, Incoming

(* Frames that were built stay so. *)
LEMMA OnBusGrows ==
  ASSUME NEW S, NEW T, S \subseteq T, OnBusOf(S)
  PROVE  OnBusOf(T)
<1> DEFINE E == [pdu : Pdu, frame : S]
           F == [pdu : Pdu, frame : T]
<1>1. E \subseteq F /\ queue \in Seq(E)
  BY DEF OnBusOf
<1> HIDE DEF E, F
<1>2. queue \in Seq(F)
  BY <1>1, SeqMonotonic
<1> QED
  BY <1>2 DEF OnBusOf, F

(* The steps that change the bus are made of two: a frame joins the queue and
   enters the registry, ... *)
LEMMA Published ==
  ASSUME NEW S, NEW p \in Pdu, NEW f \in S, NEW q \in Seq([pdu : Pdu, frame : S]),
         NEW r \in [Pdu -> S \cup {NoFrame}]
  PROVE  /\ Append(q, Entry(p, f)) \in Seq([pdu : Pdu, frame : S])
         /\ [r EXCEPT ![p] = f] \in [Pdu -> S \cup {NoFrame}]
<1> DEFINE E == [pdu : Pdu, frame : S]
<1>1. Entry(p, f) \in E /\ q \in Seq(E)
  BY DEF Entry
<1> HIDE DEF E
<1>2. Append(q, Entry(p, f)) \in Seq(E)
  BY <1>1
<1> QED
  BY <1>2 DEF E

(* ... and the head of the queue leaves it. *)
LEMMA Taken ==
  ASSUME NEW S, NEW q \in Seq([pdu : Pdu, frame : S]), q # << >>
  PROVE  Head(q).frame \in S /\ Tail(q) \in Seq([pdu : Pdu, frame : S])
<1> DEFINE E == [pdu : Pdu, frame : S]
<1>1. q \in Seq(E) /\ \A e \in E : e.frame \in S
  OBVIOUS
<1> HIDE DEF E
<1>2. Head(q) \in E /\ Tail(q) \in Seq(E)
  BY <1>1, HeadTailProperties
<1> QED
  BY <1>1, <1>2 DEF E

(* After the replay endpoint's injection the bus is as it was. *)
LEMMA InjectedOnBus ==
  ASSUME NEW S, OnBusOf(S), NEW p \in Pdu
  PROVE  /\ Injected(p) \in Seq([pdu : Pdu, frame : S])
         /\ Observed(p) \in [Pdu -> S \cup {NoFrame}]
<1>1. CASE captured[p] = NoFrame
  BY <1>1 DEF OnBusOf, Injected, Observed
<1>2. CASE captured[p] # NoFrame
  <2>1. captured[p] \in S
    BY <1>2 DEF OnBusOf
  <2> QED
    BY <1>2, <2>1, Published DEF OnBusOf, Injected, Observed
<1> QED
  BY <1>1, <1>2
-----------------------------------------------------------------------------
(* A step of the server is a step of the core, a refusal, a delivery of what
   may wait on the bus, or one of the bus alone. *)
LEMMA ServerSteps ==
  ASSUME TypeOK, OnBus, [ServerNext]_serverVars
  PROVE  \/ [Next]_vars /\ (RotateKey \/ UNCHANGED vars \/ Restart \/ reset_ecu
                              \/ Transmit \/ Receive)
         \/ \E p \in Pdu, t \in Transport : \E f : Refuse(p, f, t)
         \/ \E p \in Pdu, t \in Transport : \E f \in Injectable : Deliver(p, f, t)
         \/ UNCHANGED <<lastValid, keyEpoch, policyVars, sent, accepted>>
<1>1. CASE secoc_endpoint \/ key_endpoint \/ server_restart
  BY <1>1 DEF secoc_endpoint, key_endpoint, server_restart, RestartBounded, Next
<1>2. CASE run_scenario
  BY <1>2 DEF run_scenario
<1>3. ASSUME NEW p \in Pdu, NEW f \in Injectable, can_send(p, f)
      PROVE  UNCHANGED <<lastValid, keyEpoch, policyVars, sent, accepted>>
  BY <1>3 DEF can_send
<1>4. ASSUME NEW p \in Pdu, capture(p)
      PROVE  UNCHANGED vars
  BY <1>4 DEF capture
<1>5. ASSUME NEW p \in Pdu, replay(p)
      PROVE  \/ \E t \in Transport : \E f : Refuse(p, f, t)
             \/ \E t \in Transport : \E f \in Injectable : Deliver(p, f, t)
             \/ UNCHANGED <<lastValid, keyEpoch, policyVars, sent, accepted>>
  <2>1. Injected(p) # << >> => Head(Injected(p)).frame \in Injectable
    BY InjectedOnBus, Taken DEF OnBus
  <2> QED
    BY <1>5, <2>1 DEF replay, replay_accepted, replay_rejected, replay_bad_transport
<1>6. ASSUME NEW p \in Pdu, Attack(p)
      PROVE  \E t \in Transport : \E f : Refuse(p, f, t)
  BY <1>6, AttackRefused
<1>7. CASE UNCHANGED serverVars
  BY <1>7 DEF serverVars
<1> QED
  BY <1>1, <1>2, <1>3, <1>4, <1>5, <1>6, <1>7 DEF ServerNext

(* What was built before a step was built after it, and so its shortened form. *)
LEMMA InjectableGrows ==
  ASSUME IInv, OnBus, [ServerNext]_serverVars
  PROVE  Injectable \subseteq Injectable'
<1>1. \A p \in Pdu : sent[p] \subseteq sent'[p]
  <2>1. ASSUME NEW p \in Pdu, NEW x \in Payload, NEW t \in Transport, transmit_secured(p, x, t)
        PROVE  \A q \in Pdu : sent[q] \subseteq sent'[q]
    BY <2>1 DEF transmit_secured, IInv, TypeOK, FreshnessTyped
  <2>2. CASE Receive
    BY <2>2 DEF Receive, receive_secured, Accept, Deliver, Reject, Refuse
  <2>3. CASE RotateKey \/ UNCHANGED vars \/ Restart \/ reset_ecu
    BY <2>3 DEF RotateKey, rotate_key, vars, Restart, reset_ecu
  <2>4. ASSUME NEW p \in Pdu, NEW t \in Transport, NEW f, Refuse(p, f, t) \/ Deliver(p, f, t)
        PROVE  sent' = sent
    BY <2>4 DEF Refuse, Deliver
  <2> QED
    BY <2>1, <2>2, <2>3, <2>4, ServerSteps DEF Transmit, IInv
<1>2. \A p \in Pdu : Wire(p) \subseteq Wire(p)'
  BY <1>1 DEF Wire
<1> QED
  BY <1>2 DEF Injectable, OnWire
-----------------------------------------------------------------------------
(* Everything on the bus stays what it may be. *)
LEMMA OnBusStep ==
  ASSUME IInv, OnBus, [ServerNext]_serverVars
  PROVE  OnBus'
<1> DEFINE S == Injectable'
<1>1. OnBusOf(S)
  BY InjectableGrows, OnBusGrows DEF OnBus
<1>2. Injectable \subseteq S
  BY InjectableGrows
<1> HIDE DEF S
<1> SUFFICES /\ queue' \in Seq([pdu : Pdu, frame : S])
             /\ lastFrame' \in [Pdu -> S \cup {NoFrame}]
             /\ captured' \in [Pdu -> S \cup {NoFrame}]
  BY DEF OnBus, OnBusOf, S
<1> DEFINE Goal == /\ queue' \in Seq([pdu : Pdu, frame : S])
                   /\ lastFrame' \in [Pdu -> S \cup {NoFrame}]
                   /\ captured' \in [Pdu -> S \cup {NoFrame}]
<1>3. /\ queue \in Seq([pdu : Pdu, frame : S])
      /\ lastFrame \in [Pdu -> S \cup {NoFrame}]
      /\ captured \in [Pdu -> S \cup {NoFrame}]
  BY <1>1 DEF OnBusOf
<1>4. ASSUME UNCHANGED <<queue, lastFrame, captured>>
      PROVE  Goal
  BY <1>3, <1>4
<1>5. ASSUME NEW p \in Pdu, NEW f \in S, publish(p, f), UNCHANGED captured
      PROVE  Goal
  <2>1. queue' = Append(queue, Entry(p, f)) /\ lastFrame' = [lastFrame EXCEPT ![p] = f]
    BY <1>5 DEF publish, Entry
  <2> QED
    BY <1>3, <1>5, <2>1, Published
<1>6. ASSUME start, captured' = captured \/ captured' = [p \in Pdu |-> NoFrame]
      PROVE  Goal
  <2>1. queue' = << >> /\ lastFrame' = [p \in Pdu |-> NoFrame]
    BY <1>6 DEF start
  <2>2. queue' \in Seq([pdu : Pdu, frame : S])
    BY <2>1, EmptySeq
  <2> QED
    BY <1>3, <1>6, <2>1, <2>2
<1>7. CASE secoc_endpoint
  <2>1. ASSUME NEW p \in Pdu, NEW t \in Transport, NEW f \in Incoming, Accept(p, f, t)
        PROVE  f \in S
    BY <1>2, <2>1, DeliverTyped DEF IInv, Accept, Injectable, OnWire
  <2>2. ASSUME NEW p \in Pdu, NEW t \in Transport, NEW f \in Incoming, receive_secured(p, f, t)
        PROVE  Goal
    BY <1>4, <1>5, <1>7, <2>1, <2>2 DEF secoc_endpoint, receive_secured, Accept, Reject, busVars
  <2>3. CASE Transmit \/ reset_ecu
    BY <1>4, <1>7, <2>3 DEF secoc_endpoint, Transmit, transmit_secured, reset_ecu, busVars
  <2> QED
    BY <1>7, <2>2, <2>3 DEF secoc_endpoint, Receive
<1>8. CASE key_endpoint \/ UNCHANGED serverVars \/ \E p \in Pdu : Attack(p)
  BY <1>4, <1>8, AttackRefused
     DEF key_endpoint, RotateKey, rotate_key, serverVars, vars, busVars, IInv
<1>9. CASE run_scenario \/ server_restart
  BY <1>6, <1>9 DEF run_scenario, server_restart, RestartBounded, Restart
<1>10. ASSUME NEW p \in Pdu, NEW f \in Injectable, can_send(p, f)
       PROVE  Goal
  BY <1>2, <1>5, <1>10 DEF can_send
<1>11. ASSUME NEW p \in Pdu, capture(p)
       PROVE  Goal
  BY <1>3, <1>11 DEF capture, vars, busVars
<1>12. ASSUME NEW p \in Pdu, replay(p)
       PROVE  Goal
  <2> DEFINE q == Injected(p)
             r == Observed(p)
             f == Head(q).frame
  <2>1. q \in Seq([pdu : Pdu, frame : S]) /\ r \in [Pdu -> S \cup {NoFrame}]
    BY <1>1, InjectedOnBus
  <2>2. q # << >> /\ captured' = captured
    BY <1>12 DEF replay, replay_accepted, replay_rejected, replay_bad_transport
  <2>3. \/ queue' = Append(Tail(q), Entry(p, f)) /\ lastFrame' = [r EXCEPT ![p] = f]
        \/ queue' = Tail(q) /\ lastFrame' = r
    BY <1>12 DEF replay, replay_accepted, replay_rejected, replay_bad_transport
  <2> HIDE DEF q, r
  <2>4. f \in S /\ Tail(q) \in Seq([pdu : Pdu, frame : S])
    BY <2>1, <2>2, Taken
  <2> HIDE DEF f
  <2>5. CASE queue' = Append(Tail(q), Entry(p, f)) /\ lastFrame' = [r EXCEPT ![p] = f]
    BY <1>3, <2>1, <2>2, <2>4, <2>5, Published
  <2>6. CASE queue' = Tail(q) /\ lastFrame' = r
    BY <1>3, <2>1, <2>2, <2>4, <2>6
  <2> QED
    BY <2>3, <2>5, <2>6
<1> QED
  BY <1>7, <1>8, <1>9, <1>10, <1>11, <1>12 DEF ServerNext

(* The core's invariant, under every endpoint. *)
LEMMA CoreKept ==
  ASSUME IInv, OnBus, OnBus', [ServerNext]_serverVars
  PROVE  IInv'
<1>1. TypeOK /\ SentGenuine
  BY DEF IInv
<1> DEFINE Histories ==
             SentGenuine /\ FreshnessRises /\ AcceptedWasSent /\ AcceptedCongruent
<1>2. FreshnessTyped' /\ PolicyTyped' /\ Histories'
  <2>1. CASE [Next]_vars
    BY <2>1, InvStep DEF IInv, TypeOK
  <2>2. ASSUME NEW p \in Pdu, NEW t \in Transport, NEW f, Refuse(p, f, t)
        PROVE  FreshnessTyped' /\ PolicyTyped' /\ Histories'
    BY <1>1, <2>2, RefuseTyped, HistoryKept DEF Refuse
  <2>3. ASSUME NEW p \in Pdu, NEW t \in Transport, NEW f \in Injectable, Deliver(p, f, t)
        PROVE  FreshnessTyped' /\ PolicyTyped' /\ Histories'
    <3>1. f \in Incoming
      BY <1>1, <2>3, DeliverBuilt
    <3> QED
      BY <1>1, <2>3, <3>1, DeliverTyped, DeliverKeeps
  <2>4. CASE UNCHANGED <<lastValid, keyEpoch, policyVars, sent, accepted>>
    <3>1. FreshnessTyped' /\ PolicyTyped'
      BY <1>1, <2>4 DEF TypeOK, FreshnessTyped, PolicyTyped, policyVars
    <3> QED
      BY <2>4, <3>1, HistoryKept
  <2> QED
    BY <1>1, <2>1, <2>2, <2>3, <2>4, ServerSteps
<1>3. BusTyped'
  <2> DEFINE S == Injectable'
  <2>1. S \subseteq Frame
    <3>1. OnWire' \subseteq Frame
      BY <1>2, ShortenedGenuine DEF SentGenuine, Genuine, Wire, OnWire
    <3>2. \A p \in Pdu : generate_forged_pdu(p, "INVALID_MAC") \in Frame
      BY <1>1, ForgedRefused DEF ForgeMode, Transport
    <3> QED
      BY <3>1, <3>2 DEF Injectable
  <2>2. /\ queue' \in Seq([pdu : Pdu, frame : S])
        /\ lastFrame' \in [Pdu -> S \cup {NoFrame}]
    BY DEF OnBus, OnBusOf
  <2> HIDE DEF S
  <2> DEFINE E == [pdu : Pdu, frame : S]
             F == [pdu : Pdu, frame : Frame]
  <2>3. E \subseteq F /\ queue' \in Seq(E)
    BY <2>1, <2>2
  <2> HIDE DEF E, F
  <2>4. queue' \in Seq(F)
    BY <2>3, SeqMonotonic
  <2> QED
    BY <2>1, <2>2, <2>4 DEF BusTyped, F
<1> QED
  BY <1>2, <1>3 DEF IInv, TypeOK

(* The failures counted are those since the last reset, and both they and
   the lockout are in the log. *)
LEMMA PolicyKept ==
  ASSUME ServerInv, [ServerNext]_serverVars
  PROVE  FreshRun' /\ FailuresAudited'
<1>1. TypeOK /\ OnBus /\ FreshRun /\ FailuresAudited
  BY DEF ServerInv, IInv
<1>2. ASSUME NEW p \in Pdu, NEW t \in Transport, NEW f, Refuse(p, f, t)
      PROVE  FreshRun' /\ FailuresAudited'
  <2>1. /\ failCount' = [failCount EXCEPT ![p] = @ + 1]
        /\ sinceReset' = [sinceReset EXCEPT ![p] = @ + 1]
        /\ lockedOut' = (lockedOut \/ Escalates(failCount[p] + 1))
    BY <1>2 DEF Refuse, record_failure
  <2>2. /\ failCount \in [Pdu -> Nat] /\ sinceReset \in [Pdu -> Nat] /\ failCount = sinceReset
        /\ MaxAuthFailures \in Nat
    BY <1>1, SecOCAssumption DEF TypeOK, PolicyTyped, FreshRun
  <2>3. failCount' = sinceReset'
    BY <2>1, <2>2
  <2>4. sinceReset'[p] = failCount[p] + 1 /\ \A q \in Pdu : sinceReset'[q] >= sinceReset[q]
    BY <2>1, <2>2
  <2>5. ASSUME lockedOut PROVE LockoutNeedsFreshRun'
    <3>1. PICK q \in Pdu : sinceReset[q] >= MaxAuthFailures
      BY <1>1, <2>5 DEF FreshRun, LockoutNeedsFreshRun
    <3>2. sinceReset'[q] \in Nat /\ sinceReset'[q] >= MaxAuthFailures
      BY <2>1, <2>2, <2>4, <3>1
    <3> QED
      BY <3>2, Zenon DEF LockoutNeedsFreshRun
  <2>6. ASSUME ~lockedOut PROVE LockoutNeedsFreshRun'
    <3>1. lockedOut' => failCount[p] + 1 >= MaxAuthFailures
      BY <2>1, <2>6, Zenon DEF Escalates
    <3>2. lockedOut' => sinceReset'[p] >= MaxAuthFailures
      BY <2>4, <3>1, Zenon
    <3> QED
      BY <3>2, Zenon DEF LockoutNeedsFreshRun
  <2>7. FailuresAudited'
    BY <1>1, <1>2, RefuseAudited
  <2> QED
    BY <2>3, <2>5, <2>6, <2>7 DEF FreshRun
<1>3. CASE UNCHANGED <<failCount, lockedOut, dem, sinceReset>>
  BY <1>1, <1>3 DEF FreshRun, LockoutNeedsFreshRun, FailuresAudited
<1>4. ASSUME NEW p \in Pdu, NEW t \in Transport, NEW f, Deliver(p, f, t)
      PROVE  UNCHANGED <<failCount, lockedOut, dem, sinceReset>>
  BY <1>4 DEF Deliver
<1>5. CASE Restart
  <2>1. FreshRun'
    BY <1>5 DEF Restart, FreshRun, LockoutNeedsFreshRun
  <2>2. FailuresAudited'
    BY <1>5 DEF Restart, FailuresAudited, DemCode
  <2> QED
    BY <2>1, <2>2
<1>6. CASE reset_ecu
  <2>1. FreshRun'
    BY <1>6 DEF reset_ecu, FreshRun, LockoutNeedsFreshRun
  <2>2. FailuresAudited'
    BY <1>1, <1>6 DEF reset_ecu, FailuresAudited, TypeOK, PolicyTyped, DemCode
  <2> QED
    BY <2>1, <2>2
<1>7. CASE RotateKey \/ Transmit \/ UNCHANGED vars
      \/ UNCHANGED <<lastValid, keyEpoch, policyVars, sent, accepted>>
  BY <1>3, <1>7 DEF RotateKey, rotate_key, Transmit, transmit_secured, vars, policyVars
<1>8. CASE Receive
  BY <1>2, <1>3, <1>4, <1>8 DEF Receive, receive_secured, Accept, Reject
<1> QED
  BY <1>1, <1>2, <1>3, <1>4, <1>5, <1>6, <1>7, <1>8, ServerSteps
-----------------------------------------------------------------------------
(* The server starts in the invariant, ... *)
LEMMA ServerInvInit == ServerInit => ServerInv
<1> SUFFICES ASSUME ServerInit PROVE ServerInv
  OBVIOUS
<1>1. IInv /\ Init
  BY InitIInv DEF ServerInit
<1>2. OnBus
  <2>1. queue \in Seq([pdu : Pdu, frame : Injectable])
    BY <1>1, EmptySeq DEF Init, BusInit
  <2> QED
    BY <1>1, <2>1 DEF ServerInit, Init, BusInit, OnBus, OnBusOf
<1>3. FreshRun /\ FailuresAudited
  BY <1>1 DEF Init, FreshRun, LockoutNeedsFreshRun, FailuresAudited, DemCode
<1> QED
  BY <1>1, <1>2, <1>3 DEF ServerInv

(* ... and every step of the server keeps it. *)
LEMMA ServerInvStep == ServerInv /\ [ServerNext]_serverVars => ServerInv'
<1> SUFFICES ASSUME ServerInv, [ServerNext]_serverVars PROVE ServerInv'
  OBVIOUS
<1>1. IInv /\ OnBus
  BY DEF ServerInv
<1>2. OnBus'
  BY <1>1, OnBusStep
<1>3. IInv'
  BY <1>1, <1>2, CoreKept
<1> QED
  BY <1>2, <1>3, PolicyKept DEF ServerInv

(* The invariant of the server, in every reachable state. *)
THEOREM ServerInvariance == ServerSpec => []ServerInv
BY ServerInvInit, ServerInvStep, PTL DEF ServerSpec

(* Every failure the endpoints and attacks cause is in the DEM log. *)
THEOREM ServerAudited == ServerSpec => []FailuresAudited
BY ServerInvariance, PTL DEF ServerInv

(* After POST /ecu/reset a lockout takes a fresh run of failures. *)
THEOREM LockoutNeedsFreshRunHolds == ServerSpec => []LockoutNeedsFreshRun
BY ServerInvariance, PTL DEF ServerInv, FreshRun

(* Whatever is injected and replayed, accepted counters rise strictly, ... *)
THEOREM ServerAntiReplay == ServerSpec => []FreshnessRises
BY ServerInvariance, PTL DEF ServerInv, IInv

(* ... and what is accepted for a PDU was built for it, or is the shortened
   form of what was. *)
THEOREM ServerAuthenticity == ServerSpec => []AcceptedWasSent
BY ServerInvariance, PTL DEF ServerInv, IInv

(* A tampered or forged frame is rejected and logged, in every state. *)
THEOREM AttackRejectedHolds == ServerSpec => AttackRejected
<1>1. ServerInv /\ [ServerNext]_serverVars =>
        [\/ /\ UNCHANGED <<lastValid, accepted, queue>>
            /\ dem'["SECOC_AUTH_FAIL"] = dem["SECOC_AUTH_FAIL"] + 1
         \/ UNCHANGED captured => ~ \E p \in Pdu : Attack(p)]_serverVars
  <2> SUFFICES ASSUME ServerInv, NEW p \in Pdu, Attack(p)
               PROVE  /\ UNCHANGED <<lastValid, accepted, queue>>
                      /\ dem'["SECOC_AUTH_FAIL"] = dem["SECOC_AUTH_FAIL"] + 1
    OBVIOUS
  <2>1. TypeOK
    BY DEF ServerInv, IInv
  <2>2. PICK t \in Transport : \E f : Refuse(p, f, t)
    BY <2>1, AttackRefused
  <2>3. UNCHANGED busVars
    BY <2>1, AttackRefused
  <2> QED
    BY <2>1, <2>2, <2>3 DEF Refuse, record_failure, busVars, TypeOK, PolicyTyped, DemCode
<1> QED
  BY <1>1, ServerInvariance, PTL DEF ServerSpec, AttackRejected
=============================================================================
