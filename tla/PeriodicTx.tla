------------------------------ MODULE PeriodicTx ------------------------------
(***************************************************************************)
(* Periodic signals from the application to the wire and back: callbacks   *)
(* of the scheduler send a signal each, and the application packs others   *)
(* into the same PDUs meanwhile; a receiver hands what it parses to the    *)
(* signal handler.  The docstrings of SenderECU.transmit_periodic and      *)
(* SignalPackager.send_signal describe this use; the callbacks themselves  *)
(* are their users' code.                                                  *)
(*                                                                         *)
(* Verification is SecOC's part: here a frame's counter and MAC are bytes. *)
(***************************************************************************)
EXTENDS SignalPackager, PduCodec, BusScheduler

CONSTANTS
  EntrySignal,      \* the signal each entry's callback sends
  Value,            \* values the application gives each signal
  FreshnessSample,  \* counter values of frames
  Unset,            \* a signal nobody has packed
  MaxQueue          \* bound: frames waiting on the bus

ASSUME PeriodicAssumption ==
  /\ EntrySignal \in [Entry -> Signal]
  /\ Value \in [Signal -> SUBSET Int]
  /\ FreshnessSample \subseteq Nat
  /\ Unset \notin Int

VARIABLES
  queue,   \* CanBus._queue
  shown,   \* the value the signal handler was last called with
  packed,  \* history: the values packed since a PDU was last sent
  meant    \* history: the same of the PDU that was last handed over

vars == <<schedulerVars, txBuffers, queue, shown, packed, meant>>

Init ==
  /\ SchedulerInit
  /\ PackagerInit
  /\ queue = << >>
  /\ shown = [s \in Signal |-> Unset]
  /\ packed = [s \in Signal |-> Unset]
  /\ meant = [s \in Signal |-> Unset]
-----------------------------------------------------------------------------
MacBytes(t) == [i \in 1 .. truncation_lengths(t).mac |-> 256 - i]

(* transmit_secured, then the router's choice of an interface, whose
   send_frame publishes. *)
Transmitted(p, x, full, t) ==
  LET bytes == build_secured_pdu(Padded(x, t), full, MacBytes(t), t)
  IN  [pdu |-> p, bytes |-> bytes, interface |-> route_to_bus(bytes),
       transport |-> t, payload |-> Padded(x, t), fresh |-> full, meant |-> packed]

Forget(p) == [s \in Signal |-> IF Layout[s].pdu_id = p THEN Unset ELSE packed[s]]

(* The application updates a signal; nothing is sent. *)
Pack(s, value) ==
  /\ cursor = 0
  /\ pack_signal(s, value)
  /\ packed' = [packed EXCEPT ![s] = value]
  /\ UNCHANGED <<schedulerVars, queue, shown, meant>>

(* A callback sends its entry's signal; the transmission may raise. *)
Send(value, t, full) ==
  LET s == EntrySignal[cursor]
      x == Packed(s, value)
      frame == [Transmitted(Layout[s].pdu_id, x, full, t) EXCEPT !.meant[s] = value]
  IN  /\ send_signal(s, value)
      /\ packed' = Forget(Layout[s].pdu_id)
      /\ \/ Fits(x, t) /\ Routable(frame.bytes)
            /\ Fire(FALSE)
            /\ queue' = Append(queue, frame)
         \/ ~(Fits(x, t) /\ Routable(frame.bytes))
            /\ Fire(TRUE)
            /\ UNCHANGED queue
      /\ UNCHANGED <<shown, meant>>

(* A value out of range: send_signal raises and the buffer stays. *)
SendOutOfRange(value) ==
  /\ ~InRange(EntrySignal[cursor], value)
  /\ Fire(TRUE)
  /\ UNCHANGED <<txBuffers, queue, shown, packed, meant>>

Callback ==
  /\ Due
  /\ \E value \in Value[EntrySignal[cursor]] :
       \/ SendOutOfRange(value)
       \/ \E t \in Transport, full \in FreshnessSample : Send(value, t, full)

(* A receiver on either transport; what does not parse is rejected, what
   has not the length of the signals' PDU raises. *)
Receive(t) ==
  LET f == Head(queue)
      data == parse_secured_pdu(f.bytes, t).payload
  IN  /\ cursor = 0
      /\ queue # << >>
      /\ queue' = Tail(queue)
      /\ IF ~Malformed(f.bytes, t) /\ Unpackable(f.pdu, data)
         THEN LET values == unpack_signal_from_pdu(f.pdu, data)
              IN  /\ shown' = [s \in Signal |-> IF s \in DOMAIN values THEN values[s] ELSE shown[s]]
                  /\ meant' = [s \in Signal |-> IF s \in DOMAIN values THEN f.meant[s] ELSE meant[s]]
         ELSE UNCHANGED <<shown, meant>>
      /\ UNCHANGED <<schedulerVars, txBuffers, packed>>

Tick ==
  /\ Len(queue) + registered <= MaxQueue
  /\ \E gap \in 1 .. MaxGap : tick(gap)
  /\ UNCHANGED <<txBuffers, queue, shown, packed, meant>>

Setup ==
  /\ schedule_periodic \/ start
  /\ UNCHANGED <<txBuffers, queue, shown, packed, meant>>

Next ==
  \/ Setup
  \/ Tick
  \/ Skip /\ UNCHANGED <<txBuffers, queue, shown, packed, meant>>
  \/ Callback
  \/ \E s \in Signal : \E value \in Value[s] : Pack(s, value)
  \/ \E t \in Transport : Receive(t)

Spec == Init /\ [][Next]_vars
-----------------------------------------------------------------------------
BufferTyped ==
  \A p \in SignalPdu :
    txBuffers[p] = NoBuffer
      \/ \E s \in Signal : Layout[s].pdu_id = p
           /\ Len(txBuffers[p]) = Layout[s].pdu_length_bytes
           /\ \A i \in DOMAIN txBuffers[p] : txBuffers[p][i] \in Byte

(* Type invariant. *)
PeriodicTypeOK ==
  /\ SchedulerTyped
  /\ BufferTyped
  /\ \A i \in DOMAIN queue : \A j \in DOMAIN queue[i].bytes : queue[i].bytes[j] \in Byte
  /\ shown \in [Signal -> Int \cup {Unset}]
  /\ \A s \in Signal : {packed[s], meant[s]} \subseteq Value[s] \cup {Unset}

(* What the handler was told of a signal is, to half a factor, the value
   that was last packed since the PDU went out before, and the value of raw
   0 when there was none: packing a signal never disturbs its siblings in
   the shared buffer, a send that raises takes nothing along, and nothing
   of an earlier transmission comes with a later one. *)
DecodedIsPacked ==
  \A s \in Signal : shown[s] # Unset =>
    LET value == IF meant[s] = Unset THEN Layout[s].offset ELSE meant[s]
    IN  2 * (shown[s] - value) \in -Layout[s].factor .. Layout[s].factor

(* parse_secured_pdu undoes build_secured_pdu on either transport: payload,
   MAC, and the counter up to the length of its field. *)
ParsedAsBuilt ==
  \A i \in DOMAIN queue :
    LET f == queue[i]
    IN  /\ ~Malformed(f.bytes, f.transport)
        /\ parse_secured_pdu(f.bytes, f.transport) =
             [payload |-> f.payload, mac |-> MacBytes(f.transport),
              fresh |-> f.fresh % PowerOf256[truncation_lengths(f.transport).fresh]]

(* The router sends a frame on the transport it was built for, and no whole
   frame parses on the other one, for they differ in length.  (The first 8
   bytes of a CAN_FD frame do: what receive_secured makes of such a cut frame
   is AcceptedWasSent and AcceptedAsBuilt of SecOC.) *)
TransportsApart ==
  \A i \in DOMAIN queue :
    LET f == queue[i]
    IN  /\ f.interface = f.transport
        /\ \A t \in Transport \ {f.transport} : Malformed(f.bytes, t)
=============================================================================
