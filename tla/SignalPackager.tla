---------------------------- MODULE SignalPackager ----------------------------
(***************************************************************************)
(* sim/signal_packager.py: application signals to and from the bytes of an *)
(* authentic PDU, and the transmit buffer that the signals of a PDU share. *)
(*                                                                         *)
(* Values, factors and offsets are integers in a common unit: Python's     *)
(* floats without their rounding errors.  The layout table is the          *)
(* caller's; the code checks neither overlaps nor lengths in it.           *)
(***************************************************************************)
EXTENDS Integers, Sequences

CONSTANTS
  Signal,    \* signal names
  Layout,    \* SignalLayout of each
  NoBuffer   \* no entry in _tx_buffers

BitsOf(s) == Layout[s].offset_bits .. Layout[s].offset_bits + Layout[s].width_bits - 1
SignalPdu == {Layout[s].pdu_id : s \in Signal}

(* What the table's author has to see to. *)
ASSUME LayoutAssumption ==
  /\ Layout \in [Signal -> [pdu_id : SignalPdu, pdu_length_bytes : Nat, offset_bits : Nat,
                            width_bits : Nat, factor : Nat \ {0}, offset : Int]]
  /\ NoBuffer \notin Seq(Int)
  /\ \A s \in Signal : \A b \in BitsOf(s) : b < 8 * Layout[s].pdu_length_bytes
  /\ \A s, r \in Signal :
       Layout[s].pdu_id = Layout[r].pdu_id =>
         /\ Layout[s].pdu_length_bytes = Layout[r].pdu_length_bytes
         /\ s # r => BitsOf(s) \cap BitsOf(r) = {}

(* 2**n and 1 << n. *)
PowerOfTwo[n \in Nat] == IF n = 0 THEN 1 ELSE 2 * PowerOfTwo[n - 1]

VARIABLE txBuffers   \* SignalPackager._tx_buffers

PackagerInit == txBuffers = [p \in SignalPdu |-> NoBuffer]
-----------------------------------------------------------------------------
(* Bit b of a PDU, counted from the most significant bit of its first byte. *)
BitAt(data, b) == (data[b \div 8 + 1] \div PowerOfTwo[7 - (b % 8)]) % 2

(* Mutation: the bit is added, whatever was there. *)
PutAdding(data, b, bit) ==
  [data EXCEPT ![b \div 8 + 1] = @ + bit * PowerOfTwo[7 - (b % 8)]]

Put(data, b, bit) ==
  [data EXCEPT ![b \div 8 + 1] = @ + (bit - BitAt(data, b)) * PowerOfTwo[7 - (b % 8)]]

(* raw's most significant bit goes to bit `offset', and so on. *)
set_bits(data, offset, width, raw) ==
  LET written[i \in 0 .. width] ==
        IF i = 0 THEN data
        ELSE Put(written[i - 1], offset + i - 1, (raw \div PowerOfTwo[width - i]) % 2)
  IN  written[width]

get_bits(data, offset, width) ==
  LET raw[i \in 0 .. width] ==
        IF i = 0 THEN 0 ELSE 2 * raw[i - 1] + BitAt(data, offset + i - 1)
  IN  raw[width]

(* Python's round of n / d: to the nearest, halves to the even one. *)
RoundHalfEven(n, d) ==
  LET q == n \div d
      r == n % d
  IN  IF 2 * r > d \/ (2 * r = d /\ q % 2 = 1) THEN q + 1 ELSE q

Raw(s, value) == RoundHalfEven(value - Layout[s].offset, Layout[s].factor)

(* Otherwise pack_signal raises SignalValueOutOfRangeError, before it
   touches the buffer. *)
InRange(s, value) == Raw(s, value) \in 0 .. PowerOfTwo[Layout[s].width_bits] - 1

Buffer(p, length) ==
  IF txBuffers[p] = NoBuffer THEN [i \in 1 .. length |-> 0] ELSE txBuffers[p]

Packed(s, value) ==
  set_bits(Buffer(Layout[s].pdu_id, Layout[s].pdu_length_bytes),
           Layout[s].offset_bits, Layout[s].width_bits, Raw(s, value))

(* pack_signal: the buffer keeps what its other signals put there. *)
pack_signal(s, value) ==
  /\ InRange(s, value)
  /\ txBuffers' = [txBuffers EXCEPT ![Layout[s].pdu_id] = Packed(s, value)]

(* Mutation: the buffer survives the transmission. *)
send_signalKept(s, value) == pack_signal(s, value)

(* send_signal: packs, returns the PDU (Packed) and drops the buffer. *)
send_signal(s, value) ==
  /\ InRange(s, value)
  /\ txBuffers' = [txBuffers EXCEPT ![Layout[s].pdu_id] = NoBuffer]

(* unpack_signal of a PDU of the configured length. *)
unpack_signal(data, s) ==
  get_bits(data, Layout[s].offset_bits, Layout[s].width_bits) * Layout[s].factor
    + Layout[s].offset

(* unpack_signal_from_pdu: what the handler is called with; the first
   signal raises if the PDU has another length. *)
Unpackable(p, data) ==
  \A s \in Signal : Layout[s].pdu_id = p => Len(data) = Layout[s].pdu_length_bytes

unpack_signal_from_pdu(p, data) ==
  [s \in {r \in Signal : Layout[r].pdu_id = p} |-> unpack_signal(data, s)]
=============================================================================
