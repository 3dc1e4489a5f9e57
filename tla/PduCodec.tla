------------------------------ MODULE PduCodec ------------------------------
(***************************************************************************)
(* Encoding of a signal in the payload of a PDU (model/pdunet/matrix.c):   *)
(* the linear transform of a physical value to a raw value and back, and   *)
(* the packing of raw values into the bytes of a payload.                  *)
(*                                                                         *)
(* A payload is a sequence of bytes.  An encoding is a record with the     *)
(* start bit, the length in bits, and the linear transform: factor and     *)
(* offset, and the range min..max (physical values are integers, in units  *)
(* of the resolution the configuration is written in).                     *)
(*                                                                         *)
(* The pack loop of the code walks the bits from the start: the bits up to *)
(* the next byte boundary, whole bytes while more than a byte is left, and *)
(* the last bits.  Each turn reads or writes one field of one byte; a      *)
(* chunk is that field: count bits from bit of byte, which hold the bits   *)
(* of the value from shift.                                                *)
(***************************************************************************)
EXTENDS Integers, Sequences, FiniteSetsExt

Byte == 0 .. 255

\* count bits of the number n, from bit: (n >> bit) & ((1 << count) - 1).
Field(n, bit, count) == (n \div 2^bit) % 2^count

HeadBits(e) == IF e.start % 8 = 0 THEN 0 ELSE Min({8 - (e.start % 8), e.length})

\* Turns of the loop over whole bytes: the last byte is never one of them.
WholeBytes(e) ==
  IF HeadBits(e) < e.length THEN (e.length - HeadBits(e) - 1) \div 8 ELSE 0

Chunks(e) ==
  LET head == HeadBits(e)
      whole == WholeBytes(e)
      aligned == (e.start + 7) \div 8
      last == e.length - head - 8 * whole
  IN { c \in
         { [byte |-> e.start \div 8, bit |-> e.start % 8, count |-> head,
            shift |-> 0],
           [byte |-> aligned + whole, bit |-> 0, count |-> last,
            shift |-> head + 8 * whole] }
         \union { [byte |-> aligned + i, bit |-> 0, count |-> 8,
                   shift |-> head + 8 * i] : i \in 0 .. whole - 1 } :
       c.count > 0 }

\* A byte with the chunk's field replaced: (byte & ~M_p) | V.
WithField(byte, c, raw) ==
  byte + 2^c.bit * (Field(raw, c.shift, c.count) - Field(byte, c.bit, c.count))

ChunkAt(chunks, i) == ChooseUnique(chunks, LAMBDA c : c.byte = i - 1)

\* The payload after a raw value is packed; it may exceed the length, or be
\* negative for the 64 bit two's complement: the low bits are packed.
Packed(payload, chunks, raw) ==
  [ i \in DOMAIN payload |->
      IF \E c \in chunks : c.byte = i - 1
      THEN WithField(payload[i], ChunkAt(chunks, i), raw)
      ELSE payload[i] ]

Unpacked(payload, chunks) ==
  LET value[i \in 0 .. Len(payload)] ==
        IF i = 0 THEN 0
        ELSE LET c == ChunkAt(chunks, i) IN
             value[i - 1] + (IF \E d \in chunks : d.byte = i - 1
                             THEN Field(payload[i], c.bit, c.count) * 2^c.shift
                             ELSE 0)
  IN value[Len(payload)]

InRange(e, phys) == phys >= e.min /\ phys <= e.max

\* Conversion of a quotient to an integer: towards zero.
Truncated(a, b) ==
  IF (a >= 0) = (b > 0)
  THEN (IF a >= 0 THEN a ELSE -a) \div (IF b > 0 THEN b ELSE -b)
  ELSE -((IF a >= 0 THEN a ELSE -a) \div (IF b > 0 THEN b ELSE -b))

\* e.short are the physical values whose quotient is a whole number that the
\* division of doubles does not reach (0.3 / 0.1 = 2.9999999999999996).
Quotient(e, phys) ==
  Truncated(phys - e.offset, e.factor) - (IF phys \in e.short THEN 1 ELSE 0)

\* A value v of a signal is a record [phys, raw].  The function in Lua of a
\* signal: "cap" limits the physical value, "mark" sets a bit of the raw value.
SignalCall(function, v) ==
  CASE function = "cap" -> [ v EXCEPT !.phys = Min({v.phys, 2}) ]
    [] function = "mark" -> [ v EXCEPT !.raw = v.raw - (v.raw % 2) + 1 ]
    [] OTHER -> v

\* A value out of the range leaves the other side as it was, it is not clamped.
ToRaw(e, v) == IF InRange(e, v.phys) THEN [ v EXCEPT !.raw = Quotient(e, v.phys) ] ELSE v

ToPhys(e, v) ==
  LET phys == v.raw * e.factor + e.offset IN
  IF InRange(e, phys) THEN [ v EXCEPT !.phys = phys ] ELSE v

\* The function is called for a value in the range only, and counts for more
\* than the transform: a raw value it sets is kept unless it sets both.
Encoded(e, v) ==
  LET called == SignalCall(e.encode, ToRaw(e, v)) IN
  IF ~InRange(e, v.phys) THEN v
  ELSE IF called.phys # v.phys THEN ToRaw(e, called) ELSE called

\* Mutant: the value of before the step is kept.
DecodedLate(e, v) == SignalCall(e.decode, v)

\* The function is called first: of what it sets only the raw value counts,
\* unless that is out of the range.
Decoded(e, v) == ToPhys(e, SignalCall(e.decode, v))

(***************************************************************************)
(* The encoding bit by bit, which the definitions above are compared with. *)
(***************************************************************************)

BitOf(payload, n) == Field(payload[n \div 8 + 1], n % 8, 1)

PackedByBit(payload, e, raw) ==
  LET bit(n) == IF n \in e.start .. e.start + e.length - 1
                THEN Field(raw, n - e.start, 1)
                ELSE BitOf(payload, n)
  IN [ i \in DOMAIN payload |->
         MapThenSumSet(LAMBDA j : bit(8 * (i - 1) + j) * 2^j, 0 .. 7) ]

UnpackedByBit(payload, e) ==
  MapThenSumSet(LAMBDA j : BitOf(payload, e.start + j) * 2^j, 0 .. e.length - 1)
=============================================================================
