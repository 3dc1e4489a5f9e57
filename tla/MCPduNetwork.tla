---------------------------- MODULE MCPduNetwork ----------------------------
(***************************************************************************)
(* A container that has room for one of its two I-PDUs at a time, a PDU of *)
(* two signals with bits in common bytes and a check byte, periodic PDUs   *)
(* with an interval and a phase of 15 (a step short in doubles), and a PDU *)
(* with functions that may reject it.                                      *)
(***************************************************************************)
EXTENDS PduNetwork

PDU == [ id |-> 0, length |-> 1, header |-> "None", container |-> 0, priority |-> 0,
         interval |-> 0, phase |-> 0, trigger |-> "None", tx |-> "none", rx |-> "none" ]

MCTxOrder == << "lo", "hi", "box", "plain", "beat", "slow", "gate" >>

MCBuses == {"can", "flexray"}

MCWriters == { {"l", "h"}, {"c", "d"}, {"c", "g"}, {"b", "s"} }

MCNetwork ==
  [ lo    |-> [ PDU EXCEPT !.id = 2, !.length = 2, !.container = 9, !.priority = 8,
                           !.interval = 10, !.phase = -5, !.trigger = "Change",
                           !.tx = "stamp" ],
    hi    |-> [ PDU EXCEPT !.id = 3, !.container = 9, !.priority = 5 ],
    box   |-> [ PDU EXCEPT !.id = 9, !.length = 10, !.header = "Short",
                           !.interval = 10 ],
    plain |-> [ PDU EXCEPT !.id = 4, !.length = 3, !.tx = "stamp" ],
    beat  |-> [ PDU EXCEPT !.id = 5, !.interval = 15, !.phase = 5,
                           !.trigger = "Periodic" ],
    slow  |-> [ PDU EXCEPT !.id = 7, !.interval = 20, !.phase = -15,
                           !.trigger = "Periodic" ],
    gate  |-> [ PDU EXCEPT !.id = 6, !.tx = "filter", !.rx = "filter" ] ]

SIGNAL == [ pdu |-> "", start |-> 0, length |-> 8, factor |-> 1, offset |-> 0,
            min |-> 0, max |-> 99, short |-> {},
            encode |-> "none", decode |-> "none" ]

MCEncoding ==
  [ l |-> [ SIGNAL EXCEPT !.pdu = "lo", !.start = 2, !.length = 4 ],
    h |-> [ SIGNAL EXCEPT !.pdu = "hi", !.decode = "mark" ],
    c |-> [ SIGNAL EXCEPT !.pdu = "plain", !.start = 2, !.length = 4,
                          !.max = 5, !.short = {3} ],
    d |-> [ SIGNAL EXCEPT !.pdu = "plain", !.start = 6, !.length = 5,
                          !.factor = 2, !.offset = -2, !.encode = "cap" ],
    b |-> [ SIGNAL EXCEPT !.pdu = "beat" ],
    s |-> [ SIGNAL EXCEPT !.pdu = "slow" ],
    g |-> [ SIGNAL EXCEPT !.pdu = "gate", !.encode = "mark" ] ]

MCValues == [ l |-> {0, 1}, h |-> {0, 1}, c |-> {0, 3, 7}, d |-> {0, 1, 5},
              b |-> {0, 1}, s |-> {0, 1}, g |-> {0, 1} ]

\* The packing of the code against the packing bit by bit, for every layout
\* in three bytes.
Layouts == { [ start |-> s, length |-> l ] : s \in 0 .. 23, l \in 1 .. 24 }

ASSUME PackingAssumption ==
  \A e \in Layouts : e.start + e.length <= 24 =>
    \A payload \in { << 0, 0, 0 >>, << 255, 255, 255 >>, << 165, 90, 195 >> },
       raw \in { 0, 1, 165, 1193046, 8388608, 16777215, -1 } :
      /\ Packed(payload, Chunks(e), raw) = PackedByBit(payload, e, raw)
      /\ Unpacked(payload, Chunks(e)) = UnpackedByBit(payload, e)
      /\ Unpacked(Packed(payload, Chunks(e), raw), Chunks(e)) = raw % 2^e.length
=============================================================================
