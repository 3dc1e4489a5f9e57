----------------------------- MODULE PduNetwork -----------------------------
(***************************************************************************)
(* A PDU network between two model instances (model/pdunet.c, network.c,   *)
(* matrix.c, can.c, flexray.c): a sender, whose PDUs have direction Tx,    *)
(* and a receiver with the same PDUs in direction Rx.                      *)
(*                                                                         *)
(* In every simulation step the sender's model writes signals, and         *)
(* pdunet_tx evaluates the schedule, encodes and packs signals, detects    *)
(* the payloads that changed, maps I-PDUs into Container PDUs and writes   *)
(* the PDUs to the NCodec.  The receiver's pdunet_rx reads them in the     *)
(* next step.  The frames of a step are all delivered, in order (module    *)
(* SignalExchange); wire holds them.                                       *)
(*                                                                         *)
(* A checksum is represented by the payload it was computed from (no two   *)
(* payloads of a PDU are assumed to collide), the checksum 0 by <<>>.      *)
(* Time is counted in the unit of the configuration's phase and interval.  *)
(***************************************************************************)
EXTENDS PduCodec, SequencesExt, TLC

CONSTANTS
  TxOrder,     \* the PDUs, in the order of the matrix
  Network,     \* [pdu -> record]: id, length, container header, container
               \*   id and priority, schedule, Lua functions
  Encoding,    \* [signal -> record]: pdu, and the encoding of PduCodec
  Values,      \* [signal -> the physical values a model writes]
  StepSize,    \* step size of the schedule (MODEL_DEFAULT_STEP_SIZE)
  ShortTimes,  \* times of whole steps whose quotient by the step size falls
               \*   short of the whole number in doubles
  EpochOffset, \* the offset that the network is configured with
  SimStep,     \* step size of the simulation
  CycleTime,   \* FlexRay: the bus starts a cycle every CycleTime
  Buses,       \* kinds of network: subset of {"can", "flexray"}
  Writers,     \* sets of signals: those that a model changes
  Settled,     \* a time after which every schedule has started
  HyperPeriod  \* a multiple of all intervals, steps and two cycles

Pdus == ToSet(TxOrder)
Signals == DOMAIN Encoding
SignalsOf(p) == { s \in Signals : Encoding[s].pdu = p }
IsContainer(p) == Network[p].header # "None"
IsContained(p) == Network[p].container # 0
ContainerOf ==
  [ p \in { q \in Pdus : IsContained(q) } |->
      ChooseUnique(Pdus, LAMBDA c : Network[c].id = Network[p].container) ]
PackOrder == [ p \in Pdus |-> SetToSeq(SignalsOf(p)) ]
ChunksOf == [ s \in Signals |-> Chunks(Encoding[s]) ]

ASSUME NetworkAssumption ==
  /\ \A p \in Pdus : Network[p].id \in Nat \ {0} /\ Network[p].length \in Nat \ {0}
  /\ \A p, q \in Pdus : Network[p].id = Network[q].id => p = q
  /\ \A s \in Signals : Encoding[s].start + Encoding[s].length
                          <= 8 * Network[Encoding[s].pdu].length
  /\ \A t \in ShortTimes : t % StepSize = 0 /\ t > StepSize
  /\ \A s \in Signals : \A v \in Values[s] :
       InRange(Encoding[s], v) =>
         Quotient(Encoding[s], v) \in 0 .. 2^Encoding[s].length - 1

VARIABLES
  bus,     \* kind of network
  written, \* the signals that the model changes
  now,     \* simulation time of the step
  turn,    \* "send" or "receive"
  phys,    \* sender: value of each signal, in its signal vector
  tx,      \* sender: raw values; payload, needs_tx and checksum of the PDUs
  sched,   \* sender: schedule time of the last pdunet_tx, epoch offset, cycle
  wire,    \* PDUs in the NCodec stream
  rx,      \* receiver: payload of the PDUs, value of the signals
  \* history
  asked,   \* the last value of each signal that was encoded
  age      \* time since a periodic PDU was last transmitted, from before its phase

vars == << bus, written, now, turn, phys, tx, sched, wire, rx, asked, age >>

NoChecksum == << >>
Blank(p) == [ i \in 1 .. Network[p].length |-> 0 ]

(***************************************************************************)
(* Schedule: phase and interval normalised to schedule steps.              *)
(***************************************************************************)

\* The division of doubles has no epsilon (0.0215 / 0.0005 = 42.99999999999999):
\* of some times it loses a step, toward zero.
Lost(t) == IF t \in ShortTimes THEN StepSize
           ELSE IF -t \in ShortTimes THEN -StepSize ELSE 0

WholeSteps(t) == Truncated(t - Lost(t), StepSize)

Interval ==
  [ p \in Pdus |->
      IF Network[p].interval > 0 THEN WholeSteps(Network[p].interval) ELSE 0 ]

Phase ==
  [ p \in Pdus |->
      LET steps == WholeSteps(Network[p].phase) IN
      IF Network[p].phase = 0 \/ Interval[p] = 0 THEN 0
      ELSE Interval[p] + (IF steps > 0 THEN steps % Interval[p]
                                       ELSE -((-steps) % Interval[p])) ]

\* The PDU has no schedule, or its schedule fires at this time.
Fires(p, time, epoch) ==
  LET base == epoch + Phase[p] IN
  \/ Interval[p] = 0
  \/ /\ base >= 0
     /\ time >= base
     /\ (time - base) % Interval[p] = 0

\* The signals of the PDU are calculated.
Calculated(p, time, epoch) == ~IsContainer(p) /\ Fires(p, time, epoch)

\* A periodic PDU is transmitted when its schedule fires, changed or not.
Forced(p, time, epoch) ==
  /\ Interval[p] # 0
  /\ Network[p].trigger = "Periodic"
  /\ Calculated(p, time, epoch)

\* Mutant: a periodic PDU waits for a change.
ScheduleUnforced(t, time, epoch) ==
  [ t EXCEPT !.needs =
      [ p \in Pdus |-> @[p] \/ (IsContainer(p) /\ Fires(p, time, epoch)) ] ]

Schedule(t, time, epoch) ==
  [ t EXCEPT
      !.sum = [ p \in Pdus |-> IF Forced(p, time, epoch) THEN NoChecksum ELSE @[p] ],
      !.needs = [ p \in Pdus |-> @[p] \/ (IsContainer(p) /\ Fires(p, time, epoch)) ] ]

(***************************************************************************)
(* Encoding and change detection.                                          *)
(***************************************************************************)

\* The payload with its signals packed in the order of the matrix.
PackedSignals(payload, p, raw) ==
  LET order == PackOrder[p]
      packed[i \in 0 .. Len(order)] ==
        IF i = 0 THEN payload
        ELSE Packed(packed[i - 1], ChunksOf[order[i]], raw[order[i]])
  IN packed[Len(order)]

\* The values [phys, raw] of the signals after their encoding.
Coded(values, raws, time, epoch) ==
  [ s \in Signals |->
      LET v == [ phys |-> values[s], raw |-> raws[s] ] IN
      IF Calculated(Encoding[s].pdu, time, epoch) THEN Encoded(Encoding[s], v) ELSE v ]

Encode(t, coded) ==
  LET raws == [ s \in Signals |-> coded[s].raw ] IN
  [ t EXCEPT !.raw = raws,
             !.payload = [ p \in Pdus |-> PackedSignals(@[p], p, raws) ] ]

\* A tx function in Lua: "stamp" writes a check byte at the end of the
\* payload, "filter" rejects the PDU (the PDUs of rejected).
Stamped(p, payload) ==
  IF Network[p].tx = "stamp"
  THEN [ payload EXCEPT ![Len(payload)] = 255 - payload[1] ] ELSE payload

CallTxFunc(t, p, rejected) ==
  IF ~t.needs[p] THEN t
  ELSE IF p \in rejected THEN [ t EXCEPT !.needs[p] = FALSE ]
  ELSE [ t EXCEPT !.payload[p] = Stamped(p, @) ]

\* Of a PDU whose payload changed the checksum is kept and the tx function
\* called; for an I-PDU both are done when it is mapped into its container.
\* Mutant: the checksum of an I-PDU is kept before the I-PDU is mapped.
NeedsTxKeepsChecksum(t, p, rejected) ==
  LET changed == t.payload[p] # t.sum[p]
      kept == [ t EXCEPT !.needs[p] = changed, !.sum[p] = t.payload[p] ]
  IN IF IsContainer(p) THEN t
     ELSE IF ~changed \/ IsContained(p) THEN kept
     ELSE CallTxFunc(kept, p, rejected)

NeedsTx(t, p, rejected) ==
  LET changed == t.payload[p] # t.sum[p] IN
  IF IsContainer(p) THEN t
  ELSE IF ~changed \/ IsContained(p) THEN [ t EXCEPT !.needs[p] = changed ]
  ELSE CallTxFunc([ t EXCEPT !.needs[p] = TRUE, !.sum[p] = t.payload[p] ],
                  p, rejected)

(***************************************************************************)
(* Container PDUs.                                                         *)
(***************************************************************************)

HeaderLength(c) == CASE Network[c].header = "Short" -> 4
                     [] Network[c].header = "Full" -> 8
                     [] OTHER -> 0

Header(c, p) ==
  LET id == Network[p].id
      len == Network[p].length
      bytes(n, k) == [ i \in 1 .. k |-> Field(n, 8 * (k - i), 8) ]
  IN CASE Network[c].header = "Short" -> bytes(id, 3) \o bytes(len, 1)
       [] Network[c].header = "Full" -> bytes(id, 4) \o bytes(len, 4)
       [] OTHER -> << >>

\* Mutant: the I-PDU of least priority comes first.
PduListReversed ==
  [ c \in Pdus |->
      SetToSortSeq({ p \in Pdus : IsContained(p) /\ ContainerOf[p] = c },
                   LAMBDA p, q : Network[p].priority > Network[q].priority) ]

\* I-PDUs of each container by priority.
PduList ==
  [ c \in Pdus |->
      SetToSortSeq({ p \in Pdus : IsContained(p) /\ ContainerOf[p] = c },
                   LAMBDA p, q : Network[p].priority < Network[q].priority) ]

\* Mutant: an I-PDU that found no room keeps its checksum.
MapIPduForgets(m, c, p, rejected) ==
  LET tried == CallTxFunc([ m.t EXCEPT !.sum[p] = m.t.payload[p] ], p, rejected)
  IN IF ~m.t.needs[p] THEN m
     ELSE IF Network[p].length + HeaderLength(c) > Network[c].length - Len(m.body)
     THEN [ m EXCEPT !.t.needs[p] = FALSE, !.t.sum[p] = m.t.payload[p] ]
     ELSE IF ~tried.needs[p] THEN [ m EXCEPT !.t = tried ]
     ELSE [ body |-> m.body \o Header(c, p) \o tried.payload[p],
            t |-> [ tried EXCEPT !.needs[c] = TRUE, !.needs[p] = FALSE ] ]

\* One turn of the loop over the I-PDUs; body is what has been mapped so far.
MapIPdu(m, c, p, rejected) ==
  LET room == Network[c].length - Len(m.body)
      tried == CallTxFunc([ m.t EXCEPT !.sum[p] = m.t.payload[p] ], p, rejected)
  IN IF ~m.t.needs[p] THEN m
     ELSE IF Network[p].length + HeaderLength(c) > room
     THEN [ m EXCEPT !.t.needs[p] = FALSE, !.t.sum[p] = NoChecksum ]
     ELSE IF ~tried.needs[p] THEN [ m EXCEPT !.t = tried ]
     ELSE [ body |-> m.body \o Header(c, p) \o tried.payload[p],
            t |-> [ tried EXCEPT !.needs[c] = TRUE, !.needs[p] = FALSE ] ]

MapToContainer(t, c, rejected) ==
  LET list == PduList[c]
      mapped[i \in 0 .. Len(list)] ==
        IF i = 0 THEN [ body |-> << >>, t |-> [ t EXCEPT !.needs[c] = FALSE ] ]
        ELSE MapIPdu(mapped[i - 1], c, list[i], rejected)
      m == mapped[Len(list)]
      padded == [ i \in 1 .. Network[c].length |->
                    IF i <= Len(m.body) THEN m.body[i] ELSE 0 ]
  IN IF ~IsContainer(c) \/ ~t.needs[c] THEN t
     ELSE CallTxFunc([ m.t EXCEPT !.payload[c] = padded ], c, rejected)

\* The I-PDUs in a received container: <<[id, body], ...>>.
Mapped(c, payload) ==
  LET h == HeaderLength(c)
      idBytes == IF Network[c].header = "Short" THEN 3 ELSE 4
      number(from, to) ==
        LET n[i \in from - 1 .. to] ==
              IF i < from THEN 0 ELSE 256 * n[i - 1] + payload[i]
        IN n[to]
      entries[o \in 0 .. Len(payload)] ==
        IF h = 0 \/ o + h > Len(payload) THEN << >>
        ELSE LET id == number(o + 1, o + idBytes)
                 len == number(o + idBytes + 1, o + h)
             IN IF id = 0 \/ o + h + len > Len(payload) THEN << >>
                ELSE << [ id |-> id, body |-> SubSeq(payload, o + h + 1, o + h + len) ] >>
                       \o entries[o + h + len]
  IN entries[0]

(***************************************************************************)
(* One step of the sender.                                                 *)
(***************************************************************************)

Tick(time) == time \div StepSize

\* The L-PDUs that are written to the NCodec.
LPduTx(t) ==
  LET sent == SelectSeq(TxOrder, LAMBDA p : ~IsContained(p) /\ t.needs[p])
  IN [ frames |-> [ i \in DOMAIN sent |->
                      [ id |-> Network[sent[i]].id, payload |-> t.payload[sent[i]] ] ],
       t |-> [ t EXCEPT !.needs = [ p \in Pdus |-> @[p] /\ IsContained(p) ] ] ]

PduNetTx(t, coded, time, epoch, rejected) ==
  LET visited[i \in 0 .. Len(TxOrder)] ==
        IF i = 0 THEN Encode(Schedule(t, time, epoch), coded)
        ELSE NeedsTx(visited[i - 1], TxOrder[i], rejected)
      mapped[i \in 0 .. Len(TxOrder)] ==
        IF i = 0 THEN visited[Len(TxOrder)]
        ELSE MapToContainer(mapped[i - 1], TxOrder[i], rejected)
  IN LPduTx(mapped[Len(TxOrder)])

\* The bus reports its cycle, of which only the change matters.
BusCycle(time) == (time \div CycleTime) % 2

\* A new cycle moves the epoch to the position of the schedule in the cycle,
\* at the time of the last pdunet_tx.
EpochShift ==
  IF bus = "flexray" /\ BusCycle(now) # sched.cycle
  THEN [ sched EXCEPT !.cycle = BusCycle(now),
                      !.epoch = sched.time % WholeSteps(CycleTime) ]
  ELSE sched

Init ==
  /\ bus \in Buses
  /\ written \in Writers
  /\ now = 0
  /\ turn = "send"
  /\ phys = [ s \in Signals |-> 0 ]
  \* The checksums are those of the blank payloads (modelc_model_create).
  /\ tx = [ raw |-> [ s \in Signals |-> 0 ],
            payload |-> [ p \in Pdus |-> Blank(p) ],
            needs |-> [ p \in Pdus |-> FALSE ],
            sum |-> [ p \in Pdus |-> Blank(p) ] ]
  /\ sched = [ time |-> 0, epoch |-> WholeSteps(EpochOffset), cycle |-> 0 ]
  /\ wire = << >>
  /\ rx = [ payload |-> [ p \in Pdus |-> Blank(p) ], phys |-> [ s \in Signals |-> 0 ] ]
  /\ asked = [ s \in Signals |-> 0 ]
  /\ age = [ p \in Pdus |->
               StepSize * (Interval[p] - Phase[p] - sched.epoch) - SimStep ]

Alternate == turn' = IF turn = "send" THEN "receive" ELSE "send"

\* The model changes at most one signal in a step.
Writes == {phys} \union UNION { { [ phys EXCEPT ![s] = v ] : v \in Values[s] } :
                                s \in written }

Folded(time) == IF time >= Settled + HyperPeriod THEN time - HyperPeriod ELSE time

IsSent(p, frames) == \E i \in DOMAIN frames : frames[i].id = Network[p].id

Send ==
  /\ turn = "send"
  /\ Alternate
  /\ sched' = [ EpochShift EXCEPT !.time = Tick(now) ]
  /\ \E values \in Writes, rejected \in SUBSET { p \in Pdus : Network[p].tx = "filter" } :
       LET coded == Coded(values, tx.raw, Tick(now), EpochShift.epoch)
           sent == PduNetTx(tx, coded, Tick(now), EpochShift.epoch, rejected)
       IN /\ phys' = [ s \in Signals |-> coded[s].phys ]
          /\ tx' = sent.t
          /\ wire' = sent.frames
  /\ asked' = [ s \in Signals |->
                  IF /\ Calculated(Encoding[s].pdu, Tick(now), EpochShift.epoch)
                     /\ InRange(Encoding[s], phys'[s])
                  THEN phys'[s] ELSE asked[s] ]
  /\ age' = [ p \in Pdus |->
                IF Network[p].trigger # "Periodic" THEN age[p]
                ELSE IF IsSent(p, wire') THEN 0
                ELSE Min({age[p] + SimStep, HyperPeriod}) ]
  /\ now' = Folded(now + SimStep)
  /\ UNCHANGED << bus, written, rx >>

(***************************************************************************)
(* One step of the receiver.  refused are the PDUs whose rx function in    *)
(* Lua discards them: on FlexRay those on the bus, and on both those in a  *)
(* container (the rx function of a PDU on CAN is not called).              *)
(***************************************************************************)

Received(refused) ==
  [ p \in Pdus |->
      LET frames == SelectSeq(wire, LAMBDA f : f.id = Network[p].id) IN
      IF IsContained(p) \/ frames = << >> \/ (bus = "flexray" /\ p \in refused)
      THEN rx.payload[p] ELSE Last(frames).payload ]

MapFromContainer(payloads, c, refused) ==
  LET entries == Mapped(c, payloads[c])
      found(p) == SelectSeq(entries, LAMBDA e : e.id = Network[p].id)
      copied(p, body) == [ i \in DOMAIN payloads[p] |->
                             IF i <= Len(body) THEN body[i] ELSE payloads[p][i] ]
  IN [ p \in Pdus |->
         IF p \in ToSet(PduList[c]) \ refused /\ found(p) # << >>
         THEN copied(p, Last(found(p)).body) ELSE payloads[p] ]

\* Containers that have been received (update_signals).
Updated(refused) ==
  SelectSeq(TxOrder, LAMBDA c : /\ IsContainer(c) /\ IsSent(c, wire)
                                /\ ~(bus = "flexray" /\ c \in refused))

Receive ==
  /\ turn = "receive"
  /\ Alternate
  /\ \E refused \in SUBSET { p \in Pdus : Network[p].rx = "filter" } :
       LET boxes == Updated(refused)
           mapped[i \in 0 .. Len(boxes)] ==
             IF i = 0 THEN Received(refused)
             ELSE MapFromContainer(mapped[i - 1], boxes[i], refused)
           payloads == mapped[Len(boxes)]
       IN rx' = [ payload |-> payloads,
                  phys |-> [ s \in Signals |->
                     Decoded(Encoding[s],
                             [ phys |-> rx.phys[s],
                               raw |-> Unpacked(payloads[Encoding[s].pdu], ChunksOf[s]) ]).phys ] ]
  /\ wire' = << >>
  /\ UNCHANGED << bus, written, now, phys, tx, sched, asked, age >>

Next == Send \/ Receive

\* Every step of the simulation is followed by the next one (module LockStep).
Spec == Init /\ [][Next]_vars /\ WF_turn(Alternate)

-----------------------------------------------------------------------------

\* The PDU, and the container it travels in, pass no filter.
Unfiltered(p) ==
  \A q \in {p} \union (IF IsContained(p) THEN {ContainerOf[p]} ELSE {}) :
    Network[q].tx # "filter" /\ Network[q].rx # "filter"

\* A PDU that passes no filter is at the receiver as it is at the sender, or
\* the sender's checksum says that it still has to be transmitted: an I-PDU
\* that found no room in its container, or waits for the container's schedule,
\* is never forgotten (pdunet_visit_needs_tx, pdunet_visit_container_mapto).
NoUpdateLost ==
  turn = "send" =>
    \A p \in Pdus : Unfiltered(p) /\ ~IsContainer(p) =>
      \/ rx.payload[p] = tx.payload[p]
      \/ (IsContained(p) /\ tx.sum[p] # tx.payload[p])

\* After the exchange a signal of a PDU that is not contained has the value
\* the sender last encoded, to within one factor and never above: linear
\* transform, packing, transmission, unpacking and the transform back lose no
\* more (pdunet_pdu_calculate_linear_range, pdunet_pdu_pack_range).
WithinResolution ==
  turn = "send" /\ now # 0 =>
    \A s \in Signals :
      LET e == Encoding[s] IN
      Unfiltered(e.pdu) /\ ~IsContained(e.pdu) =>
        rx.phys[s] \in asked[s] - e.factor .. asked[s]

\* An I-PDU is passed over in a container only where the I-PDUs of higher
\* priority that were mapped leave no room for it
\* (the order of pdunet_visit_container_mapto).
PriorityKept ==
  [][ \A c \in Pdus : turn = "send" /\ IsContainer(c) /\ IsSent(c, wire') =>
        LET frame == ChooseUnique(ToSet(wire'), LAMBDA f : f.id = Network[c].id)
            ids == { e.id : e \in ToSet(Mapped(c, frame.payload)) }
            list == { p \in Pdus : IsContained(p) /\ ContainerOf[p] = c }
            size(p) == Network[p].length + HeaderLength(c)
        IN \A p \in list :
             tx'.sum[p] = NoChecksum /\ tx.sum[p] # NoChecksum =>
               size(p) + MapThenSumSet(size,
                           { q \in list : /\ Network[q].id \in ids
                                          /\ Network[q].priority < Network[p].priority })
                 > Network[c].length ]_vars

\* "Periodic Schedule: PDU Tx occurs according to the schedule"
\* (pdunet_schedule).  On a network without epoch shifts, a periodic PDU that
\* is on the bus itself and has no tx function is transmitted when its interval
\* has passed since the last transmission, whether its signals have changed or
\* not, and at no other time; its transmissions keep the phase and the offset
\* of the network.  A time in whole steps whose quotient by the step size falls
\* short is a step shorter than it was configured (pdunet_matrix_transform).
PeriodicOnTime ==
  [][ turn = "send" /\ bus = "can" /\ SimStep = StepSize =>
        \A p \in Pdus :
          LET lasts(t) == t - Lost(t)
              interval == lasts(Network[p].interval)
              start == lasts(EpochOffset) + lasts(Network[p].phase)
          IN /\ Network[p].trigger = "Periodic" /\ Network[p].tx = "none"
             /\ ~IsContained(p) /\ interval > 0
             /\ \A t \in {Network[p].interval, Network[p].phase, EpochOffset} :
                  t % StepSize = 0
             =>
               /\ IsSent(p, wire') <=> age[p] + SimStep >= interval
               /\ IsSent(p, wire') => (now - start) % interval = 0 ]_vars

\* Every I-PDU gets its place: when the model stops changing signals, the
\* receiver has the sender's payloads for good, however often a container was
\* too small (the checksum that is cleared in pdunet_visit_container_mapto).
AllDelivered ==
  <>[][ phys' = phys ]_vars =>
    <>[](turn = "send" => \A p \in Pdus :
           Unfiltered(p) /\ ~IsContainer(p) => rx.payload[p] = tx.payload[p])
=============================================================================
