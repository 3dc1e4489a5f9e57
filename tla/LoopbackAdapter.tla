-------------------------- MODULE LoopbackAdapter --------------------------
(***************************************************************************)
(* adapter_loopb.c: the bus inside of one process.  A channel is a vector  *)
(* of slots, one for each signal name; each SignalValue of a model caches  *)
(* the slot of its name.  The calls of controller_step are one action      *)
(* each: marshal, ready, start with marshal; the models step in between.   *)
(* controller_step begins a cycle with marshal, controller_step_phased,    *)
(* which model_runtime.c uses, with start.                                 *)
(***************************************************************************)
EXTENDS SignalVectors, SequencesExt

CONSTANTS
  Bin,           \* the name of the binary signal of a channel
  Modes,         \* the modes below that are possible
  CreateValues   \* values that model_create gives to signals

VARIABLES
  mode,          \* mode.direct: the channels have a direct index, their slots
                 \* are given; mode.phased: SimulationSpec.mode_loopback
  stage,         \* "register", "first" (the first start if phased), "step",
                 \* "marshalled" or "ready"
  registered,    \* the models whose adapter_loopb_register has returned
  slots,         \* slots[c]: SimbusVector.signal, the names by position
  slotScalar,    \* slotScalar[c][i]: SimbusVector.scalar
  slotData,      \* slotData[c][i]: SimbusVector.binary
  index,         \* index[l][x]: SignalValue.vector_index, from 1
  val, final,    \* val[l][x], final[l][x]: SignalValue of the adapter
  bin,           \* bin[l]: SignalValue.bin of the signal Bin
  out, got       \* history: payloads of channel c that left a model, that
                 \* link l was given

vectorVars == <<slots, slotScalar, slotData>>
adapterVars == <<index, val, final, bin>>
vars == <<functionVars, mode, stage, registered, vectorVars, adapterVars, out, got>>

ASSUME LoopbackAssumption ==
  /\ \E s \in Sims : Sims = {s}
  /\ Bin \notin Signals
  /\ CreateValues \subseteq Values
  /\ Modes \subseteq [direct : BOOLEAN, phased : BOOLEAN]

Host == CHOOSE s \in Sims : TRUE

Names(l) == SignalsOf[l] \cup {Bin}

\* The slot of a name, simbus_vector_lookup.
Slot(c, x) == CHOOSE i \in DOMAIN slots[c] : slots[c][i] = x

\* The orders in which set_to_array may list a hash set.
Orders(S) ==
  {f \in [1..Cardinality(S) -> S] :
     ToSet(f) = S /\ \A i, j \in DOMAIN f : f[i] = f[j] => i = j}

\* _generate_vector: all slots are new and empty.  The hash set lists the
\* same names in the same order, but any names in an order of its own.
Generate(names) ==
  /\ \E order \in [Channels -> UNION {Orders(names[c]) : c \in Channels}] :
       /\ \A c \in Channels :
            IF names[c] = ToSet(slots[c]) THEN order[c] = slots[c]
                                          ELSE order[c] \in Orders(names[c])
       /\ slots' = order
  /\ slotScalar' = [c \in Channels |-> [i \in DOMAIN slots'[c] |-> 0]]
  /\ slotData' = [c \in Channels |-> [i \in DOMAIN slots'[c] |-> << >>]]

AllNames == [c \in Channels |-> UNION {Names(l) : l \in ChannelLinks(c)}]

Init ==
  /\ FunctionsInit
  /\ mode \in Modes
  /\ scalar \in [AllLinks -> UNION {[SignalsOf[l] -> CreateValues] : l \in AllLinks}]
  /\ \A l \in AllLinks : DOMAIN scalar[l] = SignalsOf[l]
  /\ stage = "register"
  /\ registered = {}
  /\ slots \in [Channels -> IF mode.direct THEN UNION {Orders(AllNames[c]) : c \in Channels}
                                           ELSE {<< >>}]
  /\ mode.direct => \A c \in Channels : slots[c] \in Orders(AllNames[c])
  /\ slotScalar = [c \in Channels |-> [i \in DOMAIN slots[c] |-> 0]]
  /\ slotData = [c \in Channels |-> [i \in DOMAIN slots[c] |-> << >>]]
  /\ index = [l \in AllLinks |-> [x \in Names(l) |-> 1]]
  /\ val = Zeros
  /\ final = Zeros
  /\ bin = [l \in AllLinks |-> << >>]
  /\ out = [c \in Channels |-> {}]
  /\ got = [l \in AllLinks |-> << >>]

-----------------------------------------------------------------------------
LinksOfModel(m) == {l \in AllLinks : l.model = m}

\* adapter_loopb_register: the names of the model are added, the vectors are
\* generated anew, unless they are given, and its slots are looked up.  A name
\* without a slot, as a direct index may leave one out, is skipped: its index
\* stays that of the first slot.
Register(m) ==
  /\ stage = "register"
  /\ m \notin registered
  /\ \E i \in DOMAIN Links[Host] :
       /\ Links[Host][i].model = m
       /\ \A j \in 1..i-1 : Links[Host][j].model \in registered
  /\ IF mode.direct THEN UNCHANGED vectorVars
     ELSE Generate([c \in Channels |->
            ToSet(slots[c]) \cup
              UNION {Names(l) : l \in LinksOfModel(m) \cap ChannelLinks(c)}])
  /\ index' = [l \in AllLinks |->
                 IF l.model = m
                 THEN [x \in Names(l) |-> IF x \in ToSet(slots'[l.channel])
                                          THEN Slot(l.channel, x)' ELSE index[l][x]]
                 ELSE index[l]]
  /\ registered' = registered \cup {m}
  /\ stage' = IF registered' # ModelsOf(Host) THEN stage
              ELSE IF mode.phased THEN "first" ELSE "step"
  /\ UNCHANGED <<functionVars, mode, val, final, bin, out, got>>

StepModel ==
  /\ stage = "step"
  /\ StepFunction(Host)
  /\ UNCHANGED <<mode, stage, registered, vectorVars, adapterVars, out, got>>

\* marshal with MARSHAL_MODEL2ADAPTER.
Marshal ==
  /\ stage = "step"
  /\ stage' = "marshalled"
  /\ final' = scalar
  /\ bin' = [l \in AllLinks |-> bin[l] \o Marshalled(l)]
  /\ MarshalOut(Host)
  /\ out' = [c \in Channels |->
               out[c] \cup UNION {ToSet(Marshalled(l)) : l \in ChannelLinks(c)}]
  /\ UNCHANGED <<mode, registered, vectorVars, index, val, got>>

\* Mutant: a slot takes the value of every model, changed or not.
AnyValue(l, i) == {x \in SignalsOf[l] : index[l][x] = i}

\* The signals of a link that have slot i and another value than at the start.
Changed(l, i) == {x \in SignalsOf[l] : index[l][x] = i /\ val[l][x] # final[l][x]}

\* ready_update_sv for the channel of one link: its scalar signals and its
\* binary signal.
PublishScalar(bus, l) ==
  [bus EXCEPT ![l.channel] =
     [i \in DOMAIN @ |-> IF Changed(l, i) = {} THEN @[i]
                         ELSE final[l][CHOOSE x \in Changed(l, i) : TRUE]]]

PublishData(bus, l) ==
  [bus EXCEPT ![l.channel][index[l][Bin]] = @ \o bin[l]]

\* Mutant: the data of the last cycle stays in its slot.
StaleData == slotData

\* _resolve_bus: the data of the last cycle is dropped.
ResolvedData == [c \in Channels |-> [i \in DOMAIN slots[c] |-> << >>]]

\* The bus after ready_update_sv of the links in this order.
PublishedScalar(links) ==
  LET bus[k \in 0..Len(links)] ==
        IF k = 0 THEN slotScalar ELSE PublishScalar(bus[k - 1], links[k])
  IN bus[Len(links)]

PublishedData(links) ==
  LET bus[k \in 0..Len(links)] ==
        IF k = 0 THEN ResolvedData ELSE PublishData(bus[k - 1], links[k])
  IN bus[Len(links)]

\* adapter_loopb_model_ready, the models in the order of a hash map.
Ready ==
  /\ stage = "marshalled"
  /\ stage' = "ready"
  /\ \E links \in Orders(LinksOf(Host)) :
       /\ slotScalar' = PublishedScalar(links)
       /\ slotData' = PublishedData(links)
  /\ bin' = [l \in AllLinks |-> << >>]
  /\ UNCHANGED <<functionVars, mode, registered, slots, index, val, final, out, got>>

\* adapter_loopb_model_start, then marshal with MARSHAL_ADAPTER2MODEL.
Start ==
  /\ stage \in {"first", "ready"}
  /\ stage' = "step"
  /\ val' = [l \in AllLinks |->
               [x \in SignalsOf[l] |-> slotScalar[l.channel][index[l][x]]]]
  /\ final' = val'
  /\ LET data == [l \in AllLinks |-> slotData[l.channel][index[l][Bin]]]
     IN /\ MarshalIn(Host, val', data)
        /\ got' = [l \in AllLinks |-> got[l] \o data[l]]
  /\ UNCHANGED <<mode, registered, vectorVars, index, bin, out>>

Next ==
  \/ \E m \in ModelsOf(Host) : Register(m)
  \/ StepModel
  \/ Marshal
  \/ Ready
  \/ Start

Spec == Init /\ [][Next]_vars

-----------------------------------------------------------------------------
\* The cached slot of a registered signal is the one a look up by its name
\* returns ("Cache these values make the main loops faster by avoiding
\* additional hash_get() calls", adapter_loopb.c).
CachedIndexIsLookup ==
  \A l \in AllLinks : l.model \in registered =>
    \A x \in Names(l) : slots[l.channel][index[l][x]] = x

\* Each payload that left a model was given, once and in one order, to every
\* model of the channel by the time the models step.
StreamsComplete ==
  \A c \in Channels : \A l \in ChannelLinks(c) :
    /\ \A i, j \in DOMAIN got[l] : got[l][i] = got[l][j] => i = j
    /\ \A k \in ChannelLinks(c) : got[l] = got[k]
    /\ stage = "step" => ToSet(got[l]) = out[c]

\* The value of a signal is the one in its slot; before it has a slot, 0.
SharedValues ==
  [c \in Channels |->
     [x \in Known(c) |-> IF x \in ToSet(slots[c]) THEN slotScalar[c][Slot(c, x)] ELSE 0]]

Turn == [s \in Sims |-> IF stage = "marshalled" THEN "offered"
                        ELSE IF stage = "ready" THEN "granted" ELSE "step"]

\* The loopback keeps the promise of the bus.
Shared == INSTANCE SharedSignals WITH
  shared <- SharedValues, view <- scalar, turn <- Turn

ImplementsSharedSignals == Shared!SharedSpec
=============================================================================
