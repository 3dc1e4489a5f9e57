--------------------------- MODULE SignalExchange ---------------------------
(***************************************************************************)
(* The signals carried by ModelReady and ModelStart, for a network that is *)
(* complete and whose signals have their uids (CoSim shows how it comes to *)
(* that).  A scalar is sent only when it has changed, binary data is       *)
(* appended on its way and consumed where it is read.                      *)
(*                                                                         *)
(*   model function          adapter               SimBus                  *)
(*   scalar, binary, reset   val                   busVal, busFinal,busBin *)
(*                                                                         *)
(* The adapter's final_val and binary buffer are no variables: marshalling *)
(* out sets them and encoding uses them in one action, and receiving sets  *)
(* them and marshalling in uses them in another.                           *)
(***************************************************************************)
EXTENDS RedisLists, SignalVectors, SequencesExt

VARIABLES
  waits,         \* waits[s]: s has sent ModelReady and waits for ModelStart
  val,           \* val[l][x]: SignalValue.val of the adapter
  ready,         \* the processes in the ready sets
  busVal,        \* busVal[c][x], busFinal[c][x]: SignalValue of the SimBus
  busFinal,
  busBin,        \* busBin[c]: SignalValue.bin of the SimBus
  out, log, got  \* history: payloads of channel c that left a model, that
                 \* the SimBus resolved, that link l was given

modelVars == <<waits, val, functionVars>>
signalBusVars == <<ready, busVal, busFinal, busBin>>
history == <<out, log, got>>
vars == <<transportVars, modelVars, signalBusVars, history>>

Init ==
  /\ TransportInit
  /\ FunctionsInit
  /\ scalar = Zeros
  /\ waits = [s \in Sims |-> FALSE]
  /\ val = Zeros
  /\ ready = {}
  /\ busVal = [c \in Channels |-> [x \in Known(c) |-> 0]]
  /\ busFinal = busVal
  /\ busBin = [c \in Channels |-> << >>]
  /\ out = [c \in Channels |-> {}]
  /\ log = [c \in Channels |-> << >>]
  /\ got = [l \in AllLinks |-> << >>]

StepModel(s) ==
  /\ ~waits[s]
  /\ StepFunction(s)
  /\ UNCHANGED <<waits, val, signalBusVars, history, transportVars>>

-----------------------------------------------------------------------------
\* controller_step up to ModelReady.

\* notify_encode_sv: the changed scalars and all binary data.
Encode(l) ==
  [link |-> l,
   scalars |-> [x \in {y \in SignalsOf[l] : val[l][y] # scalar[l][y]} |->
                  scalar[l][x]],
   data |-> Marshalled(l)]

SendModelReady(s) ==
  /\ ~waits[s]
  /\ waits' = [waits EXCEPT ![s] = TRUE]
  /\ MarshalOut(s)
  /\ SendToBus([sim |-> s,
                vectors |-> [i \in DOMAIN Links[s] |-> Encode(Links[s][i])]])
  /\ out' = [c \in Channels |->
               out[c] \cup UNION {ToSet(Marshalled(l)) :
                                    l \in {k \in LinksOf(s) : k.channel = c}}]
  /\ UNCHANGED <<val, signalBusVars, log, got, toSim>>

-----------------------------------------------------------------------------
\* process_notify_signalvector for every vector of a message, in order.

\* The vectors of channel c that carry signal x.
Carriers(vectors, c, x) ==
  {i \in DOMAIN vectors :
     vectors[i].link.channel = c /\ x \in DOMAIN vectors[i].scalars}

\* The last one to write a signal wins.
Written(vectors, c, x) ==
  LET W == Carriers(vectors, c, x)
  IN IF W = {} THEN busFinal[c][x]
     ELSE vectors[CHOOSE i \in W : \A j \in W : j <= i].scalars[x]

Appended(vectors, c) ==
  FlattenSeq([i \in DOMAIN vectors |->
                IF vectors[i].link.channel = c THEN vectors[i].data ELSE << >>])

\* Mutant: binary data is sent before that of the last process is appended.
DeltaTooEarly(newFinal, newBin) ==
  [c \in Channels |->
     [scalars |-> [x \in {y \in Known(c) : busVal[c][y] # newFinal[c][y]} |->
                     newFinal[c][x]],
      data |-> busBin[c]]]

\* resolve_and_notify: what has changed on channel c, and all binary data.
Delta(newFinal, newBin) ==
  [c \in Channels |->
     [scalars |-> [x \in {y \in Known(c) : busVal[c][y] # newFinal[c][y]} |->
                     newFinal[c][x]],
      data |-> newBin[c]]]

\* Mutant: the value that was sent is not remembered.
ForgetResolved(newFinal) == busVal

\* resolve_channel.
Resolved(newFinal) == newFinal

HandleModelReady ==
  /\ toBus # << >>
  /\ PopBus
  /\ LET m == Head(toBus)
         newFinal == [c \in Channels |->
                        [x \in Known(c) |-> Written(m.vectors, c, x)]]
         newBin == [c \in Channels |-> busBin[c] \o Appended(m.vectors, c)]
     IN /\ busFinal' = newFinal
        /\ IF ready \cup {m.sim} = Sims
           THEN /\ ready' = {}
                /\ Notify(Sims, Delta(newFinal, newBin))
                /\ busVal' = Resolved(newFinal)
                /\ busBin' = [c \in Channels |-> << >>]
                /\ log' = [c \in Channels |-> log[c] \o newBin[c]]
           ELSE /\ ready' = ready \cup {m.sim}
                /\ busBin' = newBin
                /\ UNCHANGED <<toSim, busVal, log>>
  /\ UNCHANGED <<modelVars, out, got>>

-----------------------------------------------------------------------------
\* Mutant: a value that arrives does not replace the one known before.
NotifiedLate(l, delta) == val[l]

\* Mutant: the signals that did not change are forgotten.
NotifiedOnly(l, delta) ==
  [x \in SignalsOf[l] \cap DOMAIN delta[l.channel].scalars |->
     delta[l.channel].scalars[x]]

\* notify_model: the values of the signals that the model has.
Notified(l, delta) ==
  [x \in SignalsOf[l] |->
     IF x \in DOMAIN delta[l.channel].scalars
     THEN delta[l.channel].scalars[x] ELSE val[l][x]]

\* ModelStart arrives: notify_model, then __marshal__adapter2model.
ReceiveModelStart(s) ==
  /\ waits[s]
  /\ toSim[s] # << >>
  /\ PopSim(s)
  /\ waits' = [waits EXCEPT ![s] = FALSE]
  /\ LET delta == Head(toSim[s])
         mine == LinksOf(s)
     IN /\ val' = [l \in AllLinks |->
                     IF l \in mine THEN Notified(l, delta) ELSE val[l]]
        /\ MarshalIn(s, val', [l \in AllLinks |-> delta[l.channel].data])
        /\ got' = [l \in AllLinks |->
                     IF l \in mine THEN got[l] \o delta[l.channel].data
                                   ELSE got[l]]
  /\ UNCHANGED <<signalBusVars, out, log, toBus>>

Next ==
  \/ HandleModelReady
  \/ \E s \in Sims :
       StepModel(s) \/ SendModelReady(s) \/ ReceiveModelStart(s)

Spec == Init /\ [][Next]_vars

-----------------------------------------------------------------------------
TypeOK ==
  /\ waits \in [Sims -> BOOLEAN]
  /\ \A l \in AllLinks :
       /\ scalar[l] \in [SignalsOf[l] -> Values]
       /\ val[l] \in [SignalsOf[l] -> Values]
       /\ reset[l] \in BOOLEAN
  /\ ready \in SUBSET Sims
  /\ \A c \in Channels :
       /\ busVal[c] \in [Known(c) -> Values]
       /\ busFinal[c] \in [Known(c) -> Values]

\* Only changes are sent, so a value that one participant missed once would
\* never be repeated: every process that steps, or that waits while no
\* ModelStart is on its way, knows each signal as the SimBus does.
Agreement ==
  \A s \in Sims : toSim[s] = << >> =>
    \A l \in LinksOf(s) : \A x \in SignalsOf[l] :
      val[l][x] = busVal[l.channel][x]

\* The models of a channel are given one and the same stream of payloads.
SameStream ==
  \A s \in Sims : \A l \in LinksOf(s) :
    /\ IsPrefix(got[l], log[l.channel])
    /\ ~waits[s] => got[l] = log[l.channel]

Queued(c) == UNION {ToSet(Appended(toBus[i].vectors, c)) : i \in DOMAIN toBus}

\* A payload that left its model is resolved by the SimBus exactly once, in
\* the order of its writer: none is lost, and none comes back as an echo of
\* a model that was given it.
ExactlyOnceInOrder ==
  \A c \in Channels :
    LET stream == log[c] \o busBin[c]
    IN /\ \A i, j \in DOMAIN stream :
            i < j /\ stream[i][1] = stream[j][1] => stream[i][2] < stream[j][2]
       /\ out[c] = ToSet(stream) \cup Queued(c)

-----------------------------------------------------------------------------
\* The exchange of scalars implements one shared value for every signal.
Shared == INSTANCE SharedSignals WITH
  shared <- busVal,
  view <- scalar,
  turn <- [s \in Sims |-> IF ~waits[s] THEN "step"
                          ELSE IF toSim[s] = << >> THEN "offered"
                          ELSE "granted"]

ImplementsSharedSignals == Shared!SharedSpec
=============================================================================
