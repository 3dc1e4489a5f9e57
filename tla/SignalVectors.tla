--------------------------- MODULE SignalVectors ---------------------------
(***************************************************************************)
(* The signals as a model works with them: the channels of its model       *)
(* function, which the controller marshals to and from the adapter.  A     *)
(* link has some of the scalar signals of its channel, and the one binary  *)
(* signal of a channel of binary data that goes with it.  Signals have no  *)
(* signal_transform.  Payloads are told apart by their writer and a number.*)
(***************************************************************************)
EXTENDS Topology

CONSTANTS
  Signals, SignalsOf, Values,     \* see SharedSignals
  MaxPayloads                     \* MaxPayloads[l], bound: payloads appended
                                  \* by the model of link l

VARIABLES
  scalar,        \* scalar[l][x]: ModelFunctionChannel.signal_value_double
  binary,        \* binary[l]: ModelFunctionChannel.signal_value_binary
  reset,         \* reset[l]: signal_value_binary_reset_called
  count          \* count[l]: payloads appended so far

functionVars == <<scalar, binary, reset, count>>

AllLinks == UNION {LinksOf(s) : s \in Sims}

Known(c) == UNION {SignalsOf[l] : l \in ChannelLinks(c)}

ASSUME SignalsAssumption ==
  /\ 0 \in Values
  /\ SignalsOf \in [AllLinks -> SUBSET Signals]
  /\ MaxPayloads \in [AllLinks -> Nat]

Zeros == [l \in AllLinks |-> [x \in SignalsOf[l] |-> 0]]

FunctionsInit ==
  /\ binary = [l \in AllLinks |-> << >>]
  /\ reset = [l \in AllLinks |-> FALSE]
  /\ count = [l \in AllLinks |-> 0]

-----------------------------------------------------------------------------
\* What a step function, or model_create before the first step, may do.

WriteScalar(s) ==
  /\ \E l \in LinksOf(s) : \E x \in SignalsOf[l], v \in Values :
       scalar' = [scalar EXCEPT ![l][x] = v]
  /\ UNCHANGED <<binary, reset, count>>

\* signal_reset; also what an NCodec does before it writes.
ResetBinary(s) ==
  /\ \E l \in LinksOf(s) :
       /\ MaxPayloads[l] > 0
       /\ binary' = [binary EXCEPT ![l] = << >>]
       /\ reset' = [reset EXCEPT ![l] = TRUE]
  /\ UNCHANGED <<scalar, count>>

\* signal_append: without a reset it is an error, but the data is appended.
AppendBinary(s) ==
  /\ \E l \in LinksOf(s) :
       /\ count[l] < MaxPayloads[l]
       /\ count' = [count EXCEPT ![l] = @ + 1]
       /\ binary' = [binary EXCEPT ![l] = Append(@, <<l, count'[l]>>)]
  /\ UNCHANGED <<scalar, reset>>

StepFunction(s) == WriteScalar(s) \/ ResetBinary(s) \/ AppendBinary(s)

-----------------------------------------------------------------------------
\* The controller.

\* Mutant: what the model was given and did not reset is sent back.
Echoed(l) == binary[l]

\* __marshal__model2adapter drops the data of a model that did not reset.
Marshalled(l) == IF reset[l] THEN binary[l] ELSE << >>

\* The rest of __marshal__model2adapter: the data is consumed.
MarshalOut(s) ==
  /\ binary' = [l \in AllLinks |->
                  IF l \in LinksOf(s) THEN << >> ELSE binary[l]]
  /\ UNCHANGED <<scalar, reset, count>>

\* __marshal__adapter2model, with values and data of the adapter's signals.
MarshalIn(s, values, data) ==
  LET Mine(l) == l \in LinksOf(s)
  IN /\ scalar' = [l \in AllLinks |-> IF Mine(l) THEN values[l] ELSE scalar[l]]
     /\ binary' = [l \in AllLinks |->
                     IF Mine(l) THEN binary[l] \o data[l] ELSE binary[l]]
     /\ reset' = [l \in AllLinks |-> IF Mine(l) THEN FALSE ELSE reset[l]]
     /\ UNCHANGED count
=============================================================================
