-------------------------- MODULE SequentialCosim --------------------------
(***************************************************************************)
(* step.c with sequential_cosim: sim_step_models merges the values of the  *)
(* stacked models, which each have SignalValues of their own, forward      *)
(* before and backward after the steps.  The merges go over the index of   *)
(* a channel, and look signals up with a function that creates those that  *)
(* are missing, and invalidates the index.  The exchange with the SimBus   *)
(* is that of SignalExchange for a process alone.                          *)
(***************************************************************************)
EXTENDS Integers, Sequences

CONSTANTS Count, Channels, Signals, Values, SignalsOf     \* see SequentialSteps

VARIABLES
  turn,          \* the model sim_step_models steps next, Count + 1 for the
                 \* merge backward, Count + 2 for the exchange
  val, final,    \* val[i][c][x], final[i][c][x]: SignalValue of the adapter
  names,         \* names[i][c]: the keys of Channel.signal_values
  valid,         \* valid[i][c]: Channel.index is not invalidated
  bus,           \* bus[c][x]: SignalValue of the SimBus
  seen           \* history: the values that model i was stepped with

adapterVars == <<val, final, names, valid>>
vars == <<turn, adapterVars, bus, seen>>

Instances == 1..Count

ASSUME SequentialAssumption ==
  /\ Count \in Nat \ {0}
  /\ 0 \in Values
  /\ SignalsOf \in [Instances -> [Channels -> SUBSET Signals]]

HasChannel(i, c) == SignalsOf[i][c] # {}

Init ==
  /\ turn = 1
  /\ val = [i \in Instances |-> [c \in Channels |-> [x \in Signals |-> 0]]]
  /\ final = val
  /\ names = SignalsOf
  /\ valid = [i \in Instances |-> [c \in Channels |-> TRUE]]
  /\ bus = [c \in Channels |-> [x \in Signals |-> 0]]
  /\ seen = [i \in Instances |-> [c \in Channels |-> [x \in SignalsOf[i][c] |-> 0]]]

-----------------------------------------------------------------------------
\* The state of the adapter, as the merges hand it on.
Adapter == [val |-> val, final |-> final, names |-> names, valid |-> valid]

SetAdapter(a) ==
  val' = a.val /\ final' = a.final /\ names' = a.names /\ valid' = a.valid

\* The signals that a loop over the index of channel c of a model visits.
Indexed(a, i, c) ==
  IF HasChannel(i, c) /\ a.valid[i][c] THEN a.names[i][c] ELSE {}

\* The signals of c that a merge from source to target visits.
Merged(a, source, target, c) ==
  IF HasChannel(source, c) THEN Indexed(a, target, c) ELSE {}

\* What the look ups of a merge do to the source.
LookUp(a, source, target) ==
  [a EXCEPT
     !.names[source] = [c \in Channels |-> @[c] \cup Merged(a, source, target, c)],
     !.valid[source] = [c \in Channels |->
                          @[c] /\ Merged(a, source, target, c)
                                    \subseteq a.names[source][c]]]

\* The final values of the source where a merge visits them, else the old ones.
Copied(a, source, target, old) ==
  [c \in Channels |->
     [x \in Signals |-> IF x \in Merged(a, source, target, c)
                        THEN a.final[source][c][x] ELSE old[c][x]]]

\* _merge_forward_mf and _merge_backward_mf: one source to one target.
Forward(a, source, target) ==
  [LookUp(a, source, target) EXCEPT !.val[target] = Copied(a, source, target, @)]

Backward(a, source, target) ==
  [LookUp(a, source, target) EXCEPT !.final[target] = Copied(a, source, target, @)]

\* Mutant: the merge is linear, from the model before.
MergeLinear(i) == IF i = 1 THEN Adapter ELSE Forward(Adapter, i - 1, i)

\* _merge_scalar_signals_forward, from all models before.
MergeForward(i) ==
  LET merged[k \in 0..i-1] == IF k = 0 THEN Adapter ELSE Forward(merged[k - 1], k, i)
  IN merged[i - 1]

\* _merge_scalar_signals_backward, from all models but the target.
MergeBackward(a, i) ==
  LET merged[k \in 0..Count] == IF k = 0 THEN a
                                ELSE IF k = i THEN merged[k - 1]
                                ELSE Backward(merged[k - 1], k, i)
  IN merged[Count]

\* The loop over the targets of the merge backward.
Backwards ==
  LET merged[i \in 0..Count] == IF i = 0 THEN Adapter
                                ELSE MergeBackward(merged[i - 1], i)
  IN merged[Count]

-----------------------------------------------------------------------------
\* One turn of the loop of sim_step_models: merge, marshal the scalars in,
\* step_model with any outcome, marshal them out.
StepInstance(i) ==
  /\ turn = i
  /\ turn' = i + 1
  /\ LET a == MergeForward(i)
     IN /\ seen' = [seen EXCEPT ![i] = [c \in Channels |->
                      [x \in SignalsOf[i][c] |-> a.val[i][c][x]]]]
        /\ \E written \in [Channels -> [Signals -> Values]] :
             /\ \A c \in Channels : \A x \in Signals \ SignalsOf[i][c] :
                  written[c][x] = a.final[i][c][x]
             /\ SetAdapter([a EXCEPT !.final[i] = written])
  /\ UNCHANGED bus

\* The rest of sim_step_models.
MergeAll ==
  /\ turn = Count + 1
  /\ turn' = Count + 2
  /\ SetAdapter(Backwards)
  /\ UNCHANGED <<bus, seen>>

\* Mutant: all models have the last value, so the last model sends it.
LastSender(c, x) ==
  {i \in {Count} : x \in SignalsOf[i][c] /\ val[i][c][x] # final[i][c][x]}

\* The models that send signal x of c in ModelReady: notify_encode_sv skips
\* signals that were created by a merge, they have no uid.
Senders(c, x) ==
  {i \in Instances : x \in SignalsOf[i][c] /\ val[i][c][x] # final[i][c][x]}

\* ModelReady and ModelStart: the SimBus takes one of the values it is sent,
\* and returns those that have changed.  The indexes are refreshed.
Exchange ==
  /\ turn = Count + 2
  /\ turn' = 1
  /\ bus' \in [Channels -> [Signals -> Values]]
  /\ \A c \in Channels : \A x \in Signals :
       IF Senders(c, x) = {} THEN bus'[c][x] = bus[c][x]
       ELSE \E i \in Senders(c, x) : bus'[c][x] = final[i][c][x]
  /\ LET Told(old) ==
           [i \in Instances |-> [c \in Channels |-> [x \in Signals |->
              IF x \in SignalsOf[i][c] /\ bus'[c][x] # bus[c][x]
              THEN bus'[c][x] ELSE old[i][c][x]]]]
     IN val' = Told(val) /\ final' = Told(final)
  /\ valid' = [i \in Instances |-> [c \in Channels |-> TRUE]]
  /\ UNCHANGED <<names, seen>>

Next == MergeAll \/ Exchange \/ \E i \in Instances : StepInstance(i)

Spec == Init /\ [][Next]_vars

-----------------------------------------------------------------------------
\* The value of signal x on c: that of the last model stepped in this cycle
\* that has it, else that of the bus.
Current(c, x) ==
  LET Stepped == {i \in Instances : i < turn /\ x \in SignalsOf[i][c]}
  IN IF Stepped = {} THEN bus[c][x]
     ELSE final[CHOOSE i \in Stepped : \A j \in Stepped : j <= i][c][x]

\* "Merge signals in the Adapter to the same (last) final_val ... so that the
\* last updated value is the final value" (step.c).
LastUpdateIsFinal ==
  [][turn = Count + 1 =>
       \A i \in Instances : \A c \in Channels : \A x \in SignalsOf[i][c] :
         final'[i][c][x] = Current(c, x)]_vars

\* After the exchange the models start from the values of the bus, although
\* the merges change val, on which the decision to send depends.
BusHasLastValue ==
  turn = 1 => \A i \in Instances : \A c \in Channels : \A x \in SignalsOf[i][c] :
                final[i][c][x] = bus[c][x]

\* Models are stepped on what the models before them have left.
Steps == INSTANCE SequentialSteps WITH
  turn <- IF turn > Count THEN Count + 1 ELSE turn,
  current <- [c \in Channels |-> [x \in Signals |-> Current(c, x)]]

ImplementsSequentialSteps == Steps!StepsSpec
=============================================================================
