-------------------------- MODULE SequentialSteps --------------------------
(***************************************************************************)
(* What sequential co-simulation promises to the stacked models of one     *)
(* process: they are stepped one after the other, each on the values as    *)
(* the one before has left them, and the last values go to the bus.        *)
(***************************************************************************)
EXTENDS Integers, Sequences

CONSTANTS
  Count,         \* number of stacked models, in the order of instance_list
  Channels,
  Signals,
  Values,        \* values of a signal, with 0 for the initial one
  SignalsOf      \* SignalsOf[i][c]: scalar signals that model i has on c

VARIABLES
  turn,          \* the model to be stepped, Count + 1 for the exchange
  current,       \* current[c][x]: the value of a signal
  seen           \* seen[i][c][x]: what model i was stepped with

stepVars == <<turn, current, seen>>

Instances == 1..Count

StepsInit ==
  /\ turn = 1
  /\ current = [c \in Channels |-> [x \in Signals |-> 0]]
  /\ seen = [i \in Instances |-> [c \in Channels |-> [x \in SignalsOf[i][c] |-> 0]]]

StepInstance(i) ==
  /\ turn = i
  /\ turn' = i + 1
  /\ seen' = [seen EXCEPT ![i] =
                [c \in Channels |-> [x \in SignalsOf[i][c] |-> current[c][x]]]]
  /\ current' \in [Channels -> [Signals -> Values]]
  /\ \A c \in Channels : \A x \in Signals \ SignalsOf[i][c] :
       current'[c][x] = current[c][x]

BusCycle ==
  /\ turn = Count + 1
  /\ turn' = 1
  /\ UNCHANGED <<current, seen>>

StepsNext == BusCycle \/ \E i \in Instances : StepInstance(i)

StepsSpec == StepsInit /\ [][StepsNext]_stepVars
=============================================================================
