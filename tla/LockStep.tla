------------------------------ MODULE LockStep ------------------------------
(***************************************************************************)
(* What the SimBus promises to a simulation, without messages, sets or     *)
(* registration: a barrier.  Simulation time advances by one bus cycle     *)
(* when every process has asked for that cycle, each process is granted    *)
(* the cycles one after the other, and a process that has left asks for    *)
(* nothing any more.                                                       *)
(***************************************************************************)
EXTENDS Integers

CONSTANT Sims

VARIABLES
  cycles,    \* the number of bus cycles that were started
  asked,     \* asked[s]: the cycles s has asked for
  granted    \* granted[s]: the cycles s was given to execute

vars == <<cycles, asked, granted>>

Init ==
  /\ cycles = 0
  /\ asked = [s \in Sims |-> 0]
  /\ granted = [s \in Sims |-> 0]

\* A process asks for its next cycle once it has executed the one before.
Ask(s) ==
  /\ asked[s] = granted[s]
  /\ granted[s] = cycles
  /\ asked' = [asked EXCEPT ![s] = @ + 1]
  /\ UNCHANGED <<cycles, granted>>

StartCycle ==
  /\ \A s \in Sims : asked[s] = cycles + 1
  /\ cycles' = cycles + 1
  /\ UNCHANGED <<asked, granted>>

Grant(s) ==
  /\ granted[s] < cycles
  /\ granted' = [granted EXCEPT ![s] = @ + 1]
  /\ UNCHANGED <<cycles, asked>>

Next == StartCycle \/ \E s \in Sims : Ask(s) \/ Grant(s)

Spec == Init /\ [][Next]_vars

-----------------------------------------------------------------------------
\* No process is ever more than one cycle away from another one, in what it
\* executes and in what it has asked for.
InLockStep ==
  \A s, t \in Sims : /\ granted[s] <= granted[t] + 1
                     /\ asked[s] <= asked[t] + 1
=============================================================================
