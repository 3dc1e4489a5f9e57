--------------------------- MODULE ModelContract ---------------------------
(***************************************************************************)
(* What a model may rely on (the ModelVTable of dse/modelc/model.h): the   *)
(* models of a process are created one after the other, all before the     *)
(* first step; they are stepped in their order and in lock-step; a run     *)
(* ends between two rounds of steps; and each model is destroyed once,     *)
(* after which no model is stepped.                                        *)
(***************************************************************************)
EXTENDS Naturals

CONSTANT Models    \* a set of numbers, the places of the models in the process

VARIABLES
  life,            \* life[m]: "none", "created", "destroyed"
  steps            \* steps[m]: the steps that m has made

contractVars == <<life, steps>>

ContractInit ==
  /\ life = [m \in Models |-> "none"]
  /\ steps = [m \in Models |-> 0]

Alive == { m \in Models : life[m] = "created" }

\* No model is within a round of steps that another has yet to make.
BetweenRounds == \A m, n \in Models :
  life[m] # "none" /\ life[n] # "none" => steps[m] = steps[n]

Create(m) ==
  /\ \A n \in Models : IF n < m THEN life[n] = "created" ELSE life[n] = "none"
  /\ \A n \in Models : steps[n] = 0
  /\ life' = [life EXCEPT ![m] = "created"]
  /\ UNCHANGED steps

Step(m) ==
  /\ life[m] = "created"
  /\ \A n \in Models : life[n] # "destroyed"
  /\ \A n \in Alive : IF n < m THEN steps[n] = steps[m] + 1 ELSE steps[n] = steps[m]
  /\ steps' = [steps EXCEPT ![m] = @ + 1]
  /\ UNCHANGED life

Destroy(m) ==
  /\ life[m] = "created"
  /\ BetweenRounds
  /\ life' = [life EXCEPT ![m] = "destroyed"]
  /\ UNCHANGED steps

ContractNext == \E m \in Models : Create(m) \/ Step(m) \/ Destroy(m)

ContractSpec == ContractInit /\ [][ContractNext]_contractVars
=============================================================================
