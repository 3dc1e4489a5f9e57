------------------------------ MODULE MCCoSim ------------------------------
(***************************************************************************)
(* Small co-simulations for TLC.                                           *)
(***************************************************************************)
EXTENDS CoSim, TLC

CONSTANTS s1, s2, m1, m2, m3, c1, c2

Pair(m, c) == [model |-> m, channel |-> c]

\* Two processes, one model each, both on one channel.
TwoSims == (s1 :> <<Pair(m1, c1)>>) @@ (s2 :> <<Pair(m2, c1)>>)

\* s1 stacks two models; m1 and m3 meet on c1, m2 is alone on c2.
Stacked == (s1 :> <<Pair(m1, c1), Pair(m2, c2)>>) @@ (s2 :> <<Pair(m3, c1)>>)
=============================================================================
