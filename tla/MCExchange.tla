----------------------------- MODULE MCExchange -----------------------------
(***************************************************************************)
(* A small signal exchange for TLC.                                        *)
(***************************************************************************)
EXTENDS SignalExchange, TLC

CONSTANTS s1, s2, m1, m2, m3, c1, sx

Pair(m) == [model |-> m, channel |-> c1]

\* Both stacked models of s1 and the model of s2 are on c1 ...
Stacked == (s1 :> <<Pair(m1), Pair(m2)>>) @@ (s2 :> <<Pair(m3)>>)

\* ... with the same signal ...
OneSignal == [l \in {Pair(m) : m \in {m1, m2, m3}} |-> {sx}]

\* ... and binary data from both processes.
SomePayloads == (Pair(m1) :> 2) @@ (Pair(m2) :> 0) @@ (Pair(m3) :> 1)
=============================================================================
