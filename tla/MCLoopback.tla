----------------------------- MODULE MCLoopback -----------------------------
(***************************************************************************)
(* Small stacks on the loopback adapter for TLC.                           *)
(***************************************************************************)
EXTENDS LoopbackAdapter, TLC

CONSTANTS s1, m1, m2, c1, sx, sy

Pair(m) == [model |-> m, channel |-> c1]

\* Two stacked models on one channel.
Stack == s1 :> <<Pair(m1), Pair(m2)>>

\* Both models have the same signals, or m2 adds one to the channel.
SameSignals == [l \in {Pair(m1), Pair(m2)} |-> {sx}]
MoreSignals == (Pair(m1) :> {sx}) @@ (Pair(m2) :> {sx, sy})

OnePayload == [l \in {Pair(m1), Pair(m2)} |-> 1]
TwoPayloads == [l \in {Pair(m1), Pair(m2)} |-> 2]

AllModes == [direct : BOOLEAN, phased : BOOLEAN]
LookedUp == [direct : {FALSE}, phased : BOOLEAN]
=============================================================================
