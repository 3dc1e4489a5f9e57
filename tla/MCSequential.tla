---------------------------- MODULE MCSequential ----------------------------
(***************************************************************************)
(* Small stacks of sequential models for TLC.                              *)
(***************************************************************************)
EXTENDS SequentialCosim, TLC

CONSTANTS c1, c2, sx, sy

\* Channel c1 is on the first and the last model, c2 on all of them.
SameSignals ==
  <<(c1 :> {sx, sy}) @@ (c2 :> {sx}),
    (c1 :> {}) @@ (c2 :> {sx}),
    (c1 :> {sx, sy}) @@ (c2 :> {sx})>>

\* The second model has a signal that the first does not have.
MoreSignals == <<c1 :> {sx}, c1 :> {sx, sy}>>
=============================================================================
