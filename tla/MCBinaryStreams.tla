-------------------------- MODULE MCBinaryStreams --------------------------
(***************************************************************************)
(* Steps of 2; targets without a step size, and with steps half as long,   *)
(* of the same length, and twice as long.                                  *)
(***************************************************************************)
EXTENDS BinaryStreams

MCTargetSizes == {0, 1, 2, 4}
=============================================================================
