-------------------------- MODULE MCMeasureSession --------------------------
(***************************************************************************)
(* Flows are interchangeable.  A configuration has one or two of them.     *)
(***************************************************************************)
EXTENDS MeasureSession, TLC

FlowSymmetry == Permutations(Flows)

=============================================================================
