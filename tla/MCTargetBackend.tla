--------------------------- MODULE MCTargetBackend ---------------------------
(* Small instances of TargetBackend for TLC.                                *)
EXTENDS TargetBackend, TLC

\* Headsets are interchangeable where they are all of one kind.
HeadsetSymmetry == Permutations(Headsets)
=============================================================================
