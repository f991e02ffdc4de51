----------------------------- MODULE MCMainLoop -----------------------------
(* Small instances of MainLoop for TLC; the headsets other than the         *)
(* button's peer are interchangeable.                                       *)
EXTENDS MainLoop, TLC

HeadsetSymmetry == Permutations(Headsets \ {ButtonPeer})
=============================================================================
