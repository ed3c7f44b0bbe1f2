---------------------------- MODULE MCQxlRelease ----------------------------
(***************************************************************************)
(* Instances of QxlRelease for TLC.                                        *)
(***************************************************************************)
EXTENDS QxlRelease

CONSTANTS b1, b2, b3

TwoBlocks   == {b1, b2}
ThreeBlocks == {b1, b2, b3}
=============================================================================
