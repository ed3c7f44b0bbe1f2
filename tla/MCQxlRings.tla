----------------------------- MODULE MCQxlRings -----------------------------
(***************************************************************************)
(* Instances of QxlRings for TLC.                                          *)
(***************************************************************************)
EXTENDS QxlRings, TLC

CONSTANTS c1, c2

OneCommand  == {c1}
TwoCommands == {c1, c2}
Display     == {"cmd"}
Both        == {"cmd", "cursor"}
NoClient    == {FALSE}
AClient     == {TRUE}

\* Commands are only moved, never compared.
CommandSymmetry == Permutations(TwoCommands)
=============================================================================
