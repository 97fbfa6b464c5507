-------------------------------- MODULE MCRope --------------------------------
(* Strings of distinct characters, so that a character out of place shows. *)
EXTENDS Rope, TLC

MCTexts == {<<1, 2>>}
MCTexts3 == {<<1, 2, 3>>}
Symmetry == Permutations(Str)
=============================================================================
