------------------------- MODULE MC_MichelineForging -------------------------
(* The values of an operation, with one letter for every text. *)
EXTENDS MichelineForging

OneText == {<<97>>}
NoneOrTwo == {<<>>, << <<97>>, <<97>> >>}
=============================================================================
