-------------------------- MODULE MC_SendOperation --------------------------
(* Two concurrent sends of one account. *)
EXTENDS SendOperation, TLC

CONSTANTS s1, s2

TwoSenders == {s1, s2}

Symmetry == Permutations(TwoSenders)
=============================================================================
