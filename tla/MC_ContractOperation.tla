------------------------ MODULE MC_ContractOperation ------------------------
(* One operation of the contract API whose confirmation() is called twice. *)
EXTENDS ContractOperation, TLC

CONSTANTS c1, c2

TwoCallers == {c1, c2}
OneCaller == {c1}

Symmetry == Permutations(TwoCallers)
=============================================================================
