------------------------- MODULE MC_RpcClientCache -------------------------
(* Two callers sharing one client, two keys. *)
EXTENDS RpcClientCache, TLC

CONSTANTS c1, c2, k1, k2

TwoCallers == {c1, c2}
OneCaller == {c1}
TwoKeys == {k1, k2}
OneKey == {k1}

Symmetry == Permutations(TwoCallers)
=============================================================================
