----------------------- MODULE WalletOperationPromise -----------------------
(***************************************************************************)
(* The refinement: WalletOperation, without reorganisations, keeps the     *)
(* promise of ConfirmationPromise.                                         *)
(***************************************************************************)
EXTENDS WalletOperation

InclusionLevel ==
    IF \E l \in 1..top : chain[l].op THEN CHOOSE l \in 1..top : chain[l].op ELSE 0

Promise == INSTANCE ConfirmationPromise WITH
    height <- top,
    included <- InclusionLevel,
    promise <- [c \in Callers |-> [state |-> op.calls[c].state,
                                   conf |-> op.calls[c].conf]]

\* Every behaviour of the streams, polls, gaps, replays and failures behind
\* confirmation() is one of the abstract promise: no call resolves early, none is
\* answered twice, and a failure leaves nobody waiting.  Nobody waits for ever either: a
\* call on an operation that is never included, or whose shared stream is dead, fails
\* in the end.
KeepsPromise == Promise!Spec /\ Promise!EveryCallSettles
=============================================================================
