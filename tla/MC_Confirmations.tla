-------------------------- MODULE MC_Confirmations --------------------------
(* One operation of the wallet API, with its queries, or one of the contract API, each on
   a chain of its own and followed by two callers: a behaviour is one of the API that it
   chooses, and the other stays as it is. *)
EXTENDS WalletBranch, TLC

CONSTANTS c1, c2, ContractMaxLevel

TwoCallers == {c1, c2}

Symmetry == Permutations(TwoCallers)

VARIABLES api, contractChain, contractTop, contractForged, contractReorgs, contractPoller,
          contractOp

contractVars == <<contractChain, contractTop, contractForged, contractReorgs,
                  contractPoller, contractOp>>

Contract == INSTANCE ContractOperation WITH
    MaxLevel <- ContractMaxLevel,
    chain <- contractChain, top <- contractTop, forged <- contractForged,
    reorgs <- contractReorgs, poller <- contractPoller, op <- contractOp

ConfirmationsInit == api \in {"wallet", "contract"} /\ BranchInit /\ Contract!Init

ConfirmationsNext ==
    \/ api = "wallet" /\ BranchNext /\ UNCHANGED <<api, contractVars>>
    \/ api = "contract" /\ Contract!Next /\ UNCHANGED <<api, branchVars>>

ConfirmationsSpec ==
    ConfirmationsInit /\ [][ConfirmationsNext]_<<api, branchVars, contractVars>>

\* Every variable of the two operations has its type.
ConfirmationsTypeOK == BranchTypeOK /\ Contract!TypeOK

(* The invariants of the operation of the contract API. *)

\* A result of confirmation() is a level that exists, as deep as asked.
ResultMeansDepth == Contract!ResultMeansDepth

\* The head stream is subscribed exactly while a promise is pending.
PendingIsSubscribed == Contract!PendingIsSubscribed

\* No level is left unscanned over restarts, errors and gaps.
NoLevelMissed == Contract!NoLevelMissed
=============================================================================
