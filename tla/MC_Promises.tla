----------------------------- MODULE MC_Promises -----------------------------
(* One operation of the contract API, or one of the wallet API with a start block, each on a
   chain of its own and followed by two callers who may ask for different depths: a
   behaviour is one of the API that it chooses, and the other stays as it is. *)
EXTENDS ContractOperation

CONSTANTS c1, c2

TwoCallers == {c1, c2}

VARIABLES api, walletChain, walletTop, walletForged, walletReorgs, walletPast,
          walletPoller, walletOp

walletVars == <<walletChain, walletTop, walletForged, walletReorgs, walletPast,
                walletPoller, walletOp>>

Wallet == INSTANCE WalletOperationPromise WITH
    StartLevel <- 2,
    chain <- walletChain, top <- walletTop, forged <- walletForged,
    reorgs <- walletReorgs, past <- walletPast, poller <- walletPoller, op <- walletOp

PromisesInit == api \in {"contract", "wallet"} /\ Init /\ Wallet!Init

PromisesNext ==
    \/ api = "contract" /\ Next /\ UNCHANGED <<api, walletVars>>
    \/ api = "wallet" /\ Wallet!Next /\ UNCHANGED <<api, vars>>

(* The fairness of TimedSpec, for the operation that is chosen. *)
PromisesFairness ==
    /\ WF_vars(api = "contract" /\ NodeStep /\ top' = top + 1)
    /\ WF_vars(api = "contract" /\ PollTick)
    /\ WF_vars(api = "contract" /\ PollServed)
    /\ SF_vars(api = "contract" /\ PollDelivered)
    /\ WF_vars(api = "contract" /\ GapServed)
    /\ WF_vars(api = "contract" /\ TimeoutExpires)
    /\ WF_walletVars(api = "wallet" /\ Wallet!NodeStep /\ walletTop' = walletTop + 1)
    /\ WF_walletVars(api = "wallet" /\ Wallet!PollTick)
    /\ WF_walletVars(api = "wallet" /\ Wallet!PollServed)
    /\ SF_walletVars(api = "wallet" /\ Wallet!PollDelivered)
    /\ WF_walletVars(api = "wallet" /\ Wallet!PastServed)
    /\ WF_walletVars(api = "wallet" /\ Wallet!GapServed)
    /\ WF_walletVars(api = "wallet" /\ Wallet!TimeoutExpires)

PromisesSpec ==
    PromisesInit /\ [][PromisesNext]_<<api, vars, walletVars>> /\ PromisesFairness

\* The operation of the wallet API implements ConfirmationPromise, as that of the contract
\* API does: no call resolves early or twice, and nobody waits for ever, also when the
\* shared stream is dead before the operation subscribes to it.
WalletKeepsPromise == Wallet!KeepsPromise
=============================================================================
