------------------------------ MODULE MC_Answers ------------------------------
(* Who asks is answered in the end: the callers of a cached RPC client, or one caller of
   confirmation() of the wallet API, whose requests do not fail.  The two share no state: a
   behaviour is one of the component that it chooses, and the other stays as it is. *)
EXTENDS RpcClientCache, TLC

CONSTANTS c1, c2, k1

TwoCallers == {c1, c2}
OneKey == {k1}

VARIABLES component, chain, top, forged, reorgs, past, poller, op

walletVars == <<chain, top, forged, reorgs, past, poller, op>>

Wallet == INSTANCE WalletOperation WITH
    Callers <- {c1}, MaxLevel <- 5, MaxBlocks <- 5, MaxReorgs <- 0, MaxDepth <- 2,
    MaxConf <- 3, StartLevel <- 0, Faults <- FALSE, Sharing <- TRUE

AnswersInit == component \in {"cache", "wallet"} /\ Init /\ Wallet!Init

AnswersNext ==
    \/ component = "cache" /\ Next /\ UNCHANGED <<component, walletVars>>
    \/ component = "wallet" /\ Wallet!Next /\ UNCHANGED <<component, vars>>

(* The fairness of both components, for the one that is chosen. *)
AnswersFairness ==
    /\ WF_vars(component = "cache" /\ Tick)
    /\ \A i \in Handles : WF_vars(component = "cache" /\ i \in armed /\ TimerFires(i))
    /\ \A i \in Handles : WF_vars(component = "cache" /\ i <= made /\ (Answer(i) \/ Fail(i)))
    /\ \A c \in Callers : WF_vars(component = "cache" /\ Return(c))
    /\ WF_walletVars(component = "wallet" /\ Wallet!NodeStep /\ top' = top + 1)
    /\ WF_walletVars(component = "wallet" /\ Wallet!PollTick)
    /\ WF_walletVars(component = "wallet" /\ Wallet!PollServed)
    /\ SF_walletVars(component = "wallet" /\ Wallet!PollDelivered)
    /\ WF_walletVars(component = "wallet" /\ Wallet!GapServed)

AnswersSpec ==
    AnswersInit /\ [][AnswersNext]_<<component, vars, walletVars>> /\ AnswersFairness

\* A caller of the wallet API is answered once the operation is deep enough, although
\* polls are given up, gaps are interrupted and the stream is connected again.
EveryCallResolves == Wallet!EveryCallResolves
=============================================================================
