---------------------------- MODULE MC_Components ----------------------------
(* The components of the toolkit that share no state with each other, in one run: a
   behaviour is one of the component it chooses, and the others stay as they are.  A
   component whose initial states differ keeps to one of them when it is not chosen. *)
EXTENDS PrepareProvider, ObservableSubscription, LedgerSigner, SaplingTransaction,
        SaplingTree, MetadataViews, ToolkitContext, WalletAccount, BigMapReads,
        SendOperation, Estimates, MichelineForging, MichelsonFields

CONSTANTS p1, p2, l1, l2, t1, t2, a1, a2, k1, k2, node1, node2

TwoPreparers == {p1, p2}
TwoListeners == {l1, l2}
TwoSignings == {"sign 1", "sign 2"}
OneKeyCall == {"key"}
TwoTransactions == {t1, t2}
TwoUsers == {"user 1", "user 2"}
TwoNodes == {node1, node2}
TwoServices == {"stream", "signer"}
OneOperation == {"operation"}
TwoAccounts == {a1, a2}
TwoCommands == {"command 1", "command 2"}
TwoKeys == {k1, k2}
OneText == {<<97>>}
NoneOrTwo == {<<>>, << <<97>>, <<97>> >>}
TwoAnnots == {"a", "b"}

VARIABLE part

Parts == {"prepare", "subscription", "ledger", "sapling", "tree", "metadata", "toolkit",
          "wallet", "bigMap", "send", "estimates", "forging", "fields"}

ComponentsInit ==
    /\ part \in Parts
    /\ PrepareInit /\ Init /\ (part \in {"prepare", "send"} \/ account.revealed)
    /\ SubscriptionInit /\ (part = "subscription" \/ retries)
    /\ LedgerInit
    /\ SaplingInit
    /\ TreeInit
    /\ MetadataInit /\ (part = "metadata" \/ hasParameter)
    /\ ToolkitInit /\ toolkit.rpc = node1
    /\ WalletInit
    /\ BigMapInit /\ (part = "bigMap" \/ rewraps)
    /\ EstimatesInit /\ (part = "estimates" \/ (batched /\ unrevealed))
    /\ ForgingInit
    /\ FieldsInit

\* All components but p stay as they are.
OthersStay(p) ==
    /\ part' = part
    /\ IF p \in {"prepare", "send"} THEN TRUE ELSE UNCHANGED accountVars
    /\ IF p = "prepare" THEN TRUE ELSE UNCHANGED <<counters, prepare>>
    /\ IF p = "send" THEN TRUE ELSE UNCHANGED send
    /\ IF p = "subscription" THEN TRUE ELSE UNCHANGED subscriptionVars
    /\ IF p = "ledger" THEN TRUE ELSE UNCHANGED ledgerVars
    /\ IF p = "sapling" THEN TRUE ELSE UNCHANGED saplingVars
    /\ IF p = "tree" THEN TRUE ELSE UNCHANGED size
    /\ IF p = "metadata" THEN TRUE ELSE UNCHANGED metadataVars
    /\ IF p = "toolkit" THEN TRUE ELSE UNCHANGED toolkitVars
    /\ IF p = "wallet" THEN TRUE ELSE UNCHANGED walletVars
    /\ IF p = "bigMap" THEN TRUE ELSE UNCHANGED bigMapVars
    /\ IF p = "estimates" THEN TRUE ELSE UNCHANGED estimateVars
    /\ IF p = "forging" THEN TRUE ELSE UNCHANGED forgingVars
    /\ IF p = "fields" THEN TRUE ELSE UNCHANGED fieldsVars

ComponentsNext ==
    \/ part = "prepare" /\ PrepareNext /\ OthersStay(part)
    \/ part = "subscription" /\ SubscriptionNext /\ OthersStay(part)
    \/ part = "ledger" /\ LedgerNext /\ OthersStay(part)
    \/ part = "sapling" /\ SaplingNext /\ OthersStay(part)
    \/ part = "tree" /\ Commit /\ OthersStay(part)
    \/ part = "metadata" /\ MetadataNext /\ OthersStay(part)
    \/ part = "toolkit" /\ ToolkitNext /\ OthersStay(part)
    \/ part = "wallet" /\ WalletNext /\ OthersStay(part)
    \/ part = "bigMap" /\ BigMapNext /\ OthersStay(part)
    \/ part = "send" /\ Next /\ OthersStay(part)
    \/ part = "estimates" /\ EstimatesNext /\ OthersStay(part)
    \/ part = "forging" /\ ForgingNext /\ OthersStay(part)
    \/ part = "fields" /\ FieldsNext /\ OthersStay(part)

ComponentsSpec ==
    ComponentsInit
    /\ [][ComponentsNext]_<<part, prepareVars, subscriptionVars, ledgerVars, saplingVars, size,
                            metadataVars, toolkitVars, walletVars, bigMapVars, vars,
                            estimateVars, forgingVars, fieldsVars>>

\* Every variable of every component has its type.
ComponentsTypeOK ==
    /\ part \in Parts
    /\ TypeOK /\ PrepareTypeOK /\ SubscriptionTypeOK /\ LedgerTypeOK /\ SaplingTypeOK
    /\ TreeTypeOK
    /\ MetadataTypeOK /\ ToolkitTypeOK /\ WalletTypeOK /\ BigMapTypeOK
    /\ EstimatesTypeOK /\ ForgingTypeOK /\ FieldsTypeOK
=============================================================================
