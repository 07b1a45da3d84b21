---------------------------- MODULE WalletBranch ----------------------------
(***************************************************************************)
(* The queries of WalletOperation that read the node again after the       *)
(* operation was found: getCurrentConfirmation and isInCurrentBranch of    *)
(* packages/taquito/src/wallet/operation.ts.  Between their reads the      *)
(* chain moves and the streams of WalletOperation go on.                   *)
(***************************************************************************)
EXTENDS WalletOperation

CONSTANTS
    MaxAncestors,   \* MAX_BRANCH_ANCESTORS
    LiveWindow      \* how many ancestors of a block getLiveBlocks lists

ASSUME BranchAssumption ==
    /\ MaxAncestors \in Nat \ {0}
    /\ LiveWindow \in Nat /\ MaxAncestors <= LiveWindow

VARIABLE query

branchVars == <<vars, query>>

(* The one query under way: tip is the level of the tip block, count the answer
   of getCurrentConfirmation. *)
Query == [state : {"none", "tip", "answered", "counted", "failed"}, tip : 0..MaxLevel,
          inBranch : BOOLEAN, count : (1 - MaxLevel)..MaxLevel]

NoQuery == [state |-> "none", tip |-> 0, inBranch |-> TRUE, count |-> 0]

BranchTypeOK == TypeOK /\ query \in Query

BranchInit == Init /\ query = NoQuery

Tips == {chain[top]} \cup {op.calls[c].block : c \in {d \in Callers : op.calls[d].events # 0}}

\* isInCurrentBranch('head'), or of the head of an event: not included yet is
\* taken for being on the branch, otherwise the level of the tip is read.
AskBranch(tip) ==
    /\ query.state # "tip"
    /\ op.source # "new"
    /\ query' = IF op.found = NoBlock
                THEN [NoQuery EXCEPT !.state = "answered"]
                ELSE [NoQuery EXCEPT !.state = "tip", !.tip = tip.level]
    /\ UNCHANGED vars

\* The hashes of a block of the branch and of its ancestors, as the node lists them.
LiveBlocks(level) ==
    {chain[l].hash : l \in {m \in 1..level : m + LiveWindow >= level}}

Smaller(a, b) == IF a < b THEN a ELSE b

\* Mutated TipBlockLevel: the tip is not brought within the reach of getLiveBlocks.
TipBlockLevel_Uncapped(tip) == tip

TipBlockLevel(tip) == Smaller(tip, op.found.level + MaxAncestors)

\* A tip at or below the including block is taken for being on its branch.
AnswerAtOrBelow ==
    /\ query.state = "tip"
    /\ query.tip <= op.found.level
    /\ query' = [query EXCEPT !.state = "answered", !.inBranch = TRUE]
    /\ UNCHANGED vars

\* Otherwise the live blocks at a level (not of a hash) decide; the level is
\* unknown to the node when the branch has become shorter.
AnswerFromLiveBlocks ==
    LET level == TipBlockLevel(query.tip)
    IN  /\ query.state = "tip"
        /\ query.tip > op.found.level
        /\ query' = IF level <= top
                    THEN [query EXCEPT !.state = "answered",
                                       !.inBranch = op.found.hash \in LiveBlocks(level)]
                    ELSE [query EXCEPT !.state = "failed"]
        /\ UNCHANGED vars

\* Mutated CurrentConfirmation: the including block is not counted.
CurrentConfirmation_OffByOne ==
    /\ query.state # "tip"
    /\ op.source # "new"
    /\ query' = [NoQuery EXCEPT
                   !.state = "counted",
                   !.count = IF op.found = NoBlock THEN 0
                             ELSE chain[top].level - op.found.level]
    /\ UNCHANGED vars

\* getCurrentConfirmation: 0 before the inclusion, then the distance to the head.
CurrentConfirmation ==
    /\ query.state # "tip"
    /\ op.source # "new"
    /\ query' = [NoQuery EXCEPT
                   !.state = "counted",
                   !.count = IF op.found = NoBlock THEN 0
                             ELSE chain[top].level - op.found.level + 1]
    /\ UNCHANGED vars

BranchNext ==
    \/ Next /\ UNCHANGED query
    \/ \E tip \in Tips : AskBranch(tip)
    \/ AnswerAtOrBelow
    \/ AnswerFromLiveBlocks
    \/ CurrentConfirmation

BranchSpec == BranchInit /\ [][BranchNext]_branchVars

-----------------------------------------------------------------------------
(* Properties *)

\* When the live blocks decide, the answer of isInCurrentBranch is the truth at that
\* moment, wherever the tip was read and however the node was reorganised since: the cap
\* on the tip keeps the including block within the window that the node lists.  Without
\* a reorganisation no inclusion is denied and no call fails, however the reads are spread
\* over the growth of the chain.
BranchAnswersTruly ==
    [][ /\ AnswerFromLiveBlocks /\ query'.state = "answered"
             => (query'.inBranch <=> OnBranch(op.found))
        /\ reorgs' = 0 => query'.inBranch /\ query'.state # "failed" ]_branchVars

\* Without a reorganisation the numbers told of an operation fit together: the events of
\* a call count without a gap or a repetition, and getCurrentConfirmation is never behind
\* what any caller was told before.
ConfirmationsCountUp ==
    [][ reorgs' = 0 =>
          /\ EventsContiguous'
          /\ CurrentConfirmation =>
                \A c \in Callers : op.calls[c].events # 0 =>
                    query'.count >= op.calls[c].current ]_branchVars
=============================================================================
