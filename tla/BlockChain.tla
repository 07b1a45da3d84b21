----------------------------- MODULE BlockChain -----------------------------
(***************************************************************************)
(* The Tezos node as the packages under src/packages see it through the    *)
(* read provider (external code): a branch of blocks that grows at its     *)
(* head and is sometimes reorganised, and one operation of interest, which *)
(* a branch includes at most once.  Nothing here is taquito code.          *)
(***************************************************************************)
EXTENDS Naturals

CONSTANTS
    MaxLevel,       \* bound on the level of the head
    MaxBlocks,      \* bound on the blocks ever baked
    MaxReorgs,      \* bound on the reorganisations
    MaxDepth        \* bound on the blocks one reorganisation drops

ASSUME ChainAssumption ==
    /\ MaxLevel \in Nat \ {0}
    /\ MaxBlocks \in Nat
    /\ MaxReorgs \in Nat
    /\ MaxDepth \in Nat

VARIABLES
    chain,      \* level -> the block of the current branch at that level
    top,        \* the level of the head
    forged,     \* how many blocks were baked: the latest has this hash
    reorgs      \* how many reorganisations happened

nodeVars == <<chain, top, forged, reorgs>>

\* A block is known by its hash (a number); op tells whether it includes the
\* operation of interest.
Block == [hash : Nat, level : Nat, op : BOOLEAN]

NoBlock == [hash |-> 0, level |-> 0, op |-> FALSE]

OnBranch(b) == b.level \in 1..top /\ chain[b.level] = b

NodeTypeOK ==
    /\ chain \in [1..MaxLevel -> Block]
    /\ top \in 1..MaxLevel
    /\ forged \in Nat
    /\ reorgs \in Nat

NodeInit ==
    /\ chain = [l \in 1..MaxLevel |->
                  IF l = 1 THEN [hash |-> 1, level |-> 1, op |-> FALSE] ELSE NoBlock]
    /\ top = 1
    /\ forged = 1
    /\ reorgs = 0

\* The branch up to level l - 1 gets a new head at level l.
NewHead(l, op) ==
    /\ l <= MaxLevel
    /\ forged < MaxBlocks
    /\ op => \A m \in 1..(l - 1) : ~chain[m].op
    /\ chain' = [m \in 1..MaxLevel |->
                   IF m < l THEN chain[m]
                   ELSE IF m = l THEN [hash |-> forged + 1, level |-> l, op |-> op]
                   ELSE NoBlock]
    /\ top' = l
    /\ forged' = forged + 1

Bake ==
    /\ \E op \in BOOLEAN : NewHead(top + 1, op)
    /\ UNCHANGED reorgs

\* The node switches to another branch: the last d blocks are dropped and a new
\* one takes the level of the lowest of them.
Reorg ==
    /\ reorgs < MaxReorgs
    /\ \E d \in 1..MaxDepth, op \in BOOLEAN :
          /\ d < top
          /\ NewHead(top - d + 1, op)
    /\ reorgs' = reorgs + 1

NodeNext == Bake \/ Reorg
=============================================================================
