----------------------------- MODULE SaplingTree -----------------------------
(***************************************************************************)
(* packages/taquito-sapling/src/sapling-state/sapling-state.ts: the Merkle *)
(* tree of the commitments, of which only the left part is there, and the  *)
(* witness of a position.  A hash is the term it is computed from.         *)
(***************************************************************************)
EXTENDS Sequences, Sums

CONSTANT Height     \* 32 in the code

ASSUME TreeAssumption == Height \in Nat \ {0}

VARIABLE size       \* how many commitments the pool has

TreeTypeOK == size \in 0..TwoTo[Height]

TreeInit == size = 0

\* The pool only grows.
Commit ==
    /\ size < TwoTo[Height]
    /\ size' = size + 1

TreeSpec == TreeInit /\ [][Commit]_size

NoTree == <<"undefined">>
Leaf(c) == <<"leaf", c>>
Node(left, right, hash) == <<"node", hash, left, right>>

\* sapling.merkleHash
MerkleHash(height, left, right) == <<"hash", height, left, right>>

\* createUncommittedMerkleHashes: the hash of an empty subtree of each height.
Uncommitted[height \in 0..Height] ==
    IF height = 0 THEN <<"uncommitted">>
    ELSE MerkleHash(height - 1, Uncommitted[height - 1], Uncommitted[height - 1])

\* Mutated GetMerkleHash: the hash of an empty leaf for every empty subtree.
GetMerkleHash_LeafOnly(tree, height) ==
    IF tree = NoTree THEN Uncommitted[0] ELSE tree[2]

\* getMerkleHash
GetMerkleHash(tree, height) ==
    IF tree = NoTree THEN Uncommitted[height] ELSE tree[2]

\* pairNodes: the last node of an odd number has no sibling.
PairNodes(leaves) ==
    [i \in 1..((Len(leaves) + 1) \div 2) |->
        <<leaves[2 * i - 1], IF 2 * i <= Len(leaves) THEN leaves[2 * i] ELSE NoTree>>]

\* The leaves of one call of constructMerkleTree become those of the next.
Parents(leaves, height) ==
    LET pairs == PairNodes(leaves)
    IN  [i \in DOMAIN pairs |->
            Node(pairs[i][1], pairs[i][2],
                 MerkleHash(height, GetMerkleHash(pairs[i][1], height),
                            GetMerkleHash(pairs[i][2], height)))]

\* The leaves of each call, from the commitments up.
Commitments == [i \in 1..size |-> Leaf(i)]

Row[height \in 0..Height] ==
    IF height = 0 THEN Commitments ELSE Parents(Row[height - 1], height - 1)

\* constructMerkleTree, the tree that the transactions are made with.
\* TreeConstructionFailure is NoTree.
Tree ==
    IF \/ \E height \in 0..(Height - 1) : Len(Row[height]) > TwoTo[Height - 1 - height]
       \/ Len(Row[Height]) # 1
    THEN NoTree ELSE Row[Height][1]

\* Mutated Descended: a position in the middle goes to the left.
Descended_Left(call, height) ==
    LET left == call.position <= TwoTo[height - 1]
    IN  IF call.tree[1] # "node" THEN call
        ELSE [position |-> IF left THEN call.position ELSE call.position - TwoTo[height - 1],
              tree |-> IF left THEN call.tree[3] ELSE call.tree[4],
              acc |-> <<GetMerkleHash(IF left THEN call.tree[4] ELSE call.tree[3], height - 1)>>
                          \o call.acc]

\* What a call of getNeighbouringHashes calls itself with: half of the tree, and in front
\* of acc the hash of the other half.
Descended(call, height) ==
    LET left == call.position < TwoTo[height - 1]
    IN  IF call.tree[1] # "node" THEN call
        ELSE [position |-> IF left THEN call.position ELSE call.position - TwoTo[height - 1],
              tree |-> IF left THEN call.tree[3] ELSE call.tree[4],
              acc |-> <<GetMerkleHash(IF left THEN call.tree[4] ELSE call.tree[3], height - 1)>>
                          \o call.acc]

\* getNeighbouringHashes: the calls for a position, by how deep they are.
Descent(position, tree) ==
    LET call[depth \in 0..Height] ==
            IF depth = 0 THEN [position |-> position, tree |-> tree, acc |-> <<>>]
            ELSE Descended(call[depth - 1], Height - depth + 1)
    IN  call

GetNeighbouringHashes(position, tree) == Descent(position, tree)[Height].acc

\* Mutated GetWitness: the hashes stay in the order in which they were found.
GetWitness_Unreversed(position) ==
    [height |-> Height, position |-> position,
     hashes |-> GetNeighbouringHashes(position, Tree)]

\* getWitness: the hashes from the root down to the leaf.
GetWitness(position) ==
    LET found == GetNeighbouringHashes(position, Tree)
    IN  [height |-> Height, position |-> position,
         hashes |-> [i \in DOMAIN found |-> found[Len(found) - i + 1]]]

-----------------------------------------------------------------------------
(* Properties *)

\* What sapling reads from a witness: the hash beside the path, by its height.
PathOf(witness) == [h \in 1..witness.height |-> witness.hashes[witness.height - h + 1]]

\* The hashes that the bits of a position and the siblings lead to, from the leaf up.
Upwards(position, path) ==
    LET up[height \in 0..Height] ==
            IF height = 0 THEN Leaf(position + 1)[2]
            ELSE IF (position \div TwoTo[height - 1]) % 2 = 0
            THEN MerkleHash(height - 1, up[height - 1], path[height])
            ELSE MerkleHash(height - 1, path[height], up[height - 1])
    IN  up

RootFrom(witness) == Upwards(witness.position, PathOf(witness))[witness.height]

\* The hashes of a pool by their definition: of all the subtrees of each height, when
\* there are TwoTo[Height] leaves and the last ones are empty.
LeafHashes == [i \in 1..TwoTo[Height] |-> IF i <= size THEN Leaf(i)[2] ELSE Uncommitted[0]]

HashesAbove(below, height) ==
    [i \in 1..TwoTo[Height - height] |-> MerkleHash(height - 1, below[2 * i - 1], below[2 * i])]

Hashes[height \in 0..Height] ==
    IF height = 0 THEN LeafHashes ELSE HashesAbove(Hashes[height - 1], height)

\* The tree has the root of the pool, and the witness of each leaf leads to it: the
\* proofs of the spends are made from nothing else.  The code accepts as many leaves
\* as half the tree can hold, and not none.
WitnessesLeadToRoot ==
    IF size \in 1..TwoTo[Height - 1]
    THEN /\ Tree[2] = Hashes[Height][1]
         /\ \A position \in 0..(size - 1) : RootFrom(GetWitness(position)) = Tree[2]
    ELSE Tree = NoTree
=============================================================================
