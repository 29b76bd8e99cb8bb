------------------------------ MODULE QuinTree ------------------------------
(***************************************************************************)
(* crypto/ts/quinTree.ts, the incremental tree of the coordinator's node:  *)
(* poll state, ballots and the votes of a ballot.  Its nodes are numbered  *)
(* level by level from the leaves, kept once set, and zeros elsewhere.     *)
(* Next to it the templates of circom/utils/trees, which work out a root   *)
(* from a leaf and its path, or from all leaves.  Module Circuits takes a  *)
(* root for the sequence of its leaves: this module is why it may.         *)
(*                                                                         *)
(* The hash function is injective: the hash of elements is the elements.   *)
(***************************************************************************)
EXTENDS MerkleNodes, Integers, SequencesExt, TLC

CONSTANTS
    Kinds,        \* trees: arity, depth, zeroValue and the leaves put into them
    MaxInserts,   \* bound on the insertions of a behaviour, for model checking
    MaxUpdates    \* bound on its updates

VARIABLES
    kind,        \* depth, zeroValue and arity of the tree
    nodes,       \* nodes, by index
    nextIndex,   \* nextIndex
    root,        \* root
    contents,    \* history: the leaves by position
    updates      \* history: number of updates

vars == <<kind, nodes, nextIndex, root, contents, updates>>

Capacity == kind.arity ^ kind.depth
Positions == 0..(Capacity - 1)
NumNodes == (kind.arity ^ (kind.depth + 1) - 1) \div (kind.arity - 1)

\* calcInitialVals: the zeros of each level, and the root of the empty tree.
ZeroAt ==
    LET zero[level \in 0..kind.depth] ==
            IF level = 0 THEN kind.zero
            ELSE LET below == zero[level - 1] IN [j \in 1..kind.arity |-> below]
    IN zero

\* Where the nodes of a level start.
Offset ==
    LET start[level \in 0..kind.depth] ==
            IF level = 0 THEN 0 ELSE start[level - 1] + kind.arity ^ (kind.depth - level + 1)
    IN start

LevelOf(index) == CHOOSE level \in 0..kind.depth :
    Offset[level] <= index /\ index < Offset[level] + kind.arity ^ (kind.depth - level)

\* getNode: a node that is zero counts as none.
GetNode(known, index) ==
    IF index \in DOMAIN known /\ known[index] # Zero THEN known[index]
    ELSE ZeroAt[LevelOf(index)]

ParentIndices(index) ==
    [level \in 1..kind.depth |-> Offset[level] + index \div kind.arity ^ level]

ChildIndices(index) ==
    LET sum[l \in Nat] == IF l = 0 THEN 1 ELSE sum[l - 1] + kind.arity ^ l
        level == CHOOSE l \in 1..kind.depth : index < sum[l] /\ (l = 1 \/ index >= sum[l - 1])
        start == (index - kind.arity ^ level) * kind.arity
    IN [j \in 1..kind.arity |-> start + j - 1]

\* A slip: the children of a parent are read before the leaf is set.
SetUnread(index, value) ==
    LET after[level \in 0..kind.depth] ==
            IF level = 0 THEN (index :> value) @@ nodes
            ELSE LET below == after[level - 1]
                     parent == ParentIndices(index)[level]
                     children == ChildIndices(parent)
                 IN (parent :> [j \in 1..kind.arity |-> GetNode(nodes, children[j])]) @@ below
    IN after[kind.depth]

\* update: the leaf, and from their children the parents on the way to the root.
SetNodes(index, value) ==
    LET after[level \in 0..kind.depth] ==
            IF level = 0 THEN (index :> value) @@ nodes
            ELSE LET below == after[level - 1]
                     parent == ParentIndices(index)[level]
                     children == ChildIndices(parent)
                 IN (parent :> [j \in 1..kind.arity |-> GetNode(below, children[j])]) @@ below
    IN after[kind.depth]

PutLeaf(index, value) ==
    /\ nodes' = SetNodes(index, value)
    /\ root' = nodes'[NumNodes - 1]
    /\ contents' = [contents EXCEPT ![index] = value]
    /\ UNCHANGED kind

Insert(value) ==
    /\ nextIndex < MaxInserts /\ nextIndex < Capacity
    /\ PutLeaf(nextIndex, value)
    /\ nextIndex' = nextIndex + 1
    /\ UNCHANGED updates

Update(index, value) ==
    /\ updates < MaxUpdates
    /\ PutLeaf(index, value)
    /\ updates' = updates + 1
    /\ UNCHANGED nextIndex

Init ==
    /\ kind \in Kinds
    /\ root = ZeroAt[kind.depth]
    /\ nodes = (NumNodes - 1) :> root
    /\ nextIndex = 0
    /\ contents = [i \in Positions |-> kind.zero]
    /\ updates = 0

Next ==
    \/ \E value \in kind.values : Insert(value)
    \/ \E value \in kind.values : \E index \in 0..(nextIndex - 1) : Update(index, value)

(* copy gives the new tree the same nodes (338-348), so what is put into the copy is
   put into the nodes of both, and only the copy's root follows.  Seen from the
   tree that was copied: *)
CopyUpdate(index, value) ==
    /\ updates < MaxUpdates
    /\ nodes' = SetNodes(index, value)
    /\ updates' = updates + 1
    /\ UNCHANGED <<kind, nextIndex, root, contents>>

NextWithCopy ==
    \/ Next
    \/ \E value \in kind.values : \E index \in 0..(nextIndex - 1) : CopyUpdate(index, value)

-----------------------------------------------------------------------------
\* calcLeafIndices, generateProof and verifyProof.
LeafIndices(index) == [i \in 1..kind.depth |-> (index \div kind.arity ^ (i - 1)) % kind.arity]

PathElements(index) ==
    [i \in 1..kind.depth |->
        LET at == index \div kind.arity ^ (i - 1)
            start == at - (at % kind.arity) + Offset[i - 1]
        IN RemoveAt([j \in 1..kind.arity |-> GetNode(nodes, start + j - 1)],
                    LeafIndices(index)[i] + 1)]

GenerateProof(index) ==
    [leaf |-> GetNode(nodes, index), pathIndices |-> LeafIndices(index),
     pathElements |-> PathElements(index), root |-> root]

VerifyProof(proof) ==
    LET hash[i \in 0..Len(proof.pathElements)] ==
            IF i = 0 THEN proof.leaf
            ELSE InsertAt(proof.pathElements[i], proof.pathIndices[i] + 1, hash[i - 1])
    IN hash[Len(proof.pathElements)] = proof.root

(* generateSubrootProof: the tree of the leaves from start to end (exclusive) as a
   leaf of the tree above. *)
Subtree(start, subDepth) ==
    LET node[d \in 0..subDepth, k \in Nat] ==
            IF d = 0 THEN GetNode(nodes, start + k)
            ELSE [j \in 1..kind.arity |-> node[d - 1, k * kind.arity + j - 1]]
    IN node[subDepth, 0]

GenerateSubrootProof(start, end) ==
    LET subDepth == CHOOSE d \in 0..kind.depth : kind.arity ^ d = end - start
        proof == GenerateProof(start)
        above(s) == SubSeq(s, subDepth + 1, kind.depth)
    IN  [leaf |-> Subtree(start, subDepth), pathIndices |-> above(proof.pathIndices),
         pathElements |-> above(proof.pathElements), root |-> root]

-----------------------------------------------------------------------------
(* circom/utils/trees: QuinarySelector, Splicer and QuinaryGeneratePathIndices, and
   the roots of a leaf and its path, in trees of five and of two. *)
QuinarySelector(in, index) == in[index + 1]

Splicer(in, leaf, index) ==
    [n \in 1..(Len(in) + 1) |->
        LET i == n - 1
        IN IF i = index THEN leaf
           ELSE QuinarySelector(Append(in, Zero), IF i > index THEN i - 1 ELSE i)]

QuinaryGeneratePathIndices(levels, index) == [i \in 1..levels |-> (index \div 5 ^ (i - 1)) % 5]
Num2Bits(levels, index) == [i \in 1..levels |-> (index \div 2 ^ (i - 1)) % 2]

QuinaryTreeInclusionProof(leaf, pathIndices, pathElements) ==
    LET hash[i \in 0..Len(pathElements)] ==
            IF i = 0 THEN leaf ELSE Splicer(pathElements[i], hash[i - 1], pathIndices[i])
    IN hash[Len(pathElements)]

MerkleTreeInclusionProof(leaf, pathIndices, pathElements) ==
    LET hash[i \in 0..Len(pathElements)] ==
            IF i = 0 THEN leaf
            ELSE LET below == hash[i - 1]
                 IN IF pathIndices[i] = 0 THEN Poseidon(below, pathElements[i][1])
                    ELSE Poseidon(pathElements[i][1], below)
    IN hash[Len(pathElements)]

\* The siblings are filled up to MAX_DEPTH; the node at the actual depth is the root.
BinaryMerkleRoot(leaf, depth, index, siblings) ==
    IF depth > Len(siblings) THEN Zero
    ELSE MerkleTreeInclusionProof(leaf, Num2Bits(depth, index), SubSeq(siblings, 1, depth))

QuinaryLeafExists(leaf, pathIndices, pathElements, ofTree) ==
    QuinaryTreeInclusionProof(leaf, pathIndices, pathElements) = ofTree
LeafExists(leaf, pathIndices, pathElements, ofTree) ==
    MerkleTreeInclusionProof(leaf, pathIndices, pathElements) = ofTree

(* The root of all leaves: the hashers of the leaves come first, then those of the
   hashers before them. *)
HashersRoot(arity, leaves) ==
    LET leafHashers == Len(leaves) \div arity
        total == (Len(leaves) - 1) \div (arity - 1)
        hasher[i \in 0..(total - 1)] ==
            [j \in 1..arity |->
                IF i < leafHashers THEN leaves[i * arity + j]
                ELSE hasher[(i - leafHashers) * arity + j - 1]]
    IN hasher[total - 1]

CheckRoot(leaves) == HashersRoot(2, leaves)
QuinaryCheckRoot(leaves) == HashersRoot(5, leaves)

-----------------------------------------------------------------------------
InCircuit(leaf, index, pathElements) ==
    IF kind.arity = 5
    THEN QuinaryTreeInclusionProof(leaf, QuinaryGeneratePathIndices(kind.depth, index), pathElements)
    ELSE MerkleTreeInclusionProof(leaf, Num2Bits(kind.depth, index), pathElements)

RootInCircuit(leaves) ==
    LET ordered == [n \in 1..Capacity |-> leaves[n - 1]]
    IN IF kind.arity = 5 THEN QuinaryCheckRoot(ordered) ELSE CheckRoot(ordered)

\* A proof of any leaf and of any subtree leads to the root, as the node verifies it.
ProofsVerify ==
    /\ \A index \in Positions : VerifyProof(GenerateProof(index))
    /\ \A d \in 1..(kind.depth - 1) : \A k \in 0..(kind.arity ^ (kind.depth - d) - 1) :
          VerifyProof(GenerateSubrootProof(k * kind.arity ^ d, (k + 1) * kind.arity ^ d))

(* The node's trees and the circuits' mean the same: the root is that of the leaves
   put in, and with the path of a leaf the circuit comes from any other value at
   its place to the root of the leaves with that value there (quinTree.ts update
   and generateProof, with the numbering of nodes, the zeros and nodes that are
   zero themselves; utils/trees). *)
PathsLeadToRoots ==
    /\ root = RootInCircuit(contents)
    /\ ProofsVerify
    /\ \A index \in Positions :
          LET path == PathElements(index)
          IN  \A value \in kind.values :
                 InCircuit(value, index, path) = RootInCircuit([contents EXCEPT ![index] = value])
    /\ kind.arity = 2 => \A index \in Positions :
          LET siblings == Append(PathElements(index), <<Zero>>)
          IN  root = BinaryMerkleRoot(contents[index], kind.depth, index, siblings)
=============================================================================
