------------------------------- MODULE LazyIMT -------------------------------
(***************************************************************************)
(* trees/LazyIMT.sol and the way Poll.sol uses it: the poll state tree.    *)
(* An insertion stores the nodes it completes and leaves the others to be  *)
(* computed by _root, with the zero subtrees Z_i on the right.  joinPoll   *)
(* stores what _insert returns as the root on join; mergeState calls _root.*)
(***************************************************************************)
EXTENDS MerkleNodes

CONSTANTS
    JoinLeaves,  \* hashes of state leaves
    BlankLeaf,   \* BLANK_STATE_LEAF_HASH
    MaxSignups,  \* maxSignups, 2^stateTreeDepth
    MaxDepth     \* MAX_DEPTH, which no depth of a tree exceeds

ASSUME LazyAssumption ==
    /\ MaxDepth \in Nat \ {0}
    /\ MaxSignups \in 1..PowerOfTwo[MaxDepth]

VARIABLES
    numberOfLeaves,        \* numberOfLeaves
    elements,              \* elements: nodes by level and index
    pollStateRootsOnJoin,  \* pollStateRootsOnJoin of the poll
    inserted               \* the leaves in the order of insertion

lazyVars == <<numberOfLeaves, elements, pollStateRootsOnJoin, inserted>>

-----------------------------------------------------------------------------
\* _defaultZero: Z_0 is the hash of the blank leaf, Z_(i+1) that of two Z_i.
DefaultZero[i \in 0..MaxDepth] ==
    IF i = 0 THEN Leaf(BlankLeaf) ELSE Poseidon(DefaultZero[i - 1], DefaultZero[i - 1])

\* The number of levels an insertion at index completes: the trailing ones.
Completed(index) ==
    CHOOSE m \in 0..index :
        /\ ~IsOdd(Shift(index, m))
        /\ \A i \in 0..(m - 1) : IsOdd(Shift(index, i))

\* A slip: left and right are swapped.
HashAtSwapped(index, leaf) ==
    LET hash[i \in 0..MaxDepth] ==
            IF i = 0 THEN leaf
            ELSE Poseidon(hash[i - 1], elements[<<i - 1, Shift(index, i - 1) - 1>>])
    IN hash

\* The loop of _insert: its hash at every level, from the stored left siblings.
HashAt(index, leaf) ==
    LET hash[i \in 0..MaxDepth] ==
            IF i = 0 THEN leaf
            ELSE Poseidon(elements[<<i - 1, Shift(index, i - 1) - 1>>], hash[i - 1])
    IN hash

Put(nodes, index, hash) ==
    LET new == {<<i, Shift(index, i)>> : i \in 0..Completed(index)}
    IN [e \in DOMAIN nodes \union new |-> IF e \in new THEN hash[e[1]] ELSE nodes[e]]

(* _insert returns the hash at the level where it stopped. *)
LazyInsert(leaf) ==
    LET hash == HashAt(numberOfLeaves, Leaf(leaf)) IN
    /\ numberOfLeaves' = numberOfLeaves + 1
    /\ elements' = Put(elements, numberOfLeaves, hash)
    /\ inserted' = Append(inserted, leaf)
    /\ pollStateRootsOnJoin' =
          Append(pollStateRootsOnJoin, hash[Completed(numberOfLeaves)])

JoinPoll(leaf) ==
    /\ numberOfLeaves < MaxSignups
    /\ LazyInsert(leaf)

\* Poll._initialize: the blank leaf is inserted and pushed as the first root.
LazyInit ==
    /\ numberOfLeaves = 1
    /\ elements = [e \in {<<0, 0>>} |-> Leaf(BlankLeaf)]
    /\ inserted = <<BlankLeaf>>
    /\ pollStateRootsOnJoin = <<Leaf(BlankLeaf)>>

LazyNext == \E leaf \in JoinLeaves : JoinPoll(leaf)

LazySpec == LazyInit /\ [][LazyNext]_lazyVars

-----------------------------------------------------------------------------
(* _levels: the right edge of the tree, level by level. *)
RootAt(depth) ==
    LET last == numberOfLeaves - 1
        levels[i \in 0..MaxDepth] ==
            IF i = 0 THEN
                IF IsOdd(last) THEN DefaultZero[0] ELSE elements[<<0, last>>]
            ELSE LET index == Shift(last, i - 1)
                 IN IF ~IsOdd(index)
                    THEN Poseidon(levels[i - 1], DefaultZero[i - 1])
                    ELSE IF Shift(numberOfLeaves, i) > Shift(index, 1)
                         THEN elements[<<i, Shift(index, 1)>>]
                         ELSE Poseidon(elements[<<i - 1, index - 1>>], levels[i - 1])
    IN levels[depth]

\* _root: the least depth from 1 that holds the leaves.
DynamicDepth(n) ==
    CHOOSE d \in 1..MaxDepth :
        /\ PowerOfTwo[d] >= n
        /\ \A e \in 1..(d - 1) : PowerOfTwo[e] < n

LazyRoot == RootAt(DynamicDepth(numberOfLeaves))

-----------------------------------------------------------------------------
(* The root of the complete tree of a depth over leaves, blank leaves on the
   right: what the circuits compute (trees/CheckRoot, IncrementalMerkleTree of
   the coordinator's node). *)
NodesOver(leaves) ==
    LET node[d \in 0..MaxDepth] ==
            [k \in Nat |->
                IF d = 0
                THEN Leaf(IF k < Len(leaves) THEN leaves[k + 1] ELSE BlankLeaf)
                ELSE Poseidon(node[d - 1][2 * k], node[d - 1][2 * k + 1])]
    IN node

FullTree(leaves, depth) == NodesOver(leaves)[depth][0]

(* The lazily computed root is the root of the full tree, at every depth that
   holds the leaves and whatever the order of completed and open subtrees
   (LazyIMT.sol _insert against _levels). *)
LazyRootIsRoot ==
    /\ LazyRoot = FullTree(inserted, DynamicDepth(numberOfLeaves))
    /\ \A d \in 1..DynamicDepth(MaxSignups) :
          PowerOfTwo[d] >= numberOfLeaves => RootAt(d) = FullTree(inserted, d)

(* Poll.sol:104-106 of pollStateRootsOnJoin: the poll state tree root of the N'th
   join is stored at index N (the blank leaf's, at index 0, is nobody's join). *)
JoinRootsAreRoots ==
    \A n \in 2..Len(inserted) :
        pollStateRootsOnJoin[n] = FullTree(SubSeq(inserted, 1, n), DynamicDepth(n))
=============================================================================
