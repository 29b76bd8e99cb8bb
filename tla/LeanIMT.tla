------------------------------- MODULE LeanIMT -------------------------------
(***************************************************************************)
(* trees/LeanIMT.sol: the state tree of MACI.sol, which only inserts, and  *)
(* the library's other operations.  The tree keeps one node per level, the *)
(* sideNodes, and works its root out from them.                            *)
(***************************************************************************)
EXTENDS MerkleNodes, FiniteSets

CONSTANTS
    Values,     \* leaves a caller may insert; none is zero
    MaxSize,    \* bound on the number of leaves, for model checking
    MaxChanges  \* bound on updates and removals, for model checking

ASSUME LeanAssumption == MaxSize \in Nat /\ MaxChanges \in Nat

VARIABLES
    size,        \* size
    depth,       \* depth
    sideNodes,   \* sideNodes, by level; the root is at depth
    leaves,      \* leaves: position + 1 of each leaf, 0 for none
    contents,    \* the leaves by position, Zero for a removed one
    changes      \* history: number of updates and removals

leanVars == <<size, depth, sideNodes, leaves, contents, changes>>

-----------------------------------------------------------------------------
Levels == 0..MaxSize
Has(leaf) == leaves[leaf] # 0

LeanInit ==
    /\ size = 0
    /\ depth = 0
    /\ sideNodes = [level \in Levels |-> Zero]
    /\ leaves = [v \in Values |-> 0]
    /\ contents = <<>>
    /\ changes = 0

(* _insert: one more level when the tree is full. *)
DepthAfterOne == IF PowerOfTwo[depth] < size + 1 THEN depth + 1 ELSE depth

\* The node of the loop before each level: hashed with the side node at odd ones.
NodeAt(leaf) ==
    LET node[level \in Levels] ==
            IF level = 0 THEN leaf
            ELSE IF IsOdd(Shift(size, level - 1))
                 THEN Poseidon(sideNodes[level - 1], node[level - 1])
                 ELSE node[level - 1]
    IN node

\* Where the i-th new leaf is noted; zero is for none.
NewPosition(i) == size + i

LeanInsert(v) ==
    LET node == NodeAt(Leaf(v)) IN
    /\ size < MaxSize
    /\ ~Has(v)
    /\ depth' = DepthAfterOne
    /\ sideNodes' =
          [level \in Levels |->
              IF level = depth' \/ (level < depth' /\ ~IsOdd(Shift(size, level)))
              THEN node[level]
              ELSE sideNodes[level]]
    /\ size' = size + 1
    /\ leaves' = [leaves EXCEPT ![v] = NewPosition(1)]
    /\ contents' = Append(contents, Leaf(v))
    /\ UNCHANGED changes

-----------------------------------------------------------------------------
(* _insertMany: the new nodes of a level, from the first index that changes, give
   those of the next; a node without right sibling is its own parent. *)
DepthAfter(n) == CHOOSE d \in depth..(depth + n) :
                    PowerOfTwo[d] >= n /\ \A e \in depth..(d - 1) : PowerOfTwo[e] < n

SizeAt(total, level) == IF level = 0 THEN total ELSE Shift(total - 1, level) + 1

\* Those of a level from Shift(size, level) on, from the ones below.
NodesAbove(below, total, level) ==
    LET start == Shift(size, level - 1)
        from == Shift(size, level)
        new(k) == below[k - start + 1]
        left(p) == IF 2 * p < start THEN sideNodes[level - 1] ELSE new(2 * p)
    IN  [i \in 1..(SizeAt(total, level) - from) |->
            LET p == from + i - 1
            IN IF 2 * p + 1 < SizeAt(total, level - 1)
               THEN Poseidon(left(p), new(2 * p + 1))
               ELSE left(p)]

NewNodes(vs) ==
    LET nodes[level \in Levels] ==
            IF level = 0 THEN [i \in 1..Len(vs) |-> Leaf(vs[i])]
            ELSE NodesAbove(nodes[level - 1], size + Len(vs), level)
    IN nodes

\* A slip: always the last node.
LastNode(new, count, old) == new[Len(new)]

\* The side node of a level: its last node, or the last but one of an even level.
SideNode(new, count, old) ==
    IF IsOdd(count) THEN new[Len(new)]
    ELSE IF Len(new) > 1 THEN new[Len(new) - 1]
    ELSE old

InsertMany(vs) ==
    LET total == size + Len(vs)
        nodes == NewNodes(vs)
    IN  /\ total <= MaxSize
        /\ \A i \in 1..Len(vs) : ~Has(vs[i])
        /\ \A i, j \in 1..Len(vs) : vs[i] = vs[j] => i = j
        /\ depth' = DepthAfter(total)
        /\ sideNodes' =
              [level \in Levels |->
                  IF level < depth'
                  THEN SideNode(nodes[level], SizeAt(total, level), sideNodes[level])
                  ELSE IF level = depth' THEN nodes[level][1]
                  ELSE sideNodes[level]]
        /\ size' = total
        /\ leaves' = [v \in Values |->
                        IF \E i \in 1..Len(vs) : vs[i] = v
                        THEN NewPosition(CHOOSE i \in 1..Len(vs) : vs[i] = v)
                        ELSE leaves[v]]
        /\ contents' = contents \o [i \in 1..Len(vs) |-> Leaf(vs[i])]
        /\ UNCHANGED changes

-----------------------------------------------------------------------------
(* The tree the library is to represent: the parent of a node without right
   sibling is that node. *)
NodeOf(values) ==
    LET node[level \in Levels] ==
            [k \in Nat |->
                IF level = 0 THEN values[k + 1]
                ELSE IF 2 * k + 1 < SizeAt(Len(values), level - 1)
                THEN Poseidon(node[level - 1][2 * k], node[level - 1][2 * k + 1])
                ELSE node[level - 1][2 * k]]
    IN node

RootOf(values) ==
    IF values = <<>> THEN Zero
    ELSE NodeOf(values)[CHOOSE d \in 0..Len(values) :
                           PowerOfTwo[d] >= Len(values) /\ \A e \in 0..(d - 1) : PowerOfTwo[e] < Len(values)][0]

-----------------------------------------------------------------------------
(* _update: the caller passes the siblings on the leaf's path, from the tree it
   knows.  Where the path is the right edge there is no sibling. *)
HasSibling(index, level) ==
    IsOdd(Shift(index, level)) \/ Shift(index, level) # Shift(size - 1, level)

Sibling(index, level) ==
    LET k == Shift(index, level)
    IN NodeOf(contents)[level][IF IsOdd(k) THEN k - 1 ELSE k + 1]

Climb(index, start) ==
    LET node[level \in Levels] ==
            IF level = 0 THEN start
            ELSE IF IsOdd(Shift(index, level - 1))
                 THEN Poseidon(Sibling(index, level - 1), node[level - 1])
                 ELSE IF HasSibling(index, level - 1)
                      THEN Poseidon(node[level - 1], Sibling(index, level - 1))
                      ELSE node[level - 1]
    IN node

\* The side nodes are written at i, the number of siblings used so far.
SiblingsBelow(index, level) == Cardinality({l \in 0..(level - 1) : HasSibling(index, l)})

EdgeNodes(index, node) ==
    LET edge == {level \in 0..(depth - 1) : ~HasSibling(index, level)}
        written(i) == {level \in edge : SiblingsBelow(index, level) = i}
    IN  [i \in Levels |->
            IF written(i) = {} THEN sideNodes[i]
            ELSE node[CHOOSE l \in written(i) : \A m \in written(i) : m <= l]]

SideNodesAfter(index, node) == [EdgeNodes(index, node) EXCEPT ![depth] = node[depth]]

Replace(old, new) ==
    LET index == leaves[old] - 1
    IN  /\ Has(old)
        /\ changes < MaxChanges
        /\ changes' = changes + 1
        /\ Climb(index, Leaf(old))[depth] = sideNodes[depth]
        /\ sideNodes' = SideNodesAfter(index, Climb(index, new))
        /\ contents' = [contents EXCEPT ![index + 1] = new]
        /\ UNCHANGED <<size, depth>>

LeanUpdate(old, v) ==
    /\ ~Has(v)
    /\ Replace(old, Leaf(v))
    /\ leaves' = [leaves EXCEPT ![v] = leaves[old], ![old] = 0]

\* _remove: an update with zero, which is no leaf.
LeanRemove(old) ==
    /\ Replace(old, Zero)
    /\ leaves' = [leaves EXCEPT ![old] = 0]

-----------------------------------------------------------------------------
Batches == UNION {[1..n -> Values] : n \in 1..3}

Change ==
    \/ \E old, v \in Values : LeanUpdate(old, v)
    \/ \E old \in Values : LeanRemove(old)

LeanNext ==
    \/ \E v \in Values : LeanInsert(v)
    \/ \E vs \in Batches : InsertMany(vs)
    \/ Change

LeanSpec == LeanInit /\ [][LeanNext]_leanVars

-----------------------------------------------------------------------------
LeanRoot == sideNodes[depth]

(* The root worked out from the side nodes is the root of the leaves, whatever
   the mixture of single and multiple insertions that brought them in (LeanIMT.sol
   _insert against _insertMany, as MACI.sol uses them: no leaf is ever updated). *)
GrownRootMatches == changes = 0 => LeanRoot = RootOf(contents)

(* An update or removal in a tree with the right root leaves the right root. *)
ChangeKeepsRoot ==
    [][Change /\ LeanRoot = RootOf(contents) => LeanRoot' = RootOf(contents')]_leanVars

(* Both: the registry's insertions, and a change to what they left. *)
RootStaysRight == [][GrownRootMatches']_leanVars /\ ChangeKeepsRoot

(* LeanIMT.sol:225-226 of _update, "Updates the value of an existing leaf and
   recalculates hashes to maintain tree integrity": the root stays that of the
   leaves, whatever is inserted afterwards. *)
UpdatesKeepIntegrity == LeanRoot = RootOf(contents)
=============================================================================
