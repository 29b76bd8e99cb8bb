------------------------------ MODULE MCTrees ------------------------------
(* The Merkle trees, each on its own: a behaviour grows one of them. *)
EXTENDS LeanIMT, LazyIMT

CONSTANTS MaxInserts, MaxUpdates

VARIABLES tree, kind, quinNodes, nextIndex, quinRoot, quinContents, updates

quinVars == <<kind, quinNodes, nextIndex, quinRoot, quinContents, updates>>

\* The votes of a ballot, whose zero value is 0, and the ballots of a poll.
QuinKinds ==
    {[arity |-> 5, depth |-> 2, zero |-> Zero, values |-> {Zero, Leaf("1")}],
     [arity |-> 2, depth |-> 3, zero |-> Leaf("0"), values |-> {Leaf("0"), Leaf("1"), Leaf("2")}]}

Quin == INSTANCE QuinTree WITH
            Kinds <- QuinKinds, nodes <- quinNodes, root <- quinRoot, contents <- quinContents

TreesInit ==
    /\ tree \in {"lazy", "lean", "quin"}
    /\ LeanInit
    /\ LazyInit
    /\ Quin!Init
    /\ tree # "quin" => kind.arity = 2

TreesNext ==
    \/ tree = "lean" /\ LeanNext /\ UNCHANGED <<tree, lazyVars, quinVars>>
    \/ tree = "lazy" /\ LazyNext /\ UNCHANGED <<tree, leanVars, quinVars>>
    \/ tree = "quin" /\ Quin!Next /\ UNCHANGED <<tree, leanVars, lazyVars>>

allVars == <<tree, leanVars, lazyVars, quinVars>>

Trees == TreesInit /\ [][TreesNext]_allVars

\* The same with copies of the quinary tree that change, for TreesFound.cfg.
TreesWithCopies ==
    TreesInit /\ [][TreesNext \/ (tree = "quin" /\ Quin!NextWithCopy /\ UNCHANGED <<tree, leanVars, lazyVars>>)]_allVars

\* What is done to a copy leaves the tree's own proofs valid (core Poll.ts:1328).
CopyIsApart == tree = "quin" => Quin!ProofsVerify
PathsLeadToRoots == tree = "quin" => Quin!PathsLeadToRoots
=============================================================================
