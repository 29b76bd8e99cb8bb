-------------------------------- MODULE MACI --------------------------------
(***************************************************************************)
(* MACI.sol: the registry of voters' public keys.  A key enters the state  *)
(* tree (a LeanIMT) once, and every sign-up records the root the tree had  *)
(* afterwards; a poll later accepts membership proofs against any of those *)
(* roots (joinPoll, module Poll).                                          *)
(*                                                                         *)
(* The tree is the sequence of its leaves, and the root of the tree holding*)
(* the first n leaves is written n: leaves are only appended, so distinct  *)
(* roots of one history are distinct prefixes (Poseidon is taken to be     *)
(* collision free).  The sign-up policy may refuse any caller; it shows up *)
(* here only as sign-ups that do not happen.                               *)
(***************************************************************************)
EXTENDS Naturals, Sequences

CONSTANTS
    Keys,         \* BabyJubJub public keys whose private key somebody holds
    PadKey,       \* the pad key of leaf 0: nobody holds its private key
    MaxSignups    \* 2^stateTreeDepth, the capacity of the state trees

ASSUME MACIAssumption ==
    /\ PadKey \notin Keys
    /\ MaxSignups \in Nat \ {0}

VARIABLES
    publicKeys,          \* leaves of leanIMTData, in order of insertion
    stateRootsOnSignUp   \* one root per sign-up, the pad leaf's first

maciVars == <<publicKeys, stateRootsOnSignUp>>

MACITypeOK ==
    /\ publicKeys \in Seq(Keys \union {PadKey})
    /\ stateRootsOnSignUp \in Seq(Nat)

\* constructor: the pad leaf and its root
MACIInit ==
    /\ publicKeys = <<PadKey>>
    /\ stateRootsOnSignUp = <<1>>

\* LeanIMT._has: the leaf is already in the tree
SignedUp(key) == \E i \in 1..Len(publicKeys) : publicKeys[i] = key

SignUp(key) ==
    /\ Len(publicKeys) < MaxSignups
    /\ ~SignedUp(key)
    /\ publicKeys' = Append(publicKeys, key)
    /\ stateRootsOnSignUp' = Append(stateRootsOnSignUp, Len(publicKeys) + 1)

\* What a PollJoining proof shows for stateRootsOnSignUp[index]: the key is a
\* leaf of the tree that had this root.
IsMember(key, index) ==
    \E i \in 1..stateRootsOnSignUp[index] : publicKeys[i] = key
=============================================================================
