----------------------------- MODULE MerkleNodes -----------------------------
(***************************************************************************)
(* The nodes of the two Merkle trees in contracts/trees.  PoseidonT3 is    *)
(* taken to be injective, so a hash is the pair of its arguments; a leaf   *)
(* is a 1-tuple and the value zero the empty one, which keeps the three    *)
(* kinds apart.                                                            *)
(***************************************************************************)
EXTENDS Naturals, Sequences

Zero == <<>>
Leaf(x) == <<x>>
Poseidon(left, right) == <<left, right>>

PowerOfTwo[i \in Nat] == IF i = 0 THEN 1 ELSE 2 * PowerOfTwo[i - 1]

\* n shifted to the right by i, one bit at a time as the loops do it, and its last bit.
Shift(n, i) ==
    LET shifted[j \in Nat] == IF j = 0 THEN n ELSE shifted[j - 1] \div 2
    IN  shifted[i]
IsOdd(n) == n % 2 = 1
=============================================================================
