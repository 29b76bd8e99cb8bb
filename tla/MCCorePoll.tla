----------------------------- MODULE MCCorePoll -----------------------------
(* Two voters, two options of five, and the messages that interfere: changed and
   withdrawn votes, key changes, repeated nonces, and the invalid ones. *)
EXTENDS CorePoll

CONSTANTS k1, k2, k3

TwoJoined == <<k1, k2>>

\* Enough for two votes of an option and one of the other, or two in all.
FewCredits == [m \in Modes |-> IF m = "QV" THEN 5 ELSE 2]

Command(i, k, o, w, n, s) ==
    [index |-> i, key |-> k, option |-> o, weight |-> w, nonce |-> n, signer |-> s]

\* The second key signs only what comes after the change to it.
OfFirst ==
    {Command(1, k, o, w, ns[1], ns[2]) :
        k \in {k1, k3}, o \in {0, 1}, w \in 0..2, ns \in {<<1, k1>>, <<2, k1>>, <<2, k3>>}}

OfSecond == {Command(2, k2, 1, w, n, k2) : w \in {1, 2}, n \in {1, 2}}

Odd ==
    {Command(0, k1, 0, 1, 1, k1),           \* the blank leaf
     Command(3, k1, 1, 1, 1, k1),           \* beyond the leaves
     Command(1, k1, 2, 1, 1, k1),           \* beyond the options
     Command(1, k1, 0, 3, 1, k1),           \* beyond the credits
     Command(2, k1, 0, 1, 1, k1),           \* somebody else's leaf
     Command(1, k1, 0, 1, 1, NoSigner)}

SomeCommands == OfFirst \union OfSecond \union Odd
=============================================================================
