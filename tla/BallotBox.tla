------------------------------ MODULE BallotBox ------------------------------
(***************************************************************************)
(* What a poll promises to those who take part in it, whatever the way its *)
(* messages are batched and its ballots are counted: a box that takes      *)
(* messages and voters until it is closed; then its messages are read once *)
(* each, the last one first; then its ballots are counted once each; and   *)
(* only then is the outcome announced, for good.                           *)
(***************************************************************************)
EXTENDS Naturals, Sequences

VARIABLES
    cast,        \* number of messages in the box, the placeholder included
    voters,      \* number of ballots, the blank one included
    closed,      \* voting is over
    read,        \* positions of the messages read, in order of reading
    counted,     \* ballots counted, in order of counting
    announced    \* the outcome is public

vars == <<cast, voters, closed, read, counted, announced>>

Init ==
    /\ cast = 1
    /\ voters = 1
    /\ closed \in BOOLEAN
    /\ read = <<>>
    /\ counted = <<>>
    /\ announced = FALSE

\* Any number of messages arrives at once.
Cast ==
    /\ ~closed
    /\ cast' \in Nat
    /\ cast' > cast
    /\ UNCHANGED <<voters, closed, read, counted, announced>>

Join ==
    /\ ~closed
    /\ voters' = voters + 1
    /\ UNCHANGED <<cast, closed, read, counted, announced>>

Close ==
    /\ ~closed
    /\ closed' = TRUE
    /\ UNCHANGED <<cast, voters, read, counted, announced>>

\* The messages at positions cast, cast-1, ... down to n of them, and the first
\* n ballots.
Latest(n) == [i \in 1..n |-> cast + 1 - i]
Ballots(n) == [i \in 1..n |-> i - 1]

Read ==
    /\ closed
    /\ \E n \in 1..cast : n > Len(read) /\ read' = Latest(n)
    /\ UNCHANGED <<cast, voters, closed, counted, announced>>

Count ==
    /\ read = Latest(cast)
    /\ \E n \in 1..voters : n > Len(counted) /\ counted' = Ballots(n)
    /\ UNCHANGED <<cast, voters, closed, read, announced>>

Announce ==
    /\ counted = Ballots(voters)
    /\ announced' = TRUE
    /\ UNCHANGED <<cast, voters, closed, read, counted>>

Next == Cast \/ Join \/ Close \/ Read \/ Count \/ Announce

Spec == Init /\ [][Next]_vars
=============================================================================
