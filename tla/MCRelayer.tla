----------------------------- MODULE MCRelayer -----------------------------
(* A relayer with three messages, for one poll or two. *)
EXTENDS Relayer

CONSTANTS m1, m2, m3, p1, p2

ThreeMessages == {m1, m2, m3}
OnePoll == [m \in Messages |-> p1]
TwoPolls == [m \in Messages |-> IF m = m1 THEN p1 ELSE p2]
=============================================================================
