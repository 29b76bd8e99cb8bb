----------------------------- MODULE MCReplay -----------------------------
(* The events of up to two polls, read by the coordinator's client and by the subgraph. *)
EXTENDS Replay

Index == INSTANCE Subgraph

IndexCounts == Index!IndexCounts
MergedTotals == Index!MergedTotals
RegistryCount == Index!RegistryCount
=============================================================================
