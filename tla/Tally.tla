-------------------------------- MODULE Tally --------------------------------
(***************************************************************************)
(* Tally.sol: the ballots of a processed poll are counted TallyBatchSize   *)
(* at a time, each batch proved by the VoteTally circuit on top of the     *)
(* previous tally commitment; the results are then opened one by one from  *)
(* the last commitment by their Merkle paths.                              *)
(*                                                                         *)
(* A tally commitment stands for what was counted to obtain it: the        *)
(* commitment to the ballots, and the ballots in the order of counting.    *)
(***************************************************************************)
EXTENDS MessageProcessor, FiniteSets

CONSTANTS
    TallyBatchSize,   \* TREE_ARITY ^ tallyProcessingStateTreeDepth
    OptionCapacity,   \* VOTE_OPTION_TREE_ARITY ^ voteOptionTreeDepth
    ResultIndices     \* the indices results are submitted under

ASSUME TallyAssumption ==
    /\ TallyBatchSize \in Nat \ {0}
    /\ OptionCapacity \in Nat \ {0}
    /\ ResultIndices \subseteq Nat
    /\ IsFiniteSet(ResultIndices)

VARIABLES
    tallySbCommitment,   \* sbCommitment of the Tally contract
    tallyBatchNum,       \* tallyBatchNum
    tallyCommitment,     \* tallyCommitment
    tallyResults,        \* tallyResults
    totalTallyResults,   \* totalTallyResults
    totalSpent           \* the commitment totalSpent was opened from

tallyVars == <<tallySbCommitment, tallyBatchNum, tallyCommitment,
               tallyResults, totalTallyResults, totalSpent>>

-----------------------------------------------------------------------------
TallyCommitments == [sb : SbCommitments, counted : Seq(Nat)]
NoTally == [sb |-> NoSb, counted |-> <<>>]

\* A stored result: the leaf of the result tree it is, and the tree's commitment.
Results == [leaf : Nat, of : TallyCommitments]
NoResult == [leaf |-> 0, of |-> NoTally]

TallyTypeOK ==
    /\ tallySbCommitment \in SbCommitments
    /\ tallyBatchNum \in Nat
    /\ tallyCommitment \in TallyCommitments
    /\ tallyResults \in [ResultIndices -> Results]
    /\ totalTallyResults \in Nat
    /\ totalSpent \in TallyCommitments

TallyInit ==
    /\ tallySbCommitment = NoSb
    /\ tallyBatchNum = 0
    /\ tallyCommitment = NoTally
    /\ tallyResults = [i \in ResultIndices |-> NoResult]
    /\ totalTallyResults = 0
    /\ totalSpent = NoTally

-----------------------------------------------------------------------------
TotalSignups == Len(pollStateTree)

\* Slips: the ballots are not asked about, or one more batch is waited for.
DeadlinePassed == EndDate <= now
TalliedBeyond == EndDate <= now /\ tallyBatchNum * TallyBatchSize > TotalSignups

IsTallied ==
    /\ EndDate <= now
    /\ tallyBatchNum * TallyBatchSize >= TotalSignups

(* updateSbCommitment: the commitment is copied when it is first asked for. *)
CopySbCommitment ==
    /\ processingComplete
    /\ tallySbCommitment' =
          IF tallySbCommitment = NoSb THEN sbCommitment ELSE tallySbCommitment

UpdateSbCommitment ==
    /\ CopySbCommitment
    /\ UNCHANGED <<tallyBatchNum, tallyCommitment, tallyResults,
                   totalTallyResults, totalSpent>>

\* A slip: the batch starts a ballot early.
BatchFromBefore(start, leaves) ==
    [j \in 1..(Least(start + TallyBatchSize, leaves) - start) |-> start + j - 2]

(* The ballots the circuit adds for the batch at start: those of the merged
   tree; the leaves beyond it are blank and add nothing. *)
BatchOfBallots(start, leaves) ==
    [j \in 1..(Least(start + TallyBatchSize, leaves) - start) |-> start + j - 1]

(* The circuit starts from zero at index 0 and otherwise from the results that
   tallyCommitment opens to. *)
Counted(start, leaves) ==
    (IF start = 0 THEN <<>> ELSE tallyCommitment.counted)
        \o BatchOfBallots(start, leaves)

TallyVotes ==
    LET start == tallyBatchNum * TallyBatchSize IN
    /\ CopySbCommitment
    /\ start < TotalSignups
    /\ tallyBatchNum' = tallyBatchNum + 1
    /\ tallyCommitment' = [sb |-> tallySbCommitment',
                           counted |-> Counted(start, tallySbCommitment'.root)]
    /\ UNCHANGED <<tallyResults, totalTallyResults, totalSpent>>

(* addTallyResults: computeMerkleRootFromPath reads an index modulo the capacity
   of the tree, and the value must be the leaf found there. *)
IsSet(index) == tallyResults[index] # NoResult

AddTallyResults(indices) ==
    /\ IsTallied
    /\ tallyCommitment # NoTally
    /\ tallyResults' =
          [i \in ResultIndices |->
              IF i \in indices
              THEN [leaf |-> i % OptionCapacity, of |-> tallyCommitment]
              ELSE tallyResults[i]]
    /\ totalTallyResults' =
          totalTallyResults + Cardinality({i \in indices : ~IsSet(i)})
    /\ totalSpent' = tallyCommitment
    /\ UNCHANGED <<tallySbCommitment, tallyBatchNum, tallyCommitment>>
=============================================================================
