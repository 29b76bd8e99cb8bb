-------------------------------- MODULE Round --------------------------------
(***************************************************************************)
(* One voting round on chain: a MACI registry, one poll, its message       *)
(* processor and its tally, called in any order by anybody.  The prover    *)
(* and the deployer's scripts (tasks/helpers/Prover.ts, proveOnChain) add  *)
(* no rule of their own: what they call and when shows up as fairness.     *)
(***************************************************************************)
EXTENDS Tally

vars == <<maciVars, pollVars, processorVars, tallyVars>>

TypeOK == MACITypeOK /\ PollTypeOK /\ ProcessorTypeOK /\ TallyTypeOK

Init == MACIInit /\ PollInit /\ ProcessorInit /\ TallyInit

-----------------------------------------------------------------------------
Register ==
    /\ \E key \in Keys : SignUp(key)
    /\ UNCHANGED <<pollVars, processorVars, tallyVars>>

Join ==
    /\ \E key \in Keys, index \in 1..Len(stateRootsOnSignUp) : JoinPoll(key, index)
    /\ UNCHANGED <<maciVars, processorVars, tallyVars>>

Publish ==
    /\ \E len \in PublishLengths : PublishMessageBatch(len)
    /\ UNCHANGED <<maciVars, processorVars, tallyVars>>

Relay ==
    /\ \E len \in RelayLengths : RelayMessagesBatch(len)
    /\ UNCHANGED <<maciVars, processorVars, tallyVars>>

Pass  == Tick /\ UNCHANGED <<maciVars, processorVars, tallyVars>>
Pad   == PadLastBatch /\ UNCHANGED <<maciVars, processorVars, tallyVars>>
Merge == MergeState /\ UNCHANGED <<maciVars, processorVars, tallyVars>>

Process == ProcessMessages /\ UNCHANGED <<maciVars, tallyVars>>

CopySb == UpdateSbCommitment /\ UNCHANGED <<maciVars, pollVars, processorVars>>
Count  == TallyVotes /\ UNCHANGED <<maciVars, pollVars, processorVars>>

Submit ==
    /\ \E indices \in SUBSET ResultIndices : AddTallyResults(indices)
    /\ UNCHANGED <<maciVars, pollVars, processorVars>>

Next ==
    \/ Register \/ Join \/ Publish \/ Relay \/ Pass
    \/ Pad \/ Merge \/ Process
    \/ CopySb \/ Count \/ Submit

Spec == Init /\ [][Next]_vars

-----------------------------------------------------------------------------
(* Blocks go on being produced, and the coordinator's finalisation repeats each
   of its transactions until it has succeeded: merge, process and tally until
   complete, submit every result. *)
SubmitAll ==
    /\ AddTallyResults(ResultIndices)
    /\ UNCHANGED <<maciVars, pollVars, processorVars>>

Fairness ==
    /\ WF_vars(Pass)
    /\ WF_vars(Merge)
    /\ WF_vars(Process)
    /\ WF_vars(Count)
    /\ WF_vars(SubmitAll)

FairSpec == Spec /\ Fairness

-----------------------------------------------------------------------------
(* The messages and ballots of a closed poll, in the order in which the round
   has to go through them. *)
AllMessages == [i \in 1..numMessages |-> numMessages + 1 - i]
AllBallots == [i \in 1..TotalSignups |-> i - 1]

FinalTally ==
    [sb |-> [root |-> TotalSignups, applied |-> AllMessages],
     counted |-> AllBallots]

(* The batch hashes the coordinator's node computes from the events of the poll
   (core Poll.ts updateChainHash and padLastBatch): one per full batch, and the
   chain's end when the last batch is not full. *)
Checkpoints ==
    [k \in 1..(numMessages \div MessageBatchSize + 1) |-> (k - 1) * MessageBatchSize]

CoreBatchHashes ==
    Checkpoints \o
        (IF isBatchHashesPadded /\ numMessages % MessageBatchSize # 0
         THEN <<numMessages>>
         ELSE <<>>)

(* The contract's batch hashes are those of the coordinator's node, however
   publishing, relaying, the deadline and padding interleave (Poll.sol
   updateChainHash, padLastBatch against core Poll.ts). *)
BatchHashesAgree == batchHashes = CoreBatchHashes

(* Processing is complete only once every message of the chain has been applied
   to the state that was merged, once, the last one first (MessageProcessor.sol
   processMessages and its arithmetic on batch indices). *)
EveryMessageOnce ==
    processingComplete =>
        sbCommitment = [root |-> TotalSignups, applied |-> AllMessages]

(* The batches still to process are those below currentBatchIndex: the index of
   processMessages never runs out before, nor after, the count of its last line
   says that processing is complete. *)
IndexMeetsCount ==
    totalBatchesProcessed > 0 => (processingComplete <=> currentBatchIndex = 0)

(* Once the tally contract calls the votes tallied, the commitment that results
   are opened from has counted each ballot once (Tally.sol isTallied against
   tallyVotes and the index the circuit starts from). *)
EveryBallotOnce ==
    IsTallied => tallyCommitment = FinalTally

(* A stored result, and the spent credits, were opened from the final tally: all
   messages applied, all ballots counted (Tally.sol addTallyResults). *)
ResultsAreFinal ==
    /\ \A i \in ResultIndices : IsSet(i) => tallyResults[i].of = FinalTally
    /\ totalSpent \in {NoTally, FinalTally}

(* Nobody has two leaves in the poll, and every leaf but the blank one belongs to
   a registered key (Poll.sol joinPoll against MACI.sol signUp, over any choice
   of stateRootsOnSignUp index). *)
OneLeafPerVoter ==
    /\ \A i, j \in 1..TotalSignups : pollStateTree[i] = pollStateTree[j] => i = j
    /\ \A i \in 2..TotalSignups : SignedUp(pollStateTree[i]) /\ pollStateTree[i] # PadKey

(* The depth that mergeState hands to the circuits fits every leaf of the poll,
   at every later moment too. *)
LeavesFit ==
    stateMerged =>
        /\ currentSbCommitment.root = TotalSignups
        /\ TotalSignups <= 2^actualStateTreeDepth

(* After the first padding or merge the poll takes no message and no voter
   (Poll.sol: the modifiers on the deadline). *)
ClosedForGood ==
    [][isBatchHashesPadded \/ stateMerged =>
        UNCHANGED <<numMessages, chainHash, joinVars>>]_vars

(* A result that was stored is never replaced by another value (Tally.sol
   addTallyResults may be called again and tallyVotes in between). *)
ResultsNeverChange ==
    [][\A i \in ResultIndices : IsSet(i) => tallyResults'[i] = tallyResults[i]]_vars

(* The finalisation comes to its end: all results stored (Prover.ts and
   proveOnChain call each transaction until it succeeds). *)
AllResultsIn == totalTallyResults = Cardinality(ResultIndices)
EventuallyTallied == <>AllResultsIn

-----------------------------------------------------------------------------
(* The round keeps the promises of a ballot box that closes at the deadline. *)
Box == INSTANCE BallotBox WITH
    cast <- numMessages,
    voters <- TotalSignups,
    closed <- now >= EndDate,
    read <- sbCommitment.applied,
    counted <- tallyCommitment.counted,
    announced <- totalSpent # NoTally

(* Every step of the four contracts is a step of the ballot box, or none. *)
KeepsPromises == Box!Spec
=============================================================================
