----------------------------- MODULE Submission -----------------------------
(***************************************************************************)
(* tasks/helpers/Prover.ts, as sdk/ts/proof/prove.ts (proveOnChain) runs   *)
(* it: the proofs the coordinator generated are sent to the contracts of a *)
(* round one by one, each checked against the contracts first.  A run that *)
(* throws, or is interrupted, is repeated by its caller from the start; it *)
(* then has to find its place from what the contracts say.                 *)
(*                                                                         *)
(* Proofs are numbered as their files are: process proof i belongs to the  *)
(* i-th batch from the end, tally proof i to the i-th batch of ballots.    *)
(***************************************************************************)
EXTENDS Round

CONSTANT MaxInterruptions   \* how often a run is cut off, for model checking

ASSUME SubmissionAssumption == MaxInterruptions \in Nat

VARIABLES
    pc,             \* where the run of proveOnChain is
    proof,          \* the loop variable i: the number of the next proof
    hashes,         \* the run's copy of batchHashes
    total,          \* totalMessageBatches
    seen,           \* numberBatchesProcessed
    interruptions

runVars == <<pc, proof, hashes, total, seen>>
proverVars == <<runVars, interruptions>>
roundVars == vars
allVars == <<vars, proverVars>>

-----------------------------------------------------------------------------
(* What ProofGenerator.ts produced, once the poll was merged: the batches and
   their hashes are those of the coordinator's node. *)
GeneratedHashes ==
    Checkpoints \o (IF numMessages % MessageBatchSize # 0 THEN <<numMessages>> ELSE <<>>)

ProcessProofs == Len(GeneratedHashes) - 1
TallyProofs == (TotalSignups + TallyBatchSize - 1) \div TallyBatchSize

\* Input and output hash of process proof i; the last batch comes first.
InputOf(i) == GeneratedHashes[ProcessProofs - i]
OutputOf(i) == GeneratedHashes[ProcessProofs - i + 1]

-----------------------------------------------------------------------------
(* proveMessageProcessing: what it reads from the contracts. *)
Start ==
    /\ pc = "idle"
    /\ stateMerged
    /\ pc' = "messages"
    /\ proof' = totalBatchesProcessed
    /\ hashes' = batchHashes
    /\ total' = Len(batchHashes)
    /\ seen' = totalBatchesProcessed
    /\ UNCHANGED <<roundVars, interruptions>>

\* A slip: the contract's padding is not foreseen.
UnpaddedHashes == hashes

\* The hashes and the batch index of an iteration; the first one pads its copy.
PaddedHashes ==
    IF seen = 0 /\ numMessages % MessageBatchSize # 0
    THEN Append(hashes, chainHash)
    ELSE hashes

BatchIndex == IF seen = 0 THEN Len(PaddedHashes) - 1 ELSE total - seen

\* A slip: the batch hashes are not compared.
ProofExists == proof < ProcessProofs /\ BatchIndex > 0

\* The checks before the transaction; without the proof or a hash they throw.
ProofFits ==
    /\ proof < ProcessProofs
    /\ BatchIndex > 0
    /\ PaddedHashes[BatchIndex] = InputOf(proof)
    /\ PaddedHashes[BatchIndex + 1] = OutputOf(proof)

SendProcessProof ==
    /\ pc = "messages"
    /\ proof < total
    /\ ProofFits
    /\ Process
    /\ proof' = proof + 1
    /\ hashes' = PaddedHashes
    /\ seen' = totalBatchesProcessed'
    /\ UNCHANGED <<pc, total, interruptions>>

\* proveTally starts where the tally contract is.
StartTally ==
    /\ pc = "messages"
    /\ proof >= total
    /\ pc' = "tally"
    /\ proof' = tallyBatchNum
    /\ UNCHANGED <<roundVars, hashes, total, seen, interruptions>>

\* updateSbCommitment and tallyVotes are two transactions.
SendSbUpdate ==
    /\ pc = "tally"
    /\ proof = 0
    /\ tallySbCommitment = NoSb
    /\ CopySb
    /\ UNCHANGED proverVars

SendTallyProof ==
    /\ pc = "tally"
    /\ proof < TallyProofs
    /\ proof = 0 => tallySbCommitment # NoSb
    /\ Count
    /\ proof' = proof + 1
    /\ UNCHANGED <<pc, hashes, total, seen, interruptions>>

\* submitResults sends them all at once.
SendResults ==
    /\ pc = "tally"
    /\ proof >= TallyProofs
    /\ SubmitAll
    /\ pc' = "done"
    /\ UNCHANGED <<proof, hashes, total, seen, interruptions>>

\* An iteration whose checks fail throws, and the caller tries again.
Throw ==
    /\ pc = "messages"
    /\ proof < total
    /\ ~ProofFits
    /\ pc' = "idle"
    /\ UNCHANGED <<roundVars, proof, hashes, total, seen, interruptions>>

\* The process ends, or a request or a transaction fails.
Interrupt ==
    /\ pc \in {"messages", "tally"}
    /\ interruptions < MaxInterruptions
    /\ interruptions' = interruptions + 1
    /\ pc' = "idle"
    /\ UNCHANGED <<roundVars, proof, hashes, total, seen>>

Prove ==
    \/ Start \/ SendProcessProof \/ StartTally
    \/ SendSbUpdate \/ SendTallyProof \/ SendResults \/ Throw

-----------------------------------------------------------------------------
\* What voters, relayers, the clock and whoever merges or pads do; nobody else proves.
Others ==
    /\ Register \/ Join \/ Publish \/ Relay \/ Pass \/ Merge \/ Pad
    /\ UNCHANGED proverVars

ProverInit ==
    /\ Init
    /\ pc = "idle"
    /\ proof = 0
    /\ hashes = <<>>
    /\ total = 0
    /\ seen = 0
    /\ interruptions = 0

ProverNext == Others \/ Prove \/ Interrupt

(* Blocks are produced, the merge is repeated until it is done, and a run goes on
   and is started again whenever it has ended early. *)
ProverSpec ==
    /\ ProverInit
    /\ [][ProverNext]_allVars
    /\ WF_allVars(Pass /\ UNCHANGED proverVars)
    /\ WF_allVars(Merge /\ UNCHANGED proverVars)
    /\ WF_allVars(Prove)

-----------------------------------------------------------------------------
(* A run that is out of step with the contracts sends nothing: a proof that passes
   the checks is the next one, for the batch the contract is at (the comparison of
   batch hashes is what stops a run that was started again). *)
FittingProofIsNext ==
    (pc = "messages" /\ proof < total /\ ProofFits) =>
        /\ proof = totalBatchesProcessed
        /\ BatchIndex = IF totalBatchesProcessed = 0
                        THEN Len(batchHashes \o Padding) - 1
                        ELSE currentBatchIndex

(* The proofs of a poll whose last batch is not full get all on chain, and its
   results with them, if no run has to start from padded batch hashes: runs may be cut
   off before their first proof, and others pad while a run is under way. *)
EventuallyProved ==
    <>[](numMessages % MessageBatchSize # 0) /\ [](isBatchHashesPadded => pc # "idle")
        => <>AllResultsIn

(* Prover.ts:114, "process all batches left", of every poll: the last batch may be
   full as well. *)
ProcessesAllBatches == [](interruptions = 0) => <>AllResultsIn

(* The same, and scheduler.service.ts:126, "Finalize poll starting from any step": a
   run that was cut off is made good by the next one. *)
ResumesToTheEnd ==
    <>[](numMessages % MessageBatchSize # 0) /\ [](isBatchHashesPadded => totalBatchesProcessed > 0)
        => <>AllResultsIn

(* Poll.sol:327, "Anyone can call this function, it will only pad once": whoever pads,
   a run that is not cut off gets to the end. *)
PaddedByAnybody ==
    [](interruptions = 0) /\ <>[](numMessages % MessageBatchSize # 0) => <>AllResultsIn
=============================================================================
