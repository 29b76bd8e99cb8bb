-------------------------- MODULE MessageProcessor --------------------------
(***************************************************************************)
(* MessageProcessor.sol: the batches of a poll's messages are proved one   *)
(* per call, from the last to the first.                                   *)
(*                                                                         *)
(* A proof is accepted exactly when the statement of the MessageProcessor  *)
(* circuit is true of the public inputs.  The circuit chains the messages  *)
(* at positions [index, batchEndIndex) of a batch onto a private input     *)
(* hash and requires the result to be outputBatchHash; hashes being        *)
(* injective, the messages are the last ones below outputBatchHash, and    *)
(* they are applied in reverse order to the committed state.               *)
(***************************************************************************)
EXTENDS Poll

VARIABLES
    processingComplete,     \* processingComplete
    totalBatchesProcessed,  \* totalBatchesProcessed
    currentBatchIndex,      \* currentBatchIndex, 0-based as in the contract
    sbCommitment            \* sbCommitment

processorVars ==
    <<processingComplete, totalBatchesProcessed, currentBatchIndex, sbCommitment>>

ProcessorTypeOK ==
    /\ processingComplete \in BOOLEAN
    /\ totalBatchesProcessed \in Nat
    /\ currentBatchIndex \in Nat
    /\ sbCommitment \in SbCommitments

ProcessorInit ==
    /\ processingComplete = FALSE
    /\ totalBatchesProcessed = 0
    /\ currentBatchIndex = 1
    /\ sbCommitment = NoSb

-----------------------------------------------------------------------------
Least(a, b) == IF a <= b THEN a ELSE b

(* getPublicCircuitInputs: the interval of message indices of a batch. *)
BatchEnd(index) == Least(index * MessageBatchSize, numMessages)
BatchStart(index) == IF index > 0 THEN (index - 1) * MessageBatchSize ELSE 0

\* A slip: batchEndIndex is not looked at.
WholeBatch(index) == MessageBatchSize

(* How many slots of the batch the circuit chains: those whose index is below
   batchEndIndex. *)
ChainedIn(index) ==
    IF BatchEnd(index) <= BatchStart(index)
    THEN 0
    ELSE Least(MessageBatchSize, BatchEnd(index) - BatchStart(index))

\* A slip: a batch is applied from its first message on.
ApplyForward(sb, output, count) ==
    [sb EXCEPT !.applied = @ \o [i \in 1..count |-> output - count + i]]

(* The circuit: the count messages that end at position output are applied to
   the ballots, the last one first. *)
Apply(sb, output, count) ==
    [sb EXCEPT !.applied = @ \o [i \in 1..count |-> output + 1 - i]]

(* There is a witness for the circuit: the state is really committed to, and
   the chain has count messages below output. *)
Provable(sb, output, count) ==
    /\ sb # NoSb
    /\ sb.root <= 2^actualStateTreeDepth
    /\ count <= output

(* processMessages, with the hashes, index and commitment it works on: those of
   padLastBatch and mergeState at the first batch, its own afterwards. *)
ProcessBatch(hashes, index, sb) ==
    LET output == hashes[index + 1]
        count == ChainedIn(index)
    IN  /\ index < Len(hashes)          \* an array access and a subtraction
        /\ index > 0                    \* that Solidity checks
        /\ Provable(sb, output, count)
        /\ sbCommitment' = Apply(sb, output, count)
        /\ processingComplete' =
              (numMessages <= MessageBatchSize * (totalBatchesProcessed + 1))
        /\ currentBatchIndex' = index - 1
        /\ totalBatchesProcessed' = totalBatchesProcessed + 1

ProcessFirstBatch ==
    /\ ~processingComplete
    /\ totalBatchesProcessed = 0
    /\ PadLastBatch
    /\ ProcessBatch(batchHashes', Len(batchHashes') - 1, currentSbCommitment)

ProcessNextBatch ==
    /\ ~processingComplete
    /\ totalBatchesProcessed > 0
    /\ ProcessBatch(batchHashes, currentBatchIndex, sbCommitment)
    /\ UNCHANGED pollVars

ProcessMessages == ProcessFirstBatch \/ ProcessNextBatch
=============================================================================
