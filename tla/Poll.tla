-------------------------------- MODULE Poll --------------------------------
(***************************************************************************)
(* Poll.sol: one poll of a MACI instance, after its deployment.  Voters    *)
(* join until the deadline, messages are published one by one, in batches, *)
(* or relayed as hashes; after the deadline the last batch is padded and   *)
(* the poll's state tree is merged for processing.                         *)
(*                                                                         *)
(* A message is its position in the order of publication.  The hash chain  *)
(* over the first n messages is written n, and so is the root of the poll  *)
(* state tree of the first n leaves: both structures only grow, so a value *)
(* of either hash stands for exactly one prefix.                           *)
(***************************************************************************)
EXTENDS MACI, Integers

CONSTANTS
    MessageBatchSize,   \* messageBatchSize
    StartDate, EndDate, \* startDate, endDate
    Timestamps,         \* the timestamps the chain's blocks take
    RelayLengths,       \* numbers of hashes a relayer sends in one call
    PublishLengths,     \* numbers of messages published in one call
    MaxMessages         \* bound on numMessages, for model checking

ASSUME PollAssumption ==
    /\ MessageBatchSize \in Nat \ {0}
    /\ StartDate \in Nat
    /\ EndDate \in Nat
    /\ Timestamps \subseteq Nat
    /\ RelayLengths \subseteq Nat \ {0}
    /\ PublishLengths \subseteq Nat \ {0}
    /\ MaxMessages \in Nat

VARIABLES
    now,                  \* block.timestamp
    numMessages,          \* numMessages, the placeholder included
    chainHash,            \* chainHash
    batchHashes,          \* batchHashes; element 1 is NOTHING_UP_MY_SLEEVE
    isBatchHashesPadded,  \* isBatchHashesPadded
    ipfsHashes,           \* one entry per relayed batch: its message positions
    pollStateTree,        \* leaves of pollStateTree
    pollNullifiers,       \* nullifiers seen; hash(private key, pollId) ~ the key
    stateMerged,          \* stateMerged
    currentSbCommitment,  \* currentSbCommitment
    actualStateTreeDepth  \* actualStateTreeDepth

messageVars == <<numMessages, chainHash, batchHashes, ipfsHashes>>
joinVars == <<pollStateTree, pollNullifiers>>
mergeVars == <<stateMerged, currentSbCommitment, actualStateTreeDepth>>
pollVars == <<now, messageVars, isBatchHashesPadded, joinVars, mergeVars>>

-----------------------------------------------------------------------------
(* Commitments to state leaves and ballots, hash3(stateRoot, ballotRoot, salt):
   the state root that was merged and the messages applied to it so far, in the
   order of application.  NoSb is the zero of an unset commitment. *)
SbCommitments == [root : Nat, applied : Seq(Nat)]
NoSb == [root |-> 0, applied |-> <<>>]

PollTypeOK ==
    /\ now \in Timestamps
    /\ numMessages \in Nat
    /\ chainHash \in Nat
    /\ batchHashes \in Seq(Nat)
    /\ isBatchHashesPadded \in BOOLEAN
    /\ ipfsHashes \in Seq(Nat \X Nat)
    /\ pollStateTree \in Seq(Keys \union {PadKey})
    /\ pollNullifiers \subseteq Keys
    /\ stateMerged \in BOOLEAN
    /\ currentSbCommitment \in SbCommitments
    /\ actualStateTreeDepth \in Nat

-----------------------------------------------------------------------------
(* _initialize: the chain starts at NOTHING_UP_MY_SLEEVE with the placeholder
   message on it, the state tree with a blank leaf. *)
PollInit ==
    /\ now \in Timestamps
    /\ numMessages = 1
    /\ chainHash = 1
    /\ batchHashes = IF MessageBatchSize = 1 THEN <<0, 1>> ELSE <<0>>
    /\ isBatchHashesPadded = FALSE
    /\ ipfsHashes = <<>>
    /\ pollStateTree = <<PadKey>>
    /\ pollNullifiers = {}
    /\ stateMerged = FALSE
    /\ currentSbCommitment = NoSb
    /\ actualStateTreeDepth = 0

\* The modifiers; both sides of the deadline hold when now = EndDate.
IsAfterVotingDeadline == now >= EndDate
IsOpenForVoting == now <= EndDate /\ now >= StartDate
IsWithinVotingDeadline == now <= EndDate

\* The next block's timestamp is later.
Tick ==
    /\ \E t \in Timestamps : t > now /\ now' = t
    /\ UNCHANGED <<messageVars, isBatchHashesPadded, joinVars, mergeVars>>

-----------------------------------------------------------------------------
(* publishMessage in a loop over len messages (publishMessageBatch; one message
   is publishMessage itself): numMessages moves with the chain, so updateChainHash
   pushes the hash at each multiple of the batch size that the loop passes. *)
PassedBoundaries(len) ==
    LET before == numMessages \div MessageBatchSize
        after == (numMessages + len) \div MessageBatchSize
    IN [j \in 1..(after - before) |->
            chainHash + ((before + j) * MessageBatchSize - numMessages)]

PublishMessageBatch(len) ==
    /\ IsOpenForVoting
    /\ numMessages + len <= MaxMessages
    /\ numMessages' = numMessages + len
    /\ chainHash' = chainHash + len
    /\ batchHashes' = batchHashes \o PassedBoundaries(len)
    /\ UNCHANGED <<now, ipfsHashes, isBatchHashesPadded, joinVars, mergeVars>>

(* relayMessagesBatch: numMessages is advanced past the whole batch first, so
   each call of updateChainHash in the loop sees the final count. *)
RelayedBoundaries(len) ==
    IF (numMessages + len) % MessageBatchSize = 0
    THEN [j \in 1..len |-> chainHash + j]
    ELSE <<>>

RelayMessagesBatch(len) ==
    /\ IsOpenForVoting
    /\ numMessages + len <= MaxMessages
    /\ numMessages' = numMessages + len
    /\ chainHash' = chainHash + len
    /\ batchHashes' = batchHashes \o RelayedBoundaries(len)
    /\ ipfsHashes' = Append(ipfsHashes, <<chainHash + 1, chainHash + len>>)
    /\ UNCHANGED <<now, isBatchHashesPadded, joinVars, mergeVars>>

\* A slip: a full last batch is padded too.
PadAlways == IF ~isBatchHashesPadded THEN <<chainHash>> ELSE <<>>

(* padLastBatch: only the first call has an effect. *)
Padding ==
    IF ~isBatchHashesPadded /\ numMessages % MessageBatchSize # 0
    THEN <<chainHash>>
    ELSE <<>>

PadLastBatch ==
    /\ IsAfterVotingDeadline
    /\ isBatchHashesPadded' = TRUE
    /\ batchHashes' = batchHashes \o Padding
    /\ UNCHANGED <<now, numMessages, chainHash, ipfsHashes, joinVars, mergeVars>>

-----------------------------------------------------------------------------
\* A slip: the nullifier is saved and not looked up.
JoinAgain(key, index) ==
    /\ IsWithinVotingDeadline
    /\ Len(pollStateTree) < MaxSignups
    /\ IsMember(key, index)
    /\ pollNullifiers' = pollNullifiers \union {key}
    /\ pollStateTree' = Append(pollStateTree, key)
    /\ UNCHANGED <<now, messageVars, isBatchHashesPadded, mergeVars>>

(* joinPoll: the proof binds the nullifier and the poll key to the private key
   of a leaf of the registry, at the root of the caller's choice. *)
JoinPoll(key, index) ==
    /\ IsWithinVotingDeadline
    /\ Len(pollStateTree) < MaxSignups
    /\ key \notin pollNullifiers
    /\ IsMember(key, index)
    /\ pollNullifiers' = pollNullifiers \union {key}
    /\ pollStateTree' = Append(pollStateTree, key)
    /\ UNCHANGED <<now, messageVars, isBatchHashesPadded, mergeVars>>

\* The loop of mergeState ends at d: the least depth from 1 that holds n leaves.
FitsAt(d, n) == 2^d >= n /\ \A e \in 1..(d - 1) : 2^e < n

MergeState ==
    /\ IsAfterVotingDeadline
    /\ ~stateMerged
    /\ stateMerged' = TRUE
    /\ currentSbCommitment' = [root |-> Len(pollStateTree), applied |-> <<>>]
    /\ \E d \in 1..Len(pollStateTree) :
          /\ FitsAt(d, Len(pollStateTree))
          /\ actualStateTreeDepth' = d
    /\ UNCHANGED <<now, messageVars, isBatchHashesPadded, joinVars>>
=============================================================================
