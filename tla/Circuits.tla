------------------------------ MODULE Circuits ------------------------------
(***************************************************************************)
(* The circuits of packages/circuits/circom/coordinator and the templates  *)
(* of utils they are built from, as statements about their inputs: a       *)
(* circuit has a proof for the inputs that satisfy its constraints.        *)
(*                                                                         *)
(* A hash is what was hashed: the root of a tree is the sequence of its    *)
(* leaves, the path of a leaf the sequence of the others, a chain hash the *)
(* sequence of the messages, a commitment what it commits to with the      *)
(* salt.  A message is the command it decrypts to and the key it is signed *)
(* with.  Left out: the coordinator's key pair, the polynomial arithmetic  *)
(* of signatures and ciphers, and the bound of the QV validator on the     *)
(* weight of a vote, which no weight that fits the packed command exceeds. *)
(***************************************************************************)
EXTENDS Integers, Sequences, Functions, SequencesExt

CONSTANTS
    MaxVoteOptions,     \* VOTE_OPTION_TREE_ARITY ^ voteOptionTreeDepth
    MaxLeaves,          \* STATE_TREE_ARITY ^ stateTreeDepth
    MessageBatchSize,   \* batchSizes.messageBatchSize
    TallyBatchSize      \* batchSizes.tallyBatchSize

CalculateTotal(nums) == FoldFunction(LAMBDA x, y : x + y, 0, nums)

\* The root of a tree with the leaf at the index, and the path that leads there.
BinaryMerkleRoot(leaf, index, path) == InsertAt(path, index + 1, leaf)
MerkleTreeInclusionProof(leaf, index, path) == InsertAt(path, index + 1, leaf)
QuinaryTreeInclusionProof(leaf, index, path) == InsertAt(path, index + 1, leaf)
PathOf(root, index) == RemoveAt(root, index + 1)

-----------------------------------------------------------------------------
(* The validators.  An index is valid if it is one of a leaf, leaf 0 included; a
   message is valid if every check of the poll's mode holds. *)
Sufficient(credits, current, weight) == current + credits >= weight
SufficientSquares(credits, current, weight) == current * current + credits >= weight * weight
AllSpent(credits, current, weight) == current + credits = weight

VerifySignature(publicKey, command) == command.signer = publicKey

Validate(Credits(_, _, _), in, leaf, ballot, current, c) ==
    LET indexValid == c.index < in.totalSignups
        optionValid == c.option < in.voteOptions
    IN  [isStateLeafIndexValid |-> indexValid,
         isVoteOptionIndexValid |-> optionValid,
         isValid |-> /\ indexValid
                     /\ optionValid
                     /\ c.nonce = ballot.nonce + 1
                     /\ VerifySignature(leaf.key, c)
                     /\ Credits(leaf.credits, current, c.weight)]

MessageValidatorQv(in, leaf, ballot, current, c) ==
    Validate(SufficientSquares, in, leaf, ballot, current, c)
MessageValidatorNonQv(in, leaf, ballot, current, c) ==
    Validate(Sufficient, in, leaf, ballot, current, c)
MessageValidatorFull(in, leaf, ballot, current, c) ==
    Validate(AllSpent, in, leaf, ballot, current, c)

(* StateLeafAndBallotTransformer: with the verdict, the key and the nonce that
   leaf and ballot have afterwards. *)
Transform(verdict, leaf, ballot, c) ==
    [verdict |-> verdict,
     newKey |-> IF verdict.isValid THEN c.key ELSE leaf.key,
     newNonce |-> IF verdict.isValid THEN c.nonce ELSE ballot.nonce]

StateLeafAndBallotTransformerQv(in, leaf, ballot, current, c) ==
    Transform(MessageValidatorQv(in, leaf, ballot, current, c), leaf, ballot, c)
StateLeafAndBallotTransformerNonQv(in, leaf, ballot, current, c) ==
    Transform(MessageValidatorNonQv(in, leaf, ballot, current, c), leaf, ballot, c)
StateLeafAndBallotTransformerFull(in, leaf, ballot, current, c) ==
    Transform(MessageValidatorFull(in, leaf, ballot, current, c), leaf, ballot, c)

-----------------------------------------------------------------------------
(* SingleMessageProcessor: an index out of range is replaced by that of leaf 0
   and an option out of range by option 0; the witness w has to be what the roots
   hold there, and the new roots differ from them in one leaf, and in one option
   of one ballot. *)
ProcessSingle(Transformer(_, _, _, _, _), Price(_), in, roots, w, c) ==
    LET t == Transformer(in, w.leaf, w.ballot, w.weight, c)
        valid == t.verdict.isValid
        i == IF t.verdict.isStateLeafIndexValid THEN c.index ELSE 0
        o == IF t.verdict.isVoteOptionIndexValid THEN c.option ELSE 0
        credits == IF valid THEN w.leaf.credits + Price(w.weight) - Price(c.weight)
                   ELSE w.leaf.credits
        votes == IF valid THEN QuinaryTreeInclusionProof(c.weight, o, w.weightPath)
                 ELSE w.ballot.votes
    IN  [holds |-> /\ roots.holds
                   /\ BinaryMerkleRoot(w.leaf, i, w.leafPath) = roots.state
                   /\ MerkleTreeInclusionProof(w.ballot, i, w.ballotPath) = roots.ballots
                   /\ QuinaryTreeInclusionProof(w.weight, o, w.weightPath) = w.ballot.votes,
         state |-> BinaryMerkleRoot([key |-> t.newKey, credits |-> credits], i, w.leafPath),
         ballots |-> MerkleTreeInclusionProof([nonce |-> t.newNonce, votes |-> votes],
                                              i, w.ballotPath)]

Squared(votes) == votes * votes
AsGiven(votes) == votes

SingleMessageProcessorQv(in, roots, w, c) ==
    ProcessSingle(StateLeafAndBallotTransformerQv, Squared, in, roots, w, c)
SingleMessageProcessorNonQv(in, roots, w, c) ==
    ProcessSingle(StateLeafAndBallotTransformerNonQv, AsGiven, in, roots, w, c)
SingleMessageProcessorFull(in, roots, w, c) ==
    ProcessSingle(StateLeafAndBallotTransformerFull, AsGiven, in, roots, w, c)

(* The messages of the batch lead from one chain hash to the other, those past the
   end left out; they are applied in reverse to what the current commitment holds,
   and that gives what the new one holds. *)
ChainHash(in) ==
    LET chain[n \in 0..MessageBatchSize] ==
            IF n = 0 THEN in.inputBatchHash
            ELSE IF in.index + n - 1 < in.batchEndIndex THEN Append(chain[n - 1], in.messages[n])
            ELSE chain[n - 1]
    IN chain[MessageBatchSize]

ProcessBatch(Single(_, _, _, _), in) ==
    LET roots[n \in 1..(MessageBatchSize + 1)] ==
            IF n = MessageBatchSize + 1
            THEN [holds |-> TRUE, state |-> in.currentStateRoot, ballots |-> in.currentBallotRoot]
            ELSE Single(in, roots[n + 1], in.witnesses[n], in.messages[n])
    IN  /\ in.currentSbCommitment = <<in.currentStateRoot, in.currentBallotRoot, in.currentSbSalt>>
        /\ in.voteOptions <= MaxVoteOptions
        /\ in.totalSignups <= MaxLeaves
        /\ ChainHash(in) = in.outputBatchHash
        /\ roots[1].holds
        /\ in.newSbCommitment = <<roots[1].state, roots[1].ballots, in.newSbSalt>>

MessageProcessorQv(in) == ProcessBatch(SingleMessageProcessorQv, in)
MessageProcessorNonQv(in) == ProcessBatch(SingleMessageProcessorNonQv, in)
MessageProcessorFull(in) == ProcessBatch(SingleMessageProcessorFull, in)

-----------------------------------------------------------------------------
(* VoteTally: the ballots are those of the batch in the tree the poll's commitment
   holds, their votes are what the ballots say, and what they add is added to the
   current results, or to nothing in the first batch. *)
Subroots(root) ==
    [b \in 1..(MaxLeaves \div TallyBatchSize) |->
        SubSeq(root, (b - 1) * TallyBatchSize + 1, b * TallyBatchSize)]

LeafExists(leaf, index, path, root) ==
    MerkleTreeInclusionProof(leaf, index, path) = Subroots(root)

TallyInputsHold(in) ==
    /\ in.sbCommitment = <<in.stateRoot, in.ballotRoot, in.sbSalt>>
    /\ in.index <= in.totalSignups
    /\ LeafExists(in.ballots, in.index \div TallyBatchSize, in.ballotPath, in.ballotRoot)
    /\ \A b \in 1..TallyBatchSize : in.votes[b] = in.ballots[b].votes

Kept(in, current) == IF in.index = 0 THEN 0 ELSE current

TotalPerOption(Price(_), in, current) ==
    [o \in 1..MaxVoteOptions |->
        Kept(in, current[o]) +
            CalculateTotal([b \in 1..TallyBatchSize |-> Price(in.votes[b][o])])]

TotalSpent(Price(_), in) ==
    Kept(in, in.currentSpent) +
        CalculateTotal([b \in 1..TallyBatchSize |->
            CalculateTotal([o \in 1..MaxVoteOptions |-> Price(in.votes[b][o])])])

\* What the commitment of a batch commits to: nothing before the first.
ResultCommitmentVerifierQv(in, results, spent, perOption) ==
    /\ in.currentTallyCommitment =
          IF in.index = 0 THEN <<>>
          ELSE <<<<in.currentResults, in.currentSalt>>, <<in.currentSpent, in.currentSalt>>,
                 <<in.currentPerOption, in.currentSalt>>>>
    /\ in.newTallyCommitment =
          <<<<results, in.newSalt>>, <<spent, in.newSalt>>, <<perOption, in.newSalt>>>>

ResultCommitmentVerifierNonQv(in, results, spent) ==
    /\ in.currentTallyCommitment =
          IF in.index = 0 THEN <<>>
          ELSE <<<<in.currentResults, in.currentSalt>>, <<in.currentSpent, in.currentSalt>>>>
    /\ in.newTallyCommitment = <<<<results, in.newSalt>>, <<spent, in.newSalt>>>>

VoteTallyQv(in) ==
    /\ TallyInputsHold(in)
    /\ ResultCommitmentVerifierQv(in, TotalPerOption(AsGiven, in, in.currentResults),
            TotalSpent(Squared, in), TotalPerOption(Squared, in, in.currentPerOption))

VoteTallyNonQv(in) ==
    /\ TallyInputsHold(in)
    /\ ResultCommitmentVerifierNonQv(in, TotalPerOption(AsGiven, in, in.currentResults),
            TotalSpent(AsGiven, in))
=============================================================================
