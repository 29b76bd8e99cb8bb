------------------------------ MODULE CorePoll ------------------------------
(***************************************************************************)
(* core/ts/Poll.ts from publication to tally: for every batch the          *)
(* coordinator's node applies the messages to its leaves and ballots, adds *)
(* up ballots, and returns the inputs with which the circuit of the poll's *)
(* mode is to prove that it did so (module Circuits, with its conventions  *)
(* for messages, hashes, roots and paths).                                 *)
(*                                                                         *)
(* NoSigner stands for messages nobody could sign or that do not decrypt.  *)
(* The node rejects a message whose cipher is not authentic while the      *)
(* circuits decrypt it without that check: clients (VoteCommand.encrypt)   *)
(* produce authentic ones only, and so does this module.                   *)
(***************************************************************************)
EXTENDS Circuits

CONSTANTS
    Modes,              \* the modes a poll may have
    Keys,               \* poll keys
    NoSigner,           \* no key at all
    PadKey,             \* key of leaf 0
    JoinKeys,           \* keys of leaves 1, 2, ... as they joined
    Credits,            \* voice credits of each of them, by mode of the poll
    VoteOptions,        \* voteOptions
    Commands,           \* the messages voters publish
    MaxMessages         \* bound on the number of messages, for model checking

ASSUME CorePollAssumption ==
    /\ Modes \subseteq {"QV", "NON_QV", "FULL"}
    /\ JoinKeys \in Seq(Keys)
    /\ {PadKey, NoSigner} \intersect Keys = {} /\ PadKey # NoSigner
    /\ Credits \in [Modes -> Nat]
    /\ {MaxVoteOptions, MaxLeaves} \subseteq Nat /\ MaxMessages \in Nat \ {0}
    /\ VoteOptions \in 1..MaxVoteOptions
    /\ MessageBatchSize \in Nat \ {0}
    /\ TallyBatchSize \in Nat \ {0}
    /\ Len(JoinKeys) < MaxLeaves /\ MaxLeaves % TallyBatchSize = 0
    /\ Commands \subseteq [index : Nat, key : Keys, option : Nat, weight : Nat, nonce : Nat,
                           signer : Keys \union {NoSigner}]

VARIABLES
    mode,                     \* mode
    messages,                 \* messages, the placeholder first
    state,                    \* pollStateLeaves and ballots of the node
    batchHashes,              \* batchHashes
    sbSalts,                  \* sbSalts, by batch
    sbCommitment,             \* the newSbCommitment of the last batch: the contract's
    totalBatchesProcessed,    \* totalBatchesProcessed
    currentMessageBatchIndex, \* currentMessageBatchIndex
    tallyResult,              \* tallyResult
    totalSpentVoiceCredits,   \* totalSpentVoiceCredits
    perVoteOptionSpent,       \* perVoteOptionSpentVoiceCredits
    resultSalts,              \* resultRootSalts and its two companions, by first ballot
    tallyCommitment,          \* the newTallyCommitment of the last batch: the contract's
    numBatchesTallied,        \* numBatchesTallied
    applied                   \* history: positions of the messages applied

vars == <<mode, messages, batchHashes, state, sbSalts, sbCommitment, totalBatchesProcessed,
          currentMessageBatchIndex, tallyResult, totalSpentVoiceCredits, perVoteOptionSpent,
          resultSalts, tallyCommitment, numBatchesTallied, applied>>

processVars == <<state, sbSalts, sbCommitment, totalBatchesProcessed, applied>>
tallyVars == <<tallyResult, totalSpentVoiceCredits, perVoteOptionSpent, resultSalts,
               tallyCommitment, numBatchesTallied>>

-----------------------------------------------------------------------------
TotalSignups == Len(JoinKeys) + 1
Indices == 0..(TotalSignups - 1)
Options == 0..(MaxVoteOptions - 1)

Sum(f) == CalculateTotal(f)
With(f, k, v) == [x \in DOMAIN f \union {k} |-> IF x = k THEN v ELSE f[x]]

\* What w votes for an option cost.
Cost(w) == IF mode = "QV" THEN w * w ELSE w

EmptyBallot == [nonce |-> 0, votes |-> [o \in Options |-> 0]]
EmptyCommand ==
    [index |-> 0, key |-> PadKey, option |-> 0, weight |-> 0, nonce |-> 0,
     signer |-> NoSigner]

InitialState ==
    [leaves |-> [i \in Indices |->
                    IF i = 0 THEN [key |-> PadKey, credits |-> 0]
                    ELSE [key |-> JoinKeys[i], credits |-> Credits[mode]]],
     ballots |-> [i \in Indices |-> EmptyBallot]]

-----------------------------------------------------------------------------
(* processMessage of the node: a command that passes every check replaces the
   leaf and the ballot; any other is an error, and changes nothing. *)
CreditsLeft(leaf, original, weight) == leaf.credits + Cost(original) - Cost(weight)

\* A slip: the option is not checked.
IsValidAnyOption(st, c) ==
    /\ c.index \in Indices \ {0}
    /\ c.signer = st.leaves[c.index].key
    /\ c.nonce = st.ballots[c.index].nonce + 1
    /\ CreditsLeft(st.leaves[c.index], st.ballots[c.index].votes[c.option], c.weight) >= 0

IsValid(st, c) ==
    /\ c.index \in Indices \ {0}
    /\ c.signer = st.leaves[c.index].key
    /\ c.nonce = st.ballots[c.index].nonce + 1
    /\ c.option < VoteOptions
    /\ LET left == CreditsLeft(st.leaves[c.index],
                               st.ballots[c.index].votes[c.option], c.weight)
       IN left >= 0 /\ (mode = "FULL" => left = 0)

VotesWith(votes, c) ==
    IF mode = "FULL"
    THEN [o \in Options |-> IF o = c.option THEN c.weight ELSE 0]
    ELSE [votes EXCEPT ![c.option] = c.weight]

ProcessMessage(st, c) ==
    IF ~IsValid(st, c) THEN st
    ELSE [leaves |-> [st.leaves EXCEPT ![c.index] =
            [key |-> c.key,
             credits |-> CreditsLeft(@, st.ballots[c.index].votes[c.option], c.weight)]],
          ballots |-> [st.ballots EXCEPT ![c.index] =
            [nonce |-> @.nonce + 1, votes |-> VotesWith(@.votes, c)]]]

-----------------------------------------------------------------------------
(* The roots of the node's trees: leaves in order, filled up with the zero value
   of the tree, in the state tree to the depth the number of leaves asks for. *)
InOrder(f, size, zero) == [n \in 1..size |-> IF n - 1 \in DOMAIN f THEN f[n - 1] ELSE zero]

TreeSize[depth \in 0..TotalSignups] == IF depth = 0 THEN 1 ELSE 2 * TreeSize[depth - 1]
ActualStateTreeDepth ==
    CHOOSE d \in 1..TotalSignups :
        TreeSize[d] >= TotalSignups /\ (d = 1 \/ TreeSize[d - 1] < TotalSignups)

VotesRoot(votes) == InOrder(votes, MaxVoteOptions, 0)
BallotInputs(ballot) == [nonce |-> ballot.nonce, votes |-> VotesRoot(ballot.votes)]
StateRoot(st) == InOrder(st.leaves, TreeSize[ActualStateTreeDepth], st.leaves[0])
BallotRoot(st) ==
    InOrder([i \in Indices |-> BallotInputs(st.ballots[i])], MaxLeaves, BallotInputs(EmptyBallot))

-----------------------------------------------------------------------------
(* publishMessage with updateChainHash: a full batch closes with its hash, and the
   index of the open one moves. *)
PublishMessage(c) ==
    /\ totalBatchesProcessed = 0
    /\ Len(messages) < MaxMessages
    /\ messages' = Append(messages, c)
    /\ LET full == Len(messages') % MessageBatchSize = 0
       IN /\ batchHashes' = IF full THEN Append(batchHashes, messages') ELSE batchHashes
          /\ currentMessageBatchIndex' = currentMessageBatchIndex + (IF full THEN 1 ELSE 0)
    /\ UNCHANGED <<mode, processVars, tallyVars>>

\* hasUnprocessedMessages, with the batches of a poll rounded up.
TotalBatches == (Len(messages) + MessageBatchSize - 1) \div MessageBatchSize
HasUnprocessedMessages == totalBatchesProcessed < TotalBatches

\* What the first call of processMessages sets: padLastBatch, the index, the salt 0.
PaddedHashes ==
    IF totalBatchesProcessed = 0 /\ Len(messages) % MessageBatchSize # 0
    THEN Append(batchHashes, messages) ELSE batchHashes
BatchIndex ==
    IF totalBatchesProcessed = 0 THEN Len(PaddedHashes) - 1 ELSE currentMessageBatchIndex
SaltsAtStart == IF totalBatchesProcessed = 0 THEN With(sbSalts, BatchIndex, 0) ELSE sbSalts

\* Slot s of a batch, the last one first; slots past the end are filled up.
PositionForward(index, s) == (index - 1) * MessageBatchSize + s   \* a slip
Position(index, s) == index * MessageBatchSize - s + 1
Slot(index, s) ==
    IF Position(index, s) <= Len(messages) THEN messages[Position(index, s)]
    ELSE EmptyCommand

\* The states a batch goes through slot by slot.
NodeStates(index) ==
    LET after[s \in 0..MessageBatchSize] ==
            IF s = 0 THEN state ELSE ProcessMessage(after[s - 1], Slot(index, s))
    IN after

(* What the circuit is shown of the state a slot is applied to: the leaf and the
   ballot the message names, or those of leaf 0 if there are none; the votes of
   its option, or of option 0.  Without leaf or message, the path is that of a
   tree with one vote in it. *)
WitnessAt(st, i, o, votes) ==
    [leaf |-> st.leaves[i], leafPath |-> PathOf(StateRoot(st), i),
     ballot |-> BallotInputs(st.ballots[i]), ballotPath |-> PathOf(BallotRoot(st), i),
     weight |-> st.ballots[i].votes[o], weightPath |-> PathOf(votes, o)]

BlankWitness(st) ==
    WitnessAt(st, 0, 0, InOrder([o \in {0} |-> st.ballots[0].votes[o]], MaxVoteOptions, 0))

Witness(st, index, s) ==
    LET c == Slot(index, s)
    IN  IF Position(index, s) > Len(messages) \/ c.index \notin Indices THEN BlankWitness(st)
        ELSE WitnessAt(st, c.index, IF c.option < VoteOptions THEN c.option ELSE 0,
                       VotesRoot(st.ballots[c.index].votes))

(* generateProcessMessagesCircuitInputsPartial, and what processMessages adds. *)
MessageInputs ==
    LET index == BatchIndex
        core == NodeStates(index)
        final == core[MessageBatchSize]
        newSalt == totalBatchesProcessed + 1
        slot(n) == MessageBatchSize - n + 1
    IN  [totalSignups |-> TotalSignups,
         voteOptions |-> VoteOptions,
         index |-> IF index > 0 THEN (index - 1) * MessageBatchSize ELSE 0,
         batchEndIndex |-> IF index * MessageBatchSize > Len(messages) THEN Len(messages)
                           ELSE index * MessageBatchSize,
         inputBatchHash |-> PaddedHashes[index],
         outputBatchHash |-> PaddedHashes[index + 1],
         messages |-> [n \in 1..MessageBatchSize |-> Slot(index, slot(n))],
         witnesses |-> [n \in 1..MessageBatchSize |->
                           Witness(core[slot(n) - 1], index, slot(n))],
         currentStateRoot |-> StateRoot(state),
         currentBallotRoot |-> BallotRoot(state),
         currentSbSalt |-> SaltsAtStart[index],
         currentSbCommitment |-> <<StateRoot(state), BallotRoot(state), SaltsAtStart[index]>>,
         newSbSalt |-> newSalt,
         newSbCommitment |-> <<StateRoot(final), BallotRoot(final), newSalt>>]

ProcessMessages ==
    LET index == BatchIndex
        core == NodeStates(index)
        inputs == MessageInputs
        next == IF index > 0 THEN index - 1 ELSE index
        history[s \in 0..MessageBatchSize] ==
            IF s = 0 THEN applied
            ELSE IF core[s] = core[s - 1] THEN history[s - 1]
            ELSE Append(history[s - 1], Position(index, s))
    IN  /\ HasUnprocessedMessages
        /\ state' = core[MessageBatchSize]
        /\ batchHashes' = PaddedHashes
        /\ sbSalts' = With(SaltsAtStart, next, inputs.newSbSalt)
        /\ sbCommitment' = inputs.newSbCommitment
        /\ applied' = history[MessageBatchSize]
        /\ totalBatchesProcessed' = totalBatchesProcessed + 1
        /\ currentMessageBatchIndex' = next
        /\ UNCHANGED <<mode, messages, tallyVars>>

-----------------------------------------------------------------------------
\* A slip: the last ballot is left out.
HasUntalliedButOne == numBatchesTallied * TallyBatchSize < TotalSignups - 1
HasUntalliedBallots == numBatchesTallied * TallyBatchSize < TotalSignups

BatchStart == numBatchesTallied * TallyBatchSize
BatchOfBallots == {i \in Indices : BatchStart <= i /\ i < BatchStart + TallyBatchSize}

\* The tally after the next batch.
NewResults ==
    [o \in Options |-> tallyResult[o] + Sum([i \in BatchOfBallots |-> state.ballots[i].votes[o]])]
NewSpent ==
    totalSpentVoiceCredits +
        Sum([i \in BatchOfBallots |-> Sum([o \in Options |-> Cost(state.ballots[i].votes[o])])])
NewPerVoteOption ==
    IF mode # "QV" THEN perVoteOptionSpent
    ELSE [o \in Options |-> perVoteOptionSpent[o] +
             Sum([i \in BatchOfBallots |-> Cost(state.ballots[i].votes[o])])]

(* The commitments to what is spent add up the first ballots again, and do not
   take the running totals. *)
First(ballotsToCount) == {i \in Indices : i < ballotsToCount}
SpentSubtotal(ballotsToCount) ==
    Sum([i \in First(ballotsToCount) |->
            Sum([o \in Options |-> Cost(state.ballots[i].votes[o])])])
PerVoteOptionSpent(ballotsToCount) ==
    [o \in Options |->
        Sum([i \in First(ballotsToCount) |-> Cost(state.ballots[i].votes[o])])]

TallyCommitment(results, ballotsToCount, salt) ==
    <<<<VotesRoot(results), salt>>, <<SpentSubtotal(ballotsToCount), salt>>>>
        \o (IF mode # "QV" THEN <<>>
            ELSE <<<<VotesRoot(PerVoteOptionSpent(ballotsToCount)), salt>>>>)

TallyInputs ==
    LET start == BatchStart
        currentSalt == IF start = 0 THEN 0 ELSE resultSalts[start - TallyBatchSize]
        newSalt == numBatchesTallied + 1
        ballot(b) == BallotInputs(IF start + b - 1 \in Indices THEN state.ballots[start + b - 1]
                                  ELSE EmptyBallot)
        sbSalt == sbSalts[currentMessageBatchIndex]
    IN  [stateRoot |-> StateRoot(state),
         ballotRoot |-> BallotRoot(state),
         sbSalt |-> sbSalt,
         sbCommitment |-> <<StateRoot(state), BallotRoot(state), sbSalt>>,
         index |-> start,
         totalSignups |-> TotalSignups,
         ballots |-> [b \in 1..TallyBatchSize |-> ballot(b)],
         ballotPath |-> PathOf(Subroots(BallotRoot(state)), numBatchesTallied),
         votes |-> [b \in 1..TallyBatchSize |-> ballot(b).votes],
         currentResults |-> VotesRoot(tallyResult),
         currentSpent |-> totalSpentVoiceCredits,
         currentPerOption |-> VotesRoot(perVoteOptionSpent),
         currentSalt |-> currentSalt,
         newSalt |-> newSalt,
         currentTallyCommitment |->
             IF start = 0 THEN <<>> ELSE TallyCommitment(tallyResult, start, currentSalt),
         newTallyCommitment |-> TallyCommitment(NewResults, start + TallyBatchSize, newSalt)]

(* tallyVotes: the ballots of the next batch are added up.  The salt that the
   first processMessages leaves is all it asks for. *)
TallyVotes ==
    LET inputs == TallyInputs
    IN  /\ currentMessageBatchIndex \in DOMAIN sbSalts
        /\ HasUntalliedBallots
        /\ tallyResult' = NewResults
        /\ totalSpentVoiceCredits' = NewSpent
        /\ perVoteOptionSpent' = NewPerVoteOption
        /\ resultSalts' = With(resultSalts, BatchStart, inputs.newSalt)
        /\ tallyCommitment' = inputs.newTallyCommitment
        /\ numBatchesTallied' = numBatchesTallied + 1
        /\ UNCHANGED <<mode, messages, batchHashes, processVars, currentMessageBatchIndex>>

-----------------------------------------------------------------------------
(* The constructor, the joins and the placeholder message, which nobody signed. *)
Init ==
    /\ mode \in Modes
    /\ messages = <<EmptyCommand>>
    /\ batchHashes = <<<<>>>> \o (IF MessageBatchSize = 1 THEN <<messages>> ELSE <<>>)
    /\ state = InitialState
    /\ sbSalts = <<>>
    /\ sbCommitment = <<StateRoot(InitialState), BallotRoot(InitialState), 0>>
    /\ totalBatchesProcessed = 0
    /\ currentMessageBatchIndex = IF MessageBatchSize = 1 THEN 1 ELSE 0
    /\ tallyResult = [o \in Options |-> 0]
    /\ totalSpentVoiceCredits = 0
    /\ perVoteOptionSpent = [o \in Options |-> 0]
    /\ resultSalts = <<>>
    /\ tallyCommitment = <<>>
    /\ numBatchesTallied = 0
    /\ applied = <<>>

Publish == \E c \in Commands : PublishMessage(c)

\* Poll.ts as it is.
Next == Publish \/ ProcessMessages \/ TallyVotes
Spec == Init /\ [][Next]_vars

\* ProofGenerator.ts generates the tally proofs after those of all the messages.
Tally == ~HasUnprocessedMessages /\ TallyVotes
Generate == Publish \/ ProcessMessages \/ Tally
GeneratorSpec == Init /\ [][Generate]_vars

-----------------------------------------------------------------------------
Ballots == [nonce : Nat, votes : [Options -> Nat]]
States ==
    [leaves : [Indices -> [key : Keys \union {PadKey}, credits : Nat]],
     ballots : [Indices -> Ballots]]

TypeOK ==
    /\ mode \in Modes
    /\ Len(messages) \in 1..MaxMessages
    /\ state \in States
    /\ totalBatchesProcessed \in 0..TotalBatches
    /\ currentMessageBatchIndex \in 0..TotalBatches
    /\ totalBatchesProcessed > 0 =>
          totalBatchesProcessed + currentMessageBatchIndex = TotalBatches
    /\ tallyResult \in [Options -> Nat]
    /\ totalSpentVoiceCredits \in Nat
    /\ numBatchesTallied \in Nat
    /\ applied \in Seq(1..MaxMessages)

(* What the node sends can be proved: from the commitment the contract has, the
   circuit of the mode comes to the commitment the node sends with every batch of
   messages and of ballots (`computedNewSbCommitment === newSbCommitment` and
   `computedNewTallyCommitment === newTallyCommitment`, the last constraints of
   MessageProcessor and VoteTally), whatever the messages of the batch are. *)
MessageCircuit(in) ==
    \/ mode = "QV" /\ MessageProcessorQv(in)
    \/ mode = "NON_QV" /\ MessageProcessorNonQv(in)
    \/ mode = "FULL" /\ MessageProcessorFull(in)
TallyCircuit(in) == IF mode = "QV" THEN VoteTallyQv(in) ELSE VoteTallyNonQv(in)

InputsAreProvable ==
    /\ HasUnprocessedMessages =>
          LET in == MessageInputs
          IN in.currentSbCommitment = sbCommitment /\ MessageCircuit(in)
    /\ (~HasUnprocessedMessages /\ HasUntalliedBallots) =>
          LET in == TallyInputs
          IN /\ in.sbCommitment = sbCommitment
             /\ in.currentTallyCommitment = tallyCommitment
             /\ TallyCircuit(in)

(* Votes are paid for: what a voter's ballot costs and what is left of the
   credits are always the credits given on joining, whatever votes were changed
   or taken back in between (processMessage, getVoiceCreditsLeft). *)
CreditsConserved ==
    \A i \in Indices \ {0} :
        state.leaves[i].credits + Sum([o \in Options |-> Cost(state.ballots[i].votes[o])])
            = Credits[mode]

(* A later message wins: a message that the leaf as it joined would have accepted
   is overridden only by one published after it (the processing in reverse order,
   across the batches). *)
LaterMessageWins ==
    \A p \in 1..Len(messages) :
        /\ totalBatchesProcessed > 0
        /\ p > currentMessageBatchIndex * MessageBatchSize
        /\ IsValid(InitialState, messages[p])
        => LET ofLeaf == {n \in DOMAIN applied : messages[applied[n]].index = messages[p].index}
           IN \E n \in ofLeaf : applied[n] >= p /\ \A m \in ofLeaf : n <= m

(* A message takes effect at most once, however often it was published: its
   nonce never comes again, not even after a change of key. *)
NoReplay ==
    \A n \in DOMAIN applied : ~IsValid(state, messages[applied[n]])

(* Both: every message of a leaf counts as often and in the order its voter meant it to. *)
MessagesCountOnce == LaterMessageWins /\ NoReplay

(* Once tallied, the results are the votes of all ballots as they are after the
   last message, and the credits they report as spent are those the voters miss. *)
TallyAddsUp ==
    (numBatchesTallied > 0 /\ ~HasUntalliedBallots) =>
        /\ \A o \in Options :
              tallyResult[o] = Sum([i \in Indices |-> state.ballots[i].votes[o]])
        /\ totalSpentVoiceCredits =
              Sum([i \in Indices \ {0} |-> Credits[mode] - state.leaves[i].credits])

(* Both: credits and votes add up, in every ballot and in the tally. *)
CountsAddUp == CreditsConserved /\ TallyAddsUp

(* Poll.ts:1033, "You must process the messages first": what is tallied are the
   ballots after all messages. *)
TallyAfterProcessing == numBatchesTallied > 0 => ~HasUnprocessedMessages
=============================================================================
