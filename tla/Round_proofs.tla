---------------------------- MODULE Round_proofs ----------------------------
(***************************************************************************)
(* Proofs about Round and Submission, for every number of voters and       *)
(* messages, every size of the batches and any number of interruptions.    *)
(***************************************************************************)
EXTENDS Submission, FiniteSetTheorems, TLAPS

USE DEF SbCommitments, TallyCommitments, Results

-----------------------------------------------------------------------------
(* Arithmetic of batches. *)

(* Division with remainder, the form in which batch indices need it. *)
LEMMA DivMod ==
    ASSUME NEW n \in Nat, NEW b \in Nat \ {0}
    PROVE  /\ n \div b \in Nat
           /\ n % b \in 0..(b - 1)
           /\ n = (n \div b) * b + (n % b)
OBVIOUS

(* The k-th boundary passed by a publication lies after the messages that were
   there before it and not after those it adds. *)
LEMMA Boundary ==
    ASSUME NEW n \in Nat, NEW len \in Nat, NEW b \in Nat \ {0},
           NEW j \in 1..(((n + len) \div b) - (n \div b))
    PROVE  /\ ((n \div b) + j) * b \in Nat
           /\ ((n \div b) + j) * b > n
           /\ ((n \div b) + j) * b <= n + len
OBVIOUS

(* Publishing extends the batch hashes by hashes. *)
LEMMA PassedType ==
    ASSUME PollAssumption, numMessages \in Nat, chainHash \in Nat, NEW len \in Nat
    PROVE  PassedBoundaries(len) \in Seq(Nat)
<1> DEFINE m == ((numMessages + len) \div MessageBatchSize)
                    - (numMessages \div MessageBatchSize)
           hash(j) == chainHash + (((numMessages \div MessageBatchSize) + j)
                                     * MessageBatchSize - numMessages)
<1>1. m \in Nat
  BY DEF PollAssumption
<1>2. \A j \in 1..m : hash(j) \in Nat
  BY Boundary DEF PollAssumption
<1> HIDE DEF m, hash
<1>3. [j \in 1..m |-> hash(j)] \in Seq(Nat)
  BY <1>1, <1>2
<1>4. PassedBoundaries(len) = [j \in 1..m |-> hash(j)]
  BY DEF PassedBoundaries, m, hash
<1> QED
  BY <1>3, <1>4

(* Relaying extends the batch hashes by hashes. *)
LEMMA RelayedType ==
    ASSUME chainHash \in Nat, NEW len \in Nat
    PROVE  RelayedBoundaries(len) \in Seq(Nat)
BY DEF RelayedBoundaries

(* Padding extends them by a hash, or by nothing. *)
LEMMA PaddingType ==
    ASSUME chainHash \in Nat
    PROVE  Padding \in Seq(Nat)
BY DEF Padding

\* What is left of a message's batch to chain fits below the chain's end.
LEMMA ApplyType ==
    ASSUME NEW sb \in SbCommitments, NEW output \in Nat, NEW count \in Nat,
           count <= output
    PROVE  Apply(sb, output, count) \in SbCommitments
<1>1. [i \in 1..count |-> output + 1 - i] \in Seq(Nat)
  OBVIOUS
<1>2. sb.applied \o [i \in 1..count |-> output + 1 - i] \in Seq(Nat)
  BY <1>1
<1> QED
  BY <1>2 DEF Apply

(* A batch chains a number of messages. *)
LEMMA ChainedInType ==
    ASSUME PollAssumption, numMessages \in Nat, NEW index \in Nat
    PROVE  ChainedIn(index) \in Nat
BY DEF ChainedIn, BatchEnd, BatchStart, Least, PollAssumption

(* A batch of ballots is a sequence of their numbers. *)
LEMMA BatchOfBallotsType ==
    ASSUME TallyAssumption, NEW start \in Nat, NEW leaves \in Nat
    PROVE  BatchOfBallots(start, leaves) \in Seq(Nat)
<1> DEFINE m == Least(start + TallyBatchSize, leaves) - start
<1>1. m \in Int
  BY DEF TallyAssumption, Least
<1> HIDE DEF m
<1>2. CASE m \in Nat
  <2>1. [j \in 1..m |-> start + j - 1] \in Seq(Nat)
    BY <1>2
  <2> QED
    BY <2>1 DEF BatchOfBallots, m
<1>3. CASE m < 0
  <2>1. [j \in 1..m |-> start + j - 1] = <<>>
    BY <1>1, <1>3
  <2>2. <<>> \in Seq(Nat)
    OBVIOUS
  <2> QED
    BY <2>1, <2>2 DEF BatchOfBallots, m
<1> QED
  BY <1>1, <1>2, <1>3

-----------------------------------------------------------------------------
(* Type correctness. *)

(* The constructors leave the contracts well typed. *)
LEMMA TypeInit == ASSUME MACIAssumption, PollAssumption, TallyAssumption, Init
                  PROVE  TypeOK
<1>1. NoSb \in SbCommitments
  BY DEF NoSb
<1>2. NoTally \in TallyCommitments /\ NoResult \in Results
  BY <1>1 DEF NoTally, NoResult
<1>3. MACITypeOK
  BY DEF Init, MACIInit, MACITypeOK
<1>4. PollTypeOK
  <2>1. batchHashes \in Seq(Nat)
    BY DEF Init, PollInit
  <2>2. pollStateTree \in Seq(Keys \union {PadKey}) /\ ipfsHashes \in Seq(Nat \X Nat)
    BY DEF Init, PollInit
  <2> QED
    BY <1>1, <2>1, <2>2 DEF Init, PollInit, PollTypeOK
<1>5. ProcessorTypeOK
  BY <1>1 DEF Init, ProcessorInit, ProcessorTypeOK
<1>6. TallyTypeOK
  BY <1>1, <1>2 DEF Init, TallyInit, TallyTypeOK
<1> QED
  BY <1>3, <1>4, <1>5, <1>6 DEF TypeOK

(* An accepted proof leaves the message processor well typed. *)
LEMMA ProcessBatchType ==
    ASSUME PollAssumption, TypeOK,
           NEW hs \in Seq(Nat), NEW index \in Int, NEW sb \in SbCommitments,
           ProcessBatch(hs, index, sb)
    PROVE  ProcessorTypeOK'
<1>1. index \in Nat /\ index > 0 /\ hs[index + 1] \in Nat
  BY DEF ProcessBatch
<1>2. ChainedIn(index) \in Nat
  BY <1>1, ChainedInType DEF TypeOK, PollTypeOK
<1>3. sbCommitment' \in SbCommitments
  BY <1>1, <1>2, ApplyType DEF ProcessBatch, Provable
<1>4. currentBatchIndex' \in Nat /\ totalBatchesProcessed' \in Nat
  BY <1>1 DEF ProcessBatch, TypeOK, ProcessorTypeOK
<1>5. processingComplete' \in BOOLEAN
  <2>1. processingComplete' = (numMessages <= MessageBatchSize * (totalBatchesProcessed + 1))
    BY DEF ProcessBatch
  <2> QED
    BY <2>1, SMT
<1> QED
  BY <1>3, <1>4, <1>5 DEF ProcessorTypeOK

(* So does every call, whoever makes it. *)
LEMMA TypeNext ==
    ASSUME MACIAssumption, PollAssumption, TallyAssumption, TypeOK, [Next]_vars
    PROVE  TypeOK'
<1> USE DEF TypeOK
<1>1. CASE Register
  <2>1. MACITypeOK'
    BY <1>1 DEF Register, SignUp, MACITypeOK, MACIAssumption
  <2>2. PollTypeOK' /\ ProcessorTypeOK' /\ TallyTypeOK'
    BY <1>1 DEF Register, PollTypeOK, ProcessorTypeOK, TallyTypeOK, pollVars,
       messageVars, joinVars, mergeVars, processorVars, tallyVars
  <2> QED
    BY <2>1, <2>2
<1>2. ASSUME UNCHANGED <<maciVars, processorVars, tallyVars>>
      PROVE  MACITypeOK' /\ ProcessorTypeOK' /\ TallyTypeOK'
  BY <1>2 DEF MACITypeOK, ProcessorTypeOK, TallyTypeOK, maciVars, processorVars, tallyVars
<1>3. CASE Join
  <2>1. PollTypeOK'
    BY <1>3 DEF Join, JoinPoll, PollTypeOK, messageVars, mergeVars
  <2> QED
    BY <2>1, <1>2, <1>3 DEF Join
<1>4. CASE Publish
  <2> PICK len \in PublishLengths : PublishMessageBatch(len)
    BY <1>4 DEF Publish
  <2>1. len \in Nat
    BY DEF PollAssumption
  <2>2. PassedBoundaries(len) \in Seq(Nat)
    BY <2>1, PassedType DEF PollTypeOK
  <2>3. PollTypeOK'
    BY <2>1, <2>2 DEF PublishMessageBatch, PollTypeOK, joinVars, mergeVars
  <2> QED
    BY <2>3, <1>2, <1>4 DEF Publish
<1>5. CASE Relay
  <2> PICK len \in RelayLengths : RelayMessagesBatch(len)
    BY <1>5 DEF Relay
  <2>1. len \in Nat
    BY DEF PollAssumption
  <2>2. RelayedBoundaries(len) \in Seq(Nat)
    BY <2>1, RelayedType DEF PollTypeOK
  <2>3. PollTypeOK'
    BY <2>1, <2>2 DEF RelayMessagesBatch, PollTypeOK, joinVars, mergeVars
  <2>4. UNCHANGED <<maciVars, processorVars, tallyVars>>
    BY <1>5, Zenon DEF Relay
  <2> QED
    BY <2>3, <2>4, <1>2, Zenon
<1>6. CASE Pass
  <2>1. PollTypeOK'
    BY <1>6 DEF Pass, Tick, PollTypeOK, messageVars, joinVars, mergeVars
  <2> QED
    BY <2>1, <1>2, <1>6 DEF Pass
<1>7. ASSUME PadLastBatch
      PROVE  PollTypeOK'
  <2>1. Padding \in Seq(Nat)
    BY PaddingType DEF PollTypeOK
  <2> QED
    BY <1>7, <2>1 DEF PadLastBatch, PollTypeOK, joinVars, mergeVars
<1>8. CASE Pad
  BY <1>7, <1>2, <1>8 DEF Pad
<1>9. CASE Merge
  <2>1. PollTypeOK'
    BY <1>9 DEF Merge, MergeState, PollTypeOK, messageVars, joinVars
  <2> QED
    BY <2>1, <1>2, <1>9 DEF Merge
<1>10. CASE Process
  <2>1. MACITypeOK' /\ TallyTypeOK'
    BY <1>10 DEF Process, MACITypeOK, TallyTypeOK, maciVars, tallyVars
  <2>2. CASE ProcessFirstBatch
    <3>1. PollTypeOK'
      BY <2>2, <1>7 DEF ProcessFirstBatch
    <3>2. batchHashes' \in Seq(Nat) /\ currentSbCommitment \in SbCommitments
      BY <3>1 DEF PollTypeOK
    <3>3. \E hs \in Seq(Nat), index \in Int, sb \in SbCommitments :
             ProcessBatch(hs, index, sb)
      <4>1. Len(batchHashes') - 1 \in Int
        BY <3>2
      <4>2. ProcessBatch(batchHashes', Len(batchHashes') - 1, currentSbCommitment)
        BY <2>2 DEF ProcessFirstBatch
      <4> QED
        BY <3>2, <4>1, <4>2, Zenon
    <3>4. ProcessorTypeOK'
      BY <3>3, ProcessBatchType
    <3> QED
      BY <2>1, <3>1, <3>4
  <2>3. CASE ProcessNextBatch
    <3>1. PollTypeOK'
      BY <2>3 DEF ProcessNextBatch, PollTypeOK, pollVars, messageVars, joinVars, mergeVars
    <3>2. ProcessorTypeOK'
      BY <2>3, ProcessBatchType DEF ProcessNextBatch, PollTypeOK, ProcessorTypeOK
    <3> QED
      BY <2>1, <3>1, <3>2
  <2> QED
    BY <1>10, <2>2, <2>3 DEF Process, ProcessMessages
<1>11. ASSUME UNCHANGED <<maciVars, pollVars, processorVars>>
       PROVE  MACITypeOK' /\ PollTypeOK' /\ ProcessorTypeOK'
  BY <1>11 DEF MACITypeOK, PollTypeOK, ProcessorTypeOK, maciVars, pollVars,
     messageVars, joinVars, mergeVars, processorVars
<1>12. ASSUME CopySbCommitment
       PROVE  tallySbCommitment' \in SbCommitments
  BY <1>12 DEF CopySbCommitment, ProcessorTypeOK, TallyTypeOK
<1>13. CASE CopySb
  <2>1. TallyTypeOK'
    BY <1>12, <1>13 DEF CopySb, UpdateSbCommitment, TallyTypeOK
  <2> QED
    BY <2>1, <1>11, <1>13 DEF CopySb
<1>14. CASE Count
  <2> DEFINE start == tallyBatchNum * TallyBatchSize
  <2>1. start \in Nat
    BY DEF TallyTypeOK, TallyAssumption
  <2>2. tallySbCommitment' \in SbCommitments
    BY <1>12, <1>14 DEF Count, TallyVotes
  <2>3. BatchOfBallots(start, tallySbCommitment'.root) \in Seq(Nat)
    BY <2>1, <2>2, BatchOfBallotsType
  <2>4. Counted(start, tallySbCommitment'.root) \in Seq(Nat)
    BY <2>3 DEF Counted, TallyTypeOK
  <2>5. TallyTypeOK'
    BY <2>2, <2>4, <1>14 DEF Count, TallyVotes, TallyTypeOK
  <2> QED
    BY <2>5, <1>11, <1>14 DEF Count
<1>15. CASE Submit
  <2> PICK indices \in SUBSET ResultIndices : AddTallyResults(indices)
    BY <1>15 DEF Submit
  <2>1. Cardinality({i \in indices : ~IsSet(i)}) \in Nat
    BY FS_Subset, FS_CardinalityType DEF TallyAssumption
  <2>2. \A i \in ResultIndices : i % OptionCapacity \in Nat
    BY DivMod DEF TallyAssumption
  <2>3. TallyTypeOK'
    BY <2>1, <2>2, SMTT(30) DEF AddTallyResults, TallyTypeOK
  <2> QED
    BY <2>3, <1>11, <1>15 DEF Submit
<1>16. CASE UNCHANGED vars
  BY <1>16, <1>11 DEF vars, TallyTypeOK, tallyVars
<1> QED
  BY <1>1, <1>3, <1>4, <1>5, <1>6, <1>8, <1>9, <1>10, <1>13, <1>14, <1>15, <1>16
  DEF Next

(* Every reachable state of the four contracts is well typed. *)
THEOREM TypeCorrect ==
    ASSUME MACIAssumption, PollAssumption, TallyAssumption
    PROVE  Spec => []TypeOK
BY TypeInit, TypeNext, PTL DEF Spec

-----------------------------------------------------------------------------
(* One leaf per voter.  The nullifiers are the keys of the leaves, so a key that
   is no nullifier is no leaf; and a root recorded at a sign-up is the root of
   leaves that are still there. *)
VoterInv ==
    /\ \A i \in 1..Len(stateRootsOnSignUp) : stateRootsOnSignUp[i] <= Len(publicKeys)
    /\ Len(pollStateTree) >= 1
    /\ pollStateTree[1] = PadKey
    /\ \A i \in 2..TotalSignups :
          pollStateTree[i] \in pollNullifiers /\ SignedUp(pollStateTree[i])
    /\ \A i, j \in 1..TotalSignups : pollStateTree[i] = pollStateTree[j] => i = j

(* A sequence without repetition stays one when an element it does not have is
   appended to it. *)
LEMMA AppendNew ==
    ASSUME NEW S, NEW s \in Seq(S), NEW x \in S,
           \A i \in 1..Len(s) : s[i] # x,
           \A i, j \in 1..Len(s) : s[i] = s[j] => i = j
    PROVE  \A i, j \in 1..Len(Append(s, x)) :
              Append(s, x)[i] = Append(s, x)[j] => i = j
<1> DEFINE n == Len(s)
           t == Append(s, x)
<1>1. /\ n \in Nat
      /\ Len(t) = n + 1
      /\ t[n + 1] = x
      /\ \A i \in 1..n : t[i] = s[i]
  OBVIOUS
<1> SUFFICES ASSUME NEW i \in 1..(n + 1), NEW j \in 1..(n + 1), t[i] = t[j]
             PROVE  i = j
  BY <1>1
<1> HIDE DEF t
<1>2. CASE i \in 1..n /\ j \in 1..n
  BY <1>1, <1>2
<1>3. CASE i = n + 1 /\ j \in 1..n
  BY <1>1, <1>3
<1>4. CASE i \in 1..n /\ j = n + 1
  BY <1>1, <1>4
<1> QED
  BY <1>1, <1>2, <1>3, <1>4

(* What holds of the elements of a sequence and of a new one holds of all elements
   once it is appended: here, membership in a set. *)
LEMMA AppendWithin ==
    ASSUME NEW S, NEW s \in Seq(S), NEW x \in S, NEW T, x \in T,
           \A i \in 2..Len(s) : s[i] \in T
    PROVE  \A i \in 2..Len(Append(s, x)) : Append(s, x)[i] \in T
<1>1. /\ Len(s) \in Nat
      /\ Len(Append(s, x)) = Len(s) + 1
      /\ Append(s, x)[Len(s) + 1] = x
      /\ \A i \in 1..Len(s) : Append(s, x)[i] = s[i]
  OBVIOUS
<1> QED
  BY <1>1

(* A new poll and a new registry hold the pad leaf only. *)
LEMMA VoterInit == ASSUME Init PROVE VoterInv
BY DEF Init, MACIInit, PollInit, VoterInv, TotalSignups

(* No call breaks what signUp and joinPoll keep of keys, leaves and nullifiers. *)
LEMMA VoterNext ==
    ASSUME MACIAssumption, TypeOK, VoterInv, [Next]_vars
    PROVE  VoterInv'
<1> USE DEF TypeOK, MACITypeOK, PollTypeOK
<1>1. CASE Register
  <2>1. PICK key \in Keys : SignUp(key)
    BY <1>1 DEF Register
  <2>2. UNCHANGED <<pollStateTree, pollNullifiers>>
    BY <1>1 DEF Register, pollVars, joinVars
  <2>3. \A i \in 1..Len(stateRootsOnSignUp') : stateRootsOnSignUp'[i] <= Len(publicKeys')
    BY <2>1 DEF SignUp, VoterInv
  <2>4. \A k : SignedUp(k) => SignedUp(k)'
    BY <2>1 DEF SignUp, SignedUp
  <2> QED
    BY <2>2, <2>3, <2>4 DEF VoterInv, TotalSignups
<1>2. CASE Join
  <2>1. PICK key \in Keys, index \in 1..Len(stateRootsOnSignUp) : JoinPoll(key, index)
    BY <1>2 DEF Join
  <2>2. UNCHANGED <<publicKeys, stateRootsOnSignUp>>
    BY <1>2 DEF Join, maciVars
  <2>3. SignedUp(key)
    BY <2>1 DEF JoinPoll, IsMember, SignedUp, VoterInv
  <2>4. \A k : SignedUp(k)' <=> SignedUp(k)
    BY <2>2 DEF SignedUp
  <2> DEFINE registered == {k \in Keys : SignedUp(k)}
  <2>5. /\ pollStateTree' = Append(pollStateTree, key)
        /\ pollNullifiers' = pollNullifiers \union {key}
        /\ key \notin pollNullifiers
    BY <2>1 DEF JoinPoll
  <2>6. \A i \in 1..Len(pollStateTree) : pollStateTree[i] # key
    BY <2>5 DEF VoterInv, TotalSignups, MACIAssumption
  <2>7. \A i, j \in 1..Len(pollStateTree') : pollStateTree'[i] = pollStateTree'[j] => i = j
    BY <2>5, <2>6, AppendNew DEF VoterInv, TotalSignups
  <2>8. \A i \in 2..Len(pollStateTree) : pollStateTree[i] \in pollNullifiers' \intersect registered
    BY <2>5 DEF VoterInv, TotalSignups
  <2>9. \A i \in 2..Len(pollStateTree') : pollStateTree'[i] \in pollNullifiers' \intersect registered
    <3>1. key \in pollNullifiers' \intersect registered
      BY <2>3, <2>5
    <3> HIDE DEF registered
    <3> QED
      BY <2>5, <2>8, <3>1, AppendWithin
  <2>10. Len(pollStateTree') >= 1 /\ pollStateTree'[1] = PadKey
    BY <2>5 DEF VoterInv
  <2> QED
    BY <2>2, <2>4, <2>7, <2>9, <2>10 DEF VoterInv, TotalSignups, SignedUp
<1>3. ASSUME UNCHANGED <<maciVars, joinVars>>
      PROVE  VoterInv'
  BY <1>3 DEF VoterInv, TotalSignups, SignedUp, maciVars, joinVars
<1>4. CASE \/ Publish \/ Relay \/ Pass \/ Pad \/ Merge \/ Process
           \/ CopySb \/ Count \/ Submit \/ UNCHANGED vars
  <2>1. UNCHANGED <<maciVars, joinVars>>
    BY <1>4 DEF Publish, PublishMessageBatch, Relay, RelayMessagesBatch, Pass, Tick,
       Pad, PadLastBatch, Merge, MergeState, Process, ProcessMessages,
       ProcessFirstBatch, ProcessNextBatch, CopySb, Count, Submit, pollVars, vars
  <2> QED
    BY <2>1, <1>3
<1> QED
  BY <1>1, <1>2, <1>4 DEF Next

(* Nobody has two leaves in a poll, and every voter's leaf is a registered key. *)
THEOREM OneLeafPerVoterHolds ==
    ASSUME MACIAssumption, PollAssumption, TallyAssumption
    PROVE  Spec => []OneLeafPerVoter
<1>1. TypeOK /\ VoterInv => OneLeafPerVoter
  BY DEF VoterInv, OneLeafPerVoter, TotalSignups
<1> QED
  BY <1>1, VoterInit, VoterNext, TypeCorrect, PTL DEF Spec

-----------------------------------------------------------------------------
(* The two conditions under which the contract's batches are those of the
   coordinator's node.  Without either, TLC finds them to differ (configuration
   RoundFound). *)
NoBlockAtDeadline == EndDate \notin Timestamps
RelaysKeepBatches == MessageBatchSize = 1 \/ RelayLengths \subseteq {1}

(* Under the second, relaying records the batch hashes that publishing would. *)
LEMMA RelayIsPublish ==
    ASSUME PollAssumption, RelaysKeepBatches, numMessages \in Nat, chainHash \in Nat,
           NEW len \in RelayLengths
    PROVE  RelayedBoundaries(len) = PassedBoundaries(len)
<1>1. len \in Nat \ {0} /\ MessageBatchSize \in Nat \ {0}
  BY DEF PollAssumption
<1>2. CASE MessageBatchSize = 1
  <2>1. /\ (numMessages + len) % 1 = 0
        /\ (numMessages + len) \div 1 = numMessages + len
        /\ numMessages \div 1 = numMessages
    BY <1>1
  <2>2. \A j \in 1..len : (numMessages + j) * 1 - numMessages = j
    BY <1>1
  <2> QED
    BY <1>1, <1>2, <2>1, <2>2 DEF RelayedBoundaries, PassedBoundaries
<1>3. CASE len = 1
  <2> DEFINE q == numMessages \div MessageBatchSize
  <2>1. CASE (numMessages + 1) % MessageBatchSize = 0
    <3>1. (numMessages + 1) \div MessageBatchSize = q + 1
      BY <1>1, <2>1
    <3>2. (q + 1) * MessageBatchSize = numMessages + 1
      <4>1. numMessages + 1 \in Nat
        BY <1>1
      <4>2. numMessages + 1 = ((numMessages + 1) \div MessageBatchSize) * MessageBatchSize
        BY <1>1, <2>1, <4>1, DivMod
      <4> QED
        BY <3>1, <4>2
    <3> QED
      BY <1>1, <1>3, <2>1, <3>1, <3>2 DEF RelayedBoundaries, PassedBoundaries
  <2>2. CASE (numMessages + 1) % MessageBatchSize # 0
    <3>1. (numMessages + 1) \div MessageBatchSize = q /\ q \in Nat
      BY <1>1, <2>2
    <3> QED
      BY <1>1, <1>3, <2>2, <3>1 DEF RelayedBoundaries, PassedBoundaries
  <2> QED
    BY <2>1, <2>2
<1> QED
  BY <1>2, <1>3 DEF RelaysKeepBatches

(* The checkpoints of n messages, one per full batch. *)
UpTo(n) == [k \in 1..((n \div MessageBatchSize) + 1) |-> (k - 1) * MessageBatchSize]

(* The hashes of the full batches up to n messages are hashes. *)
LEMMA UpToType ==
    ASSUME PollAssumption, NEW n \in Nat
    PROVE  UpTo(n) \in Seq(Nat)
<1> DEFINE m == (n \div MessageBatchSize) + 1
           hash(k) == (k - 1) * MessageBatchSize
<1>1. m \in Nat
  BY DivMod DEF PollAssumption
<1>2. \A k \in 1..m : hash(k) \in Nat
  BY DEF PollAssumption
<1> HIDE DEF m, hash
<1>3. [k \in 1..m |-> hash(k)] \in Seq(Nat)
  BY <1>1, <1>2
<1> QED
  BY <1>3 DEF UpTo, m, hash

(* The coordinator's hashes after publishing are those before, and the passed ones. *)
LEMMA CheckpointsGrow ==
    ASSUME PollAssumption, NEW n \in Nat, NEW len \in Nat, n = numMessages, chainHash = n
    PROVE  UpTo(n) \o PassedBoundaries(len) = UpTo(n + len)
<1> DEFINE B == MessageBatchSize
           q == n \div B
           m == ((n + len) \div B) - q
           new == [j \in 1..m |-> (q + j) * B]
<1>1. B \in Nat \ {0} /\ q \in Nat /\ m \in Nat /\ ((n + len) \div B) = q + m
  BY DEF PollAssumption
<1>2. PassedBoundaries(len) = new
  <2>1. \A j \in 1..m : n + ((q + j) * B - n) = (q + j) * B
    BY <1>1
  <2> QED
    BY <2>1 DEF PassedBoundaries
<1> HIDE DEF B, q, m
<1>3. UpTo(n) = [k \in 1..(q + 1) |-> (k - 1) * B]
  BY DEF UpTo, q, B
<1>4. UpTo(n + len) = [k \in 1..(q + m + 1) |-> (k - 1) * B]
  BY <1>1 DEF UpTo, B
<1>5. [k \in 1..(q + 1) |-> (k - 1) * B] \o new = [k \in 1..(q + m + 1) |-> (k - 1) * B]
  <2>1. [k \in 1..(q + 1) |-> (k - 1) * B] \in Seq(Nat) /\ new \in Seq(Nat)
    BY <1>1
  <2>2. \A k \in 1..(q + m + 1) : k > q + 1 => /\ k - (q + 1) \in 1..m
                                               /\ q + (k - (q + 1)) = k - 1
    BY <1>1
  <2> QED
    BY <1>1, <2>1, <2>2
<1> QED
  BY <1>2, <1>3, <1>4, <1>5

-----------------------------------------------------------------------------
(* The message chain and the merge, invariant under both conditions: what the
   deadline closed stays closed because no block is at the deadline itself. *)
ChainInv ==
    /\ numMessages >= 1
    /\ chainHash = numMessages
    /\ BatchHashesAgree
    /\ isBatchHashesPadded \/ stateMerged => now > EndDate
    /\ ~stateMerged => currentSbCommitment = NoSb
    /\ stateMerged => currentSbCommitment = [root |-> TotalSignups, applied |-> <<>>]
    /\ LeavesFit

(* The placeholder message opens the chain as the coordinator has it. *)
LEMMA ChainInit ==
    ASSUME PollAssumption, Init
    PROVE  ChainInv
<1>1. CASE MessageBatchSize = 1
  <2>1. 1 \div 1 = 1
    OBVIOUS
  <2>2. Checkpoints = <<0, 1>>
    BY <1>1, <2>1 DEF Init, PollInit, Checkpoints
  <2>3. BatchHashesAgree
    BY <1>1, <2>2 DEF Init, PollInit, BatchHashesAgree, CoreBatchHashes
  <2> QED
    BY <2>3 DEF Init, PollInit, ChainInv, LeavesFit
<1>2. CASE MessageBatchSize # 1
  <2>1. 1 \div MessageBatchSize = 0
    BY <1>2 DEF PollAssumption
  <2>2. Checkpoints = <<0>>
    BY <2>1 DEF Init, PollInit, Checkpoints, PollAssumption
  <2>3. BatchHashesAgree
    BY <1>2, <2>2 DEF Init, PollInit, BatchHashesAgree, CoreBatchHashes
  <2> QED
    BY <2>3 DEF Init, PollInit, ChainInv, LeavesFit
<1> QED
  BY <1>1, <1>2

(* A publication, or a relay that keeps the batches. *)
LEMMA ChainPublish ==
    ASSUME PollAssumption, NoBlockAtDeadline, TypeOK, ChainInv,
           NEW len \in Nat \ {0}, IsOpenForVoting,
           numMessages' = numMessages + len,
           chainHash' = chainHash + len,
           batchHashes' = batchHashes \o PassedBoundaries(len),
           UNCHANGED <<now, isBatchHashesPadded, joinVars, mergeVars>>
    PROVE  ChainInv'
<1> USE DEF TypeOK, PollTypeOK
<1>1. ~isBatchHashesPadded /\ ~stateMerged /\ now' = now
  <2>1. ~(now > EndDate)
    BY DEF IsOpenForVoting, PollAssumption
  <2> QED
    BY <2>1 DEF ChainInv
<1>2. batchHashes = UpTo(numMessages)
  BY <1>1 DEF ChainInv, BatchHashesAgree, CoreBatchHashes, Checkpoints, UpTo
<1>3. batchHashes' = UpTo(numMessages + len)
  BY <1>2, CheckpointsGrow DEF ChainInv
<1>4. BatchHashesAgree'
  <2>1. UpTo(numMessages + len) = Checkpoints'
    BY DEF UpTo, Checkpoints
  <2>2. ~isBatchHashesPadded'
    BY <1>1
  <2>3. UpTo(numMessages + len) \in Seq(Nat)
    BY UpToType
  <2> QED
    BY <1>3, <2>1, <2>2, <2>3 DEF BatchHashesAgree, CoreBatchHashes
<1> QED
  BY <1>1, <1>4 DEF ChainInv, LeavesFit, TotalSignups, joinVars, mergeVars

(* Padding, the first time or again, does what the coordinator's padding does. *)
LEMMA ChainPad ==
    ASSUME PollAssumption, NoBlockAtDeadline, TypeOK, ChainInv, PadLastBatch
    PROVE  ChainInv'
<1> USE DEF TypeOK, PollTypeOK
<1>1. now' = now /\ now > EndDate
  BY DEF PadLastBatch, IsAfterVotingDeadline, NoBlockAtDeadline, PollAssumption
<1>2. BatchHashesAgree'
  <2>1. numMessages' = numMessages /\ isBatchHashesPadded'
    BY DEF PadLastBatch
  <2>2. Checkpoints' = Checkpoints
    BY <2>1 DEF Checkpoints
  <2>3. CASE isBatchHashesPadded
    BY <2>1, <2>2, <2>3 DEF PadLastBatch, Padding, ChainInv, BatchHashesAgree, CoreBatchHashes
  <2>4. CASE ~isBatchHashesPadded
    BY <2>1, <2>2, <2>4 DEF PadLastBatch, Padding, ChainInv, BatchHashesAgree, CoreBatchHashes
  <2> QED
    BY <2>3, <2>4
<1> QED
  BY <1>1, <1>2 DEF ChainInv, PadLastBatch, LeavesFit, TotalSignups, joinVars, mergeVars

(* The chain stays what it is when nobody publishes, relays, pads or mines. *)
LEMMA ChainUnchanged ==
    ASSUME ChainInv, UNCHANGED pollVars
    PROVE  ChainInv'
BY DEF ChainInv, BatchHashesAgree, CoreBatchHashes, Checkpoints, LeavesFit, TotalSignups,
   pollVars, messageVars, joinVars, mergeVars

(* No call takes the batch hashes away from the coordinator's. *)
LEMMA ChainNext ==
    ASSUME PollAssumption, NoBlockAtDeadline, RelaysKeepBatches,
           TypeOK, ChainInv, [Next]_vars
    PROVE  ChainInv'
<1> USE DEF TypeOK, PollTypeOK
<1>1. CASE Register \/ CopySb \/ Count \/ Submit \/ UNCHANGED vars
  BY <1>1, ChainUnchanged DEF Register, CopySb, Count, Submit, vars
<1>2. CASE Join
  <2>1. now' = now /\ now < EndDate /\ UNCHANGED <<messageVars, isBatchHashesPadded, mergeVars>>
    BY <1>2 DEF Join, JoinPoll, IsWithinVotingDeadline, NoBlockAtDeadline, PollAssumption
  <2>2. BatchHashesAgree'
    BY <2>1 DEF ChainInv, BatchHashesAgree, CoreBatchHashes, Checkpoints, messageVars
  <2>3. ~stateMerged /\ ~isBatchHashesPadded
    <3>1. ~(now > EndDate)
      BY <2>1 DEF PollAssumption
    <3> QED
      BY <3>1 DEF ChainInv
  <2> QED
    BY <2>1, <2>2, <2>3 DEF ChainInv, LeavesFit, messageVars, mergeVars
<1>3. CASE Publish
  <2> PICK len \in PublishLengths : PublishMessageBatch(len)
    BY <1>3 DEF Publish
  <2> QED
    BY ChainPublish DEF PublishMessageBatch, PollAssumption
<1>4. CASE Relay
  <2> PICK len \in RelayLengths : RelayMessagesBatch(len)
    BY <1>4 DEF Relay
  <2>1. RelayedBoundaries(len) = PassedBoundaries(len)
    BY RelayIsPublish
  <2> QED
    BY <2>1, ChainPublish DEF RelayMessagesBatch, PollAssumption
<1>5. CASE Pass
  <2>1. now' > now /\ now' \in Nat /\ UNCHANGED <<messageVars, isBatchHashesPadded, joinVars, mergeVars>>
    BY <1>5 DEF Pass, Tick, PollAssumption
  <2>2. BatchHashesAgree'
    BY <2>1 DEF ChainInv, BatchHashesAgree, CoreBatchHashes, Checkpoints, messageVars
  <2>3. LeavesFit'
    BY <2>1 DEF ChainInv, LeavesFit, TotalSignups, joinVars, mergeVars
  <2> QED
    BY <2>1, <2>2, <2>3 DEF ChainInv, TotalSignups, messageVars, joinVars, mergeVars, PollAssumption
<1>6. CASE Pad
  BY <1>6, ChainPad DEF Pad
<1>7. CASE Merge
  <2>1. now' = now /\ now > EndDate /\ UNCHANGED <<messageVars, isBatchHashesPadded, joinVars>>
    BY <1>7 DEF Merge, MergeState, IsAfterVotingDeadline, NoBlockAtDeadline, PollAssumption
  <2>2. BatchHashesAgree'
    BY <2>1 DEF ChainInv, BatchHashesAgree, CoreBatchHashes, Checkpoints, messageVars
  <2>3. /\ stateMerged'
        /\ currentSbCommitment' = [root |-> TotalSignups, applied |-> <<>>]
        /\ TotalSignups' = TotalSignups
        /\ 2^actualStateTreeDepth' >= TotalSignups
    BY <1>7, <2>1 DEF Merge, MergeState, TotalSignups, FitsAt, joinVars
  <2>4. LeavesFit'
    BY <2>3 DEF LeavesFit, TotalSignups
  <2> QED
    BY <2>1, <2>2, <2>3, <2>4 DEF ChainInv, messageVars
<1>8. CASE Process
  <2>1. CASE ProcessFirstBatch
    BY <2>1, ChainPad DEF ProcessFirstBatch
  <2>2. CASE ProcessNextBatch
    BY <2>2, ChainUnchanged DEF ProcessNextBatch
  <2> QED
    BY <1>8, <2>1, <2>2 DEF Process, ProcessMessages
<1> QED
  BY <1>1, <1>2, <1>3, <1>4, <1>5, <1>6, <1>7, <1>8 DEF Next

(* The contract's batch hashes are those of the coordinator's node, as long as no
   block is at the deadline and relays keep to single messages (or batches). *)
THEOREM BatchHashesAgreeHolds ==
    ASSUME MACIAssumption, PollAssumption, TallyAssumption,
           NoBlockAtDeadline, RelaysKeepBatches
    PROVE  Spec => [](BatchHashesAgree /\ LeavesFit)
<1>1. ChainInv => BatchHashesAgree /\ LeavesFit
  BY DEF ChainInv
<1> QED
  BY <1>1, ChainInit, ChainNext, TypeCorrect, PTL DEF Spec

-----------------------------------------------------------------------------
(* Processing.  Batch index covers the messages from (index - 1) * B, excluded,
   to Least(index * B, n); going down, the messages read are a prefix of the
   messages in reverse. *)
Padded(n) == UpTo(n) \o (IF n % MessageBatchSize # 0 THEN <<n>> ELSE <<>>)
Down(n, e) == [i \in 1..(n - e) |-> n + 1 - i]

(* What an appended sequence ends with. *)
LEMMA AppendLast ==
    ASSUME NEW S, NEW s \in Seq(S), NEW x \in S
    PROVE  /\ Len(s \o <<x>>) = Len(s) + 1
           /\ (s \o <<x>>)[Len(s) + 1] = x
           /\ \A k \in 1..Len(s) : (s \o <<x>>)[k] = s[k]
OBVIOUS

(* How many batches the coordinator's hashes stand for, and where each one ends. *)
LEMMA Batches ==
    ASSUME PollAssumption, NEW n \in Nat \ {0}, NEW nb, nb = Len(Padded(n)) - 1
    PROVE  /\ nb \in Nat \ {0}
           /\ (nb - 1) * MessageBatchSize < n
           /\ n <= nb * MessageBatchSize
           /\ \A index \in 1..nb :
                 Padded(n)[index + 1] = Least(index * MessageBatchSize, n)
<1> DEFINE B == MessageBatchSize
           q == n \div B
           r == n % B
<1>1. /\ B \in Nat \ {0} /\ q \in Nat /\ r \in 0..(B - 1)
      /\ n = q * B + r
  BY DivMod DEF PollAssumption
<1>2. UpTo(n) = [k \in 1..(q + 1) |-> (k - 1) * B]
  BY DEF UpTo
<1>3. Padded(n) = [k \in 1..(q + 1) |-> (k - 1) * B] \o (IF r # 0 THEN <<n>> ELSE <<>>)
  BY <1>2 DEF Padded
<1> HIDE DEF B, q, r
<1>4. [k \in 1..(q + 1) |-> (k - 1) * B] \in Seq(Nat)
  BY <1>1
<1>5. \A k \in 1..q : k * B \in Nat /\ k * B <= q * B
  BY <1>1
<1>6. CASE r = 0
  <2>1. Padded(n) = [k \in 1..(q + 1) |-> (k - 1) * B]
    BY <1>3, <1>4, <1>6
  <2>2. nb = q
    BY <1>1, <2>1
  <2>3. q # 0 /\ (q - 1) * B < n /\ n <= q * B
    BY <1>1, <1>6
  <2>4. \A index \in 1..q : Padded(n)[index + 1] = index * B
    BY <1>1, <2>1
  <2> QED
    BY <1>1, <1>5, <1>6, <2>2, <2>3, <2>4 DEF B, Least
<1>7. CASE r # 0
  <2>1. /\ Len(Padded(n)) = q + 2
        /\ Padded(n)[q + 2] = n
        /\ \A k \in 1..(q + 1) : Padded(n)[k] = (k - 1) * B
    <3> DEFINE s == [k \in 1..(q + 1) |-> (k - 1) * B]
    <3>1. s \in Seq(Nat) /\ Len(s) = q + 1 /\ \A k \in 1..(q + 1) : s[k] = (k - 1) * B
      BY <1>1, <1>4
    <3>2. Padded(n) = s \o <<n>>
      BY <1>3, <1>7
    <3> HIDE DEF s
    <3>3. /\ Len(s \o <<n>>) = Len(s) + 1
          /\ (s \o <<n>>)[Len(s) + 1] = n
          /\ \A k \in 1..Len(s) : (s \o <<n>>)[k] = s[k]
      BY <3>1, AppendLast
    <3>4. q + 1 + 1 = q + 2
      BY <1>1
    <3> QED
      BY <3>1, <3>2, <3>3, <3>4
  <2>2. nb = q + 1
    BY <1>1, <2>1
  <2>3. (nb - 1) * B < n /\ n <= nb * B
    <3>1. (q + 1) * B = q * B + B
      BY <1>1
    <3> QED
      BY <1>1, <1>7, <2>2, <3>1
  <2>4. \A index \in 1..q : Padded(n)[index + 1] = Least(index * B, n)
    <3> SUFFICES ASSUME NEW index \in 1..q
                 PROVE  Padded(n)[index + 1] = Least(index * B, n)
      OBVIOUS
    <3>1. index + 1 \in 1..(q + 1) /\ (index + 1) - 1 = index
      BY <1>1
    <3>2. index * B \in Nat /\ index * B <= n
      BY <1>1, <1>5
    <3> QED
      BY <2>1, <3>1, <3>2 DEF Least
  <2>5. Padded(n)[(q + 1) + 1] = Least((q + 1) * B, n)
    BY <1>1, <2>1, <2>2, <2>3 DEF Least
  <2>6. \A index \in 1..nb : index \in 1..q \/ index = q + 1
    BY <1>1, <2>2
  <2>7. nb \in Nat \ {0}
    <3>1. q \in Nat
      BY <1>1, Zenon
    <3> QED
      BY <2>2, <3>1
  <2>8. \A index \in 1..nb : Padded(n)[index + 1] = Least(index * B, n)
    <3> SUFFICES ASSUME NEW index \in 1..nb
                 PROVE  Padded(n)[index + 1] = Least(index * B, n)
      OBVIOUS
    <3>1. CASE index \in 1..q
      BY <2>4, <3>1, Zenon
    <3>2. CASE index = q + 1
      BY <2>5, <3>2, Zenon
    <3> QED
      BY <2>6, <3>1, <3>2, Zenon
  <2> QED
    BY <2>3, <2>7, <2>8, Zenon DEF B
<1> QED
  BY <1>6, <1>7

\* nb batches of b hold n messages, and fewer do not.
Hold(nb, b, n) == (nb - 1) * b < n /\ n <= nb * b

\* The count of totalBatchesProcessed and the index agree on the last batch.
LEMMA LastBatch ==
    ASSUME NEW b \in Nat \ {0}, NEW n \in Nat \ {0}, NEW nb \in Nat \ {0},
           Hold(nb, b, n), NEW index \in 1..nb
    PROVE  /\ n <= b * (nb - index + 1) <=> index = 1
           /\ (index - 1) * b < n
           /\ Least(index * b, n) - (index - 1) * b \in 0..b
<1> USE DEF Hold
<1>1. CASE index = 1
  BY <1>1 DEF Least
<1>2. CASE index > 1
  <2>1. b * (nb - index + 1) <= (nb - 1) * b
    BY <1>2
  <2>2. (index - 1) * b <= (nb - 1) * b
    OBVIOUS
  <2>3. (index * b) = ((index - 1) * b) + b
    OBVIOUS
  <2> QED
    BY <1>2, <2>1, <2>2, <2>3 DEF Least
<1> QED
  BY <1>1, <1>2

(* Reading the messages of one more batch extends what was read downwards. *)
LEMMA ReadOn ==
    ASSUME NEW n \in Nat, NEW high \in 0..n, NEW low \in 0..high
    PROVE  Down(n, high) \o [i \in 1..(high - low) |-> high + 1 - i] = Down(n, low)
<1>1. Down(n, high) \in Seq(Int) /\ Len(Down(n, high)) = n - high
  BY DEF Down
<1>2. [i \in 1..(high - low) |-> high + 1 - i] \in Seq(Int)
  OBVIOUS
<1> QED
  BY <1>1, <1>2 DEF Down

(* One accepted proof, on the batch hashes of a closed poll. *)
LEMMA ProcessStep ==
    ASSUME PollAssumption, numMessages \in Nat \ {0}, totalBatchesProcessed \in Nat,
           NEW hs, hs = Padded(numMessages), hs \in Seq(Nat),
           NEW index \in Int, index + totalBatchesProcessed = Len(hs) - 1,
           NEW root \in Nat, NEW sb,
           sb = [root |-> root,
                 applied |-> Down(numMessages, Least(index * MessageBatchSize, numMessages))],
           ProcessBatch(hs, index, sb)
    PROVE  /\ sbCommitment' =
                 [root |-> root,
                  applied |-> Down(numMessages, (index - 1) * MessageBatchSize)]
           /\ processingComplete' <=> index = 1
           /\ currentBatchIndex' = index - 1
           /\ totalBatchesProcessed' = totalBatchesProcessed + 1
           /\ index \in Nat \ {0}
           /\ (index - 1) * MessageBatchSize \in 0..numMessages
<1> DEFINE n == numMessages
           B == MessageBatchSize
           nb == Len(hs) - 1
           high == Least(index * B, n)
           low == (index - 1) * B
<1>1. B \in Nat \ {0} /\ index \in Nat \ {0} /\ index <= nb
  BY DEF ProcessBatch, PollAssumption
<1>a. n \in Nat \ {0} /\ nb = Len(Padded(n)) - 1 /\ index + totalBatchesProcessed = nb
  OBVIOUS
<1> HIDE DEF n, nb
<1>b. /\ nb \in Nat \ {0} /\ (nb - 1) * B < n /\ n <= nb * B
      /\ \A k \in 1..nb : Padded(n)[k + 1] = Least(k * B, n)
  BY <1>a, Batches
<1>2. /\ nb \in Nat \ {0} /\ (nb - 1) * B < n /\ n <= nb * B
      /\ hs[index + 1] = high
  BY <1>1, <1>b DEF n
<1>3. /\ n <= B * (totalBatchesProcessed + 1) <=> index = 1
      /\ low < n
      /\ high - low \in 0..B
  <2>1. Hold(nb, B, n) /\ index \in 1..nb
    BY <1>1, <1>2 DEF Hold
  <2>2. totalBatchesProcessed = nb - index
    BY <1>1, <1>2, <1>a
  <2> HIDE DEF B
  <2>3. /\ n <= B * (nb - index + 1) <=> index = 1
        /\ (index - 1) * B < n
        /\ Least(index * B, n) - (index - 1) * B \in 0..B
    BY <1>1, <1>2, <1>a, <2>1, LastBatch
  <2> QED
    BY <2>2, <2>3 DEF high, low
<1>4. low \in Nat /\ high \in 0..n /\ low \in 0..high
  BY <1>1, <1>3, <1>a DEF Least
<1>5. ChainedIn(index) = high - low
  <2>1. BatchEnd(index) = high /\ BatchStart(index) = low
    BY <1>1 DEF BatchEnd, BatchStart, n
  <2> HIDE DEF high, low
  <2> QED
    BY <1>1, <1>3, <1>4, <2>1 DEF ChainedIn, Least
<1>6. sbCommitment' = Apply(sb, high, high - low)
  BY <1>2, <1>5 DEF ProcessBatch
<1>7. sbCommitment' = [root |-> root,
                       applied |-> Down(n, high) \o [i \in 1..(high - low) |-> high + 1 - i]]
  BY <1>6 DEF Apply, n
<1> HIDE DEF high, low
<1>8. sbCommitment' = [root |-> root, applied |-> Down(n, low)]
  <2>1. n \in Nat
    BY DEF n
  <2> QED
    BY <1>4, <1>7, <2>1, ReadOn
<1>9. processingComplete' <=> n <= B * (totalBatchesProcessed + 1)
  BY DEF ProcessBatch, n
<1>10. currentBatchIndex' = index - 1 /\ totalBatchesProcessed' = totalBatchesProcessed + 1
  BY DEF ProcessBatch
<1> QED
  BY <1>1, <1>3, <1>4, <1>8, <1>9, <1>10 DEF n, low

ProcInv ==
    /\ totalBatchesProcessed = 0 => ~processingComplete /\ sbCommitment = NoSb
    /\ totalBatchesProcessed > 0 =>
          /\ isBatchHashesPadded /\ stateMerged
          /\ currentBatchIndex + totalBatchesProcessed = Len(batchHashes) - 1
          /\ currentBatchIndex * MessageBatchSize <= numMessages
          /\ sbCommitment = [root |-> TotalSignups,
                             applied |-> Down(numMessages, currentBatchIndex * MessageBatchSize)]
          /\ processingComplete <=> currentBatchIndex = 0

(* Nothing is processed when the processor is deployed. *)
LEMMA ProcInit == ASSUME Init PROVE ProcInv
BY DEF Init, ProcessorInit, ProcInv

\* Once processing has begun no action but its own touches what it works on.
LEMMA ProcUnchanged ==
    ASSUME ProcInv,
           UNCHANGED <<processorVars, numMessages, batchHashes, pollStateTree>>,
           isBatchHashesPadded => isBatchHashesPadded',
           stateMerged => stateMerged'
    PROVE  ProcInv'
BY DEF ProcInv, processorVars, TotalSignups, Down

(* No call breaks what processMessages keeps of index, count and commitment. *)
LEMMA ProcNext ==
    ASSUME PollAssumption, NoBlockAtDeadline, RelaysKeepBatches,
           TypeOK, ChainInv, ChainInv', TypeOK', ProcInv, [Next]_vars
    PROVE  ProcInv'
<1>1. CASE Register \/ Pass \/ CopySb \/ Count \/ Submit \/ UNCHANGED vars
  BY <1>1, ProcUnchanged DEF Register, Pass, Tick, CopySb, Count, Submit, vars, pollVars,
     messageVars, joinVars, mergeVars
<1>2. ASSUME ~(now > EndDate), UNCHANGED processorVars
      PROVE  ProcInv'
  <2>1. totalBatchesProcessed = 0
    BY <1>2 DEF ChainInv, ProcInv, TypeOK, ProcessorTypeOK
  <2> QED
    BY <1>2, <2>1 DEF ProcInv, processorVars
<1>3. CASE Join \/ Publish \/ Relay
  <2>1. now <= EndDate /\ UNCHANGED processorVars
    BY <1>3 DEF Join, JoinPoll, IsWithinVotingDeadline, Publish, PublishMessageBatch,
       Relay, RelayMessagesBatch, IsOpenForVoting
  <2>2. ~(now > EndDate)
    BY <2>1 DEF PollAssumption, TypeOK, PollTypeOK
  <2> QED
    BY <1>2, <2>1, <2>2
<1>4. CASE Pad
  <2>1. CASE isBatchHashesPadded
    <3>1. batchHashes' = batchHashes
      BY <1>4, <2>1 DEF Pad, PadLastBatch, Padding, TypeOK, PollTypeOK
    <3> QED
      BY <1>4, <3>1, ProcUnchanged DEF Pad, PadLastBatch, joinVars, mergeVars
  <2>2. CASE ~isBatchHashesPadded
    BY <1>4, <2>2 DEF Pad, ProcInv, processorVars, TypeOK, ProcessorTypeOK
  <2> QED
    BY <2>1, <2>2
<1>5. CASE Merge
  BY <1>5, ProcUnchanged DEF Merge, MergeState, messageVars, joinVars
<1>6. CASE Process
  <2>1. CASE ProcessFirstBatch
    <3> DEFINE hs == batchHashes'
               index == Len(hs) - 1
    <3>1. /\ totalBatchesProcessed = 0
          /\ UNCHANGED <<numMessages, pollStateTree, stateMerged>>
          /\ isBatchHashesPadded'
      BY <2>1 DEF ProcessFirstBatch, PadLastBatch, joinVars, mergeVars
    <3>2. hs = Padded(numMessages) /\ hs \in Seq(Nat)
      BY <3>1 DEF ChainInv, BatchHashesAgree, CoreBatchHashes, Checkpoints, UpTo, Padded,
         TypeOK, PollTypeOK
    <3>3. numMessages \in Nat \ {0}
      BY DEF ChainInv, TypeOK, PollTypeOK
    <3>4. ProcessBatch(hs, index, currentSbCommitment)
      BY <2>1 DEF ProcessFirstBatch
    <3>5. stateMerged /\ currentSbCommitment = [root |-> TotalSignups, applied |-> <<>>]
      BY <3>4 DEF ProcessBatch, Provable, ChainInv
    <3>6. index \in Nat \ {0} /\ numMessages <= index * MessageBatchSize
      BY <3>2, <3>3, Batches
    <3>7. Down(numMessages, Least(index * MessageBatchSize, numMessages)) = <<>>
      <4>1. Least(index * MessageBatchSize, numMessages) = numMessages
        BY <3>3, <3>6 DEF Least, PollAssumption
      <4> QED
        BY <3>3, <4>1 DEF Down
    <3>8. TotalSignups \in Nat /\ index + totalBatchesProcessed = Len(hs) - 1
      BY <3>1, <3>6 DEF TypeOK, PollTypeOK, TotalSignups
    <3> HIDE DEF hs, index
    <3>9. /\ sbCommitment' =
                [root |-> TotalSignups,
                 applied |-> Down(numMessages, (index - 1) * MessageBatchSize)]
          /\ processingComplete' <=> index = 1
          /\ currentBatchIndex' = index - 1
          /\ totalBatchesProcessed' = totalBatchesProcessed + 1
          /\ (index - 1) * MessageBatchSize \in 0..numMessages
      <4>1. totalBatchesProcessed \in Nat
        BY <3>1
      <4>2. /\ hs \in Seq(Nat)
            /\ hs = Padded(numMessages)
            /\ index + totalBatchesProcessed = Len(hs) - 1
        BY <3>2, <3>8
      <4>3. currentSbCommitment =
              [root |-> TotalSignups,
               applied |-> Down(numMessages,
                                Least(index * MessageBatchSize, numMessages))]
        BY <3>5, <3>7, Zenon
      <4>4. index \in Int
        BY <3>6
      <4> QED
        BY <3>3, <3>4, <3>8, <4>1, <4>2, <4>3, <4>4, ProcessStep
    <3>10. TotalSignups' = TotalSignups /\ numMessages' = numMessages /\ stateMerged'
      BY <3>1, <3>5 DEF TotalSignups
    <3>11. sbCommitment' =
             [root |-> TotalSignups',
              applied |-> Down(numMessages', currentBatchIndex' * MessageBatchSize)]
      BY <3>9, <3>10, Zenon
    <3>12. currentBatchIndex' * MessageBatchSize <= numMessages'
      BY <3>3, <3>9, <3>10
    <3>13. /\ currentBatchIndex' + totalBatchesProcessed' = index
           /\ totalBatchesProcessed' > 0
           /\ currentBatchIndex' = 0 <=> index = 1
      BY <3>1, <3>6, <3>9
    <3>14. processingComplete' <=> currentBatchIndex' = 0
      BY <3>9, <3>13
    <3> QED
      BY <3>1, <3>10, <3>11, <3>12, <3>13, <3>14 DEF ProcInv, Down, index, hs
  <2>2. CASE ProcessNextBatch
    <3>1. /\ totalBatchesProcessed > 0 /\ ~processingComplete
          /\ UNCHANGED <<numMessages, pollStateTree, stateMerged, batchHashes, isBatchHashesPadded>>
          /\ ProcessBatch(batchHashes, currentBatchIndex, sbCommitment)
      BY <2>2 DEF ProcessNextBatch, pollVars, messageVars, joinVars, mergeVars
    <3>2. batchHashes = Padded(numMessages) /\ batchHashes \in Seq(Nat)
      BY <3>1 DEF ProcInv, ChainInv, BatchHashesAgree, CoreBatchHashes, Checkpoints, UpTo,
         Padded, TypeOK, PollTypeOK
    <3>3. numMessages \in Nat \ {0} /\ TotalSignups \in Nat /\ currentBatchIndex \in Nat
      <4>1. numMessages \in Nat \ {0}
        BY DEF ChainInv, TypeOK, PollTypeOK
      <4> QED
        BY <4>1 DEF TypeOK, PollTypeOK, ProcessorTypeOK, TotalSignups
    <3>4. Least(currentBatchIndex * MessageBatchSize, numMessages)
             = currentBatchIndex * MessageBatchSize
      BY <3>1, <3>3 DEF ProcInv, Least
    <3>5. sbCommitment =
             [root |-> TotalSignups,
              applied |-> Down(numMessages,
                               Least(currentBatchIndex * MessageBatchSize, numMessages))]
      BY <3>1, <3>4 DEF ProcInv
    <3>6. currentBatchIndex + totalBatchesProcessed = Len(batchHashes) - 1
      BY <3>1 DEF ProcInv
    <3>7. /\ sbCommitment' =
                 [root |-> TotalSignups,
                  applied |-> Down(numMessages, (currentBatchIndex - 1) * MessageBatchSize)]
          /\ processingComplete' <=> currentBatchIndex = 1
          /\ currentBatchIndex' = currentBatchIndex - 1
          /\ totalBatchesProcessed' = totalBatchesProcessed + 1
          /\ (currentBatchIndex - 1) * MessageBatchSize \in 0..numMessages
      <4>1. totalBatchesProcessed \in Nat
        BY DEF TypeOK, ProcessorTypeOK
      <4>2. currentBatchIndex \in Int
        BY <3>3
      <4> QED
        BY <3>1, <3>2, <3>3, <3>5, <3>6, <4>1, <4>2, ProcessStep
    <3>8. isBatchHashesPadded' /\ stateMerged'
      BY <3>1 DEF ProcInv
    <3> QED
      BY <3>1, <3>3, <3>6, <3>7, <3>8 DEF ProcInv, TotalSignups, Down, TypeOK, ProcessorTypeOK
  <2> QED
    BY <1>6, <2>1, <2>2 DEF Process, ProcessMessages
<1> QED
  BY <1>1, <1>3, <1>4, <1>5, <1>6 DEF Next

(* When the count says complete, every message has been read once. *)
LEMMA ProcImplies ==
    ASSUME PollAssumption, TypeOK, ChainInv, ProcInv
    PROVE  EveryMessageOnce /\ IndexMeetsCount
<1>1. EveryMessageOnce
  <2> SUFFICES ASSUME processingComplete
               PROVE  sbCommitment = [root |-> TotalSignups, applied |-> AllMessages]
    BY DEF EveryMessageOnce
  <2>1. totalBatchesProcessed > 0
    BY DEF ProcInv, TypeOK, ProcessorTypeOK
  <2>2. currentBatchIndex = 0
    BY <2>1 DEF ProcInv
  <2>3. currentBatchIndex * MessageBatchSize = 0 /\ numMessages - 0 = numMessages
    BY <2>2 DEF TypeOK, PollTypeOK, PollAssumption
  <2>4. Down(numMessages, 0) = AllMessages
    BY <2>3 DEF Down, AllMessages
  <2> QED
    BY <2>1, <2>3, <2>4 DEF ProcInv
<1>2. IndexMeetsCount
  BY DEF ProcInv, IndexMeetsCount
<1> QED
  BY <1>1, <1>2

(* When processing is complete every message has been applied once, the last one
   first, to the state of all leaves; and the index runs out exactly then. *)
THEOREM EveryMessageOnceHolds ==
    ASSUME MACIAssumption, PollAssumption, TallyAssumption,
           NoBlockAtDeadline, RelaysKeepBatches
    PROVE  Spec => [](EveryMessageOnce /\ IndexMeetsCount)
<1>1. Init => ChainInv /\ ProcInv
  BY ChainInit, ProcInit
<1>2. TypeOK /\ TypeOK' /\ ChainInv /\ ProcInv /\ [Next]_vars => ChainInv' /\ ProcInv'
  BY ChainNext, ProcNext
<1>3. TypeOK /\ ChainInv /\ ProcInv => EveryMessageOnce /\ IndexMeetsCount
  BY ProcImplies
<1> QED
  BY <1>1, <1>2, <1>3, TypeCorrect, PTL DEF Spec

-----------------------------------------------------------------------------
(* Tallying: after k batches the first Least(k * TallyBatchSize, voters) ballots
   are counted, and nothing is counted or stored before processing is over. *)
FirstBallots(m) == [i \in 1..m |-> i - 1]

TallyInv ==
    /\ tallySbCommitment # NoSb => processingComplete /\ tallySbCommitment = sbCommitment
    /\ tallyBatchNum = 0 => tallyCommitment = NoTally
    /\ tallyBatchNum > 0 =>
          /\ processingComplete
          /\ tallyCommitment =
                [sb |-> sbCommitment,
                 counted |-> FirstBallots(Least(tallyBatchNum * TallyBatchSize, TotalSignups))]
    /\ totalSpent # NoTally \/ (\E i \in ResultIndices : IsSet(i)) =>
          processingComplete /\ tallyBatchNum * TallyBatchSize >= TotalSignups
    /\ ResultsAreFinal

(* Nothing is tallied when the tally is deployed. *)
LEMMA TallyInitial == ASSUME Init PROVE TallyInv
BY DEF Init, TallyInit, TallyInv, ResultsAreFinal, IsSet

(* One more batch of ballots extends those counted before it. *)
LEMMA CountOn ==
    ASSUME TallyAssumption, NEW start \in Nat, NEW voters \in Nat, start < voters
    PROVE  FirstBallots(start) \o BatchOfBallots(start, voters)
             = FirstBallots(Least(start + TallyBatchSize, voters))
<1> DEFINE m == Least(start + TallyBatchSize, voters) - start
<1>1. m \in Nat /\ Least(start + TallyBatchSize, voters) = start + m
  BY DEF Least, TallyAssumption
<1> HIDE DEF m
<1>2. BatchOfBallots(start, voters) = [j \in 1..m |-> start + j - 1]
  BY DEF BatchOfBallots, m
<1>3. FirstBallots(start) \in Seq(Int) /\ Len(FirstBallots(start)) = start
  BY DEF FirstBallots
<1>4. [j \in 1..m |-> start + j - 1] \in Seq(Int)
  BY <1>1
<1>5. FirstBallots(start) \o [j \in 1..m |-> start + j - 1] = FirstBallots(start + m)
  BY <1>1, <1>3, <1>4 DEF FirstBallots
<1> QED
  BY <1>1, <1>2, <1>5

(* A tally that is complete is the final one. *)
LEMMA TalliedIsFinal ==
    ASSUME TallyAssumption, TypeOK, VoterInv, EveryMessageOnce, TallyInv,
           tallyBatchNum * TallyBatchSize >= TotalSignups
    PROVE  processingComplete /\ tallyCommitment = FinalTally
<1>1. TotalSignups \in Nat \ {0} /\ tallyBatchNum \in Nat /\ TallyBatchSize \in Nat
  BY DEF TypeOK, PollTypeOK, TallyTypeOK, VoterInv, TallyAssumption, TotalSignups
<1>2. tallyBatchNum > 0
  BY <1>1
<1>3. Least(tallyBatchNum * TallyBatchSize, TotalSignups) = TotalSignups
  BY <1>1 DEF Least
<1>4. processingComplete
  BY <1>2 DEF TallyInv
<1>5. tallyCommitment = [sb |-> sbCommitment, counted |-> FirstBallots(TotalSignups)]
  BY <1>2, <1>3 DEF TallyInv
<1>6. sbCommitment = [root |-> TotalSignups, applied |-> AllMessages]
  BY <1>4 DEF EveryMessageOnce
<1> QED
  BY <1>4, <1>5, <1>6 DEF FinalTally, FirstBallots, AllBallots

\* What a tally is about does not change once processing is complete.
LEMMA TallyUnchanged ==
    ASSUME TallyInv, UNCHANGED tallyVars,
           processingComplete =>
              processingComplete' /\ UNCHANGED <<sbCommitment, numMessages, pollStateTree>>
    PROVE  TallyInv'
<1>1. CASE processingComplete
  BY <1>1 DEF TallyInv, ResultsAreFinal, IsSet, FinalTally, AllMessages, AllBallots,
     TotalSignups, FirstBallots, tallyVars
<1>2. CASE ~processingComplete
  <2>1. /\ tallySbCommitment = NoSb /\ ~(tallyBatchNum > 0)
        /\ totalSpent = NoTally /\ \A i \in ResultIndices : ~IsSet(i)
    BY <1>2 DEF TallyInv
  <2> QED
    BY <2>1 DEF TallyInv, ResultsAreFinal, IsSet, tallyVars
<1> QED
  BY <1>1, <1>2

\* After completion neither the processor nor the poll moves what is tallied.
LEMMA CompleteForGood ==
    ASSUME PollAssumption, TypeOK, ChainInv, ProcInv, [Next]_vars, processingComplete
    PROVE  processingComplete' /\ UNCHANGED <<sbCommitment, numMessages, pollStateTree>>
<1>1. now > EndDate
  <2>1. totalBatchesProcessed > 0
    BY DEF ProcInv, TypeOK, ProcessorTypeOK
  <2> QED
    BY <2>1 DEF ProcInv, ChainInv
<1>2. ~(now <= EndDate)
  BY <1>1 DEF TypeOK, PollTypeOK, PollAssumption
<1>3. ~Join /\ ~Publish /\ ~Relay
  BY <1>2 DEF Join, JoinPoll, IsWithinVotingDeadline, Publish, PublishMessageBatch,
     Relay, RelayMessagesBatch, IsOpenForVoting
<1>4. ~Process
  BY DEF Process, ProcessMessages, ProcessFirstBatch, ProcessNextBatch
<1>5. CASE Register \/ Pass \/ Pad \/ Merge \/ CopySb \/ Count \/ Submit \/ UNCHANGED vars
  BY <1>5 DEF Register, Pass, Tick, Pad, PadLastBatch, Merge, MergeState, CopySb, Count,
     Submit, vars, pollVars, messageVars, joinVars, processorVars
<1> QED
  BY <1>3, <1>4, <1>5 DEF Next

(* No call breaks what tallyVotes keeps of batches, ballots and results. *)
LEMMA TallyNext ==
    ASSUME PollAssumption, TallyAssumption, TypeOK, VoterInv, ChainInv, ProcInv,
           EveryMessageOnce, TallyInv, [Next]_vars
    PROVE  TallyInv'
<1>1. CASE Register \/ Join \/ Publish \/ Relay \/ Pass \/ Pad \/ Merge \/ Process
           \/ UNCHANGED vars
  <2>1. UNCHANGED tallyVars
    BY <1>1 DEF Register, Join, Publish, Relay, Pass, Pad, Merge, Process, vars
  <2> QED
    BY <2>1, CompleteForGood, TallyUnchanged
<1>2. ASSUME UNCHANGED <<maciVars, pollVars, processorVars>>
      PROVE  UNCHANGED <<processingComplete, sbCommitment, TotalSignups, FinalTally>>
  BY <1>2 DEF pollVars, messageVars, joinVars, processorVars, TotalSignups, FinalTally,
     AllMessages, AllBallots
<1>3. ASSUME CopySbCommitment
      PROVE  processingComplete /\ tallySbCommitment' = sbCommitment
  BY <1>3 DEF CopySbCommitment, TallyInv
<1>4. CASE CopySb
  <2>1. UNCHANGED <<tallyBatchNum, tallyCommitment, tallyResults, totalTallyResults, totalSpent>>
    BY <1>4 DEF CopySb, UpdateSbCommitment
  <2>2. CopySbCommitment /\ UNCHANGED <<maciVars, pollVars, processorVars>>
    BY <1>4 DEF CopySb, UpdateSbCommitment
  <2>3. UNCHANGED <<processingComplete, sbCommitment, TotalSignups, FinalTally>>
    BY <1>2, <2>2
  <2>4. ResultsAreFinal'
    BY <2>1, <2>3 DEF TallyInv, ResultsAreFinal, IsSet
  <2> QED
    BY <1>3, <2>1, <2>2, <2>3, <2>4 DEF TallyInv, IsSet
<1>5. CASE Count
  <2> DEFINE start == tallyBatchNum * TallyBatchSize
             next == (tallyBatchNum + 1) * TallyBatchSize
  <2>1. /\ CopySbCommitment /\ start < TotalSignups
        /\ tallyBatchNum' = tallyBatchNum + 1
        /\ tallyCommitment' = [sb |-> tallySbCommitment',
                               counted |-> Counted(start, tallySbCommitment'.root)]
        /\ UNCHANGED <<tallyResults, totalTallyResults, totalSpent>>
        /\ UNCHANGED <<maciVars, pollVars, processorVars>>
    BY <1>5 DEF Count, TallyVotes
  <2>2. UNCHANGED <<processingComplete, sbCommitment, TotalSignups, FinalTally>>
    BY <1>2, <2>1
  <2>3. processingComplete /\ tallySbCommitment' = sbCommitment
    BY <1>3, <2>1
  <2>4. sbCommitment.root = TotalSignups
    BY <2>3 DEF EveryMessageOnce
  <2>5. /\ tallyBatchNum \in Nat /\ TallyBatchSize \in Nat \ {0} /\ TotalSignups \in Nat
        /\ start \in Nat /\ next = start + TallyBatchSize
        /\ start = 0 <=> tallyBatchNum = 0
    BY DEF TypeOK, PollTypeOK, TallyTypeOK, TallyAssumption, TotalSignups
  <2>6. (IF start = 0 THEN <<>> ELSE tallyCommitment.counted) = FirstBallots(start)
    <3>1. CASE start = 0
      BY <3>1 DEF FirstBallots
    <3>2. CASE start # 0
      <4>1. tallyBatchNum > 0 /\ Least(start, TotalSignups) = start
        BY <2>1, <2>5, <3>2 DEF Least
      <4> QED
        BY <3>2, <4>1 DEF TallyInv
    <3> QED
      BY <3>1, <3>2
  <2> HIDE DEF start, next
  <2>7. Counted(start, TotalSignups) = FirstBallots(Least(next, TotalSignups))
    BY <2>1, <2>5, <2>6, CountOn DEF Counted
  <2>8. tallyCommitment' = [sb |-> sbCommitment, counted |-> FirstBallots(Least(next, TotalSignups))]
    BY <2>1, <2>3, <2>4, <2>7
  <2>9. ~(start >= TotalSignups)
    BY <2>1, <2>5
  <2>10. totalSpent = NoTally /\ \A i \in ResultIndices : ~IsSet(i)
    BY <2>9 DEF TallyInv, start
  <2>11. totalSpent' = NoTally /\ \A i \in ResultIndices : ~IsSet(i)'
    BY <2>1, <2>10 DEF IsSet
  <2>12. ResultsAreFinal'
    BY <2>11 DEF ResultsAreFinal
  <2>13. tallyBatchNum' > 0
    BY <2>1, <2>5
  <2> QED
    BY <2>1, <2>2, <2>3, <2>8, <2>11, <2>12, <2>13 DEF TallyInv, next
<1>6. CASE Submit
  <2> PICK indices \in SUBSET ResultIndices : AddTallyResults(indices)
    BY <1>6 DEF Submit
  <2>1. tallyBatchNum * TallyBatchSize >= TotalSignups
    BY DEF AddTallyResults, IsTallied
  <2>2. processingComplete /\ tallyCommitment = FinalTally
    BY <2>1, TalliedIsFinal
  <2>3. UNCHANGED <<processingComplete, sbCommitment, TotalSignups, FinalTally>>
    BY <1>2, <1>6 DEF Submit
  <2>4. totalSpent' = FinalTally
    BY <2>2 DEF AddTallyResults
  <2>5. \A i \in ResultIndices : IsSet(i)' => tallyResults'[i].of = FinalTally
    BY <2>2 DEF AddTallyResults, IsSet, TallyInv, ResultsAreFinal
  <2>6. ResultsAreFinal'
    BY <2>3, <2>4, <2>5 DEF ResultsAreFinal
  <2>7. UNCHANGED <<tallySbCommitment, tallyBatchNum, tallyCommitment>>
    BY DEF AddTallyResults
  <2> QED
    BY <2>1, <2>2, <2>3, <2>6, <2>7 DEF TallyInv
<1> QED
  BY <1>1, <1>4, <1>5, <1>6 DEF Next

(* Results are opened only from a commitment under which all messages are applied
   and all ballots counted, each once. *)
THEOREM ResultsAreFinalHolds ==
    ASSUME MACIAssumption, PollAssumption, TallyAssumption,
           NoBlockAtDeadline, RelaysKeepBatches
    PROVE  Spec => [](ResultsAreFinal /\ EveryBallotOnce)
<1>1. Init => VoterInv /\ ChainInv /\ ProcInv /\ TallyInv
  BY ChainInit, ProcInit, VoterInit, TallyInitial
<1>2. TypeOK /\ TypeOK' /\ VoterInv /\ ChainInv /\ ProcInv /\ TallyInv /\ [Next]_vars
        => VoterInv' /\ ChainInv' /\ ProcInv' /\ TallyInv'
  BY VoterNext, ChainNext, ProcNext, ProcImplies, TallyNext
<1>3. TypeOK /\ VoterInv /\ ChainInv /\ ProcInv /\ TallyInv
        => ResultsAreFinal /\ EveryBallotOnce
  BY ProcImplies, TalliedIsFinal DEF TallyInv, EveryBallotOnce, IsTallied
<1> QED
  BY <1>1, <1>2, <1>3, TypeCorrect, PTL DEF Spec

-----------------------------------------------------------------------------
(* What does not change any more: a result is a leaf of the final tally, under the position its
   index has in the tree. *)
LeafInv == \A i \in ResultIndices : IsSet(i) => tallyResults[i].leaf = i % OptionCapacity

(* Submitting, for the first time or again, stores the leaf of the index. *)
LEMMA LeafNext ==
    ASSUME LeafInv, [Next]_vars
    PROVE  LeafInv'
<1>1. CASE Submit
  <2>1. PICK indices \in SUBSET ResultIndices : AddTallyResults(indices)
    BY <1>1 DEF Submit
  <2> QED
    BY <2>1 DEF AddTallyResults, LeafInv, IsSet
<1>2. CASE UNCHANGED tallyResults
  BY <1>2 DEF LeafInv, IsSet
<1> QED
  BY <1>1, <1>2 DEF Next, Register, Join, Publish, Relay, Pass, Pad, Merge, Process, CopySb,
     UpdateSbCommitment, Count, TallyVotes, vars, tallyVars

(* A result submitted again is the one that is there. *)
LEMMA ResultsStep ==
    ASSUME TallyAssumption, TypeOK, VoterInv, EveryMessageOnce, TallyInv, LeafInv, [Next]_vars
    PROVE  \A i \in ResultIndices : IsSet(i) => tallyResults'[i] = tallyResults[i]
<1>1. CASE Submit
  <2>1. PICK indices \in SUBSET ResultIndices : AddTallyResults(indices)
    BY <1>1 DEF Submit
  <2>2. tallyCommitment = FinalTally
    BY <2>1, TalliedIsFinal DEF AddTallyResults, IsTallied
  <2> SUFFICES ASSUME NEW i \in ResultIndices, IsSet(i)
               PROVE  tallyResults'[i] = tallyResults[i]
    OBVIOUS
  <2>3. tallyResults[i].of = FinalTally /\ tallyResults[i].leaf = i % OptionCapacity
    BY DEF TallyInv, ResultsAreFinal, LeafInv
  <2>4. tallyResults[i] \in [leaf : Nat, of : TallyCommitments]
    BY DEF TypeOK, TallyTypeOK, Results
  <2>5. tallyResults[i] = [leaf |-> i % OptionCapacity, of |-> tallyCommitment]
    BY <2>2, <2>3, <2>4
  <2> QED
    BY <2>1, <2>5 DEF AddTallyResults
<1>2. CASE UNCHANGED tallyResults
  BY <1>2
<1> QED
  BY <1>1, <1>2 DEF Next, Register, Join, Publish, Relay, Pass, Pad, Merge, Process, CopySb,
     UpdateSbCommitment, Count, TallyVotes, vars, tallyVars

(* A stored result is never replaced by another, however often results are submitted
   and whatever is called in between. *)
THEOREM ResultsNeverChangeHolds ==
    ASSUME MACIAssumption, PollAssumption, TallyAssumption,
           NoBlockAtDeadline, RelaysKeepBatches
    PROVE  Spec => ResultsNeverChange
<1>1. Init => VoterInv /\ ChainInv /\ ProcInv /\ TallyInv /\ LeafInv
  BY ChainInit, ProcInit, VoterInit, TallyInitial DEF Init, TallyInit, LeafInv, IsSet
<1>2. TypeOK /\ TypeOK' /\ VoterInv /\ ChainInv /\ ProcInv /\ TallyInv /\ LeafInv /\ [Next]_vars
        => VoterInv' /\ ChainInv' /\ ProcInv' /\ TallyInv' /\ LeafInv'
  BY VoterNext, ChainNext, ProcNext, ProcImplies, TallyNext, LeafNext
<1>3. TypeOK /\ VoterInv /\ ChainInv /\ ProcInv /\ TallyInv /\ LeafInv /\ [Next]_vars
        => [\A i \in ResultIndices : IsSet(i) => tallyResults'[i] = tallyResults[i]]_vars
  BY ProcImplies, ResultsStep
<1> QED
  BY <1>1, <1>2, <1>3, TypeCorrect, PTL DEF Spec, ResultsNeverChange

-----------------------------------------------------------------------------
(* The round as a ballot box: what each call does to what the box shows, which is
   the values the refinement of module Round gives its variables. *)
Shown == <<numMessages, pollStateTree, now, sbCommitment, tallyCommitment, totalSpent>>

(* A round that was just deployed is an empty box. *)
LEMMA BoxInit == ASSUME Init PROVE Box!Init
BY DEF Init, PollInit, ProcessorInit, TallyInit, TotalSignups, NoSb, NoTally, Box!Init

(* What leaves the shown variables alone is no step of the box. *)
LEMMA BoxStutter == ASSUME UNCHANGED Shown PROVE UNCHANGED Box!vars
BY DEF Shown, TotalSignups, Box!vars

(* Calls of voters and relayers, before the deadline. *)
LEMMA BoxOpen ==
    ASSUME PollAssumption, NoBlockAtDeadline, TypeOK, Join \/ Publish \/ Relay
    PROVE  Box!Join \/ Box!Cast
<1>1. now \in Nat /\ EndDate \in Nat /\ now # EndDate /\ numMessages \in Nat
  BY DEF TypeOK, PollTypeOK, PollAssumption, NoBlockAtDeadline
<1>2. CASE Join
  <2>1. /\ now < EndDate
        /\ TotalSignups' = TotalSignups + 1
        /\ UNCHANGED <<numMessages, now, sbCommitment, tallyCommitment, totalSpent>>
    BY <1>1, <1>2 DEF Join, JoinPoll, IsWithinVotingDeadline, TotalSignups, TypeOK, PollTypeOK,
       messageVars, processorVars, tallyVars
  <2>2. ~(now >= EndDate)
    BY <1>1, <2>1
  <2> QED
    BY <2>1, <2>2 DEF Box!Join
<1>3. CASE Publish \/ Relay
  <2>1. /\ now < EndDate
        /\ numMessages' \in Nat /\ numMessages' > numMessages
        /\ UNCHANGED <<pollStateTree, now, sbCommitment, tallyCommitment, totalSpent>>
    BY <1>1, <1>3 DEF Publish, PublishMessageBatch, Relay, RelayMessagesBatch, IsOpenForVoting,
       PollAssumption, joinVars, processorVars, tallyVars
  <2>2. ~(now >= EndDate)
    BY <1>1, <2>1
  <2> QED
    BY <2>1, <2>2 DEF Box!Cast, TotalSignups
<1> QED
  BY <1>2, <1>3

(* Time: the box closes when it reaches the deadline. *)
LEMMA BoxPass ==
    ASSUME PollAssumption, TypeOK, Pass
    PROVE  Box!Close \/ UNCHANGED Box!vars
<1>1. /\ now \in Nat /\ EndDate \in Nat /\ now' \in Nat /\ now' > now
      /\ UNCHANGED <<numMessages, pollStateTree, sbCommitment, tallyCommitment, totalSpent>>
  BY DEF Pass, Tick, TypeOK, PollTypeOK, PollAssumption, messageVars, joinVars, processorVars,
     tallyVars
<1>2. CASE now >= EndDate
  <2>1. (now >= EndDate)' = (now >= EndDate)
    BY <1>1, <1>2
  <2> QED
    BY <1>1, <2>1 DEF Box!vars, TotalSignups
<1>3. CASE ~(now >= EndDate) /\ now' >= EndDate
  BY <1>1, <1>3 DEF Box!Close, TotalSignups
<1>4. CASE ~(now >= EndDate) /\ ~(now' >= EndDate)
  BY <1>1, <1>4 DEF Box!vars, TotalSignups
<1> QED
  BY <1>2, <1>3, <1>4

(* An accepted proof of a batch reads on, by at least one message. *)
LEMMA BoxProcess ==
    ASSUME PollAssumption, TypeOK, TypeOK', ChainInv, ChainInv', ProcInv, ProcInv', Process
    PROVE  Box!Read
<1> DEFINE B == MessageBatchSize
           low == currentBatchIndex' * B
           n == numMessages - low
<1>1. /\ totalBatchesProcessed' = totalBatchesProcessed + 1
      /\ totalBatchesProcessed \in Nat
      /\ UNCHANGED <<now, numMessages, pollStateTree, tallyCommitment, totalSpent>>
  BY DEF Process, ProcessMessages, ProcessFirstBatch, ProcessNextBatch, ProcessBatch,
     PadLastBatch, pollVars, messageVars, joinVars, tallyVars, TypeOK, ProcessorTypeOK
<1>2. /\ isBatchHashesPadded' /\ stateMerged'
      /\ currentBatchIndex' + totalBatchesProcessed' = Len(batchHashes') - 1
      /\ low <= numMessages
      /\ sbCommitment'.applied = Down(numMessages, low)
  BY <1>1 DEF ProcInv
<1>3. /\ B \in Nat \ {0} /\ numMessages \in Nat \ {0}
      /\ low \in Nat /\ currentBatchIndex' \in Nat
  <2>1. numMessages \in Nat \ {0}
    BY DEF ChainInv, TypeOK, PollTypeOK
  <2>2. currentBatchIndex' \in Nat
    BY DEF TypeOK, ProcessorTypeOK
  <2>3. \A i, b \in Nat : i * b \in Nat
    OBVIOUS
  <2>4. B \in Nat \ {0}
    BY DEF PollAssumption
  <2>5. low \in Nat
    BY <2>2, <2>3, <2>4, Zenon
  <2> QED
    BY <2>1, <2>2, <2>4, <2>5, Zenon
<1>4. now >= EndDate
  BY <1>1, <1>2 DEF ChainInv, TypeOK, PollTypeOK, PollAssumption
<1>5. n > Len(sbCommitment.applied) /\ n >= 1
  <2>1. CASE totalBatchesProcessed = 0
    <3> DEFINE nb == Len(batchHashes') - 1
    <3>1. batchHashes' = Padded(numMessages)
      BY <1>1, <1>2 DEF ChainInv, BatchHashesAgree, CoreBatchHashes, Checkpoints, UpTo, Padded
    <3>2. nb \in Nat /\ (nb - 1) * B < numMessages
      BY <1>3, <3>1, Batches
    <3>3. currentBatchIndex' + 1 = nb
      BY <1>1, <1>2, <2>1
    <3> HIDE DEF nb
    <3>4. low < numMessages
      <4>1. \A i, m \in Nat : i + 1 = m => i = m - 1
        OBVIOUS
      <4>2. currentBatchIndex' = nb - 1
        BY <1>3, <3>2, <3>3, <4>1, Zenon
      <4> QED
        BY <3>2, <4>2
    <3>5. Len(sbCommitment.applied) = 0
      BY <2>1 DEF ProcInv, NoSb
    <3> HIDE DEF low
    <3> QED
      BY <1>3, <3>4, <3>5
  <2>2. CASE totalBatchesProcessed > 0
    <3>1. /\ currentBatchIndex' = currentBatchIndex - 1
          /\ currentBatchIndex \in Nat
      BY <2>2 DEF Process, ProcessMessages, ProcessFirstBatch, ProcessNextBatch, ProcessBatch,
         TypeOK, ProcessorTypeOK
    <3>2. /\ sbCommitment.applied = Down(numMessages, currentBatchIndex * B)
          /\ currentBatchIndex * B <= numMessages
      BY <2>2 DEF ProcInv
    <3>3. currentBatchIndex * B = low + B
      BY <1>3, <3>1
    <3>4. Len(sbCommitment.applied) = numMessages - (low + B)
      BY <1>3, <3>2, <3>3 DEF Down
    <3> HIDE DEF low, B
    <3> QED
      BY <1>3, <3>2, <3>3, <3>4
  <2> QED
    BY <1>1, <2>1, <2>2
<1>6. n \in 1..numMessages /\ sbCommitment'.applied = Box!Latest(n)
  <2> HIDE DEF low
  <2> QED
    BY <1>2, <1>3, <1>5 DEF Down, Box!Latest
<1> HIDE DEF n
<1>7. UNCHANGED <<TotalSignups, now >= EndDate, totalSpent # NoTally>>
  BY <1>1 DEF TotalSignups
<1> QED
  BY <1>1, <1>4, <1>5, <1>6, <1>7 DEF Box!Read

(* An accepted tally proof counts on, by at least one ballot, when all messages
   are read. *)
LEMMA BoxCount ==
    ASSUME PollAssumption, TallyAssumption, TypeOK, VoterInv, EveryMessageOnce,
           TallyInv, TallyInv', Count
    PROVE  Box!Count
<1> DEFINE start == tallyBatchNum * TallyBatchSize
           next == (tallyBatchNum + 1) * TallyBatchSize
           n == Least(next, TotalSignups)
<1>1. /\ processingComplete
      /\ start < TotalSignups
      /\ tallyBatchNum' = tallyBatchNum + 1
      /\ UNCHANGED <<totalSpent, now, numMessages, pollStateTree, sbCommitment>>
  BY DEF Count, TallyVotes, CopySbCommitment, pollVars, messageVars, joinVars, processorVars
<1>2. /\ tallyBatchNum \in Nat /\ TallyBatchSize \in Nat \ {0} /\ TotalSignups \in Nat
      /\ start \in Nat /\ next = start + TallyBatchSize /\ next \in Nat
      /\ tallyBatchNum = 0 => start = 0
  BY DEF TypeOK, PollTypeOK, TallyTypeOK, TallyAssumption, TotalSignups
<1>3. sbCommitment.applied = Box!Latest(numMessages)
  BY <1>1 DEF EveryMessageOnce, AllMessages, Box!Latest
<1>4. TotalSignups' = TotalSignups
  BY <1>1 DEF TotalSignups
<1>5. tallyCommitment'.counted = FirstBallots(n)
  BY <1>1, <1>2, <1>4 DEF TallyInv
<1>6. Len(tallyCommitment.counted) = start
  <2>1. CASE tallyBatchNum = 0
    BY <1>2, <2>1 DEF TallyInv, NoTally
  <2>2. CASE tallyBatchNum > 0
    <3>1. Least(start, TotalSignups) = start
      BY <1>1, <1>2 DEF Least
    <3>2. tallyCommitment.counted = FirstBallots(start)
      BY <2>2, <3>1 DEF TallyInv
    <3> HIDE DEF start
    <3> QED
      BY <1>2, <3>2 DEF FirstBallots
  <2> QED
    BY <1>2, <2>1, <2>2
<1> HIDE DEF start, next
<1>7. n \in 1..TotalSignups /\ n > start
  BY <1>1, <1>2 DEF Least
<1> HIDE DEF n
<1>8. FirstBallots(n) = Box!Ballots(n)
  BY DEF FirstBallots, Box!Ballots
<1>9. UNCHANGED <<now >= EndDate, totalSpent # NoTally>>
  BY <1>1
<1> QED
  BY <1>1, <1>3, <1>4, <1>5, <1>6, <1>7, <1>8, <1>9 DEF Box!Count

(* Submitted results announce the outcome of a full count. *)
LEMMA BoxSubmit ==
    ASSUME TallyAssumption, TypeOK, VoterInv, EveryMessageOnce, TallyInv, Submit
    PROVE  Box!Announce
<1>1. PICK indices \in SUBSET ResultIndices : AddTallyResults(indices)
  BY DEF Submit
<1>2. tallyCommitment = FinalTally
  BY <1>1, TalliedIsFinal DEF AddTallyResults, IsTallied
<1>3. /\ tallyCommitment.counted = Box!Ballots(TotalSignups)
      /\ tallyCommitment # NoTally /\ totalSpent' = tallyCommitment
  BY <1>1, <1>2 DEF FinalTally, AllBallots, Box!Ballots, AddTallyResults
<1>4. UNCHANGED <<numMessages, pollStateTree, now, sbCommitment, tallyCommitment>>
  BY <1>1 DEF Submit, AddTallyResults, pollVars, messageVars, joinVars, processorVars
<1>5. (totalSpent # NoTally)' = TRUE
  BY <1>3
<1> QED
  BY <1>3, <1>4, <1>5 DEF Box!Announce, TotalSignups

(* Every step of the round is a step of the box, or none. *)
LEMMA BoxStep ==
    ASSUME PollAssumption, TallyAssumption, NoBlockAtDeadline,
           TypeOK, TypeOK', VoterInv, ChainInv, ChainInv', ProcInv, ProcInv',
           EveryMessageOnce, TallyInv, TallyInv', [Next]_vars
    PROVE  [Box!Next]_(Box!vars)
<1>1. CASE Register \/ Pad \/ Merge \/ CopySb \/ UNCHANGED vars
  <2>1. UNCHANGED Shown
    BY <1>1 DEF Register, Pad, PadLastBatch, Merge, MergeState, CopySb, UpdateSbCommitment,
       vars, pollVars, messageVars, joinVars, processorVars, tallyVars, Shown
  <2> QED
    BY <2>1, BoxStutter
<1>2. CASE Join \/ Publish \/ Relay
  BY <1>2, BoxOpen DEF Box!Next
<1>3. CASE Pass
  BY <1>3, BoxPass DEF Box!Next
<1>4. CASE Process
  BY <1>4, BoxProcess DEF Box!Next
<1>5. CASE Count
  BY <1>5, BoxCount DEF Box!Next
<1>6. CASE Submit
  BY <1>6, BoxSubmit DEF Box!Next
<1> QED
  BY <1>1, <1>2, <1>3, <1>4, <1>5, <1>6 DEF Next

(* The four contracts implement the ballot box: what voters are promised holds of
   every round, whatever its sizes and the order of calls, as long as no block is
   at the deadline and relays keep to single messages (or batches). *)
THEOREM KeepsPromisesHolds ==
    ASSUME MACIAssumption, PollAssumption, TallyAssumption,
           NoBlockAtDeadline, RelaysKeepBatches
    PROVE  Spec => KeepsPromises
<1>1. Init => VoterInv /\ ChainInv /\ ProcInv /\ TallyInv /\ Box!Init
  BY ChainInit, ProcInit, VoterInit, TallyInitial, BoxInit
<1>2. TypeOK /\ TypeOK' /\ VoterInv /\ ChainInv /\ ProcInv /\ TallyInv /\ [Next]_vars
        => VoterInv' /\ ChainInv' /\ ProcInv' /\ TallyInv'
  BY VoterNext, ChainNext, ProcNext, ProcImplies, TallyNext
<1>3. TypeOK /\ TypeOK' /\ VoterInv /\ ChainInv /\ ChainInv' /\ ProcInv /\ ProcInv'
        /\ TallyInv /\ TallyInv' /\ [Next]_vars
        => [Box!Next]_(Box!vars)
  BY ProcImplies, BoxStep
<1> QED
  BY <1>1, <1>2, <1>3, TypeCorrect, PTL DEF Spec, KeepsPromises, Box!Spec

-----------------------------------------------------------------------------
(* The prover's runs (Submission). *)

(* What a run sees is what the contracts of Round go through. *)
LEMMA ProverStepsRound ==
    ASSUME [ProverNext]_allVars
    PROVE  [Next]_vars
<1>1. CASE Others
  BY <1>1 DEF Others, Next
<1>2. CASE SendProcessProof
  BY <1>2 DEF SendProcessProof, Next
<1>3. CASE SendSbUpdate \/ SendTallyProof
  BY <1>3 DEF SendSbUpdate, SendTallyProof, Next
<1>4. CASE SendResults
  <2>1. Submit
    BY <1>4 DEF SendResults, SubmitAll, Submit
  <2> QED
    BY <2>1 DEF Next
<1>5. CASE Start \/ StartTally \/ Throw \/ Interrupt \/ UNCHANGED allVars
  BY <1>5 DEF Start, StartTally, Throw, Interrupt, allVars, roundVars
<1> QED
  BY <1>1, <1>2, <1>3, <1>4, <1>5 DEF ProverNext, Prove

-----------------------------------------------------------------------------
(* The invariant.  A run under way is at the contract's count.  Before the first proof the
   run's batches are all it read; others may pad the contract's meanwhile.  Afterwards they
   are the contract's, and their number may lack the padded one. *)
RunOK ==
    pc = "messages" =>
        /\ stateMerged
        /\ proof = totalBatchesProcessed
        /\ seen = totalBatchesProcessed
        /\ hashes \in Seq(Nat)
        /\ totalBatchesProcessed > 0 =>
              hashes = batchHashes /\ total \in {Len(batchHashes), Len(batchHashes) - 1}
        /\ totalBatchesProcessed = 0 =>
              /\ total = Len(hashes)
              /\ \/ hashes = batchHashes
                 \/ /\ isBatchHashesPadded /\ numMessages % MessageBatchSize # 0
                    /\ batchHashes = hashes \o <<chainHash>>

RoundOK == TypeOK /\ ChainInv /\ ProcInv
RunInv == RoundOK /\ RunOK

(* No two batches of a poll end at the same message: so the hash a proof begins with tells
   which batch it is of. *)
LEMMA BatchesDiffer ==
    ASSUME PollAssumption, NEW n \in Nat \ {0}, NEW nb, nb = Len(Padded(n)) - 1,
           NEW index \in 1..nb
    PROVE  Padded(n)[index] # Padded(n)[index + 1]
<1> DEFINE B == MessageBatchSize
<1>1. B \in Nat \ {0}
  BY DEF PollAssumption
<1>2. /\ nb \in Nat \ {0} /\ (nb - 1) * B < n
      /\ \A k \in 1..nb : Padded(n)[k + 1] = Least(k * B, n)
  BY Batches
<1>3. Padded(n)[1] = 0
  <2>1. n \div B \in Nat
    BY <1>1, DivMod
  <2> DEFINE m == (n \div B) + 1
  <2>2. UpTo(n) = [k \in 1..m |-> (k - 1) * B] /\ m \in Nat \ {0}
    BY <2>1 DEF UpTo
  <2> HIDE DEF m, B
  <2>3. UpTo(n) \in Seq(Nat) /\ DOMAIN UpTo(n) = 1..m
    BY <2>2, UpToType
  <2>4. Len(UpTo(n)) = m /\ UpTo(n)[1] = 0
    BY <1>1, <2>2, <2>3
  <2>5. Padded(n)[1] = UpTo(n)[1]
    BY <2>2, <2>3, <2>4 DEF Padded
  <2> QED
    BY <2>4, <2>5
<1> HIDE DEF B
<1>4. (index - 1) * B < n
  <2>1. index <= nb /\ index \in Nat
    BY <1>2
  <2>2. (index - 1) * B <= (nb - 1) * B
    BY SMTT(30), <1>1, <1>2, <2>1
  <2> QED
    BY <1>1, <1>2, <2>1, <2>2
<1>5. Padded(n)[index + 1] = Least(index * B, n) /\ index * B = (index - 1) * B + B
  BY <1>1, <1>2
<1>6. Least(index * B, n) > (index - 1) * B
  BY <1>1, <1>4, <1>5 DEF Least
<1>7. CASE index = 1
  BY <1>1, <1>3, <1>5, <1>6, <1>7
<1>8. CASE index > 1
  <2>1. Padded(n)[(index - 1) + 1] = Least((index - 1) * B, n)
    BY <1>2, <1>8
  <2>2. Least((index - 1) * B, n) = (index - 1) * B
    BY <1>1, <1>4 DEF Least
  <2>3. (index - 1) + 1 = index
    BY <1>2
  <2> QED
    BY <1>1, <1>5, <1>6, <2>1, <2>2, <2>3
<1> QED
  BY <1>2, <1>7, <1>8

(* A first proof fits only if the run's batches, padded by the run, are those the contract
   is going to have: batches that others padded before the run read them have one hash too
   many. *)
LEMMA FirstFits ==
    ASSUME PollAssumption, RunInv, pc = "messages", ProofFits, totalBatchesProcessed = 0
    PROVE  PaddedHashes = batchHashes \o Padding
<1>1. batchHashes \in Seq(Nat) /\ numMessages \in Nat \ {0} /\ chainHash = numMessages
  BY DEF RunInv, RoundOK, ChainInv, TypeOK, PollTypeOK
<1>2. /\ seen = 0 /\ proof = 0 /\ hashes \in Seq(Nat)
      /\ \/ hashes = batchHashes
         \/ /\ isBatchHashesPadded /\ numMessages % MessageBatchSize # 0
            /\ batchHashes = hashes \o <<chainHash>>
  BY DEF RunInv, RunOK
<1>3. CASE numMessages % MessageBatchSize = 0
  BY <1>1, <1>3, <1>2 DEF PaddedHashes, Padding
<1>4. CASE numMessages % MessageBatchSize # 0 /\ hashes # batchHashes
  BY <1>1, <1>4, <1>2 DEF PaddedHashes, Padding
<1>5. CASE numMessages % MessageBatchSize # 0 /\ hashes = batchHashes /\ ~isBatchHashesPadded
  BY <1>1, <1>5, <1>2 DEF PaddedHashes, Padding
<1>6. CASE numMessages % MessageBatchSize # 0 /\ hashes = batchHashes /\ isBatchHashesPadded
  <2> DEFINE nb == Len(Padded(numMessages)) - 1
  <2>1. GeneratedHashes = Padded(numMessages)
    BY DEF GeneratedHashes, Checkpoints, Padded, UpTo
  <2>2. batchHashes = Padded(numMessages)
    BY <1>6 DEF RunInv, RoundOK, ChainInv, BatchHashesAgree, CoreBatchHashes, Checkpoints,
       Padded, UpTo
  <2>3. nb \in Nat \ {0}
    BY <1>1, Batches
  <2>4. Len(batchHashes) = nb + 1
    BY <1>1, <2>2, <2>3
  <2> HIDE DEF nb
  <2>5. /\ PaddedHashes = batchHashes \o <<chainHash>>
        /\ Len(PaddedHashes) = nb + 2
        /\ PaddedHashes[nb + 1] = batchHashes[nb + 1]
    <3>1. PaddedHashes = Append(batchHashes, chainHash)
      BY <1>6, <1>2 DEF PaddedHashes
    <3>2. chainHash \in Nat /\ nb + 1 \in 1..Len(batchHashes)
      BY <1>1, <2>3, <2>4
    <3>3. Append(batchHashes, chainHash) = batchHashes \o <<chainHash>>
      BY <1>1, <3>2
    <3>4. /\ Len(batchHashes \o <<chainHash>>) = nb + 2
          /\ (batchHashes \o <<chainHash>>)[nb + 1] = batchHashes[nb + 1]
      <4>1. /\ Len(batchHashes \o <<chainHash>>) = Len(batchHashes) + 1
            /\ \A k \in 1..Len(batchHashes) :
                  (batchHashes \o <<chainHash>>)[k] = batchHashes[k]
        BY <1>1, <3>2, AppendLast
      <4> QED
        BY <2>3, <2>4, <3>2, <4>1
    <3> QED
      BY <3>1, <3>3, <3>4
  <2>6. BatchIndex = nb + 1
    BY <1>2, <2>3, <2>5 DEF BatchIndex
  <2>7. ProcessProofs = nb
    BY <2>1 DEF ProcessProofs, nb
  <2>8. InputOf(proof) = Padded(numMessages)[nb]
    BY <1>2, <2>1, <2>3, <2>7 DEF InputOf
  <2>9. Padded(numMessages)[nb + 1] = Padded(numMessages)[nb]
    BY <2>2, <2>5, <2>6, <2>8 DEF ProofFits
  <2>10. FALSE
    <3>1. nb = Len(Padded(numMessages)) - 1
      BY DEF nb
    <3>2. nb \in 1..nb
      BY <2>3
    <3>3. Padded(numMessages)[nb] # Padded(numMessages)[nb + 1]
      BY <1>1, <3>1, <3>2, BatchesDiffer
    <3> QED
      BY <2>9, <3>3
  <2> QED
    BY <2>10
<1> QED
  BY <1>3, <1>4, <1>5, <1>6

(* A proof that is sent takes the run and the contract to the same place. *)
LEMMA SendKeeps ==
    ASSUME PollAssumption, RunInv, SendProcessProof
    PROVE  RunOK'
<1>1. /\ pc = "messages" /\ stateMerged /\ proof = totalBatchesProcessed
      /\ totalBatchesProcessed \in Nat /\ batchHashes \in Seq(Nat) /\ chainHash \in Nat
      /\ hashes \in Seq(Nat)
  BY DEF SendProcessProof, RunInv, RoundOK, RunOK, TypeOK, PollTypeOK, ProcessorTypeOK
<1>2. /\ proof' = proof + 1 /\ hashes' = PaddedHashes /\ seen' = totalBatchesProcessed'
      /\ pc' = pc /\ total' = total /\ ProofFits
  BY DEF SendProcessProof
<1>3. CASE ProcessFirstBatch
  <2>1. /\ totalBatchesProcessed = 0 /\ batchHashes' = batchHashes \o Padding
        /\ totalBatchesProcessed' = totalBatchesProcessed + 1 /\ stateMerged' = stateMerged
    BY <1>3 DEF ProcessFirstBatch, PadLastBatch, ProcessBatch, mergeVars
  <2>2. hashes' = batchHashes' /\ batchHashes' \in Seq(Nat)
    BY <1>1, <1>2, <2>1, FirstFits DEF Padding
  <2>3. /\ total = Len(hashes)
        /\ \/ hashes = batchHashes
           \/ isBatchHashesPadded /\ batchHashes = hashes \o <<chainHash>>
    BY <1>1, <2>1 DEF RunInv, RunOK
  <2>4. CASE hashes = batchHashes
    <3>1. Len(batchHashes') \in {Len(hashes), Len(hashes) + 1}
      BY <1>1, <2>1, <2>4 DEF Padding
    <3>2. total' \in {Len(batchHashes'), Len(batchHashes') - 1}
      BY <1>1, <1>2, <2>3, <3>1
    <3> QED
      BY <1>1, <1>2, <2>1, <2>2, <3>2 DEF RunOK
  <2>5. CASE isBatchHashesPadded /\ batchHashes = hashes \o <<chainHash>>
    <3>1. Len(batchHashes') = Len(hashes) + 1
      BY <1>1, <2>1, <2>5 DEF Padding
    <3>2. total' = Len(batchHashes') - 1
      BY <1>1, <1>2, <2>3, <3>1
    <3> QED
      BY <1>1, <1>2, <2>1, <2>2, <3>2 DEF RunOK
  <2> QED
    BY <2>3, <2>4, <2>5
<1>4. CASE ProcessNextBatch
  <2>1. /\ totalBatchesProcessed > 0 /\ totalBatchesProcessed' = totalBatchesProcessed + 1
        /\ UNCHANGED <<batchHashes, stateMerged>>
    BY <1>4 DEF ProcessNextBatch, ProcessBatch, pollVars, messageVars, mergeVars
  <2>2. /\ seen = totalBatchesProcessed /\ hashes = batchHashes
        /\ total \in {Len(batchHashes), Len(batchHashes) - 1}
    BY <1>1, <2>1 DEF RunInv, RunOK
  <2>3. PaddedHashes = hashes
    BY <2>1, <2>2 DEF PaddedHashes
  <2> QED
    BY <1>1, <1>2, <2>1, <2>2, <2>3 DEF RunOK
<1> QED
  BY <1>3, <1>4 DEF SendProcessProof, Process, ProcessMessages

(* Once the state is merged, what anybody else does leaves the batches alone, but for the
   padding. *)
LEMMA OthersKeep ==
    ASSUME PollAssumption, NoBlockAtDeadline, RunInv, Others
    PROVE  RunOK'
<1>1. UNCHANGED <<totalBatchesProcessed, pc, proof, seen, hashes, total>>
  BY DEF Others, Register, Join, JoinPoll, Publish, PublishMessageBatch, Relay,
     RelayMessagesBatch, Pass, Tick, Merge, MergeState, Pad, PadLastBatch, processorVars,
     proverVars, runVars
<1> SUFFICES ASSUME pc = "messages"
             PROVE  RunOK'
  BY <1>1 DEF RunOK
<1>2. stateMerged /\ now > EndDate /\ now \in Nat /\ EndDate \in Nat
  BY DEF RunInv, RoundOK, RunOK, ChainInv, TypeOK, PollTypeOK, PollAssumption
<1>3. ~Publish /\ ~Relay /\ ~Merge
  BY <1>2 DEF Publish, PublishMessageBatch, Relay, RelayMessagesBatch, IsOpenForVoting,
     Merge, MergeState
<1>4. CASE Register \/ Join \/ Pass
  <2>1. UNCHANGED <<batchHashes, stateMerged, isBatchHashesPadded, numMessages, chainHash>>
    BY <1>4 DEF Register, Join, JoinPoll, Pass, Tick, pollVars, messageVars, mergeVars
  <2> QED
    BY <1>1, <2>1 DEF RunInv, RunOK
<1>5. CASE Pad
  <2>1. /\ batchHashes' = batchHashes \o Padding /\ isBatchHashesPadded'
        /\ UNCHANGED <<stateMerged, numMessages, chainHash>>
    BY <1>5 DEF Pad, PadLastBatch, mergeVars
  <2>2. totalBatchesProcessed > 0 => isBatchHashesPadded
    BY DEF RunInv, RoundOK, ProcInv
  <2>3. batchHashes \in Seq(Nat)
    BY DEF RunInv, RoundOK, TypeOK, PollTypeOK
  <2>4. CASE isBatchHashesPadded \/ numMessages % MessageBatchSize = 0
    <3>1. batchHashes' = batchHashes
      BY <2>1, <2>3, <2>4 DEF Padding
    <3> QED
      BY <1>1, <2>1, <3>1 DEF RunInv, RunOK
  <2>5. CASE ~isBatchHashesPadded /\ numMessages % MessageBatchSize # 0
    <3>1. batchHashes' = batchHashes \o <<chainHash>>
      BY <2>1, <2>5 DEF Padding
    <3>2. hashes = batchHashes /\ total = Len(hashes) /\ totalBatchesProcessed = 0
      BY <2>2, <2>5 DEF RunInv, RoundOK, RunOK, TypeOK, ProcessorTypeOK
    <3>3. /\ pc' = "messages" /\ stateMerged' /\ proof' = totalBatchesProcessed'
          /\ seen' = totalBatchesProcessed' /\ hashes' \in Seq(Nat)
          /\ totalBatchesProcessed' = 0
      BY <1>1, <2>1, <3>2 DEF RunInv, RunOK
    <3>4. total' = Len(hashes') /\ batchHashes' = hashes' \o <<chainHash'>>
      BY <1>1, <2>1, <3>1, <3>2
    <3>5. isBatchHashesPadded' /\ numMessages' % MessageBatchSize # 0
      BY <2>1, <2>5
    <3> QED
      BY <3>3, <3>4, <3>5 DEF RunOK
  <2> QED
    BY <2>4, <2>5
<1> QED
  BY <1>3, <1>4, <1>5 DEF Others

LEMMA RunNext ==
    ASSUME MACIAssumption, PollAssumption, TallyAssumption,
           NoBlockAtDeadline, RelaysKeepBatches, RunInv, [ProverNext]_allVars
    PROVE  RunInv'
<1>1. RoundOK'
  <2>1. [Next]_vars
    BY ProverStepsRound
  <2>2. TypeOK /\ ChainInv /\ ProcInv
    BY DEF RunInv, RoundOK
  <2>3. TypeOK'
    BY <2>1, <2>2, TypeNext
  <2>4. ChainInv'
    BY <2>1, <2>2, ChainNext
  <2>5. ProcInv'
    BY <2>1, <2>2, <2>3, <2>4, ProcNext
  <2> QED
    BY <2>3, <2>4, <2>5 DEF RoundOK
<1>2. CASE Others
  BY <1>1, <1>2, OthersKeep DEF RunInv
<1>3. CASE SendProcessProof
  BY <1>1, <1>3, SendKeeps DEF RunInv
<1>4. CASE Start
  <2>1. /\ stateMerged /\ proof' = totalBatchesProcessed /\ seen' = totalBatchesProcessed
        /\ hashes' = batchHashes /\ total' = Len(batchHashes)
        /\ UNCHANGED <<stateMerged, totalBatchesProcessed, batchHashes>>
        /\ batchHashes \in Seq(Nat)
    BY <1>4 DEF Start, roundVars, vars, pollVars, messageVars, mergeVars, processorVars,
       RunInv, RoundOK, TypeOK, PollTypeOK
  <2>2. RunOK'
    BY <2>1 DEF RunOK
  <2> QED
    BY <1>1, <2>2 DEF RunInv
<1>5. CASE StartTally \/ Throw \/ Interrupt
  <2>1. pc' # "messages"
    BY <1>5 DEF StartTally, Throw, Interrupt
  <2> QED
    BY <1>1, <2>1 DEF RunInv, RunOK
<1>6. CASE SendSbUpdate \/ SendTallyProof \/ SendResults
  <2>1. pc' # "messages"
    BY <1>6 DEF SendSbUpdate, SendTallyProof, SendResults, proverVars, runVars
  <2> QED
    BY <1>1, <2>1 DEF RunInv, RunOK
<1>7. CASE UNCHANGED allVars
  <2>1. RunOK'
    BY <1>7 DEF RunInv, RunOK, allVars, vars, pollVars, messageVars,
       mergeVars, processorVars, proverVars, runVars
  <2> QED
    BY <1>1, <2>1 DEF RunInv
<1> QED
  BY <1>2, <1>3, <1>4, <1>5, <1>6, <1>7 DEF ProverNext, Prove

LEMMA RunStart ==
    ASSUME MACIAssumption, PollAssumption, TallyAssumption, ProverInit
    PROVE  RunInv
<1>1. Init /\ pc = "idle"
  BY DEF ProverInit
<1>2. TypeOK /\ ChainInv /\ ProcInv
  BY <1>1, TypeInit, ChainInit, ProcInit
<1> QED
  BY <1>1, <1>2 DEF RunInv, RoundOK, RunOK

LEMMA FittingIsNext ==
    ASSUME PollAssumption, RunInv
    PROVE  FittingProofIsNext
<1> SUFFICES ASSUME pc = "messages", proof < total, ProofFits
             PROVE  /\ proof = totalBatchesProcessed
                    /\ BatchIndex = IF totalBatchesProcessed = 0
                                    THEN Len(batchHashes \o Padding) - 1
                                    ELSE currentBatchIndex
  BY DEF FittingProofIsNext
<1>1. /\ proof = totalBatchesProcessed /\ seen = totalBatchesProcessed
      /\ totalBatchesProcessed \in Nat /\ currentBatchIndex \in Nat /\ batchHashes \in Seq(Nat)
      /\ numMessages \in Nat \ {0}
  BY DEF RunInv, RoundOK, RunOK, ChainInv, TypeOK, PollTypeOK, ProcessorTypeOK
<1>2. CASE totalBatchesProcessed = 0
  BY <1>1, <1>2, FirstFits DEF BatchIndex
<1>3. CASE totalBatchesProcessed > 0
  <2> DEFINE nb == Len(Padded(numMessages)) - 1
  <2>1. GeneratedHashes = Padded(numMessages)
    BY DEF GeneratedHashes, Checkpoints, Padded, UpTo
  <2>2. batchHashes = Padded(numMessages) /\ PaddedHashes = batchHashes
    <3>1. isBatchHashesPadded /\ batchHashes = CoreBatchHashes
      BY <1>3 DEF RunInv, RoundOK, ProcInv, ChainInv, BatchHashesAgree
    <3>2. CoreBatchHashes = Padded(numMessages)
      BY <3>1 DEF CoreBatchHashes, Checkpoints, Padded, UpTo
    <3>3. PaddedHashes = batchHashes
      BY <1>1, <1>3 DEF PaddedHashes, RunInv, RunOK
    <3> QED
      BY <3>1, <3>2, <3>3
  <2>3. currentBatchIndex + totalBatchesProcessed = nb
    BY <1>1, <1>3, <2>2 DEF RunInv, RoundOK, ProcInv
  <2>4. nb \in Nat \ {0}
    BY <1>1, Batches
  <2>5. ProcessProofs = nb
    BY <2>1 DEF ProcessProofs
  <2>6. BatchIndex = total - totalBatchesProcessed /\ total \in {nb, nb + 1}
    BY <1>1, <1>3, <2>2, <2>4 DEF BatchIndex, RunInv, RunOK
  <2>7. /\ totalBatchesProcessed < nb
        /\ batchHashes[BatchIndex] = Padded(numMessages)[nb - totalBatchesProcessed]
    BY <1>1, <2>1, <2>2, <2>5 DEF ProofFits, InputOf
  <2> HIDE DEF nb
  <2>8. /\ nb - totalBatchesProcessed = currentBatchIndex
        /\ currentBatchIndex \in 1..nb
    BY <1>1, <2>3, <2>4, <2>7
  <2>9. BatchIndex # currentBatchIndex + 1
    <3> SUFFICES ASSUME BatchIndex = currentBatchIndex + 1
                 PROVE  FALSE
      OBVIOUS
    <3>1. Padded(numMessages)[currentBatchIndex + 1] = Padded(numMessages)[currentBatchIndex]
      BY <2>2, <2>7, <2>8
    <3>2. nb = Len(Padded(numMessages)) - 1
      BY DEF nb
    <3> QED
      BY <1>1, <2>8, <3>1, <3>2, BatchesDiffer
  <2>10. BatchIndex = currentBatchIndex
    BY <1>1, <2>3, <2>4, <2>6, <2>9
  <2> QED
    BY <1>1, <1>3, <2>10
<1> QED
  BY <1>1, <1>2, <1>3

(* A proof that passes the checks of the script is the contract's next one, for the batch
   the contract is at, wherever an earlier run was cut off: under the two conditions that
   keep the contract's batches those of the coordinator's node. *)
THEOREM FittingProofIsNextHolds ==
    ASSUME MACIAssumption, PollAssumption, TallyAssumption,
           NoBlockAtDeadline, RelaysKeepBatches
    PROVE  ProverSpec => []FittingProofIsNext
<1>1. ProverInit => RunInv
  BY RunStart
<1>2. RunInv /\ [ProverNext]_allVars => RunInv'
  BY RunNext
<1>3. RunInv => FittingProofIsNext
  BY FittingIsNext
<1> QED
  BY <1>1, <1>2, <1>3, PTL DEF ProverSpec
=============================================================================
