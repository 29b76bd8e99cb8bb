--------------------------- MODULE VerifyingKeys ---------------------------
(***************************************************************************)
(* contracts/VerifyingKeysRegistry.sol: the keys the contracts verify      *)
(* proofs with, by circuit, mode and signature, each set once.  A call is  *)
(* an operator on the registry; ok is FALSE after one that reverts, and    *)
(* the caller then keeps the registry it had.  A key stands for the        *)
(* circuit it is the key of.                                               *)
(*                                                                         *)
(* A signature is a number of parts 64 bits apart: the sequence of its     *)
(* parts, highest first, none of which reaches into the next.              *)
(***************************************************************************)
EXTENDS Naturals, Sequences, SequencesExt

EmptyRegistry == [joining |-> <<>>, joined |-> <<>>, process |-> <<>>, tally |-> <<>>, ok |-> TRUE]
Reverted(registry) == [registry EXCEPT !.ok = FALSE]

\* The shift of a number keeps its width: a left operand of 8 bits stays one.
ShiftedLeft(x, by, width) == IF by >= width THEN 0 ELSE (x * 2^by) % 2^width

PollJoiningSignature(stateTreeDepth) == <<0, stateTreeDepth, 0>>
PollJoinedSignature(stateTreeDepth) == <<stateTreeDepth, 0, 0>>
ProcessSignature(stateTreeDepth, voteOptionTreeDepth, messageBatchSize) ==
    <<ShiftedLeft(messageBatchSize, 128, 8), stateTreeDepth, voteOptionTreeDepth>>
TallySignature(stateTreeDepth, intStateTreeDepth, voteOptionTreeDepth) ==
    <<stateTreeDepth, intStateTreeDepth, voteOptionTreeDepth>>

-----------------------------------------------------------------------------
\* A mapping with one more key.
WithKey(keys, signature, key) ==
    [x \in {signature} \cup DOMAIN keys |-> IF x = signature THEN key ELSE keys[x]]

(* The setters revert on a key that is set. *)
SetPollJoiningVerifyingKey(registry, stateTreeDepth, key) ==
    LET signature == PollJoiningSignature(stateTreeDepth)
    IN  IF signature \in DOMAIN registry.joining THEN Reverted(registry)
        ELSE [registry EXCEPT !.joining = WithKey(@, signature, key)]

SetPollJoinedVerifyingKey(registry, stateTreeDepth, key) ==
    LET signature == PollJoinedSignature(stateTreeDepth)
    IN  IF signature \in DOMAIN registry.joined THEN Reverted(registry)
        ELSE [registry EXCEPT !.joined = WithKey(@, signature, key)]

SetProcessVerifyingKey(registry, stateTreeDepth, voteOptionTreeDepth, messageBatchSize, mode, key) ==
    LET signature == <<mode, ProcessSignature(stateTreeDepth, voteOptionTreeDepth, messageBatchSize)>>
    IN  IF signature \in DOMAIN registry.process THEN Reverted(registry)
        ELSE [registry EXCEPT !.process = WithKey(@, signature, key)]

SetTallyVerifyingKey(registry, stateTreeDepth, intStateTreeDepth, voteOptionTreeDepth, mode, key) ==
    LET signature == <<mode, TallySignature(stateTreeDepth, intStateTreeDepth, voteOptionTreeDepth)>>
    IN  IF signature \in DOMAIN registry.tally THEN Reverted(registry)
        ELSE [registry EXCEPT !.tally = WithKey(@, signature, key)]

\* setVerifyingKeys, with the sizes of the batch's arguments.
SetVerifyingKeys(registry, args, mode, processKey, tallyKey) ==
    SetTallyVerifyingKey(
        SetProcessVerifyingKey(registry, args.stateTreeDepth, args.voteOptionTreeDepth,
                               args.messageBatchSize, mode, processKey),
        args.stateTreeDepth, args.tallyProcessingStateTreeDepth, args.voteOptionTreeDepth, mode, tallyKey)

SetVerifyingKeysBatch(registry, args) ==
    IF Len(args.modes) # Len(args.processKeys) \/ Len(args.modes) # Len(args.tallyKeys)
    THEN Reverted(registry)
    ELSE LET ofPolls == SetPollJoinedVerifyingKey(
                            SetPollJoiningVerifyingKey(registry, args.pollStateTreeDepth, args.joiningKey),
                            args.pollStateTreeDepth, args.joinedKey)
             known[n \in 0..Len(args.modes)] ==   \* after n modes
                 IF n = 0 THEN ofPolls
                 ELSE SetVerifyingKeys(known[n - 1], args, args.modes[n], args.processKeys[n],
                                       args.tallyKeys[n])
         IN  known[Len(args.modes)]

-----------------------------------------------------------------------------
(* The getters revert without a key: read them where the key is there. *)
HasPollJoiningVerifyingKey(registry, stateTreeDepth) ==
    PollJoiningSignature(stateTreeDepth) \in DOMAIN registry.joining
HasPollJoinedVerifyingKey(registry, stateTreeDepth) ==
    PollJoinedSignature(stateTreeDepth) \in DOMAIN registry.joined
HasProcessVerifyingKey(registry, stateTreeDepth, voteOptionTreeDepth, messageBatchSize, mode) ==
    <<mode, ProcessSignature(stateTreeDepth, voteOptionTreeDepth, messageBatchSize)>> \in DOMAIN registry.process
HasTallyVerifyingKey(registry, stateTreeDepth, intStateTreeDepth, voteOptionTreeDepth, mode) ==
    <<mode, TallySignature(stateTreeDepth, intStateTreeDepth, voteOptionTreeDepth)>> \in DOMAIN registry.tally

GetPollJoiningVerifyingKey(registry, stateTreeDepth) ==
    registry.joining[PollJoiningSignature(stateTreeDepth)]
GetPollJoinedVerifyingKey(registry, stateTreeDepth) ==
    registry.joined[PollJoinedSignature(stateTreeDepth)]
GetProcessVerifyingKey(registry, stateTreeDepth, voteOptionTreeDepth, messageBatchSize, mode) ==
    registry.process[<<mode, ProcessSignature(stateTreeDepth, voteOptionTreeDepth, messageBatchSize)>>]
GetTallyVerifyingKey(registry, stateTreeDepth, intStateTreeDepth, voteOptionTreeDepth, mode) ==
    registry.tally[<<mode, TallySignature(stateTreeDepth, intStateTreeDepth, voteOptionTreeDepth)>>]
=============================================================================
