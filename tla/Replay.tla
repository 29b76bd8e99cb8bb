------------------------------- MODULE Replay -------------------------------
(***************************************************************************)
(* packages/contracts/ts/generateMaciState.ts with its callers             *)
(* (tasks/helpers/ProofGenerator.ts prepareState, sdk/ts/maci/state.ts):   *)
(* the coordinator's client reads the logs page by page while the chain    *)
(* goes on, fetches relayed batches from IPFS, sorts the actions and       *)
(* replays them into a MaciState (packages/core/ts/MaciState.ts).          *)
(***************************************************************************)
EXTENDS ChainLog

CONSTANTS
    PollId,             \* the poll to be processed
    BlocksPerRequest,
    StartBlocks,        \* the startBlock options; 0 is none
    HasBackups,         \* are there backup files of the relayed batches?
    Outputs             \* the outputPath options: none, or a file

ASSUME ReplayAssumption ==
    /\ {PollId, BlocksPerRequest} \subseteq Nat
    /\ StartBlocks \subseteq Nat
    /\ HasBackups \in BOOLEAN
    /\ Outputs \subseteq {"none", "file"}

VARIABLES
    stage,          \* where the client is
    fromBlock, lastBlock,
    page,           \* first block of the page to be read
    actions,
    node,           \* the MaciState
    output,         \* where the state goes
    afterMerge      \* did the run begin after the merge of the poll?

clientVars == <<stage, fromBlock, lastBlock, page, actions, node, output, afterMerge>>
vars == <<chainVars, clientVars>>

NullPoll == [messages |-> <<>>, leaves |-> 0, ballots |-> 0, null |-> TRUE]
NewPoll == [messages |-> <<>>, leaves |-> 1, ballots |-> 1, null |-> FALSE]
NewMaciState == [publicKeys |-> 1, polls |-> <<>>]

\* maciState.polls.get(pollId), the polls being numbered as they are replayed.
Has(state, p) == p + 1 \in DOMAIN state.polls /\ ~state.polls[p + 1].null
Get(state, p) == state.polls[p + 1]

\* The first block with such an event from startBlock on, 0 without one.
FirstBlock(kind, startBlock) ==
    LET found == SelectSeq(log, LAMBDA e : e.kind = kind /\ e.block >= startBlock /\ e.block < block)
    IN  IF found = <<>> THEN 0 ELSE found[1].block

\* The slip: from the deployment of the first poll.
FromDeployment(startBlock) == FirstBlock("DeployPoll", startBlock)
FromBlock(startBlock) ==
    IF startBlock # 0 THEN startBlock
    ELSE LET a == FirstBlock("DeployPoll", 0) b == FirstBlock("SignUp", 0) IN IF a < b THEN a ELSE b

(* The end block is the latest one: the filter for MergeState compares the poll's root
   with the registry's and finds nothing. *)
Begin(startBlock, path) ==
    /\ stage = "idle"
    /\ block > 1
    /\ fromBlock' = FromBlock(startBlock)
    /\ lastBlock' = block - 1
    /\ page' = fromBlock'
    /\ actions' = <<>>
    /\ node' = NewMaciState
    /\ output' = path
    /\ afterMerge' = (PollId \in Polls /\ IsMerged(PollId) /\ Of("MergeState", PollId)[1].block < block)
    /\ stage' = "registry"
    /\ UNCHANGED chainVars

ToBlock == IF page + BlocksPerRequest >= lastBlock THEN lastBlock ELSE page + BlocksPerRequest
\* The slip: pages that begin where the last one ended.
NextPageOverlapping == page + BlocksPerRequest
NextPage == page + BlocksPerRequest + 1

Logs(kinds) == SelectSeq(log, LAMBDA e : e.kind \in kinds /\ e.block \in page..ToBlock)
LogsOfPoll(kinds) == SelectSeq(Logs(kinds), LAMBDA e : e.poll = PollId)

ReadRegistryPage ==
    /\ stage = "registry"
    /\ page <= lastBlock
    /\ actions' = actions \o Logs({"SignUp"}) \o Logs({"DeployPoll"})
    /\ page' = NextPage
    /\ UNCHANGED <<chainVars, stage, fromBlock, lastBlock, node, output, afterMerge>>

\* The assertion that the poll exists, then the second pass.
FindPoll ==
    /\ stage = "registry"
    /\ page > lastBlock
    /\ stage' = IF \E i \in DOMAIN actions : actions[i].kind = "DeployPoll" /\ actions[i].poll = PollId
                THEN "poll" ELSE "failed"
    /\ page' = fromBlock
    /\ UNCHANGED <<chainVars, fromBlock, lastBlock, actions, node, output, afterMerge>>

\* Content is found by a CID.  The event holds the digest of one, in 32 bytes, and it is
\* the digest that is asked for; backup files carry its name.
Digest(messages) == [digest |-> messages]
Pinned(messages) == [cid |-> messages]
ReadIpfs(id, messages) == id = Pinned(messages) \/ HasBackups

\* One action for each message of a batch.
Unpacked(events) == FlattenSeq([i \in DOMAIN events |->
    [j \in DOMAIN events[i].messages |->
        [events[i] EXCEPT !.kind = "PublishMessage", !.messages = <<events[i].messages[j]>>]]])

\* The actions of a page in the order they are pushed.  The slip: batches come last.
BatchesLast(batches) ==
    LogsOfPoll({"PollJoined"}) \o LogsOfPoll({"PublishMessage"}) \o batches \o Unpacked(batches)
PollActions(batches) ==
    LogsOfPoll({"PollJoined"}) \o batches \o Unpacked(batches) \o LogsOfPoll({"PublishMessage"})

ReadPollPage ==
    /\ stage = "poll"
    /\ page <= lastBlock
    /\ LET batches == LogsOfPoll({"IpfsHashAdded"})
       IN  IF \A i \in DOMAIN batches : ReadIpfs(Digest(batches[i].messages), batches[i].messages)
           THEN /\ actions' = actions \o PollActions(batches)
                /\ page' = NextPage
                /\ UNCHANGED stage
           ELSE stage' = "failed" /\ UNCHANGED <<actions, page>>
    /\ UNCHANGED <<chainVars, fromBlock, lastBlock, node, output, afterMerge>>

\* A stable sort by block and transaction.
Sorted(as) == FlattenSeq([t \in 1..txs |-> SelectSeq(as, LAMBDA a : a.tx = t)])

\* The MaciState after replaying as.  A poll is there for what comes after its deployment.
ReplayedPoll(as, deployed) ==
    IF as[deployed].poll # PollId THEN NullPoll
    ELSE LET later(kind) == SelectSeq(SubSeq(as, deployed, Len(as)), LAMBDA a : a.kind = kind)
             published == later("PublishMessage")
         IN  [NewPoll EXCEPT !.messages = [i \in DOMAIN published |-> published[i].messages[1]],
                             !.leaves = @ + Len(later("PollJoined"))]

Replayed(as) ==
    LET kinds(kind) == SelectSeq(as, LAMBDA a : a.kind = kind)
        deployments == SetToSortSeq({i \in DOMAIN as : as[i].kind = "DeployPoll"}, <)
    IN  [publicKeys |-> 1 + Len(kinds("SignUp")),
         polls |-> [i \in DOMAIN deployments |-> ReplayedPoll(as, deployments[i])]]

\* A ballot for each public key up to the number of leaves on chain.
Ballots(state, totalSignups) ==
    IF totalSignups < state.publicKeys THEN totalSignups ELSE state.publicKeys

\* The local variables of a run go with it.
Forget == fromBlock' = 0 /\ lastBlock' = 0 /\ page' = 0 /\ actions' = <<>>

\* The totals are those of the chain now, which is past lastBlock.
Rebuild ==
    /\ stage = "poll"
    /\ page > lastBlock
    /\ LET state == Replayed(Sorted(actions))
       IN  IF Has(state, PollId) /\ Len(Get(state, PollId).messages) = Len(Messages(PollId))
           THEN /\ node' = [state EXCEPT !.polls[PollId + 1].ballots = Ballots(state, TotalLeaves(PollId))]
                /\ stage' = IF output = "none" THEN "done" ELSE "saving"
           ELSE stage' = "failed" /\ UNCHANGED node
    /\ Forget
    /\ UNCHANGED <<chainVars, output, afterMerge>>

\* toJSON is called of every poll, and a null poll has none.
Save ==
    /\ stage = "saving"
    /\ stage' = IF \E i \in DOMAIN node.polls : node.polls[i].null THEN "failed" ELSE "done"
    /\ UNCHANGED <<chainVars, fromBlock, lastBlock, page, actions, node, output, afterMerge>>

\* Whoever started it starts it again.
Again ==
    /\ stage = "failed"
    /\ stage' = "idle"
    /\ Forget
    /\ node' = NewMaciState
    /\ UNCHANGED <<chainVars, output, afterMerge>>

ClientNext ==
    \/ \E b \in StartBlocks, path \in Outputs : Begin(b, path)
    \/ ReadRegistryPage
    \/ FindPoll
    \/ ReadPollPage
    \/ Rebuild
    \/ Save
    \/ Again

Init ==
    /\ ChainInit
    /\ stage = "idle"
    /\ fromBlock = 0 /\ lastBlock = 0 /\ page = 0
    /\ actions = <<>>
    /\ node = NewMaciState
    /\ output = "none"
    /\ afterMerge = FALSE

Chain == ChainNext /\ UNCHANGED clientVars

Next == Chain \/ ClientNext

\* A step of the client, told by what every one of them changes and none of the chain's
\* does: among the steps of Next this is ClientNext, and it is enabled when that is.
Stages == {"idle", "registry", "poll", "saving", "failed", "done"}
Moves ==
    /\ IF stage = "idle" THEN block > 1 ELSE stage # "done"
    /\ stage' \in Stages
    /\ page' \in 0..(MaxBlock + BlocksPerRequest + 2)

\* Blocks are mined; the client goes on and is started again when it fails.
Spec ==
    /\ Init
    /\ [][Next]_vars
    /\ WF_vars(Mine /\ UNCHANGED clientVars)
    /\ WF_<<stage, page>>(Moves)

-----------------------------------------------------------------------------
(* "Reconstruct MaciState in order" (generateMaciState.ts:266): a replay that ends has
   the messages of the chain, each once and in the order their hashes were chained;
   after the merge it has every leaf too, and a ballot for each: the public keys it counts
   ballots by are the registry's, the leaves are the poll's. *)
NodeIsTheChain ==
    stage = "done" =>
        /\ IsPrefix(Get(node, PollId).messages, Messages(PollId))
        /\ afterMerge => /\ Get(node, PollId).messages = Messages(PollId)
                         /\ Get(node, PollId).leaves = TotalLeaves(PollId)
                         /\ Get(node, PollId).ballots = Get(node, PollId).leaves

(* The state of a merged poll is replayed in the end, whatever happened to it and to
   other polls meanwhile. *)
EventuallyReplayed ==
    [](PollId \in Polls /\ IsMerged(PollId) => <>(stage \in {"saving", "done"}))

(* "Optional output path where to store the state" (sdk proof/types.ts): what is replayed
   with a path is also written. *)
EventuallySaved == []((stage = "saving") => <>(stage = "done"))
=============================================================================
