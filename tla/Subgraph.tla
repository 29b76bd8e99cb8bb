------------------------------ MODULE Subgraph ------------------------------
(***************************************************************************)
(* apps/subgraph/src: the handlers that turn events into entities.  They   *)
(* are run one at a time, in order, so that what the store holds after any *)
(* prefix of the log is a function of that prefix.                         *)
(***************************************************************************)
EXTENDS ChainLog

\* The entity of a poll with its proposal, and the registry's.
PollEntity(e) ==
    [totalSignups |-> 0, numMessages |-> 0, registrationCount |-> 0, publishedMessageCount |-> 0,
     offchainBatchCount |-> 0, txnHash |-> e.tx, creationLogIndex |-> e.logIndex]
EmptyStore == [totalSignups |-> 0, polls |-> <<>>]

Loaded(store, p) == p + 1 \in DOMAIN store.polls

HandleDeployPoll(store, e) == [store EXCEPT !.polls = Append(@, PollEntity(e))]

\* latestPoll is the last one deployed.
HandleSignUp(store, e) ==
    LET counted == [store EXCEPT !.totalSignups = @ + 1]
    IN  IF store.polls = <<>> THEN counted
        ELSE [counted EXCEPT !.polls[Len(store.polls)].totalSignups = @ + 1]

\* The template of a poll handles the events of the block that creates it, the
\* placeholder too, whose log comes before DeployPoll in its transaction.
\* The slip: every publication of the creating transaction is taken for the placeholder.
InCreation(store, e) == store.polls[e.poll + 1].txnHash = e.tx
IsPlaceholder(store, e) ==
    /\ store.polls[e.poll + 1].txnHash = e.tx
    /\ e.logIndex < store.polls[e.poll + 1].creationLogIndex

HandlePublishMessage(store, e) ==
    [store EXCEPT !.polls[e.poll + 1] =
        [@ EXCEPT !.numMessages = @ + 1,
                  !.publishedMessageCount = IF IsPlaceholder(store, e) THEN @ ELSE @ + 1]]

\* processIpfsVotes counts the entries that have data, hash and key in the file; a file
\* that is not found has none, but the batch is recorded before.
HandleIpfsHashAdded(store, e, entries) ==
    [store EXCEPT !.polls[e.poll + 1] =
        [@ EXCEPT !.offchainBatchCount = @ + 1, !.numMessages = @ + entries]]

\* Every join is by another key.
HandlePollJoined(store, e) ==
    [store EXCEPT !.polls[e.poll + 1].registrationCount = @ + 1]

HandleMergeState(store, e, leaves) ==
    [store EXCEPT !.polls[e.poll + 1].totalSignups = leaves, !.totalSignups = leaves]

Handle(store, e, read) ==
    CASE e.kind = "DeployPoll" -> HandleDeployPoll(store, e)
      [] e.kind = "SignUp" -> HandleSignUp(store, e)
      [] e.kind = "PublishMessage" /\ Loaded(store, e.poll) -> HandlePublishMessage(store, e)
      [] e.kind = "IpfsHashAdded" -> HandleIpfsHashAdded(store, e, read[e.tx])
      [] e.kind = "PollJoined" -> HandlePollJoined(store, e)
      [] e.kind = "MergeState" -> HandleMergeState(store, e, TotalLeaves(e.poll))
      [] OTHER -> store

\* The log with each placeholder after the DeployPoll it precedes.
AsHandled ==
    FlattenSeq([i \in DOMAIN log |->
        CASE log[i].kind = "PublishMessage" /\ log[i].messages = <<1>> -> <<>>
          [] log[i].kind = "DeployPoll" -> <<log[i], log[i - 1]>>
          [] OTHER -> <<log[i]>>])

(* How many valid entries IPFS gave for each relayed batch, told by its transaction: any
   number up to the messages it has. *)
Batches == {i \in DOMAIN log : log[i].kind = "IpfsHashAdded"}
Readings ==
    LET txOf == {log[i].tx : i \in Batches}
        longest == Max({0} \cup {Len(log[i].messages) : i \in Batches})
    IN  {read \in [txOf -> 0..longest] :
            \A i \in Batches : read[log[i].tx] <= Len(log[i].messages)}

\* The store after the events of the log.
Store(read) ==
    LET events == AsHandled
        after[n \in 0..Len(events)] ==
            IF n = 0 THEN EmptyStore ELSE Handle(after[n - 1], events[n], read)
    IN  after[Len(events)]

-----------------------------------------------------------------------------
\* Messages of the batches of p whose entries were not found or not valid.
Unread(p, read) ==
    FoldLeft(LAMBDA n, e : n + (Len(e.messages) - read[e.tx]), 0, Of("IpfsHashAdded", p))

(* What readers of the index take for the chain's counts are the chain's counts, but for
   the messages of batches IPFS did not give: for every poll, also when polls overlap, are
   merged, and begin with a publication in the transaction that deploys them. *)
IndexCounts ==
    \A read \in Readings :
        LET store == Store(read)
        IN  \A p \in Polls :
                LET poll == store.polls[p + 1]
                IN  /\ poll.numMessages = Len(Messages(p)) - Unread(p, read)
                    /\ poll.registrationCount = TotalLeaves(p) - 1
                    /\ poll.publishedMessageCount = Len(Of("PublishMessage", p)) - 1
                    /\ poll.offchainBatchCount = Len(Of("IpfsHashAdded", p))

(* "merge state after ended" (schemas/schema.v2.graphql:59): a merged poll's number of
   sign-ups is the number of leaves that were merged. *)
MergedTotals ==
    \A read \in Readings : \A p \in Polls :
        IsMerged(p) => Store(read).polls[p + 1].totalSignups = TotalLeaves(p)

(* The registry's entity counts the sign-ups of the registry. *)
RegistryCount ==
    \A read \in Readings : Store(read).totalSignups = Len(OfAnyPoll("SignUp"))
=============================================================================
