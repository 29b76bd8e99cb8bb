------------------------------ MODULE ChainLog ------------------------------
(***************************************************************************)
(* The events MACI.sol and Poll.sol emit, as a client that reads logs sees *)
(* them: each in a transaction of a block.  Modules Replay and Subgraph    *)
(* read them.  Transactions are numbered through all blocks, which gives   *)
(* the order of (blockNumber, transactionIndex).  What guards the calls is *)
(* module Round; here they happen whenever their events may.               *)
(***************************************************************************)
EXTENDS SequencesExt, Naturals

CONSTANTS
    MaxPolls,       \* for model checking: polls of the registry,
    ActivePolls,    \* polls that are called,
    MaxTxs,         \* transactions,
    MaxBlock,       \* blocks with transactions,
    Sizes,          \* and numbers of messages published or relayed at a time
    FirstOfTwo      \* which call comes first when one transaction publishes and relays

ASSUME ChainLogAssumption ==
    /\ {MaxPolls, MaxTxs, MaxBlock} \subseteq Nat
    /\ ActivePolls \subseteq Nat
    /\ Sizes \subseteq Nat \ {0}
    /\ FirstOfTwo \subseteq {"PublishMessage", "IpfsHashAdded"}

VARIABLES
    log,        \* every event, in the order of emission
    txs,        \* transactions so far
    block       \* the block being built; the ones before it are final

chainVars == <<log, txs, block>>

Of(kind, p) == SelectSeq(log, LAMBDA e : e.kind = kind /\ e.poll = p)
OfAnyPoll(kind) == SelectSeq(log, LAMBDA e : e.kind = kind)
NumPolls == Len(OfAnyPoll("DeployPoll"))
Polls == 0..(NumPolls - 1)
IsMerged(p) == Of("MergeState", p) # <<>>

\* The messages of poll p in the order the contract chained their hashes; the first is
\* the placeholder.  A relayed batch is one event for several.
Messages(p) ==
    FlattenSeq([i \in DOMAIN log |->
        IF log[i].poll = p /\ log[i].kind \in {"PublishMessage", "IpfsHashAdded"}
        THEN log[i].messages ELSE <<>>])

\* Leaves of the poll's state tree: the blank one and one for each join.
TotalLeaves(p) == 1 + Len(Of("PollJoined", p))

\* The numbers of the next n messages of p.
NewMessages(p, n) == [i \in 1..n |-> Len(Messages(p)) + i]

Event(kind, p, ms) ==
    [kind |-> kind, poll |-> p, messages |-> ms, block |-> block, tx |-> txs + 1, logIndex |-> 0]

\* A transaction with these events.
Emit(events) ==
    /\ txs < MaxTxs
    /\ block <= MaxBlock
    /\ log' = log \o [i \in DOMAIN events |-> [events[i] EXCEPT !.logIndex = i]]
    /\ txs' = txs + 1
    /\ UNCHANGED block

-----------------------------------------------------------------------------
SignUp == Emit(<<Event("SignUp", NumPolls, <<>>)>>)

\* The constructor of the poll publishes its placeholder before MACI emits DeployPoll.
DeployPoll ==
    /\ NumPolls < MaxPolls
    /\ Emit(<<Event("PublishMessage", NumPolls, <<1>>), Event("DeployPoll", NumPolls, <<>>)>>)

\* One account deploys a poll that is open at once and publishes its first message.
DeployAndPublish ==
    /\ NumPolls < MaxPolls
    /\ Emit(<<Event("PublishMessage", NumPolls, <<1>>), Event("DeployPoll", NumPolls, <<>>),
              Event("PublishMessage", NumPolls, <<2>>)>>)

\* Nobody joins twice, so that a join needs a signed-up user of its own.
JoinPoll(p) ==
    /\ ~IsMerged(p)
    /\ TotalLeaves(p) <= Len(OfAnyPoll("SignUp"))
    /\ Emit(<<Event("PollJoined", p, <<>>)>>)

PublishMessageBatch(p, n) ==
    /\ ~IsMerged(p)
    /\ Emit([i \in 1..n |-> Event("PublishMessage", p, <<NewMessages(p, n)[i]>>)])

RelayMessagesBatch(p, n) ==
    /\ ~IsMerged(p)
    /\ Emit(<<Event("IpfsHashAdded", p, NewMessages(p, n))>>)

\* A relayer that is a contract publishes a message and relays one.
PublishAndRelay(p, first) ==
    /\ ~IsMerged(p)
    /\ LET m == NewMessages(p, 2)
       IN  Emit(IF first = "PublishMessage"
                THEN <<Event("PublishMessage", p, <<m[1]>>), Event("IpfsHashAdded", p, <<m[2]>>)>>
                ELSE <<Event("IpfsHashAdded", p, <<m[1]>>), Event("PublishMessage", p, <<m[2]>>)>>)

MergeState(p) ==
    /\ ~IsMerged(p)
    /\ Emit(<<Event("MergeState", p, <<>>)>>)

Mine ==
    /\ block <= MaxBlock
    /\ block' = block + 1
    /\ UNCHANGED <<log, txs>>

ChainInit == log = <<>> /\ txs = 0 /\ block = 1

ChainNext ==
    \/ SignUp
    \/ DeployPoll
    \/ DeployAndPublish
    \/ \E p \in Polls \cap ActivePolls :
          \/ JoinPoll(p)
          \/ \E n \in Sizes : PublishMessageBatch(p, n) \/ RelayMessagesBatch(p, n)
          \/ \E kind \in FirstOfTwo : PublishAndRelay(p, kind)
          \/ MergeState(p)
    \/ Mine
=============================================================================
