# VenekoVox: a verification project

VenekoVox is a fork of MACI (minimal anti-collusion infrastructure): voters sign
up to a registry on chain, join a poll, and publish encrypted votes; a coordinator
processes the votes off chain, proves with zk-SNARKs that it did so correctly, and
stores the results on chain. This directory holds TLA+ models of the program, the
TLC runs that check them and TLAPS proofs about the most important one.

`PROJECT.json` is the index: which definition models which lines (`map`), which
run checks which properties (`runs`), which change of the code each property would
notice (`mutants`), where code and documentation disagree (`findings`), what is
hard to test and which property watches it (`hazards`), what is proved
(`theorems`), and the state of every component (`components`).

## 1. The system

| Part | State it keeps | Operations | Works with |
|---|---|---|---|
| `MACI.sol` | public keys (LeanIMT), a root per sign-up | `signUp`, `deployPoll` | policy, `Poll` |
| `Poll.sol` | message count and hash chain, batch hashes, poll tree (LazyIMT), nullifiers, merge flag | `publishMessage(Batch)`, `relayMessagesBatch`, `joinPoll`, `padLastBatch`, `mergeState` | `MACI`, `MessageProcessor`, `Tally` |
| `MessageProcessor.sol` | batch index and count, state commitment, completion | `processMessages` | `Poll`, verifier |
| `Tally.sol` | batch number, tally commitment, results | `updateSbCommitment`, `tallyVotes`, `addTallyResults`, `isTallied` | `MessageProcessor`, `Poll` |
| trees (`LazyIMT.sol`, `LeanIMT.sol`) | nodes, side nodes | insert, insert many, update, remove, root | `MACI`, `Poll` |
| core (`MaciState.ts`, `Poll.ts`, `quinTree.ts`) | leaves, ballots, batch index, lock over polls, tally | `publishMessage`, `processMessages`, `tallyVotes` | circuits, `generateMaciState` |
| circuits | none; a relation of public and private inputs | process a batch, tally a batch, join | contracts, core |
| `generateMaciState.ts` | none; pages of logs, IPFS batches | parse, sort, replay | contracts, core |
| `ProofGenerator.ts`, `Prover.ts`, `prove.ts`, `merge.ts` | proof files; local copies of counts and hashes | generate, merge, submit proofs, submit results | all four contracts |
| coordinator scheduler | Redis records, timers, running tasks | register, status, delete, finalize, restore | proof service, Redis, chain |
| coordinator proof service | `./proofs`, `./tally.json` | merge, generate, submit | prover, core |
| relayer | messages and batches in MongoDB, batches on IPFS | save, cron job | `Poll.relayMessagesBatch` |
| subgraph | entities of the registry and its polls | a handler per event | events of the contracts |
| backend trees | one snapshot of the sign-up tree | refresh, serve a proof | subgraph, RPC node, `joinPoll` |
| backend eligibility, policy | challenges and claims in memory; used accounts and persons | challenge, scan, receive, authorize; `enforce` | the eligibility page, ZKPassport |
| front end | receipts and grants in local storage, what a page shows | vote flow, hydration, connection, wallet events | SDK, backend, wallet |
| names (`VenekoVoxNames.sol`, `ens/`, pages) | entries of registered names; what the pages show | claim, name a poll, resolve, look up | ENS registries, wallet |
| deployment (tasks, deployer service) | `deployed-contracts.json` | `deploy-full`, `deploy-poll`, `deployMaci`, `deployPoll` | registry of keys, policies, factories |
| CLI, files, authentication, session keys | see `components` | | clients of the above |

What is hard about each, and what makes it correct:

* **Contracts.** Anybody may call anything in any order; blocks are mined at any
  time, also at the deadline itself. Message counts, hashes, batch hashes, indices
  and batch counts are advanced by different functions and have to meet in the end.
  Correct means: every message of a closed poll is applied exactly once, last one
  first; every ballot is counted once; a result is opened from that tally alone;
  a closed poll stays closed; nobody votes with two leaves; it comes to an end.
* **Trees.** Nodes are stored lazily or as side nodes and chosen by bit arithmetic.
  Correct means: the root is that of the leaves, and a path leads to it.
* **Core and circuits.** The rules of a vote are written twice, in TypeScript and
  in circom, and in three modes. Correct means: what the node sends can be proved,
  credits are conserved, nonces are not replayed, the later vote wins, tallies add up.
* **Replay and subgraph.** Both turn a log into a state, the one page by page and
  sorted, the other event by event. Correct means: the state is the contracts'.
* **Prover.** Its own counts are copies that the contracts change under its hands,
  and a run may be cut off. Correct means: it sends what the contracts expect,
  resumes, and gets to the end.
* **Scheduler.** Tasks interleave at every `await`; Redis, files, chain and timers
  fail separately; the process crashes. Correct means: a poll that was asked for is
  finalized once, not early, and then forgotten; records never claim too much.
* **Relayer.** Cron runs overtake one another and end after any of three writes.
  Correct means: what is announced on chain can be read, without gaps, in the right
  poll, eventually, and the newest message is the last.
* **Cached tree.** The index lags, follows abandoned forks and fails; sign-ups go on
  between a proof and the join it is for. Correct means: voters can join.
* **Eligibility.** Codes are scanned by anybody, more than once; requests of one
  challenge overlap; challenges, grants and blocks have clocks of their own. Correct
  means: one enrolment for a person and an account, and everybody gets theirs.
* **Pages.** Wallet events, hydrations, loads and submissions write one page between
  each other's awaits. Correct means: what is shown, kept and sent belongs to the
  account that was shown, and a page at rest shows the present one.
* **Names.** Parents administer the registries beside the registrar's own records.
  Correct means: a name that was taken back stays dead.
* **Deployment.** Runs are broken off, repeated and edited, and others deploy polls.
  Correct means: what the file names can be used, and going on gets to the end.

## 2. Plan

In this order; what is left says so.

1. `MACI`, `Poll`, `MessageProcessor`, `Tally`, each extending the one before, and
   `Round`, their composition. `BallotBox` is the abstract promise `Round` refines.
2. `Round_proofs`: types, safety and the refinement, for all constants.
3. `Circuits` and `CorePoll`: the constraints, and the node that has to meet them.
4. `LazyIMT`, `LeanIMT`, `QuinTree` over `MerkleNodes`; `CoreState`.
5. `Submission`: the prover's client, extending `Round`.
6. `Finalization`: the coordinator's scheduler with Redis, timers, files and crashes.
7. `Relayer`: MongoDB, IPFS, chain.
8. `ChainLog`, and on it `Replay` and `Subgraph`.
9. `TreeCache`: the backend's snapshot between chain, index and voters.
10. `VoteFlow`: the front end's submission, receipts, hydrations and wallet.
11. `VerifyingKeys`, and on it `Deployment`.
12. `Enrolment` and `Enrolment_proofs`: the eligibility flow, for all constants.
13. `Names` and `Names_proofs`: registrar, clients and pages, for all constants.
14. Left: `ProofFiles`, the directory of proofs, generated and generated again with
    fresh salts, between `Finalization` and `Submission`.
15. Left: receipts checked against the chain again (`lib/receiptStatus.ts`), and the
    queries of the SDK.
16. `Finalization_proofs`: the scheduler's records and its one pursuer, for any faults and crashes;
    `Round_proofs` goes on to `Submission`: runs which were cut off send the right proof.
17. `VoteFlow_proofs`: that what a page shows, sends and files is the wallet's;
    `Trees_proofs`: the snapshot and the witnesses under any reorganization, and the roots of
    the two trees of the contracts at any size.
18. `Deployment_proofs`: no policy serves two polls, however deployments are broken off, and the
    parts of the file belong together.
19. `Messages_proofs`: that what is relayed (`Relayer`) has no gaps, and what the node makes of messages
    and ballots and the circuits have to accept (`CorePoll`), by induction over positions.
20. Left: proofs about `Replay`.

## 3. Modules and the code

Hashes and proofs are ideal in every module. A hash that commits to a growing
sequence is written as the length of the prefix it stands for, and a proof is
accepted exactly when the circuit's statement holds of the public inputs.

**`MACI`** (`MACI.sol`). `publicKeys` is the sequence of leaves, `stateRootsOnSignUp`
the root after each sign-up as a number of leaves. `SignUp`, and `IsMember` for what
a joining proof shows.

**`Poll`** (`Poll.sol`). One variable per storage field. `PublishMessageBatch(len)`
is the loop of `publishMessage`; `RelayMessagesBatch(len)` advances `numMessages`
first, as the code does; `PassedBoundaries` and `RelayedBoundaries` are the batch
hashes the two push. `PadLastBatch`, `JoinPoll`, `MergeState`, and `Tick` for blocks.
Messages are their positions in the order of publication; position 1 is the
placeholder the constructor publishes.

**`MessageProcessor`** (`MessageProcessor.sol`). `ProcessFirstBatch` and
`ProcessNextBatch` are the two branches of `processMessages`, over `ProcessBatch`;
a commitment is the merged root with the messages applied to it in order.

**`Tally`** (`Tally.sol`). `UpdateSbCommitment`, `TallyVotes`, `AddTallyResults`
(result indices alias modulo the capacity of the tree, as in the code), `IsTallied`.

**`Round`** composes the four: one action per external function, each leaving the
other contracts' variables alone, and the properties of the whole.

**`BallotBox`** is what a voter may rely on: six variables, `Cast`, `Join`, `Close`,
`Read`, `Count`, `Announce`. The mapping (`Box` in `Round`): `cast` is
`numMessages`, `voters` the leaves of the poll tree, `closed` is `now >= EndDate`,
`read` and `counted` are what the commitments stand for, `announced` whether totals
were stored.

**`Circuits`** (`packages/circuits/circom`): the constraints of message processing in the
three modes and of the tally, as predicates of a circuit's inputs. A hash is what was
hashed: a root is the sequence of its leaves, a path that sequence without one, a chain
hash the messages, a commitment what it commits to with its salt. A message is the command
it decrypts to and the key it is signed with, which leaves out the coordinator's key pair
and the arithmetic of signatures and ciphers; the bound the QV validator puts on a weight
never binds, since a weight is packed in fewer bits. A FULL poll is tallied with
`VoteTallyNonQv`, as in the code; `VoteTallyWithIndividualCounts` is used by nothing.

**`QuinTree`** (`crypto/ts/quinTree.ts`, `circom/utils/trees`): the node's trees by the
code's own numbering of nodes, and beside them the templates that work out a root from a
path or from all leaves. It is why `Circuits` may take a root for its leaves.

**`CorePoll`** (`core/ts/Poll.ts`) extends `Circuits`: the node's state, its rules, and the
inputs it makes for the circuits (`MessageInputs`, `TallyInputs`), whose constraints
`InputsAreProvable` asks for. `sbCommitment` and `tallyCommitment` are those the contracts
have after the last batch. Salts are numbers that were not used before, the three of a tally
batch one number. `mode` is chosen at the start among `Modes`; `applied` is a history of the
messages that took effect. The counts of votes apart from their weights (`voteCounts`) only
serve the circuit nothing uses.

**`CoreState`** (`MaciState.ts`, and the lock in `Poll.ts`). `pollBeingProcessed`,
`currentPollBeingProcessed`, and the batches of several polls.

**`MerkleNodes`, `LazyIMT`, `LeanIMT`**. A hash is the pair of its arguments, so that
equal roots mean equal trees. `LazyIMT` keeps the stored nodes by the code's own
numbering; `LeanIMT` keeps `sideNodes`, `leaves`, `size` and `depth`. `changes` counts updates
and removals, for the properties only. The true root is a full tree built from the leaves.
`MaxDepth` is the highest level there may be (32 in the code), and `MaxSignups` leaves fit below it.
`MCTrees` puts the three trees into one run; a behaviour grows one of them.

**`Submission`** (`Prover.ts`, `prove.ts`) extends `Round` by a client with its own
copies (`hashes`, `total`, `seen`) and a program counter. Its transactions are the
actions of `Round`; `Others` are those of everybody else, who may also relay, merge and pad at any
time, before a run starts or under its hands.

**`Finalization`** (`scheduler.service.ts`, `proof.service.ts`, `redis.service.ts`).
One action is what a task does between two awaits. `stage` is the chain, `redis`,
`proofFiles`, `tallyFile` survive a crash; `tasks`, `pending`, `listed` do not.
`MCFinalization` checks two regimes in one run (below).

**`Relayer`** (`message.service.ts`, `messageBatch.service.ts`,
`sdk/ts/relayer/messages.ts`). One action per write of a run. `relayed` is what a poll has
got, with every copy: no code sets the field by which a run would leave out what was relayed, so each
relays the first messages again. Of one batch relayed over and over in a row `MaxCopies` copies are kept;
`relayed` is finite that way, and one copy more would put no message behind another that was not
behind it already.

**`ChainLog`**: the events of `MACI` and `Poll` in transactions and blocks, as a reader of
logs meets them. **`Replay`** (`generateMaciState.ts`, `ProofGenerator.prepareState`,
`sdk/ts/maci/state.ts`) extends it by a client that reads page after page while blocks are
mined, fetches relayed batches, sorts and replays. **`Subgraph`** (`apps/subgraph/src`) is a
function of a prefix of the log and of what IPFS answers: its handlers run one at a time and in order, and
`HandleIpfsHashAdded` counts the entries that the file of a batch gives it, none if the file is
not found or its entries are not valid. `Readings` are the answers there may be.

**`TreeCache`** (`backend/src/trees`, `sdk/ts/user/joinWitness.ts`, `browser/joinPoll.ts`).
A chain with reorganizations, an index that lags, the service's snapshot, and voters that
take a witness from the service, the subgraph or the logs, validate it and join. A block is
the chain up to it; a root is the keys below it. Every await is a step.

**`VoteFlow`** (`hooks/voteFlow.ts`, `useMaci.ts`, `lib/hydration.ts`, `receipts.ts`, and
the SDK calls in them). `page` is what React holds, `stored` local storage, `flow` the
submission, `runs` hydrations under way, `events` wallet events on their way. One device has
one MACI key, whichever account its wallet is on; with a key per account `OwnLeafOrOneBefore` would say
more than it does.

**`VerifyingKeys`** (`VerifyingKeysRegistry.sol`): setters and getters as operators on a
registry, signatures as their 64-bit parts with the width of the shift that makes them.
**`Deployment`** (`Deployment.ts`, `ContractStorage.ts`, the deploy tasks, `deployer.service.ts`)
extends it: `chain` is the contracts, `named` and `instances` the file, `run` the run under
way, which may end between any two steps. What the factories make are contracts of `chain`.
The contracts of a step are registered in one action, each at a path of its own (`Put`).

**`Enrolment`** (`backend/src/eligibility`, `pages/Auth.tsx`, `eligibility/`,
`SelfEligibilityPolicy.sol`). `sessions` are the challenges with their locks and claims,
`tasks` the requests and pages under way, `record` the grant a browser keeps, `pending` and
`enrolled` the chain. Time counts down in what is left to a challenge or grant; an expired
challenge, refused everywhere, is dropped when it expires instead of at the next creation.
One reading of the clock serves all checks of a step, and `begin` is one await. Only the
live mode, with issuer key and tag secret. A proof is the person it shows: nothing in the
code binds it to challenge or account. A dry run against the latest block refuses a grant
issued after that block, so a page has to wait for the next one (`behind`).

**`Names`** (`ens/VenekoVoxNames.sol`, `registration.ts`, `pollName.ts`,
`injectedNamingWallet.ts`, `pages/Names.tsx`, `NamedPoll.tsx`, `useAccountName.ts`). A block
is the state it leaves; a task goes through the awaits `Route` lists. `profileNode` and
`pollNode` follow from the entries. A task has `current` for its generation still being the
page's, and `changed` for the abort signal and the subscription of `registerName`, which
the same wallet event sets. Assumed: events and answers of the wallet reach the page in the
order the wallet sends them; without that the check before sending would prove nothing.

Definitions introduced by the comment "A slip" are variants of code definitions.
No specification uses them. They are the mutated forms `PROJECT.json` lists: with
one in place of the definition it stands beside, the named property fails.

The other `MC*` modules only name model values and small sets for TLC.

## 4. Runs

Twelve runs, all of which pass. Section 5 lists the configurations that end in a
counterexample to a sentence of the documentation.

### The contracts: `Round`

The type invariant, four safety invariants, an action property, the refinement of
`BallotBox` and that all results get stored, over every interleaving of all calls. Three
voters and the pad key (capacity four) join in any order and with any old root. Up to eight
messages in batches of two are published singly or in threes, or relayed one by one:
polls end with one to four batches, full or not, and three at once pass a boundary in
the middle. Two ballots fit a tally batch, so three and four leaves need two; the result
indices are an inner and a later leaf and are submitted in any subsets. Blocks are before
the start, in the voting period and after the end; there is none at the deadline, and
relays have length one. Without either restriction `RoundFound` is the counterexample.

Fairness (`FairSpec`): `Pass` (blocks go on being produced), `Merge`, `Process`, `Count`
and `SubmitAll`, which the coordinator's scripts call until each has succeeded. Weak
fairness is enough because what one of them needs, once true, stays true until it has
happened. Voters have no fairness: a poll without votes ends too. No fairness for
`CopySb` and `Pad`: the others do not need them. Symmetry of the voters' keys is sound
for the safety properties but not for `EventuallyTallied`, so the run does without.

### Node and circuits: `CorePoll`

Sequences of up to three messages after the placeholder out of a set of commands that get
in each other's way: changed and withdrawn votes, a key change, repeated and skipped
nonces, the blank leaf, indices beyond leaves and options, weights beyond the credits,
somebody else's leaf, no signature. `mode` is QV or NON_QV from the start on (in FULL
mode the property fails, `CorePollFound`). Two batches of two messages, two of two ballots.
Two voters suffice, since a message touches one leaf; three messages are the least with which
a key change, a replay and an overdraw can follow each other. `MaxVoteOptions` is the five of
the tree while the poll has two, as in the code. `GeneratorSpec` is the order in which
`ProofGenerator.ts` calls the node.

* `InputsAreProvable`: each batch of messages and of ballots satisfies the circuit of the
  mode, from the commitment the contract has to the one the node sends.
* `MessagesCountOnce`: a later message wins over an earlier one, and none takes effect twice.
* `CountsAddUp`: cost and remaining credits are the credits given; the tally is the ballots'.

### Trees: `Trees`

`LazyRootIsRoot`: up to sixteen leaves of two values, every shape of completed subtrees and
partial ones up to a full tree of five levels. `RootStaysRight`: six leaves of seven values in
a `LeanIMT`, in single insertions and batches of one to three, and one update or removal
anywhere: a tree that has only grown has the right root, and one change of a tree with the
right root leaves the right root. What an insertion does after a change is in `TreesFound`.
`PathsLeadToRoots`: the votes of a ballot (arity five, depth two, zero value 0) and a binary
tree of depth three, seven insertions and an update: the path of every leaf, also by subtree,
leads both the node's check and the circuit's templates to the root.

### The prover: `Submission`

Up to seven messages in batches of two, published singly or in pairs, relayed singly, padded by
anybody at any time after the deadline, and a prover cut off up to twice anywhere. `FittingProofIsNext`:
whatever is still sent is what the contracts expect. `EventuallyProved`: if the last batch is not
full and no run has to start from padded hashes, all gets on chain. Runs may be cut off as long as
nothing was sent and nobody has padded, and others may pad while a run is under way; a run that starts
from padded hashes, be it after a cut or because somebody was quicker, pads its copy once
more and throws, each time (section 5). Fairness: blocks, merge, and the prover's next step: a run
that throws is started again.

### The scheduler: `Finalize`

Two regimes in one run, `overlapping` or not. Apart: one poll, three API requests that keep
clear of the service's own tasks, three failing calls up to the start of the submission, two
crashes: `PursuedOnce` and `DoneOnce`. Overlapping: two tasks, three requests, a failure and
a crash anywhere, and an end of voting beyond the range of a timer. `RecordNeverAhead` holds in
both: a record never claims what is not done. Fairness, in the first regime only: every task
goes on, every timer runs, time passes, and a crashed service is started again; all of them are
promises of Node.js, the chain and the operator. None for requests, failures and crashes.
Without bounds on failures nothing could be promised; three of them and two crashes are
enough to fail a retry and to crash again while recovering.

### The relayer: `Relayer`

Three messages for one poll and within the limit of the query, two runs of the job at a time, two
failures, two copies of a batch in a row. `ReadableWithoutGaps`: announced batches are readable, and a
message is on the chain only behind all that were accepted before it. `EventuallyRelayed`.
`OrderIsRestored`: a run that was overtaken leaves an older message last, and the chain is read from
its end; unless the poll closes first, a later run puts the newer ones behind it again. That a poll closes
first is the finding `NewestIsLast`. Fairness: the cron job goes on being run (`Find`), every call
of a run ends. With two polls, or more messages than the limit, see section 5.

### Replay and subgraph: `Replay`

Two polls of which one is called, five transactions of sign-ups, joins, publications and
relays of two messages in three blocks, pages of one block, a second poll made before or
after; the client starts at any time. `NodeIsTheChain`: the messages are a prefix of the
chain's, and after the merge messages, leaves and ballots are the chain's. `IndexCounts`:
whichever files IPFS gives, the subgraph counts a poll's published messages and the entries of the
batches it could read, and no more. `EventuallyReplayed`, with fairness for mining and for the
client, which its operator starts again. A transaction that publishes and relays, in the other
order, no backup files, and a second poll with an output file are the findings.

### The cached tree: `TreeCache`

Two keys of which one goes on to join, four blocks, one reorganization and one failed request
anywhere, pages of one leaf. `CacheWasOnChain`: the snapshot was the registry's once, though it
only compares its last leaf. `OnlyReorgsRefuse`: other sign-ups never make a join fail.
`FreshAndJoined`: the snapshot gets to be the chain's, and a voter whose sign-up lasts joins.
Fairness: index, timer, loading and the voter who tries again. Four blocks are two sign-ups,
one to replace them and one on top.

### The vote flow: `VoteFlow`

Two accounts, one other voter, up to two transactions in a block, a switch of the wallet, two votes,
one trouble (a fault, a connection or a reload), two hydrations at once. `OwnLeafOrOneBefore`: the leaf that a
vote is published for is the device's own, or else one that another voter joined with in the same
block before it, and never that of an earlier or later block; that it need not be the own one is the
finding `OwnLeaf`. `ReceiptsStayRight` (a step property: a receipt belongs to
the account that sent its vote, and a hydration never puts an older one in the place of a
newer), `RestShowsTheWallet`. Accounts are symmetric, and no property is about liveness.
Deadlock is off: the user may stop.

### Deployment: `Deploy`

A configuration edited between runs (other policy, other mode), the tasks, incremental or
not, or the service, one MACI, two polls, one crash anywhere, one poll of another account that
does not come between a number being read and used. `RegisteredIsUsable`: what the file
names belongs together and has its keys. `OnePollPerPolicy`. `EventuallyDeployed`: fairness for a
run's steps and for being started, strong for a fresh start, since a file that has to be
deleted first is deleted by an operator who sees the incremental run fail.

### Eligibility: `Enrolment`

Two accounts of a browser, two passports, two challenges, a scan of any code by anybody, two
troubles out of repeated scans, failed calls, lost pages, restarts and missed deadlines. `OneEnrolment`,
`OneGrantPerChallenge`, `StoresWhatWasEarned`, `EventuallyEnrolled`. Fairness: requests go on and
are sent, time and blocks pass, users try again and people scan what they are shown. A grant
lives two units and a challenge one, the order of their defaults (900 s, 300 s).

### Names: `Names`

Two accounts, the operator one of them, one label for a profile and for the poll; the names
page, the ballot's hook or the page of a named poll; two blocks after the first, in which
parents give, take back and redirect names, others register and the registration period
ends; two clicks, two tasks; one trouble out of a reorganization, a wallet event and a failed
request. `NeverRevived`, and `NamesAreRight`: transactions are sent by the account that the page
showed and that consented; names shown were served for that account or poll; at rest the page
shows the wallet's account, or what its address led to. Two blocks are what it takes to
revive a name, and one wallet event what it takes to send from the wrong account. With two
troubles and one click the names page alone has eight million states, which were also searched
without a counterexample. Deadlock is off: the user may stop.

Bounds on counters (`MaxMessages`, `MaxSize`, `MaxChanges`, `MaxTasks`, `MaxRequests`,
`MaxFaults`, `MaxCrashes`, `MaxInterruptions`, `MaxRuns`, `MaxTroubles` and so on) are constants
named "for model checking" or as bounds where they are declared; `MaxSignups`, `Limit`,
`Capacity` and `MaxLifetime` are the code's own. Deadlock is checked unless a configuration
says otherwise, which it does where everything may be inserted, processed, relayed or
deployed and nothing is left to do, or where a user may stop.

## 5. Findings

`findings` in `PROJECT.json` quotes for each the line of the code and the sentence it
contradicts. The configurations are kept beside the modules, or are one of the runs' with
the change the table names; TLC ends each with a
counterexample to the property it meets first, and with that one taken out of the
configuration to the next. `tlc -config RoundFound.cfg Round`, and likewise:

| Configuration (module) | Property | What happens |
|---|---|---|
| `RoundFound` (`Round`) | `BatchHashesAgree` | a relayed batch that passes a boundary pushes no batch hash there |
| | `ClosedForGood` (not one of the runs') | at the second of the deadline a poll is merged and then joined |
| `CorePollFound` (`MCCorePoll`) | `InputsAreProvable` | in FULL mode the node clears the other options of a ballot, the circuit does not |
| | `TallyAfterProcessing` | the node tallies, when asked to, after the first of several batches |
| `CoreStateLock` (`CoreState`) | `OneAtATime` | a poll is started between two batches of another |
| `TreesFound` (`MCTrees`) | `JoinRootsAreRoots` | `pollStateRootsOnJoin` are hashes of subtrees |
| | `UpdatesKeepIntegrity` | an insertion after an update gives a wrong root; latent, as the registry only inserts |
| | `CopyIsApart` | a copied `IncrementalQuinTree` shares its nodes with the original |
| `Submission` with the property for `EventuallyProved` (`Submission`) | `ResumesToTheEnd` | a prover cut off after its first batch never gets through its own checks again |
| | `ProcessesAllBatches` | nor does any prover whose last batch is full |
| | `PaddedByAnybody` | nor does any prover that starts after somebody else has padded |
| `FinalizeLost` (`Finalization`) | `ReloadsScheduledPolls` | a crash between deleting and rewriting a record loses the poll |
| | `RestartedUntilFinalized` | so does a crash between the last tally proof and the results |
| | `RunsAfterTheEnd` | a timer of more than 31 bits of milliseconds runs at once, again and again |
| `FinalizeLost` with two polls, tasks and requests, no faults, no crashes, `FirstStages = {"near"}` | `EventuallyFinalized` | two polls ending together mix up their files |
| `Relayer` with the property added (`MCRelayer`) | `NewestIsLast` | a run that was overtaken relays its copies last, and an older message is read first |
| `Relayer` with `Limit = 2` (`MCRelayer`) | `EventuallyRelayed` | with more messages than the limit of a query the newer ones are never relayed |
| `Relayer` with `Polls = {p1, p2}`, `PollOf <- TwoPolls` and the property added (`MCRelayer`) | `RelayedWhereSent` | messages of two polls in one batch all go to the first one's poll |
| `ReplayFound` (`MCReplay`) | `NodeIsTheChain` | a transaction that publishes and then relays is replayed the other way round |
| | `EventuallySaved` | with a second poll on the registry the state cannot be written |
| | `MergedTotals`, `RegistryCount` | sign-ups after a merge, and a merge, spoil each other's counts |
| `Replay` with `HasBackups = FALSE` (`MCReplay`) | `EventuallyReplayed` | a relayed batch is fetched by a digest, which IPFS does not know |
| `TreeCache` with the property added (`TreeCache`) | `ServedIsOnChain`, `ProvenanceHolds` | a snapshot of an abandoned fork is served, and leaves get the wrong block |
| `VoteFlow` with the property added (`VoteFlow`) | `OwnLeaf` | with another join in the block the vote is published for the other's leaf |
| `VoteFlow` with the property added (`VoteFlow`) | `RestIsSettled` | a wallet event while connecting leaves the page "checking" |
| `DeployFound` (`MCDeployment`) | `GoesOn` | a crash between binding a policy and registering its MACI cannot be gone on from |
| | `RegisteredIsUsable` | a poll that another account deploys at the wrong moment gets into the file |
| | `NothingUnknown` | a second poll makes a faultless run warn, or fail when strict |
| | `ProcessKeyFits` | the registry's process key does not depend on the batch size |
| `Deploy` with `Configs <- TwoDepths` (`MCDeployment`) | `RegisteredIsUsable` | the service deploys a poll of a depth that the registry has no keys for |
| `Deploy` with `MaxMacis = 2` (`MCDeployment`) | `RegisteredIsUsable` | the file names polls of a MACI that a second one has replaced |

## 6. Proofs

`Round_proofs` proves about `Round`, for any keys, capacity, batch sizes, dates,
timestamps, lengths and indices that satisfy the assumptions of the modules:

| Theorem | Property | Further assumptions |
|---|---|---|
| `TypeCorrect` | `TypeOK` | |
| `OneLeafPerVoterHolds` | `OneLeafPerVoter` | |
| `BatchHashesAgreeHolds` | `BatchHashesAgree`, `LeavesFit` | both |
| `EveryMessageOnceHolds` | `EveryMessageOnce`, `IndexMeetsCount` | both |
| `ResultsAreFinalHolds` | `ResultsAreFinal`, `EveryBallotOnce` | both |
| `ResultsNeverChangeHolds` | `ResultsNeverChange` | both |
| `KeepsPromisesHolds` | `KeepsPromises` | both |

`LeavesFit`, `IndexMeetsCount` and `EveryBallotOnce` are proved only; no run lists them.
The two further assumptions are hypotheses of the theorems, not assumptions of a module:
`NoBlockAtDeadline` (`EndDate` is no block's timestamp) and `RelaysKeepBatches`
(relays of single messages, or batches of one). `RoundFound` has the counterexamples
without them; they say what a fix of the code has to achieve.

None of the properties is inductive. What is:

* `VoterInv`: the keys of the leaves are the nullifiers, and roots recorded at sign-ups
  never exceed the registry. Needed because joining looks at nullifiers only.
* `ChainInv`: count and chain hash are the same number, the batch hashes are the
  coordinator's, padding and merge lie after the deadline, and the merged commitment is
  the whole tree. It puts the deadline to use: after it, nothing is published or joined.
* `ProcInv`: the batches to go and those done add up to the number of hashes, and what was
  read is the messages above the current index, downwards. `Batches` says where the
  batches of n messages end, `LastBatch` that the count and the index agree on the last.
* `TallyInv`: the tally commitment is on the processor's final commitment and has counted
  a prefix of the ballots; results exist only from full tallies.

That a closed poll stays closed (`ClosedForGood`) is not among them. Away from the deadline's own
second the guards of merging and joining exclude each other by their definition; at that second the
property fails (section 5).

Each invariant is preserved by every action given the ones before it (`VoterNext`,
`ChainNext`, `ProcNext`, `TallyNext`, one step per action); the theorems combine them. The
refinement has one lemma for each kind of step (`BoxOpen`, `BoxPass`, `BoxProcess`,
`BoxCount`, `BoxSubmit`, `BoxStutter`).

Of `Submission`, which extends `Round`, it proves `FittingProofIsNextHolds` (property
`FittingProofIsNext`), under the two conditions above and for any number of interruptions. Every step of
the prover is a step of `Round` or a stutter (`ProverStepsRound`), so `Round`'s invariants
hold; on top of them `RunOK` says that a run under way is at the contract's count. Before its
first proof its hashes are those it read, which others may pad on chain meanwhile; afterwards they are the
contract's, while its number of batches may lack the padded one (that is the bug that stops
a resumed run). The index it computes may then be one too high; `BatchesDiffer` shows that no
two batches end at the same message, so that the comparison of hashes refuses it.

`Enrolment_proofs` proves about `Enrolment`, for any accounts, people, challenge ids,
capacity, life times and number of troubles:

| Theorem | Property | Further assumption |
|---|---|---|
| `TypeCorrect` | `TypeOK` | |
| `OneGrantPerChallengeHolds` | `OneGrantPerChallenge` | |
| `OneEnrolmentHolds` | `OneEnrolment` | |
| `StoresWhatWasEarnedHolds` | `StoresWhatWasEarned` | `Window <= Lifetime` |

`Inv` is inductive: beside the types it says what a task at each of its awaits knows of its
challenge (`TaskOK`), what a challenge knows of itself (`SessionOK`: the grant signed for it
is for its account and its first proof, and none is counted before it exists), and that two requests of a live challenge
are never both behind the authorization lock (`OneAuthorizer`). One lemma for each action shows
that it is kept. `OneEnrolment` needs only that blocks are what changes `enrolled`, and that the
policy looks at both the account and the person. `StoresWhatWasEarned` needs `Lasts` on top: a grant
has as much time left as its challenge. It is where the assumption comes in: with
`ELIGIBILITY_GRANT_VALIDITY_SECONDS` below the 300 s of a challenge, a repeated request is
answered with a grant that may have expired.

`Finalization_proofs` proves about `Finalization`, for any stages to start from and any number
of tasks, requests, failing calls and crashes, overlapping or not:

| Theorem | Property | Further assumption |
|---|---|---|
| `TypeCorrect` | `TypeOK` | |
| `RecordNeverAheadHolds` | `RecordNeverAhead` | `OnePoll` |
| `OneRecordedPursuerHolds` | `OneRecordedPursuer` | `Overlap = FALSE` |
| `PursuedOnceHolds` | `PursuedOnce`, of both regimes of `MCFinalization` | `Overlap = FALSE` |

`TypeOK` is inductive with `Quiet`: a poll that waits to be restored has its record and neither
task nor timer, so that there is a record to read. `RecordNeverAhead` is inductive with `Knows`:
a task past the merge has the merge on chain, and one past the generation has the proofs of its poll in
the files; what a failure writes into the record (`RecAfterFailure`) is exactly that. `Kept` says that
what is true of the chain and the files stays true while they only grow (`Grows`). Only the
generation may break that, by replacing another poll's files, and only there is `OnePoll` used; that it
cannot be dropped is what the counterexample with two polls shows. `TaskMoves` and `TaskClaims` treat
at once what a task may do to its own poll: go on or end, write or erase the record, start a
timer; every action is an instance of them, of `SpawnKeeps` or of `RestartKeeps`.

`OneRecordedPursuer` holds for any number of polls. It is not inductive, since a delete and a
set-up take several awaits each; `Apart` is, and says of each poll apart (`ApartOf`) that it has
one task and one timer at most, that a waiting timer is listed and its record stored, and that a
task about to write finds its poll out of the registry. A step about one poll leaves the others' parts
alone (`OfOnePoll`). That requests keep apart is used twice: a timer runs when no request is
under way, and a request comes when no task is. `PursuedOnce` says it of the regime kept apart
beside the other one; `Overlap = FALSE` is the constant's value in the first, the second
instantiates the module with TRUE. Without requests kept apart two registrations of a
poll both find it unscheduled, and the second starts a timer beside the first's that nothing cancels.

`Names_proofs` proves about `Names`, for any accounts, labels, dates and bounds:

| Theorem | Property |
|---|---|
| `NeverRevivedHolds` | `NeverRevived` |
| `SentByTheShownHolds` | `SentByTheShown`, the first part of `NamesAreRight` |
| `NamesAreRightHolds` | `NamesAreRight`, all of it |
| `ShowsTheWallet` | its own: with no event under way the names page shows no account but the wallet's |

`Inv` is inductive and has four parts. `ChainInv`: every state a block leaves is good, that is,
an entry's resource is at most its node's, and less once a parent has taken the name back.
`TasksInv`: a submission that nothing has aborted was asked for under the wallet's account,
unless an event is still on its way, and past its first comparison it acts for the account it
was asked under. `PageInv`: the same of what the page shows and of the consent. The last is
`SentByTheShown` itself. The bounds of the model play no part. `GoesKeeps` and `EndsKeeps` say
once what every step of a task has in common; `Routes` is what is needed of the order of its
awaits: a submission asks for the account first, compares it at its sixth await and sends after.

`NamesAreRight` needs `ShownInv` beside `Inv`: every pair of a name and what it stands for that
a block has had is among those served, and so is what a task has found and what the page shows
(`ShownWasServed`); a task of the present generation is one of the page's visit and has its
account or label (`TasksOnPage`); one load runs at a time; and a page that is loading has a task or
a refresh to wait for (`Settled`), so that with no task left it rests on the right account. A task that
an event has overtaken may end, but not write. Reorganizations may take pairs away again:
that is why `served` remembers them, and why no theorem says that what is shown is still so.

`VoteFlow_proofs` proves about `VoteFlow`, for any accounts, other voters, faults, switches and
numbers of hydrations, and blocks of any size:

| Theorem | Property |
|---|---|
| `RestShowsTheWalletHolds` | `RestShowsTheWallet` |
| `ReceiptsStayRightHolds` | `ReceiptsStayRight` (a step property) |
| `OwnLeafOrOneBeforeHolds` | `OwnLeafOrOneBefore` |

`FlowInv` is inductive and has four parts. `Typed` and `ChainTyped` are the types.
`PageInv`: generations, the two locks and the state of the submission are always in step
(`InStep`: only the newest generation may write, and a lock is the present hydration's), and
once every wallet event has been handled what is shown, checked and held is the wallet's
(`OfTheWallet`). The second part holds only then, and every action that may run before an event is
handled has to keep the first without it. `ReceiptInv`: transactions are numbered in the order they
are sent, none above `Newest`, and the vote that the flow waits for is the newest; so a receipt that a
hydration checked and files cannot replace a newer one that the flow has filed meanwhile.
`LeafInv` is what `OwnLeafOrOneBefore` needs on top: a join that succeeded is in the block of its receipt
(`AwaitsItsJoin`), and every index kept or sent is that of a join up to the own one in its block
(`LeavesMayBeNamed`). The flow takes the first join of the block, which is the own one or stands
before it (`FirstOfBlock`); a device that recovers finds its own (`LookedUp`). Blocks only append, so what
was once up to the own join stays so (`AppendKeepsNamed`).

`Trees_proofs` proves about `TreeCache`, for any keys, page size, number of blocks,
reorganizations and failures:

| Theorem | Property |
|---|---|
| `CacheWasOnChainHolds` | `CacheWasOnChain` |
| `OnlyReorgsRefuseHolds` | `OnlyReorgsRefuse` |

The keys of a chain are a recursive function of it (`SignedUp`). That there is one for every
chain, that it has keys only, and that a block adds its key at the end are shown by induction over
the length, which `Induction` reduces to the least element of a set. `Inv` has the types and two
parts. `WasOnChain`: the leaves that are kept are the first of a registry that was. The pages of a
snapshot may come from two forks and only one leaf of an older one is compared; what makes it
true all the same is that a snapshot is published or retained only after its root was found at its
index on the chain, whose registries `was` remembers. `WitnessesStand`: a validated witness is of
a root that is still among those of the chain unless `reorgs` has grown since, because
sign-ups only append and the witness names the index of its own root.

It also proves about the two trees of the contracts, for any leaves and any size:

| Theorem | Property | Specification |
|---|---|---|
| `LazyRootIsRootHolds` | `LazyRootIsRoot` | `LazySpec` |
| `RootStaysRightHolds` | `RootStaysRight` (a step property) | `LeanSpec` |

Trees, levels and hashes are recursive functions of the level, and each is first shown to exist
(`NodesExist`, `HashesExist`, `LevelsExist`, `ParentsExist`, ...). Positions are shifts of indices; what is
needed of them is said once: `Shifts` and `ShiftOfHalf` (level by level), `ShiftedAway` (no bits are
left at the depth), `ShiftOfNext` (adding one leaf changes the shift just where the level is
completed), `ShiftKeepsOrder`.

* `LazyInv`: every node whose leaves are all there is stored, under its position, and is that of the
  complete tree. Other nodes are not stored: an insertion writes the leaf and the nodes above it
  up to the last that it completes (`CompletedIsLeast`), each hashed from the left neighbour, which was
  complete before and stays what it was (`CompleteStay`). `LevelsAreNodes`: the right edge that `_levels` goes up
  along is that of the complete tree, because right of it there are only blank
  leaves, whose nodes are the default zeros (`ZerosRight`).
* `LeanInv`: `depth` is the least that holds the leaves, and while nothing was updated or removed the side
  node of a level is its last node with an even index (`SidesRight`). That says
  less than that the root is right and is what the next insertion needs: the one node to its left, where
  the number of full nodes is odd (`OddSides`). `ManyAreNodes`: the new nodes of
  `_insertMany` are those of the larger tree, level by level, and the nodes left of
  them stay (`GrownNodesStay`).
* One update or removal does not need it: `OffPathStays` (only the path of the leaf changes) and
  `ClimbedAreNodes` (from the new leaf, with the siblings of the tree before, up to the new root). So the
  second half of `RootStaysRight` holds after any number of changes; the side nodes below
  the root may then be wrong, which `TreesFound` shows.

`Messages_proofs` has what is proved about messages. `ReadableWithoutGapsHolds` (property
`ReadableWithoutGaps`) is about `Relayer` (`RelayerSpec`), for any messages, polls, limit of the query,
number of runs, copies and faults. In `RelayerInv` the batch of every run
is a beginning of what was saved, so that it brings along all that was saved before any of its messages
(`NoGapsWithBatch`); the copies it relays once more follow the first ones, and what a chain has without
gaps stays so when more is appended or saved (`NoGapsInLonger`). It needs that no message is saved twice
(`SavedOnce`). Nothing is proved about which copy is last: an overtaken run makes it an older one, and
that this does not last is a matter of fairness (`OrderIsRestored`). That a batch is put on IPFS and in
the database before it is announced is the order of a run's steps (`StepsInOrder`).

The rest of `Messages_proofs` is about `CorePoll`, for any number of voters, options, keys, commands and
messages, and any batch sizes for which the tally's divides the number of leaves of the tree:

| Theorem | Property | Specification | Modes |
|---|---|---|---|
| `EveryMessageCountsOnce` | `MessagesCountOnce` | `Spec`: messages and ballots in any order | all |
| `PollTypes` | `TypeOK` | `GeneratorSpec`: as `ProofGenerator.ts` calls the poll | all |
| `CreditsAndVotesAddUp` | `CountsAddUp` | `GeneratorSpec` | QV, NON_QV |
| `InputsHaveProofs` | `InputsAreProvable` | `GeneratorSpec` | QV, NON_QV |
| `ResultsHaveProofs` | `ResultsAreProvable`, the tally's half of the last | `GeneratorSpec` | all |

Mode FULL is left out of two of them, since there they are wrong: a message of weight 0 for another
option takes votes back which stay paid for, and the circuit leaves them where they are
(`CorePollFound`). `mode # "FULL"` is a hypothesis of the theorems, not of the module.

Everything computed step by step is a recursive function, and of a recursive function nothing
can be used before there is one: `FiniteInduction` (over finite sets), `Iterated` (over the slots of a
batch) and `TreeFits` (over the depths of the state tree) show that, from the least element of a set.
The lemmas on sums then say once what is needed of `CalculateTotal`: any summand may be taken first
(`SumOverPick`), one may be changed (`SumExcept`), the whole is the sum of two parts (`SumSplit`), and
its terms may have other names (`SumRenamed`, for the circuits count slots and options from 1).

None of the properties is inductive. What is:

* `BatchInv`: the batch hashes and the index are those of the messages so far, and batches done and
  index add up to the number of batches. `BatchIndexIs` draws from it which batch is next.
* `MessagesInv`: `Applied` says of the messages from some position on which of them took effect: they are
  in reverse order, the nonce of a ballot counts those of its leaf, the key of the leaf is that of the
  last, and a message that the leaf as it joined would have accepted has been met by one. A nonce only grows, so
  none is valid again.
* `StateInv`: types, and `Conserved`: cost and credits of each leaf add up to the credits given.
* `TallyInv`: the results are sums over the first `BatchStart` ballots, and nothing is tallied before all
  messages are processed.
* `HashInv`: batch hash `b` is the chain of the messages of the first `b` batches (`Prefix`).
* `SbInv`, `ResultInv`: the commitments are those of the present state and results with the salts the
  node finds again under the index of the batch before.

From these `InputsHaveProofs` follows in two parts. `BatchIsProvable`, for messages: `Reinserted`,
`RootsChange` and `VotesChange` say that the path of a leaf leads to the root, and with another leaf to the
root of the changed tree; `OutcomeQv` and `OutcomeNonQv` say what the circuit makes of one message, by
verdict, and `SingleApplies` that this is what `ProcessMessage` makes of it, valid or not, for indices beyond the leaves
and options beyond the poll's too; `SameDownwards` carries that through the batch, and `ChainHashIs` has its
hashes. That a verdict of the circuit is one of the node needs that leaf 0 has a key nobody signs with
(`PadKey`) and, for the node's look at the option's votes, `VoteOptions <= MaxVoteOptions`.
`TallyIsProvable`, for ballots: `BallotsExist` (the batch is a subtree of the ballots' root), and `BatchAdds` with
`OptionTotals` (what the circuit adds up over slots is what the node adds up over ballots; slots beyond the
ballots add nothing).

`Deployment_proofs` proves `OnePollPerPolicyHolds` (property `OnePollPerPolicy`) about `Deployment`,
for any configurations, bounds on MACIs, polls, crashes and others' polls, with and without others racing
and edits at any time. `ConfigsAssumption`, the module's assumption on its constants, is the
enumeration `EContracts`: no policy of a configuration has the name of another contract.

That a policy may be bound looks easy, as a bound one refuses a second target. But a poll is deployed
with its policy before it is bound, and the two are one step of the program only if nothing comes
between; what keeps two polls apart is the file. The invariant `IInv` has six parts:

* `RunTyped`, `InTurn`: the types of a run, and whose job runs after which: `full` comes once, and
  the tasks and the service do not take turns at one file.
* `ChainInv`: a contract's policy is older than itself, what the file names is on the chain
  and is what its path says, and only contracts that the file names have polls.
* `PolicyInv`: of the policies of the file each has one entry (so that no entry hands out another's), and one
  keyed by the number of a poll guards nothing until a poll of that number is there, except in the one
  step between its deployment and its binding (`InUse`). Entries that are not keyed are for the MACI.
  This is what a file without keys would break, which is the mutant of the property.
* `MadeInv`: what a step has deployed and not yet registered is the step's own, and a policy
  among it is used by nobody and named by nothing (`Fresh`), until registering replaces the old
  entry by it.
* `NeedsInv`: the entries a step looked up when it began are there until it is done with them; the
  number of a poll that was read is not passed by before the poll is deployed.

When a run breaks off, contracts at the end of the chain that the file does not lead to are forgotten
(`Remembered`); `Shorter` says that this keeps all that is said of the others, `Alike` and `Longer` what
any other step may do to the chain, `PutIs` what registering does to the file. There is one lemma for
each action.
Others' polls take numbers: they can make a run throw, but not a policy of the file serve twice,
even if they race (`OtherPollKeeps`).

`RegisteredIsUsableHolds` (property `RegisteredIsUsable`) is about the same module, under four
assumptions which the run `Deploy` meets, and without any of which TLC finds a counterexample:

* `OneCircuit`: the configurations agree on depths and keys, and may differ in policies, mode and
  batch size. The service deploys a poll of another depth without looking for its keys (section 5).
* `ModesHaveKeys`: the mode of a configuration is one whose keys it has.
* `OneMaci`: the service is asked for one MACI. A second one replaces the first in the file, which
  goes on naming the first one's polls (section 5).
* `NoRace`: no other account deploys a poll while a run deploys its own (`DeployFound`).

`UInv` has four parts beside `IInv`, which it needs for what the file names to be on the chain at all:

* `ContractsInv`: polls and MACIs have the depths and the mode of some configuration.
* `FileInv`: the MACI of the file is the target of its policy; the registry of the file has the keys of
  every configuration; a poll of the file was deployed when MACI and registry were in it, is the MACI's
  poll of its number and the target of its policy. That MACI is never replaced under a poll follows from
  the order of the jobs (`AskedOnce`, `InTurn`).
* `StepInv`: what a step has made and not yet registered. The difficulty is that `Made` takes the contract
  of a name from everything a step deployed, so a registry can be given keys and another one be
  registered unless each name is there once (`IsOnce`), and that the service carries what
  it made for the registry over into the step of its MACI (`MakesRegistry`, `HasRegistry`).
  From the call on, the registry has all keys and a MACI is bound.
* `PollInv`: between the transaction of a poll and its binding it is the last of its MACI.

That the keys are all set (`AllKeysSet`) goes through the four setters of the registry: each leaves what
was set (`StillHas`) or reverts, no reverted batch is kept, and the tally key found for full mode is
the one of non-QV. A changed chain keeps what is said of the file because contracts lose nothing
(`Stays`, `FileStays`).

## 7. Model-checked only

Liveness under fairness everywhere, which the prover does not reach. Of `Replay`, `NodeIsTheChain`
and `IndexCounts`, which fold over the log. Of `Trees`, `PathsLeadToRoots`: the quinary tree is written and
read through paths and subtrees by recursive functions of its own.

## 8. Not modelled

* Hashes, signatures, encryption and proofs are ideal. In particular a ciphertext that
  does not authenticate, which the node and the circuits treat by different code, is not
  a message of `CorePoll`.
* One poll per registry in `Round`; polls share nothing on chain but the registry, whose
  roots only grow. `Replay` and `Deployment` have several.
* A result index beyond the tree of options is aliased in `Tally` as in the code, but no
  run submits one: nothing in the repository says what should come of it.
* Proofs generated anew with fresh salts after a part of the old ones was submitted, which
  do not continue the commitment on chain (`ProofFiles` of the plan).
* Gas, ether, ownership and upgrades. Redis calls that fail, and requests to a chain node
  that answers wrongly.
* The command line and the test fixtures: they parse, call the SDK and print.
* The coordinator's file lookup, request signatures and session keys, and its runs of
  external tools: input and output without a state of their own.
* Keys, commands, ballots and leaves as data: packing and padding of domain objects.
* The enterprise variant of the eligibility store, which no route mounts; the rate limiter.
* Of the front end, receipts checked against the chain again, wallets on the wrong chain,
  and pages that only show.
* Of the SDK, batches of votes, and the queries of polls and tallies.
