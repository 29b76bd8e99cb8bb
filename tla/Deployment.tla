----------------------------- MODULE Deployment -----------------------------
(***************************************************************************)
(* How MACI and its polls are deployed: the hardhat tasks deploy-full and  *)
(* deploy-poll (packages/contracts/tasks) with the file of addresses they  *)
(* keep, and the coordinator's deployer service, which keeps the same file *)
(* and has no incremental mode.  A run may end anywhere; what it deployed  *)
(* stays on the chain and what it registered in the file.  A policy stands *)
(* for itself, its checker and their factories.                            *)
(***************************************************************************)
EXTENDS Naturals, FiniteSets, SequencesExt, VerifyingKeys

CONSTANTS
    Configs,       \* what deploy-config.json, or a request, may say
    Incremental,   \* values of the incremental flag of deploy-full
    MaxPolls,      \* polls the operator wants
    MaxMacis,      \* times the service is asked for a MACI
    MaxCrashes,    \* bound on crashes
    MaxOthers,     \* bound on polls other accounts deploy
    OthersRace,    \* also between a poll's number being read and used?
    EditsAnytime   \* is the configuration edited after a failed run too?

ASSUME DeploymentAssumption ==
    /\ Incremental \subseteq BOOLEAN
    /\ {MaxPolls, MaxMacis, MaxCrashes, MaxOthers} \subseteq Nat
    /\ {OthersRace, EditsAnytime} \subseteq BOOLEAN

VARIABLES
    chain,       \* the contracts; an address is a position
    named,       \* the file: network.named, by path
    instances,   \* the file: network.instance
    user,        \* who keeps the file, "tasks" or "service"
    run,         \* what runs now
    finished,    \* numbers of finished runs, by job
    crashes, others

vars == <<chain, named, instances, user, run, finished, crashes, others>>
file == <<named, instances>>

-----------------------------------------------------------------------------
(* The chain. *)
Contract(id) ==
    [id |-> id, policy |-> 0, target |-> 0, polls |-> <<>>,
     keys |-> EmptyRegistry, mode |-> "none", depth |-> 0, tallyDepth |-> 0, voteOptionDepth |-> 0,
     batch |-> 0]
NextAddress == Len(chain) + 1
OfKind(id) == {a \in DOMAIN chain : chain[a].id = id}

\* setTarget works once.
Bindable(policy) == chain[policy].target = 0
Bound(contracts, policy, guarded) == [contracts EXCEPT ![policy].target = guarded]

\* MACI.deployPoll: a poll, its message processor and its tally.
PollContracts(policy, cfg) ==
    <<[Contract("Poll") EXCEPT !.policy = policy, !.depth = cfg.pollDepth, !.tallyDepth = cfg.tallyDepth,
                               !.voteOptionDepth = cfg.voteOptionDepth, !.batch = cfg.batch, !.mode = cfg.mode],
      Contract("MessageProcessor"), Contract("Tally")>>
WithPoll(contracts, maci, policy, cfg) ==
    [contracts EXCEPT ![maci].polls = Append(@, Len(contracts) + 1)] \o PollContracts(policy, cfg)

\* Contracts at the end that neither the file nor another contract refers to are of no
\* consequence; leaving them out keeps failing runs from growing the chain for ever.
Reachable(inst) ==
    {0} \cup inst \cup {chain[a].target : a \in inst}
      \cup UNION {{poll + 2 : poll \in Range(chain[a].polls)} : a \in inst}
Remembered(inst) == SubSeq(chain, 1, Max(Reachable(inst)))

-----------------------------------------------------------------------------
(* The file. *)
\* The path of an entry: its identifier, then its key if it has one.
Path(id) == <<id>>
UnkeyedPath(id, pollId) == <<id>>   \* a slip
Keyed(id, pollId) == <<id, pollId>>

Registered(path) == path \in DOMAIN named
GetAddress(path) == named[path].address

\* register for the contracts of a step, each with a path of its own: set replaces whatever
\* is at the path and below it; the count goes on.
Put(made) ==
    LET paths == {m.path : m \in made}
        Of(path) == CHOOSE m \in made : m.path = path
        Count(path) == IF Registered(path) THEN named[path].count ELSE 0
    IN  [p \in {q \in DOMAIN named : \A path \in paths : ~IsPrefix(path, q)} \cup paths |->
            IF p \in paths THEN [address |-> Of(p).address, count |-> Count(p) + 1] ELSE named[p]]

\* printContracts and checkResults: keyed entries below an unkeyed one are not seen, and
\* those of one identifier are one.
Seen == {p \in DOMAIN named : Len(p) = 1 \/ ~Registered(<<p[1]>>)}
Printed == {p[1] : p \in {q \in Seen : named[q].count = 1}}
Warned == \/ \E p \in Seen : named[p].count > 1
          \/ Cardinality(Printed) # Cardinality(instances)

-----------------------------------------------------------------------------
(* The jobs and their steps. *)
Poseidons == <<"PoseidonT3", "PoseidonT4", "PoseidonT5", "PoseidonT6">>
Factories == <<"PollFactory", "MessageProcessorFactory", "TallyFactory">>

\* EContracts, and the policy of another account. No policy of a configuration has the name
\* of another contract.
Contracts ==
    Range(Poseidons) \cup Range(Factories)
      \cup {"Verifier", "VerifyingKeysRegistry", "MACI", "Poll", "MessageProcessor", "Tally",
            "InitialVoiceCreditProxyFactory", "InitialVoiceCreditProxy", "Policy"}
ASSUME ConfigsAssumption ==
    \A cfg \in Configs :
        /\ cfg.enabled \in Seq(STRING) /\ {cfg.maciPolicy, cfg.pollPolicy} \subseteq STRING
        /\ (Range(cfg.enabled) \cup {cfg.maciPolicy, cfg.pollPolicy}) \cap Contracts = {}

Steps ==
    [full |-> <<"Policies", "Verifier", "Poseidon",
                "PollFactory", "MessageProcessorFactory", "TallyFactory",
                "MACI", "VerifyingKeysRegistry", "InitialVoiceCreditProxyFactory">>,
     poll |-> <<"InitialVoiceCreditProxy", "PollPolicy", "Poll">>,
     serviceMaci |-> <<"ServicePolicy", "ServiceRegistry", "ServiceMaci">>,
     servicePoll |-> <<"ServicePolicy", "ServiceProxy", "ServicePoll">>]

Step == Steps[run.job][run.step]
Idle == run.job = "none"
NoRun == [job |-> "none", cfg |-> run.cfg, failed |-> TRUE]

\* The contracts a step deploys, in order.
Policies(cfg) == cfg.enabled
PollPolicies(cfg) == <<cfg.pollPolicy>>
ServicePolicies(cfg) == <<cfg.pollPolicy>>
ServiceProxies == <<"InitialVoiceCreditProxyFactory", "InitialVoiceCreditProxy">>
ServiceMaciContracts ==
    <<"PoseidonT3", "PoseidonT4", "PoseidonT5", "PoseidonT6",
      "PollFactory", "MessageProcessorFactory", "TallyFactory", "MACI">>

Deployed(step, cfg) ==
    CASE step = "Policies" -> Policies(cfg)
      [] step = "Poseidon" -> Poseidons
      [] step = "PollPolicy" -> PollPolicies(cfg)
      [] step = "ServicePolicy" -> ServicePolicies(cfg)
      [] step = "ServiceRegistry" -> <<"Verifier", "VerifyingKeysRegistry">>
      [] step = "ServiceMaci" -> ServiceMaciContracts
      [] step = "ServiceProxy" -> ServiceProxies
      [] step \in {"Poll", "ServicePoll"} -> <<>>
      [] OTHER -> <<step>>

\* Entries a step cannot do without.
Needed(step, cfg, pollId) ==
    CASE step \in Range(Factories) -> {Path(id) : id \in Range(Poseidons)}
      [] step = "MACI" -> {Path(id) : id \in Range(Poseidons \o Factories) \cup {cfg.maciPolicy}}
      [] step = "InitialVoiceCreditProxy" -> {Path("InitialVoiceCreditProxyFactory")}
      [] step = "PollPolicy" -> {Path("MACI")}
      [] step = "Poll" ->
            {Path(id) : id \in {"MACI", "Verifier", "VerifyingKeysRegistry", "InitialVoiceCreditProxy"}}
              \cup {Keyed(cfg.pollPolicy, pollId)}
      [] step \in {"ServicePoll", "ServiceProxy"} \/ (step = "ServicePolicy" /\ run.job = "servicePoll") ->
            {Path(id) : id \in {"MACI", "Verifier", "VerifyingKeysRegistry"}}
      [] OTHER -> {}

\* The zkeys of the mode must be named in the configuration.
ModeHasKeys(step, cfg) == step = "VerifyingKeysRegistry" => cfg.mode \in cfg.zkeys

JoiningKeysAt(keys, depth) ==
    /\ HasPollJoiningVerifyingKey(keys, depth) /\ GetPollJoiningVerifyingKey(keys, depth) = "joining"
    /\ HasPollJoinedVerifyingKey(keys, depth) /\ GetPollJoinedVerifyingKey(keys, depth) = "joined"

\* 03-poll.ts reads the joining keys of the poll's depth, which throws without them, and sets
\* them if they are others, which reverts.
JoiningKeysRead(step, cfg) ==
    step = "Poll" => JoiningKeysAt(chain[GetAddress(Path("VerifyingKeysRegistry"))].keys, cfg.pollDepth)

\* What makes an incremental run skip a step.
PoliciesDone(cfg) == \A kind \in Range(Policies(cfg)) : Registered(Path(kind))
PollPolicyDone(pollId) == \E cfg \in Configs : Registered(Keyed(cfg.pollPolicy, pollId))

Done(step, cfg, pollId) ==
    CASE step = "Policies" -> PoliciesDone(cfg)
      [] step = "PollPolicy" -> PollPolicyDone(pollId)
      [] step \in {"Poll", "ServicePolicy", "ServiceRegistry", "ServiceMaci", "ServiceProxy", "ServicePoll"} -> FALSE
      [] OTHER -> \A id \in Range(Deployed(step, cfg)) : Registered(Path(id))

-----------------------------------------------------------------------------
(* Start: the operator wants MACI, then polls one after the other. *)
Has(job) == finished[job] > 0
Wanted(job) ==
    CASE user = "tasks" /\ job = "full" -> ~Has("full")
      [] user = "tasks" /\ job = "poll" -> Has("full") /\ finished.poll < MaxPolls
      [] user = "service" /\ job = "serviceMaci" -> finished.serviceMaci < MaxMacis
      [] user = "service" /\ job = "servicePoll" -> Has("serviceMaci") /\ finished.servicePoll < MaxPolls
      [] OTHER -> FALSE

\* The service runs nothing incrementally, and cleans nothing.
Start(job, incremental, cfg) ==
    /\ Idle
    /\ Wanted(job)
    /\ cfg = run.cfg \/ ~run.failed \/ EditsAnytime
    /\ incremental \in CASE job = "full" -> Incremental [] job = "poll" -> {TRUE} [] OTHER -> {FALSE}
    /\ IF job = "full" /\ ~incremental
       THEN named' = <<>> /\ instances' = {} /\ chain' = Remembered({})
       ELSE UNCHANGED <<chain, file>>
    /\ run' = [job |-> job, cfg |-> cfg, failed |-> TRUE, incremental |-> incremental,
               step |-> 1, pc |-> "enter", pollId |-> 0, todo |-> <<>>, made |-> <<>>]
    /\ UNCHANGED <<user, finished, crashes, others>>

\* A slip: the polls of the file are counted.
FiledPolls == Cardinality({p \in DOMAIN named : p[1] = "Poll"})
NextPollId == IF Registered(Path("MACI")) THEN Len(chain[GetAddress(Path("MACI"))].polls) ELSE 0

Throw ==
    /\ run' = NoRun
    /\ chain' = Remembered(instances)
    /\ UNCHANGED <<file, user, finished, crashes, others>>
Goto(pc) == run' = [run EXCEPT !.pc = pc]

(* A step begins: it reads the file and the number of the next poll, and throws, is
   skipped or goes on. *)
Enter ==
    /\ ~Idle /\ run.pc = "enter"
    /\ IF \/ \E path \in Needed(Step, run.cfg, NextPollId) : ~Registered(path)
          \/ ~ModeHasKeys(Step, run.cfg)
          \/ ~JoiningKeysRead(Step, run.cfg)
       THEN Throw
       ELSE /\ run' = IF run.incremental /\ Done(Step, run.cfg, NextPollId)
                      THEN [run EXCEPT !.pc = "next"]
                      ELSE [run EXCEPT !.pc = IF Deployed(Step, run.cfg) = <<>> THEN "call" ELSE "deploy",
                                       !.pollId = NextPollId,
                                       !.todo = Deployed(Step, run.cfg),
                                       !.made = IF Step = "ServiceMaci" THEN @ ELSE <<>>]
            /\ UNCHANGED <<chain, file, user, finished, crashes, others>>

\* The path under which a step registers a contract.
PathFor(step, id) ==
    IF step \in {"PollPolicy", "Poll", "ServicePoll"} THEN Keyed(id, run.pollId) ELSE Path(id)

\* The policy a MACI is constructed with.
MaciPolicy == GetAddress(Path(IF user = "tasks" THEN run.cfg.maciPolicy ELSE run.cfg.pollPolicy))

MadeContract(id) ==
    IF id = "MACI" THEN [Contract(id) EXCEPT !.policy = MaciPolicy, !.depth = run.cfg.depth] ELSE Contract(id)

(* The next contract of the step.  Policies are registered one by one, the contracts of
   any other step together. *)
Deploy ==
    /\ ~Idle /\ run.pc = "deploy" /\ run.todo # <<>>
    /\ LET id == Head(run.todo)
       IN  /\ chain' = Append(chain, MadeContract(id))
           /\ run' = [run EXCEPT !.todo = Tail(@),
                                 !.made = Append(@, [path |-> PathFor(Step, id), address |-> NextAddress]),
                                 !.pc = IF Step = "Policies" THEN "register"
                                        ELSE IF Len(run.todo) > 1 THEN "deploy" ELSE "call"]
    /\ UNCHANGED <<file, user, finished, crashes, others>>

Made(id) == (CHOOSE m \in Range(run.made) : m.path[1] = id).address

\* The keys of a configuration.  The tally keys of full mode are the ones of non-QV; the
\* task gives them once for non-QV and once more for full, whichever of the two has keys.
EModes == <<"qv", "nonQv", "full">>
TallyZkey(mode) == IF mode = "full" THEN "nonQv" ELSE mode
\* Some modes, in the order of the enumeration.
InOrder(modes) ==
    LET If(mode) == IF mode \in modes THEN <<mode>> ELSE <<>>
    IN  If(EModes[1]) \o If(EModes[2]) \o If(EModes[3])
Zkeys(cfg) == InOrder(cfg.zkeys)

Batch(cfg, modes, tallies) ==
    [stateTreeDepth |-> cfg.depth, pollStateTreeDepth |-> cfg.pollDepth,
     tallyProcessingStateTreeDepth |-> cfg.tallyDepth, voteOptionTreeDepth |-> cfg.voteOptionDepth,
     messageBatchSize |-> cfg.batch, modes |-> modes, joiningKey |-> "joining", joinedKey |-> "joined",
     processKeys |-> [i \in DOMAIN Zkeys(cfg) |-> [mode |-> Zkeys(cfg)[i], batch |-> cfg.batch]],
     tallyKeys |-> [i \in DOMAIN tallies |-> [mode |-> TallyZkey(tallies[i])]]]

TaskBatch(cfg) ==
    LET tallies == {mode \in Range(EModes) : TallyZkey(mode) \in cfg.zkeys}
    IN  Batch(cfg, InOrder(cfg.zkeys \cap tallies), InOrder(tallies))

\* getVerifyingKeysArgs throws for a mode whose files are missing; the service's are all there.
ServiceBatch(cfg) == Batch(cfg, Zkeys(cfg), Zkeys(cfg))

\* setVerifyingKeys of the SDK then reads what it set, the joining keys at the depth of MACI.
KeysRead(keys, batch) ==
    LET depth == batch.stateTreeDepth options == batch.voteOptionTreeDepth
    IN  /\ JoiningKeysAt(keys, depth)
        /\ \A i \in DOMAIN batch.modes :
              /\ GetProcessVerifyingKey(keys, depth, options, batch.messageBatchSize, batch.modes[i])
                    = batch.processKeys[i]
              /\ GetTallyVerifyingKey(keys, depth, batch.tallyProcessingStateTreeDepth, options, batch.modes[i])
                    = batch.tallyKeys[i]

SetKeys ==
    /\ ~Idle /\ run.pc = "call" /\ Step \in {"VerifyingKeysRegistry", "ServiceRegistry"}
    /\ LET registry == Made("VerifyingKeysRegistry")
           batch == IF user = "tasks" THEN TaskBatch(run.cfg) ELSE ServiceBatch(run.cfg)
           keys == SetVerifyingKeysBatch(chain[registry].keys, batch)
       IN  IF keys.ok /\ (user = "service" => KeysRead(keys, batch))
           THEN /\ chain' = [chain EXCEPT ![registry].keys = keys]
                /\ Goto(IF Step = "ServiceRegistry" THEN "next" ELSE "register")
                /\ UNCHANGED <<file, user, finished, crashes, others>>
           ELSE Throw

\* A MACI becomes the target of its policy, or nothing does.
BindMaci ==
    /\ ~Idle /\ run.pc = "call" /\ Step \in {"MACI", "ServiceMaci"}
    /\ IF Bindable(MaciPolicy)
       THEN /\ chain' = Bound(chain, MaciPolicy, Made("MACI"))
            /\ Goto("register")
            /\ UNCHANGED <<file, user, finished, crashes, others>>
       ELSE Throw

(* The poll: its transaction, the look at what it made, and the target of its policy.
   The task asks for the poll of the number it read at first, the service for the last
   poll of the transaction's block. *)
Maci == GetAddress(Path("MACI"))
PollPolicy == GetAddress(IF Step = "Poll" THEN Keyed(run.cfg.pollPolicy, run.pollId)
                         ELSE Path(run.cfg.pollPolicy))

DeployPoll ==
    /\ ~Idle /\ run.pc = "call" /\ Step \in {"Poll", "ServicePoll"}
    /\ chain' = WithPoll(chain, Maci, PollPolicy, run.cfg)
    /\ run' = [run EXCEPT !.pc = "bind", !.pollId = IF Step = "Poll" THEN @ ELSE NextPollId]
    /\ UNCHANGED <<file, user, finished, crashes, others>>

BindPoll(pollId) ==
    /\ ~Idle /\ run.pc = "bind"
    /\ IF Step = "Poll" THEN pollId = run.pollId ELSE pollId \in run.pollId..(NextPollId - 1)
    /\ LET poll == chain[Maci].polls[pollId + 1]
       IN  IF Bindable(PollPolicy)
           THEN /\ chain' = Bound(chain, PollPolicy, poll)
                /\ run' = [run EXCEPT !.pc = "register", !.pollId = pollId,
                             !.made = [i \in 1..3 |->
                                 [path |-> Keyed(chain[poll + i - 1].id, pollId), address |-> poll + i - 1]]]
                /\ UNCHANGED <<file, user, finished, crashes, others>>
           ELSE Throw

\* Steps without a call.
NoCall ==
    /\ ~Idle /\ run.pc = "call"
    /\ Step \notin {"VerifyingKeysRegistry", "ServiceRegistry", "MACI", "ServiceMaci", "Poll", "ServicePoll"}
    /\ Goto("register")
    /\ UNCHANGED <<chain, file, user, finished, crashes, others>>

\* ContractStorage.register; the service registers no libraries and no factories of polls.
Kept(m) == Step # "ServiceMaci" \/ m.path[1] \in {"Verifier", "VerifyingKeysRegistry", "MACI"}

Register ==
    /\ ~Idle /\ run.pc = "register"
    /\ LET made == {m \in Range(run.made) : Kept(m)}
       IN  /\ named' = Put(made)
           /\ instances' = instances \cup {m.address : m \in made}
    /\ run' = IF run.todo # <<>> THEN [run EXCEPT !.pc = "deploy", !.made = <<>>]
              ELSE [run EXCEPT !.pc = "next"]
    /\ UNCHANGED <<chain, user, finished, crashes, others>>

LastStep == run.step = Len(Steps[run.job])

NextStep ==
    /\ ~Idle /\ run.pc = "next"
    /\ IF LastStep
       THEN /\ finished' = [finished EXCEPT ![run.job] = @ + 1]
            /\ run' = [NoRun EXCEPT !.failed = FALSE]
       ELSE run' = [run EXCEPT !.step = @ + 1, !.pc = "enter"] /\ UNCHANGED finished
    /\ UNCHANGED <<chain, file, user, crashes, others>>

-----------------------------------------------------------------------------
Crash ==
    /\ ~Idle
    /\ crashes < MaxCrashes
    /\ crashes' = crashes + 1
    /\ run' = NoRun
    /\ chain' = Remembered(instances)
    /\ UNCHANGED <<file, user, finished, others>>

\* Is the number of a poll read that is yet to be used?
Deploying == ~Idle /\ Step \in {"Poll", "ServicePoll"}

\* deployPoll is for everyone: another account deploys a poll with a policy of its own.
OtherPoll ==
    /\ Registered(Path("MACI"))
    /\ others < MaxOthers
    /\ OthersRace \/ ~Deploying
    /\ others' = others + 1
    /\ chain' = Bound(WithPoll(Append(chain, Contract("Policy")), Maci, NextAddress, run.cfg),
                      NextAddress, NextAddress + 1)
    /\ UNCHANGED <<file, user, run, finished, crashes>>

Init ==
    /\ chain = <<>>
    /\ named = <<>> /\ instances = {}
    /\ user \in {"tasks", "service"}
    /\ \E cfg \in Configs : run = [job |-> "none", cfg |-> cfg, failed |-> FALSE]
    /\ finished = [job \in DOMAIN Steps |-> 0]
    /\ crashes = 0 /\ others = 0

Work == Enter \/ Deploy \/ SetKeys \/ BindMaci \/ DeployPoll \/ NoCall \/ Register \/ NextStep
        \/ \E pollId \in 0..(MaxPolls + MaxCrashes + MaxOthers) : BindPoll(pollId)
StartFresh == \E cfg \in Configs : Start("full", FALSE, cfg)
StartAny == \E job \in DOMAIN Steps, incremental \in BOOLEAN, cfg \in Configs : Start(job, incremental, cfg)

Next ==
    \/ StartAny
    \/ Work
    \/ Crash
    \/ OtherPoll

\* A run goes on; the operator starts what is wanted again when a run has failed, and
\* starts from nothing when that keeps failing.
Spec == Init /\ [][Next]_vars /\ WF_vars(Work) /\ WF_vars(StartAny) /\ SF_vars(StartFresh)

-----------------------------------------------------------------------------
(* A poll can be joined, processed and tallied with the keys of the file's registry, which
   MessageProcessor and Tally look for at the depth of MACI. *)
HasKeys(poll) ==
    LET keys == chain[GetAddress(Path("VerifyingKeysRegistry"))].keys
        depth == chain[Maci].depth
    IN  /\ HasPollJoiningVerifyingKey(keys, poll.depth)
        /\ HasPollJoinedVerifyingKey(keys, poll.depth)
        /\ HasProcessVerifyingKey(keys, depth, poll.voteOptionDepth, poll.batch, poll.mode)
        /\ HasTallyVerifyingKey(keys, depth, poll.tallyDepth, poll.voteOptionDepth, poll.mode)
        /\ GetTallyVerifyingKey(keys, depth, poll.tallyDepth, poll.voteOptionDepth, poll.mode).mode
              = TallyZkey(poll.mode)

(* Whatever the file names can be used: its MACI is what its policy guards; its poll k is
   poll k of that MACI, is what its policy, one of the file's, guards, and has the keys of
   its depths and its mode in the file's registry.  A crash between two steps leaves nothing half done that
   a later run takes for whole. *)
MaciIsUsable ==
    Registered(Path("MACI")) =>
        chain[Maci].policy \in instances /\ chain[chain[Maci].policy].target = Maci
PollIsUsable(path) ==
    LET poll == GetAddress(path) policy == chain[poll].policy
    IN  /\ path[2] + 1 \in DOMAIN chain[Maci].polls
        /\ poll = chain[Maci].polls[path[2] + 1]
        /\ policy \in instances /\ chain[policy].target = poll
        /\ HasKeys(chain[poll])
RegisteredIsUsable ==
    MaciIsUsable /\ \A path \in DOMAIN named : path[1] = "Poll" => PollIsUsable(path)

(* A policy binds one target (SelfEligibilityPolicy.setTarget), so that no poll gets the
   policy of another poll or of a MACI, however runs are broken off and repeated. *)
OnePollPerPolicy ==
    \A poll \in OfKind("Poll") : \A a \in DOMAIN chain \ {poll} : chain[a].policy # chain[poll].policy

(* The MACI and the polls that are wanted are deployed in the end, with as many runs as
   the crashes make necessary. *)
EventuallyDeployed == <>(finished.poll = MaxPolls \/ finished.servicePoll = MaxPolls)

(* Deployment.ts:115, "Delete 'deployed-contracts.json' to start a new deployment": what
   an incremental run finds in the file after a failure it can go on with. *)
GoesOn ==
    \A cfg \in Configs :
        (user = "tasks" /\ Idle /\ Registered(Path(cfg.maciPolicy)) /\ ~Registered(Path("MACI")))
            => Bindable(GetAddress(Path(cfg.maciPolicy)))

(* Deployment.ts:176, "unknown contract(s) detected": a run without fault warns of no
   contract, for it deployed and registered them all. *)
NothingUnknown ==
    (user = "tasks" /\ ~Idle /\ run.pc = "next" /\ LastStep) => ~Warned

(* VerifyingKeysRegistry.sol:85, the message batch size is a parameter of the signature:
   the process key a poll is given is the one set for its own batch size. *)
ProcessKeyFits ==
    \A address \in OfKind("Poll") :
        (Registered(Path("VerifyingKeysRegistry")) /\ Registered(Path("MACI"))) =>
            LET keys == chain[GetAddress(Path("VerifyingKeysRegistry"))].keys
                depth == chain[Maci].depth
                poll == chain[address]
            IN  HasProcessVerifyingKey(keys, depth, poll.voteOptionDepth, poll.batch, poll.mode) =>
                    GetProcessVerifyingKey(keys, depth, poll.voteOptionDepth, poll.batch, poll.mode)
                        = [mode |-> poll.mode, batch |-> poll.batch]
=============================================================================
