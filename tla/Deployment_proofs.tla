------------------------- MODULE Deployment_proofs -------------------------
(***************************************************************************)
(* Proofs about Deployment, for any number of polls and MACIs, crashes and *)
(* polls of other accounts: that no policy serves two polls, for any       *)
(* configurations, and that what the file names can be used, for           *)
(* configurations with the same circuits (from "What the file names").     *)
(***************************************************************************)
EXTENDS Deployment, SequenceTheorems, WellFoundedInduction, TLAPS

-----------------------------------------------------------------------------
(* Sequences whose elements have no type. *)

IsSeq(s) == Len(s) \in Nat /\ s = [i \in 1..Len(s) |-> s[i]]

LEMMA InSeq ==
    ASSUME NEW s, IsSeq(s), NEW S, \A i \in 1..Len(s) : s[i] \in S
    PROVE  s \in Seq(S) /\ DOMAIN s = 1..Len(s)
<1>1. PICK n \in Nat : n = Len(s)
  BY DEF IsSeq
<1>2. s = [i \in 1..n |-> s[i]]
  BY <1>1 DEF IsSeq
<1>3. [i \in 1..n |-> s[i]] \in Seq(S)
  BY <1>1, IsASeq
<1> QED
  BY <1>1, <1>2, <1>3

LEMMA SeqIs ==
    ASSUME NEW S, NEW s \in Seq(S)
    PROVE  IsSeq(s) /\ DOMAIN s = 1..Len(s)
<1>1. Len(s) \in Nat /\ s \in [1..Len(s) -> S]
  BY LenProperties
<1> QED
  BY <1>1 DEF IsSeq

LEMMA EmptyIs == IsSeq(<<>>) /\ Len(<<>>) = 0 /\ DOMAIN <<>> = {}
  BY DEF IsSeq

(* How a sequence comes from another: named, for the provers look into the operators. *)
IsAppend(t, s, c) == t = Append(s, c)
IsChanged(t, s, a, c) == t = [s EXCEPT ![a] = c]
IsConcat(t, s, u) == t = s \o u
IsBeginning(t, s, n) == t = SubSeq(s, 1, n)

LEMMA AppendIs ==
    ASSUME NEW s, IsSeq(s), NEW c, NEW t, IsAppend(t, s, c)
    PROVE  /\ IsSeq(t) /\ Len(t) = Len(s) + 1 /\ DOMAIN t = 1..Len(t)
           /\ t[Len(s) + 1] = c
           /\ \A i \in 1..Len(s) : t[i] = s[i]
<1> DEFINE S == {s[i] : i \in 1..Len(s)} \cup {c}
<1>1. s \in Seq(S) /\ c \in S
  BY InSeq
<1> HIDE DEF S
<1>2. t \in Seq(S) /\ Len(t) = Len(s) + 1 /\ t[Len(s) + 1] = c /\ \A i \in 1..Len(s) : t[i] = s[i]
  BY <1>1, AppendProperties DEF IsAppend
<1> QED
  BY <1>2, SeqIs

LEMMA ChangedIs ==
    ASSUME NEW s, IsSeq(s), NEW a \in 1..Len(s), NEW c, NEW t, IsChanged(t, s, a, c)
    PROVE  /\ IsSeq(t) /\ Len(t) = Len(s) /\ DOMAIN t = 1..Len(t)
           /\ \A i \in 1..Len(s) : t[i] = IF i = a THEN c ELSE s[i]
<1> DEFINE S == {s[i] : i \in 1..Len(s)} \cup {c}
<1>1. s \in Seq(S) /\ c \in S /\ DOMAIN s = 1..Len(s)
  BY InSeq
<1> HIDE DEF S
<1>2. t \in Seq(S) /\ Len(t) = Len(s)
  BY <1>1, ExceptSeq DEF IsChanged
<1>3. \A i \in 1..Len(s) : t[i] = IF i = a THEN c ELSE s[i]
  BY <1>1 DEF IsChanged
<1> QED
  BY <1>2, <1>3, SeqIs

LEMMA ConcatIs ==
    ASSUME NEW s, IsSeq(s), NEW u, IsSeq(u), NEW t, IsConcat(t, s, u)
    PROVE  /\ IsSeq(t) /\ Len(t) = Len(s) + Len(u) /\ DOMAIN t = 1..Len(t)
           /\ \A i \in 1..Len(s) : t[i] = s[i]
           /\ \A i \in 1..Len(u) : t[Len(s) + i] = u[i]
<1> DEFINE S == {s[i] : i \in 1..Len(s)} \cup {u[i] : i \in 1..Len(u)}
<1>1. s \in Seq(S) /\ u \in Seq(S)
  BY InSeq
<1> HIDE DEF S
<1>2. t \in Seq(S) /\ Len(t) = Len(s) + Len(u)
  BY <1>1, ConcatProperties DEF IsConcat
<1>3. \A i \in 1..Len(t) : t[i] = IF i <= Len(s) THEN s[i] ELSE u[i - Len(s)]
  BY <1>1, ConcatProperties DEF IsConcat
<1>4. Len(s) \in Nat /\ Len(u) \in Nat
  BY DEF IsSeq
<1>5. \A i \in 1..Len(u) : Len(s) + i \in 1..Len(t) /\ ~(Len(s) + i <= Len(s)) /\ (Len(s) + i) - Len(s) = i
  BY <1>2, <1>4
<1>6. \A i \in 1..Len(s) : i \in 1..Len(t)
  BY <1>2, <1>4
<1>7. \A i \in 1..Len(u) : t[Len(s) + i] = u[i]
  BY <1>3, <1>5
<1>8. \A i \in 1..Len(s) : t[i] = s[i]
  BY <1>3, <1>6
<1> QED
  BY <1>2, <1>7, <1>8, SeqIs

LEMMA BeginningIs ==
    ASSUME NEW s, IsSeq(s), NEW n \in 0..Len(s), NEW t, IsBeginning(t, s, n)
    PROVE  /\ IsSeq(t) /\ Len(t) = n /\ DOMAIN t = 1..n
           /\ \A i \in 1..n : t[i] = s[i]
<1> DEFINE S == {s[i] : i \in 1..Len(s)}
<1>1. s \in Seq(S) /\ Len(s) \in Nat
  BY InSeq DEF IsSeq
<1> HIDE DEF S
<1>2. t \in Seq(S) /\ Len(t) = n
  BY <1>1 DEF IsBeginning
<1>3. \A i \in 1..n : t[i] = s[i]
  BY <1>1 DEF IsBeginning
<1> QED
  BY <1>2, <1>3, SeqIs

-----------------------------------------------------------------------------
(* Paths of the file. *)

Ids == Contracts \cup UNION {Range(cfg.enabled) \cup {cfg.maciPolicy, cfg.pollPolicy} : cfg \in Configs}
Paths == [1..1 -> Ids] \cup (Ids \X Nat)

LEMMA PathIs ==
    ASSUME NEW p \in Paths
    PROVE  /\ p[1] \in Ids
           /\ \/ Len(p) = 1 /\ p = <<p[1]>>
              \/ Len(p) = 2 /\ p = <<p[1], p[2]>> /\ p[2] \in Nat
<1>1. CASE p \in [1..1 -> Ids]
  <2>1. p[1] \in Ids
    BY <1>1
  <2>2. p = <<p[1]>>
    BY <1>1
  <2> QED
    BY <2>1, <2>2
<1>2. CASE p \in Ids \X Nat
  BY <1>2
<1> QED
  BY <1>1, <1>2 DEF Paths

LEMMA ShortPaths ==
    ASSUME NEW id \in Ids, NEW k \in Nat
    PROVE  /\ Path(id) \in Paths /\ Path(id)[1] = id /\ Len(Path(id)) = 1
           /\ Keyed(id, k) \in Paths /\ Keyed(id, k)[1] = id /\ Keyed(id, k)[2] = k /\ Len(Keyed(id, k)) = 2
<1>1. <<id, k>> \in Ids \X Nat
  OBVIOUS
<1>2. PICK p \in [1..1 -> Ids] : p = [i \in 1..1 |-> id]
  OBVIOUS
<1>3. p[1] = id
  BY <1>2
<1>4. p = <<p[1]>>
  OBVIOUS
<1> QED
  BY <1>1, <1>3, <1>4 DEF Path, Keyed, Paths

(* Only entries of the same identifier are at or below a path. *)
LEMMA Below ==
    ASSUME NEW p \in Paths, NEW q \in Paths, IsPrefix(p, q)
    PROVE  p[1] = q[1] /\ (Len(p) = 2 => p = q)
<1>1. Len(p) <= Len(q) /\ SubSeq(p, 1, Len(p)) = SubSeq(q, 1, Len(p))
  BY DEF IsPrefix
<1>2. CASE Len(p) = 1
  <2>1. IsSeq(p) /\ IsSeq(q) /\ Len(q) \in {1, 2}
    BY PathIs DEF IsSeq
  <2>2. SubSeq(p, 1, 1)[1] = p[1] /\ SubSeq(q, 1, 1)[1] = q[1]
    BY <1>1, <1>2, <2>1, BeginningIs DEF IsBeginning
  <2> QED
    BY <1>1, <1>2, <2>2
<1>3. CASE Len(p) = 2
  <2>1. IsSeq(p) /\ IsSeq(q) /\ Len(q) = 2
    BY <1>1, <1>3, PathIs DEF IsSeq
  <2>2. /\ SubSeq(p, 1, 2)[1] = p[1] /\ SubSeq(q, 1, 2)[1] = q[1]
        /\ SubSeq(p, 1, 2)[2] = p[2] /\ SubSeq(q, 1, 2)[2] = q[2]
    BY <1>3, <2>1, BeginningIs DEF IsBeginning
  <2>3. p[1] = q[1] /\ p[2] = q[2]
    BY <1>1, <1>3, <2>2
  <2> QED
    BY <1>3, <2>1, <2>3, PathIs
<1> QED
  BY <1>2, <1>3, PathIs

-----------------------------------------------------------------------------
(* The jobs, and the contracts of their steps. *)

Jobs == {"full", "poll", "serviceMaci", "servicePoll"}

LEMMA StepsAre ==
    /\ DOMAIN Steps = Jobs
    /\ Steps["full"] = <<"Policies", "Verifier", "Poseidon", "PollFactory", "MessageProcessorFactory",
                         "TallyFactory", "MACI", "VerifyingKeysRegistry", "InitialVoiceCreditProxyFactory">>
    /\ Steps["poll"] = <<"InitialVoiceCreditProxy", "PollPolicy", "Poll">>
    /\ Steps["serviceMaci"] = <<"ServicePolicy", "ServiceRegistry", "ServiceMaci">>
    /\ Steps["servicePoll"] = <<"ServicePolicy", "ServiceProxy", "ServicePoll">>
    /\ \A job \in Jobs : Len(Steps[job]) = IF job = "full" THEN 9 ELSE 3
  BY DEF Steps, Jobs

LEMMA StepsInOrder ==
    /\ Steps["full"][1] = "Policies" /\ Steps["full"][2] = "Verifier" /\ Steps["full"][3] = "Poseidon"
    /\ Steps["full"][4] = "PollFactory" /\ Steps["full"][5] = "MessageProcessorFactory"
    /\ Steps["full"][6] = "TallyFactory" /\ Steps["full"][7] = "MACI"
    /\ Steps["full"][8] = "VerifyingKeysRegistry" /\ Steps["full"][9] = "InitialVoiceCreditProxyFactory"
    /\ Steps["poll"][1] = "InitialVoiceCreditProxy" /\ Steps["poll"][2] = "PollPolicy"
    /\ Steps["poll"][3] = "Poll"
    /\ Steps["serviceMaci"][1] = "ServicePolicy" /\ Steps["serviceMaci"][2] = "ServiceRegistry"
    /\ Steps["serviceMaci"][3] = "ServiceMaci"
    /\ Steps["servicePoll"][1] = "ServicePolicy" /\ Steps["servicePoll"][2] = "ServiceProxy"
    /\ Steps["servicePoll"][3] = "ServicePoll"
<1>1. \A s : s = <<"Policies", "Verifier", "Poseidon", "PollFactory", "MessageProcessorFactory",
                  "TallyFactory", "MACI", "VerifyingKeysRegistry", "InitialVoiceCreditProxyFactory">> =>
         /\ s[1] = "Policies" /\ s[2] = "Verifier" /\ s[3] = "Poseidon" /\ s[4] = "PollFactory"
         /\ s[5] = "MessageProcessorFactory" /\ s[6] = "TallyFactory" /\ s[7] = "MACI"
         /\ s[8] = "VerifyingKeysRegistry" /\ s[9] = "InitialVoiceCreditProxyFactory"
  OBVIOUS
<1> QED
  BY <1>1, StepsAre

LEMMA ContractsAre ==
    Contracts = {"PoseidonT3", "PoseidonT4", "PoseidonT5", "PoseidonT6",
                 "PollFactory", "MessageProcessorFactory", "TallyFactory",
                 "Verifier", "VerifyingKeysRegistry", "MACI", "Poll", "MessageProcessor", "Tally",
                 "InitialVoiceCreditProxyFactory", "InitialVoiceCreditProxy", "Policy"}
<1>1. Range(Poseidons) = {"PoseidonT3", "PoseidonT4", "PoseidonT5", "PoseidonT6"}
  BY DEF Range, Poseidons
<1>2. Range(Factories) = {"PollFactory", "MessageProcessorFactory", "TallyFactory"}
  BY DEF Range, Factories
<1> QED
  BY <1>1, <1>2 DEF Contracts

LEMMA ServiceMaciIsLast ==
    /\ IsSeq(ServiceMaciContracts) /\ Len(ServiceMaciContracts) = 8
    /\ \A i \in 1..8 : ServiceMaciContracts[i] = "MACI" <=> i = 8
    /\ \A i \in 1..8 : ServiceMaciContracts[i] \in Ids /\ ServiceMaciContracts[i] \in Contracts \ {"Policy", "Poll"}
<1>1. Len(ServiceMaciContracts) = 8
  BY DEF ServiceMaciContracts
<1>2. /\ ServiceMaciContracts[1] = "PoseidonT3" /\ ServiceMaciContracts[2] = "PoseidonT4"
      /\ ServiceMaciContracts[3] = "PoseidonT5" /\ ServiceMaciContracts[4] = "PoseidonT6"
      /\ ServiceMaciContracts[5] = "PollFactory" /\ ServiceMaciContracts[6] = "MessageProcessorFactory"
      /\ ServiceMaciContracts[7] = "TallyFactory" /\ ServiceMaciContracts[8] = "MACI"
  BY DEF ServiceMaciContracts
<1>3. \A i \in 1..8 : i \in {1, 2, 3, 4, 5, 6, 7, 8}
  OBVIOUS
<1>4. ServiceMaciContracts = [i \in 1..8 |-> ServiceMaciContracts[i]]
  BY DEF ServiceMaciContracts
<1>5. \A i \in 1..8 : ServiceMaciContracts[i] = "MACI" <=> i = 8
  BY <1>2, <1>3
<1>6. \A i \in 1..8 : ServiceMaciContracts[i] \in Contracts \ {"Policy", "Poll"}
  BY <1>2, <1>3, ContractsAre
<1>7. \A i \in 1..8 : ServiceMaciContracts[i] \in Ids
  BY <1>6 DEF Ids
<1> QED
  BY <1>1, <1>4, <1>5, <1>6, <1>7 DEF IsSeq

(* What a step deploys. *)
LEMMA DeployedIs ==
    ASSUME NEW step, NEW cfg \in Configs
    PROVE  /\ step \in {"PollPolicy", "ServicePolicy"} => Deployed(step, cfg) = <<cfg.pollPolicy>>
           /\ step = "Policies" => Deployed(step, cfg) = cfg.enabled
           /\ step = "ServiceMaci" => Deployed(step, cfg) = ServiceMaciContracts
           /\ step \in {"Poll", "ServicePoll"} => Deployed(step, cfg) = <<>>
           /\ step \notin {"Policies", "PollPolicy", "ServicePolicy", "Poseidon", "ServiceRegistry", "ServiceMaci",
                           "ServiceProxy", "Poll", "ServicePoll"} => Deployed(step, cfg) = <<step>>
           /\ step = "Poseidon" => Deployed(step, cfg) = Poseidons
           /\ step = "ServiceRegistry" => Deployed(step, cfg) = <<"Verifier", "VerifyingKeysRegistry">>
           /\ step = "ServiceProxy" => Deployed(step, cfg) = <<"InitialVoiceCreditProxyFactory", "InitialVoiceCreditProxy">>
  BY DEF Deployed, Policies, PollPolicies, ServicePolicies, ServiceProxies
-----------------------------------------------------------------------------
(* What is true of the chain and the file between any two steps. *)

(* Where the run is. *)
At(steps, pcs) == ~Idle /\ Step \in steps /\ run.pc \in pcs

Pcs == {"enter", "deploy", "call", "bind", "register", "next"}
Busy ==
    [job : Jobs, cfg : Configs, failed : {TRUE}, incremental : BOOLEAN, step : Nat, pc : Pcs, pollId : Nat,
     todo : Seq(Ids), made : Seq([path : Paths, address : Nat])]
RunTyped ==
    \/ run \in [job : {"none"}, cfg : Configs, failed : BOOLEAN]
    \/ run \in Busy /\ run.step \in 1..Len(Steps[run.job])

(* Whose job runs, and what ran before it. *)
InTurn ==
    /\ finished \in [Jobs -> Nat]
    /\ run.job \in {"full", "poll"} => user = "tasks"
    /\ run.job \in {"serviceMaci", "servicePoll"} => user = "service"
    /\ run.job = "full" => ~Has("full")
    /\ run.job = "poll" => Has("full")

(* A contract, its policy older than itself; only what the file names is a target of
   consequence and has polls. *)
IsContract(c) ==
    c = [id |-> c.id, policy |-> c.policy, target |-> c.target, polls |-> c.polls, keys |-> c.keys,
         mode |-> c.mode, depth |-> c.depth, tallyDepth |-> c.tallyDepth,
         voteOptionDepth |-> c.voteOptionDepth, batch |-> c.batch]
WellMade(a) ==
    /\ IsContract(chain[a])
    /\ chain[a].policy \in 0..(a - 1)
    /\ chain[a].polls \in Seq(Nat)
    /\ chain[a].id = "Poll" => chain[a].policy > 0
    /\ chain[a].target # 0 => a \in instances \/ chain[a].id = "Policy"
    /\ chain[a].polls # <<>> => a \in instances

(* What an instance refers to is on the chain. *)
PollAt(a) ==
    /\ a \in 1..Len(chain) /\ a + 2 <= Len(chain)
    /\ chain[a].id = "Poll" /\ chain[a + 1].id = "MessageProcessor" /\ chain[a + 2].id = "Tally"
WellBound(a) ==
    /\ chain[a].target \in 0..Len(chain)
    /\ \A i \in DOMAIN chain[a].polls : PollAt(chain[a].polls[i])

ChainInv ==
    /\ IsSeq(chain)
    /\ \A a \in 1..Len(chain) : WellMade(a)
    /\ instances \subseteq 1..Len(chain)
    /\ \A a \in instances : WellBound(a)
    /\ \A p \in DOMAIN named :
          p \in Paths /\ named[p].address \in instances /\ chain[named[p].address].id = p[1]

(* Policies that guard nothing, no poll, and that the file does not name either. *)
Unused(a) == \A c \in 1..Len(chain) : chain[c].policy # a
GuardsNoPoll(a) == \A c \in 1..Len(chain) : chain[c].id = "Poll" => chain[c].policy # a
Fresh(a) == Unused(a) /\ \A p \in DOMAIN named : named[p].address # a

(* Which policies of the file are still to be used: the file's own policies have an entry
   each; a policy keyed by the number of a poll is unused until that poll is there. *)
OfPolicy(p) == p[1] \notin Contracts
InUse(p) == p[2] < NextPollId /\ ~(At({"Poll"}, {"call"}) /\ p[2] = run.pollId)
PolicyInv ==
    /\ OnePollPerPolicy
    /\ \A p, q \in DOMAIN named : OfPolicy(p) /\ named[p].address = named[q].address => p = q
    /\ \A p \in DOMAIN named : OfPolicy(p) /\ Len(p) = 2 =>
          /\ user = "tasks" /\ Has("full") /\ Registered(Path("MACI"))
          /\ ~InUse(p) => Unused(named[p].address)
    /\ user = "tasks" => \A p \in DOMAIN named : OfPolicy(p) /\ Len(p) = 1 => GuardsNoPoll(named[p].address)

(* The run's own part: what it made and has to make, and that it finds what it needs. *)
PolicySteps == {"Policies", "PollPolicy", "ServicePolicy"}
PollSteps == {"Poll", "ServicePoll"}
MaciSteps == {"MACI", "ServiceMaci"}
OfStep(id) ==
    IF Step \in PolicySteps THEN id \notin Contracts
    ELSE id \in Contracts \ {"Policy"} /\ (id = "MACI" => Step \in MaciSteps)
IsMade(m) == m.address \in 1..Len(chain) /\ chain[m.address].id = m.path[1] /\ OfStep(m.path[1])

MadeInv ==
    /\ (\/ ~Idle /\ run.pc \in {"deploy", "call", "register"}
        \/ At({"ServiceRegistry"}, {"next"})
        \/ At({"ServiceMaci"}, {"enter"})) =>
          \A i \in DOMAIN run.made : IsMade(run.made[i])
    /\ ~Idle /\ run.pc \in {"deploy", "register"} => \A i \in DOMAIN run.todo : OfStep(run.todo[i]) /\ run.todo[i] # "Poll"
    /\ ~Idle /\ run.pc \in {"call", "bind"} => run.todo = <<>>
    /\ ~At(PollSteps, {"deploy"})
    /\ ~Idle /\ run.pc = "bind" => Step \in PollSteps
    /\ ~Idle /\ run.pc = "register" /\ run.todo # <<>> => Step = "Policies"
    /\ At(MaciSteps, {"deploy"}) => \A i \in DOMAIN run.todo : run.todo[i] = "MACI" <=> i = Len(run.todo)
    /\ At(MaciSteps, {"call"}) => \E i \in DOMAIN run.made : run.made[i].path[1] = "MACI"
    /\ At(PolicySteps, {"deploy"}) => run.made = <<>> /\ (Step # "Policies" => Len(run.todo) = 1)
    /\ At(PolicySteps, {"call", "register"}) =>
          /\ \A i, j \in DOMAIN run.made : i = j
          /\ \A i \in DOMAIN run.made :
                Fresh(run.made[i].address) /\ (Len(run.made[i].path) = 2 <=> Step = "PollPolicy")
    /\ At({"ServicePolicy"}, {"deploy"}) => \A i \in DOMAIN run.todo : run.todo[i] = run.cfg.pollPolicy
    /\ At({"ServicePolicy"}, {"call", "register"}) =>
          \E i \in DOMAIN run.made : run.made[i].path = Path(run.cfg.pollPolicy)

ServiceMaciUsesIt ==
    \/ At({"ServicePolicy"}, {"next"})
    \/ At({"ServiceRegistry", "ServiceProxy"}, Pcs)
    \/ At({"ServiceMaci"}, {"enter", "deploy"})
    \/ At({"ServicePoll"}, {"enter", "call"})
NeedsInv ==
    /\ At({"MACI"}, {"deploy", "call"}) => Registered(Path(run.cfg.maciPolicy))
    /\ At({"PollPolicy"}, {"deploy", "call", "register"}) \/ At(PollSteps, {"call", "bind"}) => Registered(Path("MACI"))
    /\ At({"Poll"}, {"call", "bind"}) => Registered(Keyed(run.cfg.pollPolicy, run.pollId))
    /\ At({"Poll"}, {"call"}) => run.pollId <= NextPollId
    /\ At({"Poll"}, {"bind"}) => run.pollId < NextPollId
    /\ At({"ServiceMaci"}, {"call"}) \/ At({"ServicePoll"}, {"bind"}) => Registered(Path(run.cfg.pollPolicy))
    /\ ServiceMaciUsesIt =>
          Registered(Path(run.cfg.pollPolicy)) /\ Unused(GetAddress(Path(run.cfg.pollPolicy)))

LEMMA StepIs ==
    ASSUME RunTyped, ~Idle
    PROVE  /\ run \in Busy /\ run.job \in Jobs /\ run.step \in 1..Len(Steps[run.job])
           /\ Step \in {"Policies", "MACI"} => run.job = "full"
           /\ Step \in {"PollPolicy", "Poll"} => run.job = "poll"
           /\ Step \in {"ServicePolicy", "ServiceRegistry", "ServiceMaci", "ServiceProxy", "ServicePoll"} =>
                 run.job \in {"serviceMaci", "servicePoll"}
           /\ run.job \in {"serviceMaci", "servicePoll"} =>
                 Step \in {"ServicePolicy", "ServiceRegistry", "ServiceMaci", "ServiceProxy", "ServicePoll"}
           /\ Step \notin PolicySteps \cup PollSteps
                    \cup {"ServiceRegistry", "ServiceMaci", "ServiceProxy", "Poseidon"} =>
                 Step \in Contracts \ {"Policy"}
<1>1. run \in Busy /\ run.job \in Jobs /\ run.step \in 1..Len(Steps[run.job])
  BY DEF RunTyped, Idle, Busy
<1>2. PICK job \in Jobs, n \in 1..Len(Steps[run.job]) : job = run.job /\ n = run.step /\ Step = Steps[job][n]
  BY <1>1 DEF Step
<1> USE DEF PolicySteps, PollSteps
<1>3. CASE job = "full"
  <2>1. n \in {1, 2, 3, 4, 5, 6, 7, 8, 9}
    BY <1>2, <1>3, StepsAre
  <2>2. /\ Step \in {"Policies", "Verifier", "Poseidon", "PollFactory", "MessageProcessorFactory",
                     "TallyFactory", "MACI", "VerifyingKeysRegistry", "InitialVoiceCreditProxyFactory"}
        /\ run.job = "full"
    BY <1>2, <1>3, <2>1, StepsInOrder
  <2>3. Step \in (Contracts \ {"Policy"}) \cup {"Policies", "Poseidon"}
    BY <2>2, ContractsAre
  <2> QED
    BY <1>1, <2>2, <2>3
<1>4. CASE job # "full"
  <2>1. n \in {1, 2, 3}
    BY <1>2, <1>4, StepsAre
  <2>2. job \in {"poll", "serviceMaci", "servicePoll"}
    BY <1>4 DEF Jobs
  <2>3. \/ run.job = "poll" /\ Step \in {"InitialVoiceCreditProxy", "PollPolicy", "Poll"}
        \/ /\ run.job \in {"serviceMaci", "servicePoll"}
           /\ Step \in {"ServicePolicy", "ServiceRegistry", "ServiceMaci", "ServiceProxy", "ServicePoll"}
    BY <1>2, <2>1, <2>2, StepsInOrder
  <2>4. Step = "InitialVoiceCreditProxy" => Step \in Contracts \ {"Policy"}
    BY <2>3, ContractsAre
  <2> QED
    BY <1>1, <2>3, <2>4
<1> QED
  BY <1>3, <1>4

LEMMA NextStepIs ==
    ASSUME RunTyped, ~Idle, ~LastStep, NEW next, next = Steps[run.job][run.step + 1]
    PROVE  /\ run.step + 1 \in 1..Len(Steps[run.job])
           /\ next = "ServiceMaci" => Step = "ServiceRegistry"
           /\ next = "ServicePoll" => Step = "ServiceProxy"
           /\ next \in {"ServiceRegistry", "ServiceProxy"} => Step = "ServicePolicy"
<1>1. run.job \in Jobs /\ run.step \in 1..Len(Steps[run.job]) /\ run.step # Len(Steps[run.job])
  BY StepIs DEF LastStep
<1>2. PICK job \in Jobs, n \in 1..Len(Steps[run.job]) :
         job = run.job /\ n = run.step /\ Step = Steps[job][n] /\ next = Steps[job][n + 1]
  BY <1>1 DEF Step
<1>3. CASE job = "full"
  <2>1. n \in {1, 2, 3, 4, 5, 6, 7, 8}
    BY <1>1, <1>2, <1>3, StepsAre
  <2> QED
    BY <1>1, <1>2, <1>3, <2>1, StepsAre, StepsInOrder
<1>4. CASE job # "full"
  <2>1. n \in {1, 2}
    BY <1>1, <1>2, <1>4, StepsAre, SMTT(30)
  <2>2. job \in {"poll", "serviceMaci", "servicePoll"}
    BY <1>4 DEF Jobs
  <2> QED
    BY <1>1, <1>2, <2>1, <2>2, StepsAre, StepsInOrder, SMTT(30)
<1> QED
  BY <1>3, <1>4

LEMMA ConfigIs ==
    ASSUME NEW cfg \in Configs
    PROVE  /\ cfg.pollPolicy \in Ids /\ cfg.pollPolicy \notin Contracts
           /\ cfg.maciPolicy \in Ids /\ cfg.maciPolicy \notin Contracts
           /\ cfg.enabled \in Seq(Ids)
           /\ \A i \in 1..Len(cfg.enabled) : cfg.enabled[i] \in Ids /\ cfg.enabled[i] \notin Contracts
<1>1. /\ cfg.enabled \in Seq(STRING)
      /\ (Range(cfg.enabled) \cup {cfg.maciPolicy, cfg.pollPolicy}) \cap Contracts = {}
  BY ConfigsAssumption
<1>2. Range(cfg.enabled) \cup {cfg.maciPolicy, cfg.pollPolicy} \subseteq Ids
  BY DEF Ids
<1>3. \A i \in 1..Len(cfg.enabled) : cfg.enabled[i] \in Range(cfg.enabled)
  BY <1>1, SeqIs DEF Range
<1>4. IsSeq(cfg.enabled)
  BY <1>1, SeqIs
<1>5. \A i \in 1..Len(cfg.enabled) : cfg.enabled[i] \in Ids
  BY <1>2, <1>3
<1>6. cfg.enabled \in Seq(Ids)
  BY <1>4, <1>5, InSeq
<1> QED
  BY <1>1, <1>2, <1>3, <1>5, <1>6

(* A step deploys contracts that are its own. *)
LEMMA DeployedSuits ==
    ASSUME RunTyped, ~Idle, NEW d, d = Deployed(Step, run.cfg)
    PROVE  /\ d \in Seq(Ids)
           /\ \A i \in 1..Len(d) : OfStep(d[i]) /\ d[i] # "Poll"
           /\ Step \in PollSteps => d = <<>>
           /\ Step \in MaciSteps => d # <<>> /\ \A i \in 1..Len(d) : d[i] = "MACI" <=> i = Len(d)
           /\ Step \in PolicySteps => (Step # "Policies" => Len(d) = 1)
<1>1. run.cfg \in Configs
  BY StepIs DEF Busy
<1> USE DEF OfStep, PolicySteps, PollSteps, MaciSteps
<1>2. CASE Step \in {"PollPolicy", "ServicePolicy"}
  <2>1. d = <<run.cfg.pollPolicy>>
    BY <1>1, <1>2, DeployedIs
  <2>2. run.cfg.pollPolicy \in Ids /\ run.cfg.pollPolicy \notin Contracts
    BY <1>1, ConfigIs
  <2>3. d \in Seq(Ids) /\ Len(d) = 1 /\ d[1] = run.cfg.pollPolicy
    BY <2>1, <2>2
  <2> QED
    BY <1>2, <2>2, <2>3, ContractsAre
<1>3. CASE Step = "Policies"
  BY <1>1, <1>3, DeployedIs, ConfigIs, ContractsAre
<1>4. CASE Step = "ServiceMaci"
  <2>1. d = ServiceMaciContracts
    BY <1>1, <1>4, DeployedIs
  <2>2. \A i \in 1..8 : d[i] \in Ids
    BY <2>1, ServiceMaciIsLast
  <2>3. d \in Seq(Ids) /\ Len(d) = 8
    BY <2>1, <2>2, ServiceMaciIsLast, InSeq
  <2>4. \A i \in 1..8 : (d[i] = "MACI" <=> i = 8) /\ d[i] \in Contracts \ {"Policy"} /\ d[i] # "Poll"
    BY <2>1, ServiceMaciIsLast
  <2>5. \A i \in 1..Len(d) : OfStep(d[i]) /\ d[i] # "Poll"
    BY <1>4, <2>3, <2>4
  <2>6. d # <<>> /\ \A i \in 1..Len(d) : d[i] = "MACI" <=> i = Len(d)
    BY <2>3, <2>4
  <2> QED
    BY <1>4, <2>3, <2>5, <2>6
<1>5. CASE Step \in PollSteps
  <2>1. d = <<>>
    BY <1>1, <1>5, DeployedIs
  <2>2. d \in Seq(Ids) /\ Len(d) = 0
    BY <2>1
  <2> QED
    BY <1>5, <2>1, <2>2
<1>6. CASE Step = "Poseidon"
  <2>1. d = <<"PoseidonT3", "PoseidonT4", "PoseidonT5", "PoseidonT6">>
    BY <1>1, <1>6, DeployedIs DEF Poseidons
  <2>2. d \in Seq(Ids) /\ Len(d) = 4
    <3>1. Len(d) = 4 /\ IsSeq(d)
      BY <2>1 DEF IsSeq
    <3>2. \A i \in 1..4 : d[i] \in Ids
      BY <2>1, ContractsAre DEF Ids
    <3> QED
      BY <3>1, <3>2, InSeq
  <2>3. \A i \in 1..4 : d[i] \in {"PoseidonT3", "PoseidonT4", "PoseidonT5", "PoseidonT6"}
    BY <2>1
  <2>4. \A i \in 1..4 : d[i] \in Contracts \ {"Policy"} /\ d[i] # "MACI" /\ d[i] # "Poll"
    BY <2>3, ContractsAre
  <2> QED
    BY <1>6, <2>2, <2>4
<1>7. CASE Step = "ServiceRegistry"
  <2>1. d = <<"Verifier", "VerifyingKeysRegistry">>
    BY <1>1, <1>7, DeployedIs
  <2>2. d \in Seq(Ids) /\ Len(d) = 2
    <3>1. Len(d) = 2 /\ IsSeq(d)
      BY <2>1 DEF IsSeq
    <3>2. \A i \in 1..2 : d[i] \in Ids
      BY <2>1, ContractsAre DEF Ids
    <3> QED
      BY <3>1, <3>2, InSeq
  <2>3. \A i \in 1..2 : d[i] \in Contracts \ {"Policy"} /\ d[i] # "MACI" /\ d[i] # "Poll"
    BY <2>1, ContractsAre
  <2> QED
    BY <1>7, <2>2, <2>3
<1>8. CASE Step = "ServiceProxy"
  <2>1. d = <<"InitialVoiceCreditProxyFactory", "InitialVoiceCreditProxy">>
    BY <1>1, <1>8, DeployedIs
  <2>2. d \in Seq(Ids) /\ Len(d) = 2
    <3>1. Len(d) = 2 /\ IsSeq(d)
      BY <2>1 DEF IsSeq
    <3>2. \A i \in 1..2 : d[i] \in Ids
      BY <2>1, ContractsAre DEF Ids
    <3> QED
      BY <3>1, <3>2, InSeq
  <2>3. \A i \in 1..2 : d[i] \in Contracts \ {"Policy"} /\ d[i] # "MACI" /\ d[i] # "Poll"
    BY <2>1, ContractsAre
  <2> QED
    BY <1>8, <2>2, <2>3
<1>9. CASE Step \notin {"Policies", "PollPolicy", "ServicePolicy", "Poseidon", "ServiceRegistry", "ServiceMaci",
                        "ServiceProxy", "Poll", "ServicePoll"}
  <2>1. d = <<Step>>
    BY <1>1, <1>9, DeployedIs
  <2>2. Step \in Contracts \ {"Policy"} /\ Step \in Ids
    BY <1>9, StepIs DEF Ids
  <2>3. d \in Seq(Ids) /\ Len(d) = 1 /\ d[1] = Step
    BY <2>1, <2>2
  <2> QED
    BY <1>9, <2>2, <2>3
<1> QED
  BY <1>2, <1>3, <1>4, <1>5, <1>6, <1>7, <1>8, <1>9

-----------------------------------------------------------------------------
(* What the operators of the model return. *)

LEMMA Greatest ==
    ASSUME NEW n \in Nat, NEW S \in SUBSET (0..n), S # {}
    PROVE  Max(S) \in S /\ \A x \in S : x <= Max(S)
<1> DEFINE LessThan == {pair \in Nat \X Nat : pair[1] < pair[2]}
           T == {n - x : x \in S}
<1>1. IsWellFoundedOn(LessThan, Nat)
  <2>1. LessThan = OpToRel(<, Nat)
    BY DEF OpToRel
  <2> QED
    BY <2>1, NatLessThanWellFounded
<1>2. T \subseteq Nat /\ T # {}
  <2>1. \A x \in S : x \in 0..n /\ n - x \in Nat
    OBVIOUS
  <2>2. PICK x \in S : TRUE
    OBVIOUS
  <2> QED
    BY <2>1, <2>2
<1>3. PICK t \in T : \A m \in T : ~(<<m, t>> \in LessThan)
  <2> HIDE DEF LessThan, T
  <2> QED
    BY <1>1, <1>2, WFMin
<1>4. PICK x \in S : t = n - x
  BY DEF T
<1>5. ASSUME NEW y \in S
      PROVE  x >= y
  <2>1. n - y \in T /\ n - y \in Nat /\ n - x \in Nat
    OBVIOUS
  <2>2. ~(n - y < n - x)
    BY <1>3, <1>4, <2>1
  <2> QED
    BY <2>2
<1>6. Max(S) \in S /\ \A y \in S : Max(S) >= y
  BY <1>5 DEF Max
<1> QED
  BY <1>6

LEMMA RegisteredIs ==
    ASSUME ChainInv, NEW p, Registered(p)
    PROVE  /\ p \in Paths /\ GetAddress(p) \in instances /\ GetAddress(p) \in 1..Len(chain)
           /\ chain[GetAddress(p)].id = p[1] /\ WellBound(GetAddress(p)) /\ WellMade(GetAddress(p))
  BY DEF ChainInv, Registered, GetAddress

LEMMA NextPollIdIs ==
    ASSUME ChainInv
    PROVE  /\ NextPollId \in Nat
           /\ Registered(Path("MACI")) =>
                 /\ Maci \in instances /\ Maci \in 1..Len(chain)
                 /\ NextPollId = Len(chain[Maci].polls) /\ DOMAIN chain[Maci].polls = 1..NextPollId
<1>1. CASE Registered(Path("MACI"))
  <2>1. Maci \in instances /\ Maci \in 1..Len(chain) /\ WellMade(Maci)
    BY <1>1, RegisteredIs DEF Maci
  <2>2. NextPollId = Len(chain[Maci].polls) /\ chain[Maci].polls \in Seq(Nat)
    BY <1>1, <2>1 DEF NextPollId, Maci, WellMade
  <2>3. NextPollId \in Nat /\ DOMAIN chain[Maci].polls = 1..NextPollId
    BY <2>2, SeqIs, LenProperties
  <2> QED
    BY <2>1, <2>2, <2>3
<1>2. CASE ~Registered(Path("MACI"))
  BY <1>2 DEF NextPollId
<1> QED
  BY <1>1, <1>2

(* What is remembered is a beginning of the chain that has all the file refers to. *)
LEMMA RememberedIs ==
    ASSUME ChainInv
    PROVE  \E n \in 0..Len(chain) :
              /\ Remembered(instances) = SubSeq(chain, 1, n)
              /\ \A a \in instances :
                    /\ a <= n /\ chain[a].target <= n
                    /\ \A i \in DOMAIN chain[a].polls : chain[a].polls[i] + 2 <= n
<1> DEFINE S == Reachable(instances)
           n == Max(S)
<1>1. Len(chain) \in Nat
  BY DEF ChainInv, IsSeq
<1>2. S \subseteq 0..Len(chain)
  <2> SUFFICES ASSUME NEW x \in S
               PROVE  x \in 0..Len(chain)
    OBVIOUS
  <2>1. CASE x = 0
    BY <1>1, <2>1
  <2>2. CASE x \in instances
    BY <2>2 DEF ChainInv
  <2>3. CASE \E a \in instances : x = chain[a].target
    BY <2>3 DEF ChainInv, WellBound
  <2>4. CASE \E a \in instances : x \in {poll + 2 : poll \in Range(chain[a].polls)}
    <3>a. PICK a \in instances : x \in {poll + 2 : poll \in Range(chain[a].polls)}
      BY <2>4
    <3>1. PICK poll \in Range(chain[a].polls) : x = poll + 2
      BY <3>a
    <3>2. PICK i \in DOMAIN chain[a].polls : poll = chain[a].polls[i]
      BY <3>1 DEF Range
    <3>3. PollAt(poll)
      BY <3>2 DEF ChainInv, WellBound
    <3> QED
      BY <1>1, <3>1, <3>3 DEF PollAt
  <2> QED
    BY <2>1, <2>2, <2>3, <2>4 DEF Reachable
<1>3. S # {}
  BY DEF Reachable
<1> HIDE DEF S
<1>4. n \in S /\ \A x \in S : x <= n
  BY <1>1, <1>2, <1>3, Greatest
<1> HIDE DEF n
<1>5. \A a \in instances : a \in S /\ chain[a].target \in S
  BY DEF S, Reachable
<1>6. ASSUME NEW a \in instances, NEW i \in DOMAIN chain[a].polls
      PROVE  chain[a].polls[i] + 2 \in S
  <2>1. chain[a].polls[i] \in Range(chain[a].polls)
    BY DEF Range
  <2>2. chain[a].polls[i] + 2 \in {poll + 2 : poll \in Range(chain[a].polls)}
    BY <2>1
  <2> QED
    BY <2>2 DEF S, Reachable
<1>7. Remembered(instances) = SubSeq(chain, 1, n)
  BY DEF Remembered, n, S
<1>8. n \in 0..Len(chain)
  BY <1>2, <1>4
<1> QED
  BY <1>4, <1>5, <1>6, <1>7, <1>8

(* Putting entries into the file changes what is at their paths and below. *)
LEMMA PutIs ==
    ASSUME \A p \in DOMAIN named : p \in Paths,
           NEW made, \A m \in made : m.path \in Paths,
           NEW t, t = Put(made)
    PROVE  /\ \A p \in DOMAIN t :
                 \/ \E m \in made : m.path = p /\ t[p].address = m.address
                 \/ /\ p \in DOMAIN named /\ t[p] = named[p]
                    /\ \A m \in made : ~IsPrefix(m.path, p) /\ m.path # p
           /\ \A m \in made : m.path \in DOMAIN t
           /\ \A p \in DOMAIN named :
                 (\A m \in made : m.path[1] # p[1]) => p \in DOMAIN t /\ t[p] = named[p]
           /\ \A p \in DOMAIN named : Len(p) = 1 => p \in DOMAIN t
<1> DEFINE paths == {m.path : m \in made}
           Of(path) == CHOOSE m \in made : m.path = path
           Count(path) == IF Registered(path) THEN named[path].count ELSE 0
           D == {q \in DOMAIN named : \A path \in paths : ~IsPrefix(path, q)} \cup paths
<1>1. t = [p \in D |-> IF p \in paths THEN [address |-> Of(p).address, count |-> Count(p) + 1] ELSE named[p]]
  BY DEF Put
<1>2. \A p \in paths : Of(p) \in made /\ Of(p).path = p
  OBVIOUS
<1> HIDE DEF Of, Count
<1>3. DOMAIN t = D
  BY <1>1
<1>4. ASSUME NEW p \in paths
      PROVE  t[p].address = Of(p).address
  BY <1>1
<1>5. ASSUME NEW p \in D, p \notin paths
      PROVE  t[p] = named[p] /\ p \in DOMAIN named /\ \A path \in paths : ~IsPrefix(path, p)
  BY <1>1, <1>5
<1>6. ASSUME NEW p \in DOMAIN named, \A m \in made : m.path[1] # p[1]
      PROVE  p \in D /\ p \notin paths
  <2>1. \A m \in made : ~IsPrefix(m.path, p) /\ m.path # p
    BY <1>6, Below
  <2> QED
    BY <2>1
<1>7. \A m \in made : m.path \in paths
  OBVIOUS
<1>8. ASSUME NEW p \in DOMAIN t
      PROVE  \/ \E m \in made : m.path = p /\ t[p].address = m.address
             \/ /\ p \in DOMAIN named /\ t[p] = named[p]
                /\ \A m \in made : ~IsPrefix(m.path, p) /\ m.path # p
  <2>1. CASE p \in paths
    BY <1>2, <1>4, <2>1
  <2>2. CASE p \notin paths
    BY <1>3, <1>5, <1>7, <2>2
  <2> QED
    BY <2>1, <2>2
<1>9. \A m \in made : m.path \in DOMAIN t
  BY <1>3, <1>7
<1>10. ASSUME NEW p \in DOMAIN named, Len(p) = 1
       PROVE  p \in D
  <2>1. ASSUME NEW m \in made, IsPrefix(m.path, p)
        PROVE  m.path = p
    <3>1. m.path[1] = p[1] /\ (Len(m.path) = 2 => m.path = p)
      BY <2>1, Below
    <3>2. p = <<p[1]>> /\ (Len(m.path) = 2 \/ m.path = <<m.path[1]>>)
      BY <1>10, PathIs
    <3> QED
      BY <3>1, <3>2
  <2>2. \A path \in paths : IsPrefix(path, p) => p \in paths
    BY <2>1
  <2> QED
    BY <2>2
<1> QED
  BY <1>3, <1>5, <1>6, <1>8, <1>9, <1>10

WithPollOf(d, c, poll) == d = [c EXCEPT !.polls = Append(@, poll)]
WithNextPoll(d, c, maci) == WithPollOf(d, c[maci], Len(c) + 1)
IsWithPoll(t, c, maci, policy, cfg) == t = WithPoll(c, maci, policy, cfg)

LEMMA WithPollIs ==
    ASSUME NEW c, IsSeq(c), NEW maci \in 1..Len(c), NEW policy, NEW cfg,
           NEW t, IsWithPoll(t, c, maci, policy, cfg),
           NEW d, WithNextPoll(d, c, maci)
    PROVE  /\ IsSeq(t) /\ Len(t) = Len(c) + 3 /\ DOMAIN t = 1..Len(t)
           /\ \A a \in 1..Len(c) : t[a] = IF a = maci THEN d ELSE c[a]
           /\ t[Len(c) + 1] = PollContracts(policy, cfg)[1]
           /\ t[Len(c) + 2] = Contract("MessageProcessor") /\ t[Len(c) + 3] = Contract("Tally")
<1>2. PICK v : v = [c EXCEPT ![maci] = d]
  OBVIOUS
<1>3. PICK w : w = PollContracts(policy, cfg)
  OBVIOUS
<1>4. IsConcat(t, v, w)
  BY <1>2, <1>3 DEF IsWithPoll, WithPoll, WithPollOf, WithNextPoll, IsConcat
<1>5. IsSeq(w) /\ Len(w) = 3 /\ w[2] = Contract("MessageProcessor") /\ w[3] = Contract("Tally")
  BY <1>3 DEF PollContracts, IsSeq
<1>6. IsChanged(v, c, maci, d)
  BY <1>2 DEF IsChanged
<1>7. /\ IsSeq(v) /\ Len(v) = Len(c)
      /\ \A a \in 1..Len(c) : v[a] = IF a = maci THEN d ELSE c[a]
  BY <1>6, ChangedIs
<1>8. /\ IsSeq(t) /\ Len(t) = Len(v) + Len(w) /\ DOMAIN t = 1..Len(t)
      /\ \A i \in 1..Len(v) : t[i] = v[i]
      /\ \A i \in 1..Len(w) : t[Len(v) + i] = w[i]
  <2>1. IsSeq(v) /\ IsSeq(w)
    BY <1>5, <1>7
  <2> QED
    BY <1>4, <2>1, ConcatIs
<1>9. t[Len(v) + 1] = w[1] /\ t[Len(v) + 2] = w[2] /\ t[Len(v) + 3] = w[3]
  BY <1>5, <1>8
<1>10. \A a \in 1..Len(c) : t[a] = IF a = maci THEN d ELSE c[a]
  BY <1>7, <1>8
<1>11. Len(t) = Len(c) + 3
  BY <1>5, <1>7, <1>8
<1>12. t[Len(c) + 1] = w[1] /\ t[Len(c) + 2] = w[2] /\ t[Len(c) + 3] = w[3]
  BY <1>7, <1>9
<1>13. t[Len(c) + 1] = PollContracts(policy, cfg)[1]
  BY <1>3, <1>12
<1> QED
  BY <1>5, <1>8, <1>10, <1>11, <1>12, <1>13

-----------------------------------------------------------------------------
(* What happens to the chain, and what stays true. *)

LEMMA ChainDomain ==
    ASSUME ChainInv
    PROVE  DOMAIN chain = 1..Len(chain) /\ Len(chain) \in Nat
  BY DEF ChainInv, IsSeq

(* The chain falls back to what is remembered. *)
LEMMA Shorter ==
    ASSUME ChainInv, chain' = Remembered(instances), UNCHANGED file
    PROVE  /\ ChainInv' /\ NextPollId' = NextPollId
           /\ Len(chain') \in 0..Len(chain) /\ DOMAIN chain' = 1..Len(chain')
           /\ \A a \in 1..Len(chain') : chain'[a] = chain[a]
<1>1. PICK n \in 0..Len(chain) :
         /\ Remembered(instances) = SubSeq(chain, 1, n)
         /\ \A a \in instances :
               /\ a <= n /\ chain[a].target <= n
               /\ \A i \in DOMAIN chain[a].polls : chain[a].polls[i] + 2 <= n
  BY RememberedIs
<1>2. IsSeq(chain) /\ Len(chain) \in Nat
  BY DEF ChainInv, IsSeq
<1>3. IsBeginning(chain', chain, n)
  BY <1>1 DEF IsBeginning
<1>4. /\ IsSeq(chain') /\ Len(chain') = n /\ DOMAIN chain' = 1..n
      /\ \A i \in 1..n : chain'[i] = chain[i]
  BY <1>2, <1>3, BeginningIs
<1>5. named' = named /\ instances' = instances
  BY DEF file
<1>6. instances \subseteq 1..n
  BY <1>1 DEF ChainInv
<1>7. \A a \in 1..n : a \in 1..Len(chain) /\ chain'[a] = chain[a]
  BY <1>2, <1>4
<1>8. ChainInv'
  <2>1. \A a \in 1..Len(chain') : WellMade(a)'
    BY <1>4, <1>5, <1>7, ZenonT(60) DEF ChainInv, WellMade, IsContract
  <2>2. ASSUME NEW a \in instances
        PROVE  WellBound(a)'
    <3>1. a \in 1..n /\ chain'[a] = chain[a]
      BY <1>6, <1>7
    <3>2. chain'[a].target \in 0..Len(chain')
      BY <1>1, <1>4, <3>1 DEF ChainInv, WellBound
    <3>3. ASSUME NEW i \in DOMAIN chain[a].polls, NEW poll, poll = chain[a].polls[i]
          PROVE  PollAt(poll)'
      <4>1. PollAt(poll) /\ poll + 2 <= n
        BY <1>1, <3>3 DEF ChainInv, WellBound
      <4>2. poll \in 1..n /\ poll + 1 \in 1..n /\ poll + 2 \in 1..n
        BY <4>1 DEF PollAt
      <4>3. chain'[poll] = chain[poll] /\ chain'[poll + 1] = chain[poll + 1] /\ chain'[poll + 2] = chain[poll + 2]
        BY <1>7, <4>2
      <4> QED
        BY <1>4, <4>1, <4>2, <4>3 DEF PollAt
    <3> QED
      BY <3>1, <3>2, <3>3 DEF WellBound
  <2>3. \A p \in DOMAIN named' :
           p \in Paths /\ named'[p].address \in instances' /\ chain'[named'[p].address].id = p[1]
    BY <1>5, <1>6, <1>7 DEF ChainInv
  <2> QED
    BY <1>4, <1>5, <1>6, <2>1, <2>2, <2>3 DEF ChainInv
<1>9. NextPollId' = NextPollId
  <2>1. Registered(Path("MACI"))' <=> Registered(Path("MACI"))
    BY <1>5 DEF Registered, Path
  <2>2. CASE Registered(Path("MACI"))
    <3>1. GetAddress(Path("MACI")) \in instances
      BY <2>2, RegisteredIs
    <3>2. GetAddress(Path("MACI"))' = GetAddress(Path("MACI"))
      BY <1>5 DEF GetAddress, Path
    <3> QED
      BY <1>6, <1>7, <2>1, <2>2, <3>1, <3>2 DEF NextPollId
  <2> QED
    BY <2>1, <2>2 DEF NextPollId
<1> QED
  BY <1>4, <1>7, <1>8, <1>9

LEMMA ShorterPolicies ==
    ASSUME ChainInv, PolicyInv, chain' = Remembered(instances), run' = NoRun, UNCHANGED <<file, user, finished>>
    PROVE  PolicyInv'
<1>1. /\ ChainInv' /\ NextPollId' = NextPollId
      /\ Len(chain') \in 0..Len(chain) /\ DOMAIN chain' = 1..Len(chain')
      /\ \A a \in 1..Len(chain') : chain'[a] = chain[a]
  BY Shorter
<1>2. Len(chain) \in Nat /\ DOMAIN chain = 1..Len(chain)
  BY ChainDomain
<1>3. \A a \in 1..Len(chain') : a \in 1..Len(chain) /\ chain'[a] = chain[a]
  BY <1>1, <1>2
<1>4. named' = named /\ instances' = instances /\ user' = user /\ finished' = finished
  BY DEF file
<1>5. OnePollPerPolicy'
  BY <1>1, <1>2, <1>3 DEF PolicyInv, OnePollPerPolicy, OfKind
<1>6. \A x : (Unused(x) => Unused(x)') /\ (GuardsNoPoll(x) => GuardsNoPoll(x)')
  BY <1>3 DEF Unused, GuardsNoPoll
<1>7. ASSUME NEW p \in DOMAIN named, OfPolicy(p), Len(p) = 2
      PROVE  /\ user' = "tasks" /\ Has("full")' /\ Registered(Path("MACI"))'
             /\ ~InUse(p)' => Unused(named[p].address)'
  <2>1. /\ user = "tasks" /\ Has("full") /\ Registered(Path("MACI"))
        /\ ~InUse(p) => Unused(named[p].address)
    BY <1>7 DEF PolicyInv
  <2>2. ~InUse(p)' => ~InUse(p)
    BY <1>1 DEF InUse, At, Idle, NoRun
  <2> QED
    BY <1>4, <1>6, <2>1, <2>2 DEF Has, Registered, Path
<1> QED
  BY <1>4, <1>5, <1>6, <1>7 DEF PolicyInv, OfPolicy

(* What matters of the chain stays as it is. *)
Alike ==
    /\ IsSeq(chain') /\ Len(chain') = Len(chain)
    /\ \A a \in 1..Len(chain) :
          chain'[a].id = chain[a].id /\ chain'[a].policy = chain[a].policy /\ chain'[a].polls = chain[a].polls

LEMMA AlikeIs ==
    ASSUME ChainInv, Alike, UNCHANGED file
    PROVE  /\ NextPollId' = NextPollId /\ DOMAIN chain' = 1..Len(chain)
           /\ \A x : (Unused(x)' <=> Unused(x)) /\ (GuardsNoPoll(x)' <=> GuardsNoPoll(x)) /\ (Fresh(x)' <=> Fresh(x))
           /\ \A p : (Registered(p)' <=> Registered(p)) /\ GetAddress(p)' = GetAddress(p)
<1>1. IsSeq(chain') /\ Len(chain') = Len(chain) /\ DOMAIN chain' = 1..Len(chain)
  BY DEF Alike, IsSeq
<1>2. named' = named /\ instances' = instances
  BY DEF file
<1>3. \A x : (Unused(x)' <=> Unused(x)) /\ (GuardsNoPoll(x)' <=> GuardsNoPoll(x))
  BY <1>1 DEF Unused, GuardsNoPoll, Alike
<1>4. \A x : Fresh(x)' <=> Fresh(x)
  BY <1>2, <1>3 DEF Fresh
<1>5. \A p : (Registered(p)' <=> Registered(p)) /\ GetAddress(p)' = GetAddress(p)
  BY <1>2 DEF Registered, GetAddress
<1>6. NextPollId' = NextPollId
  <2>1. (Registered(Path("MACI"))' <=> Registered(Path("MACI"))) /\ GetAddress(Path("MACI"))' = GetAddress(Path("MACI"))
    BY <1>2 DEF Registered, GetAddress, Path
  <2>2. Registered(Path("MACI")) => GetAddress(Path("MACI")) \in 1..Len(chain)
    BY RegisteredIs
  <2> QED
    BY <2>1, <2>2 DEF NextPollId, Alike
<1> QED
  BY <1>1, <1>3, <1>4, <1>5, <1>6

LEMMA AlikePolicies ==
    ASSUME ChainInv, PolicyInv, Alike, UNCHANGED <<file, user>>, Has("full") => Has("full")',
           At({"Poll"}, {"call"})' =>
               run'.pollId = NextPollId \/ (At({"Poll"}, {"call"}) /\ run'.pollId = run.pollId)
    PROVE  PolicyInv'
<1>1. /\ NextPollId' = NextPollId /\ DOMAIN chain' = 1..Len(chain)
      /\ \A x : (Unused(x)' <=> Unused(x)) /\ (GuardsNoPoll(x)' <=> GuardsNoPoll(x))
      /\ \A p : (Registered(p)' <=> Registered(p)) /\ GetAddress(p)' = GetAddress(p)
  BY AlikeIs
<1>2. Len(chain) \in Nat /\ DOMAIN chain = 1..Len(chain) /\ NextPollId \in Nat
  BY ChainDomain, NextPollIdIs
<1>3. named' = named /\ instances' = instances /\ user' = user
  BY DEF file
<1>4. OnePollPerPolicy'
  BY <1>1, <1>2 DEF PolicyInv, OnePollPerPolicy, OfKind, Alike
<1>5. ASSUME NEW p \in DOMAIN named, OfPolicy(p), Len(p) = 2
      PROVE  /\ user' = "tasks" /\ Has("full")' /\ Registered(Path("MACI"))'
             /\ ~InUse(p)' => Unused(named[p].address)'
  <2>1. /\ user = "tasks" /\ Has("full") /\ Registered(Path("MACI"))
        /\ ~InUse(p) => Unused(named[p].address)
    BY <1>5 DEF PolicyInv
  <2>2. p[2] \in Nat
    BY <1>5, PathIs DEF ChainInv
  <2>3. ~InUse(p)' => ~InUse(p)
    BY <1>1, <1>2, <2>2 DEF InUse
  <2>4. Registered(Path("MACI"))'
    BY <1>3, <2>1 DEF Registered, Path
  <2> QED
    BY <1>1, <1>3, <2>1, <2>3, <2>4
<1> QED
  BY <1>1, <1>3, <1>4, <1>5 DEF PolicyInv, OfPolicy

LEMMA SameIsAlike ==
    ASSUME ChainInv, chain' = chain
    PROVE  Alike
  BY DEF ChainInv, Alike

LEMMA SameChain ==
    ASSUME ChainInv, UNCHANGED <<chain, file>>
    PROVE  ChainInv'
  BY DEF ChainInv, file, WellMade, WellBound, PollAt, IsContract

LEMMA AlikeChain ==
    ASSUME ChainInv, Alike, UNCHANGED file,
           \A a \in 1..Len(chain) :
              /\ IsContract(chain'[a])
              /\ \/ chain'[a].target = chain[a].target
                 \/ a \in instances /\ chain'[a].target \in 1..Len(chain)
    PROVE  ChainInv'
<1>1. named' = named /\ instances' = instances
  BY DEF file
<1>2. \A a \in 1..Len(chain') : WellMade(a)'
  BY <1>1 DEF ChainInv, Alike, WellMade, IsContract
<1>3. Len(chain) \in Nat
  BY ChainDomain
<1>4. \A a : PollAt(a) => PollAt(a)'
  BY <1>3 DEF PollAt, Alike
<1>5. ASSUME NEW a \in instances
      PROVE  WellBound(a)'
  <2>1. a \in 1..Len(chain) /\ WellBound(a)
    BY DEF ChainInv
  <2>2. chain'[a].target \in 0..Len(chain')
    BY <1>3, <2>1 DEF WellBound, Alike
  <2> QED
    BY <1>4, <2>1, <2>2 DEF WellBound, Alike
<1>6. \A p \in DOMAIN named' :
         p \in Paths /\ named'[p].address \in instances' /\ chain'[named'[p].address].id = p[1]
  BY <1>1 DEF ChainInv, Alike
<1> QED
  BY <1>1, <1>2, <1>5, <1>6 DEF ChainInv, Alike

LEMMA Targeted ==
    ASSUME ChainInv, UNCHANGED file, NEW policy \in instances, NEW guarded \in 1..Len(chain),
           chain' = Bound(chain, policy, guarded)
    PROVE  ChainInv' /\ Alike
<1>1. IsSeq(chain) /\ policy \in 1..Len(chain) /\ IsContract(chain[policy])
  BY DEF ChainInv, WellMade
<1>2. PICK c : c = [chain[policy] EXCEPT !.target = guarded]
  OBVIOUS
<1>3. IsChanged(chain', chain, policy, c)
  BY <1>2 DEF Bound, IsChanged
<1>4. /\ IsSeq(chain') /\ Len(chain') = Len(chain)
      /\ \A a \in 1..Len(chain) : chain'[a] = IF a = policy THEN c ELSE chain[a]
  BY <1>1, <1>3, ChangedIs
<1>5. /\ IsContract(c) /\ c.id = chain[policy].id /\ c.policy = chain[policy].policy
      /\ c.polls = chain[policy].polls /\ c.target = guarded
  BY <1>1, <1>2 DEF IsContract
<1>6. Alike
  BY <1>4, <1>5 DEF Alike
<1>7. \A a \in 1..Len(chain) :
         /\ IsContract(chain'[a])
         /\ \/ chain'[a].target = chain[a].target
            \/ a \in instances /\ chain'[a].target \in 1..Len(chain)
  BY <1>4, <1>5 DEF ChainInv, WellMade
<1> QED
  BY <1>6, <1>7, AlikeChain

LEMMA Rekeyed ==
    ASSUME ChainInv, UNCHANGED file, NEW registry, NEW keys, chain' = [chain EXCEPT ![registry].keys = keys]
    PROVE  ChainInv' /\ Alike
<1>1. IsSeq(chain) /\ DOMAIN chain = 1..Len(chain)
  BY ChainDomain DEF ChainInv
<1>2. PICK c : c = [chain[registry] EXCEPT !.keys = keys]
  OBVIOUS
<1>3. CASE registry \in 1..Len(chain)
  <2>1. IsContract(chain[registry])
    BY <1>3 DEF ChainInv, WellMade
  <2>2. IsChanged(chain', chain, registry, c)
    BY <1>2 DEF IsChanged
  <2>3. /\ IsSeq(chain') /\ Len(chain') = Len(chain)
        /\ \A a \in 1..Len(chain) : chain'[a] = IF a = registry THEN c ELSE chain[a]
    BY <1>1, <1>3, <2>2, ChangedIs
  <2>4. /\ IsContract(c) /\ c.id = chain[registry].id /\ c.policy = chain[registry].policy
        /\ c.polls = chain[registry].polls /\ c.target = chain[registry].target
    BY <1>2, <2>1 DEF IsContract
  <2>5. Alike
    BY <2>3, <2>4 DEF Alike
  <2>6. \A a \in 1..Len(chain) : IsContract(chain'[a]) /\ chain'[a].target = chain[a].target
    BY <2>3, <2>4 DEF ChainInv, WellMade
  <2> QED
    BY <2>5, <2>6, AlikeChain
<1>4. CASE registry \notin 1..Len(chain)
  <2>1. chain' = chain
    BY <1>1, <1>4 DEF IsSeq
  <2> QED
    BY <2>1, SameIsAlike, SameChain
<1> QED
  BY <1>3, <1>4

(* The chain grows: contracts at its end, polls of contracts of the file. *)
Longer ==
    /\ IsSeq(chain') /\ Len(chain) <= Len(chain')
    /\ \A a \in 1..Len(chain) :
          /\ chain'[a].id = chain[a].id /\ chain'[a].policy = chain[a].policy
          /\ Len(chain'[a].polls) \in Nat /\ Len(chain[a].polls) <= Len(chain'[a].polls)
New == (Len(chain) + 1)..Len(chain')

LEMMA LongerIs ==
    ASSUME ChainInv, Longer, UNCHANGED file
    PROVE  /\ NextPollId' \in Nat /\ NextPollId <= NextPollId'
           /\ Len(chain) \in Nat /\ Len(chain') \in Nat /\ DOMAIN chain' = 1..Len(chain')
           /\ \A a \in 1..Len(chain') : a \in 1..Len(chain) \/ a \in New
           /\ \A x : (\A a \in New : chain'[a].policy # x) =>
                 (Unused(x) => Unused(x)') /\ (GuardsNoPoll(x) => GuardsNoPoll(x)') /\ (Fresh(x) => Fresh(x)')
           /\ \A p : (Registered(p)' <=> Registered(p)) /\ GetAddress(p)' = GetAddress(p)
<1>1. Len(chain) \in Nat /\ Len(chain') \in Nat /\ DOMAIN chain' = 1..Len(chain')
  BY ChainDomain DEF Longer, IsSeq
<1>2. \A a \in 1..Len(chain') : a \in 1..Len(chain) \/ a \in New
  BY <1>1 DEF New
<1>3. named' = named /\ instances' = instances
  BY DEF file
<1>4. ASSUME NEW x, \A a \in New : chain'[a].policy # x
      PROVE  (Unused(x) => Unused(x)') /\ (GuardsNoPoll(x) => GuardsNoPoll(x)')
  BY <1>2, <1>4 DEF Unused, GuardsNoPoll, Longer
<1>5. \A x : (\A a \in New : chain'[a].policy # x) => (Fresh(x) => Fresh(x)')
  BY <1>3, <1>4 DEF Fresh
<1>6. \A p : (Registered(p)' <=> Registered(p)) /\ GetAddress(p)' = GetAddress(p)
  BY <1>3 DEF Registered, GetAddress
<1>7. NextPollId' \in Nat /\ NextPollId <= NextPollId'
  <2>1. (Registered(Path("MACI"))' <=> Registered(Path("MACI"))) /\ GetAddress(Path("MACI"))' = GetAddress(Path("MACI"))
    BY <1>3 DEF Registered, GetAddress, Path
  <2>2. Registered(Path("MACI")) => GetAddress(Path("MACI")) \in 1..Len(chain)
    BY RegisteredIs
  <2>3. NextPollId \in Nat
    BY NextPollIdIs
  <2> QED
    BY <2>1, <2>2, <2>3 DEF NextPollId, Longer
<1> QED
  BY <1>1, <1>2, <1>4, <1>5, <1>6, <1>7

LEMMA LongerChain ==
    ASSUME ChainInv, UNCHANGED file, IsSeq(chain'), Len(chain) <= Len(chain'),
           NEW maci, NEW poll,
           \A a \in 1..Len(chain) : a # maci => chain'[a] = chain[a],
           \/ maci \notin 1..Len(chain)
           \/ /\ maci \in instances /\ PollAt(poll)'
              /\ IsContract(chain'[maci])
              /\ chain'[maci].id = chain[maci].id /\ chain'[maci].policy = chain[maci].policy
              /\ chain'[maci].target = chain[maci].target /\ chain'[maci].polls = Append(chain[maci].polls, poll),
           \A a \in New : WellMade(a)'
    PROVE  ChainInv' /\ Longer
<1>1. Len(chain) \in Nat /\ Len(chain') \in Nat /\ DOMAIN chain' = 1..Len(chain')
  BY ChainDomain DEF IsSeq
<1>2. named' = named /\ instances' = instances
  BY DEF file
<1>3. \A a \in 1..Len(chain') : a \in 1..Len(chain) \/ a \in New
  BY <1>1 DEF New
<1>4. \A a \in 1..Len(chain) : a \in 1..Len(chain')
  BY <1>1
<1>5. maci \in instances => maci \in 1..Len(chain) /\ WellMade(maci) /\ WellBound(maci)
  BY DEF ChainInv
<1>6. \A x : PollAt(x) => PollAt(x)'
  BY <1>1 DEF PollAt
<1>7. CASE maci \notin instances
  <2>1. \A a \in 1..Len(chain) : chain'[a] = chain[a]
    BY <1>5, <1>7
  <2>2. Longer
    <3>1. \A a \in 1..Len(chain) : Len(chain[a].polls) \in Nat
      BY LenProperties DEF ChainInv, WellMade
    <3> QED
      BY <1>1, <2>1, <3>1 DEF Longer
  <2>3. \A a \in 1..Len(chain') : WellMade(a)'
    BY ZenonT(60), <1>2, <1>3, <2>1 DEF ChainInv, WellMade, IsContract
  <2>4. ASSUME NEW a \in instances
        PROVE  WellBound(a)'
    <3>1. a \in 1..Len(chain) /\ WellBound(a) /\ chain'[a] = chain[a]
      BY <2>1 DEF ChainInv
    <3> QED
      BY <1>1, <1>6, <3>1 DEF WellBound
  <2>5. \A p \in DOMAIN named' :
           p \in Paths /\ named'[p].address \in instances' /\ chain'[named'[p].address].id = p[1]
    BY <1>2, <2>1 DEF ChainInv
  <2>6. instances' \subseteq 1..Len(chain')
    BY <1>2, <1>4 DEF ChainInv
  <2> QED
    BY <1>2, <2>2, <2>3, <2>4, <2>5, <2>6 DEF ChainInv
<1>8. CASE maci \in instances
  <2>a. maci \in 1..Len(chain) /\ WellMade(maci) /\ WellBound(maci)
    BY <1>5, <1>8
  <2>1. \A a \in 1..Len(chain) : a # maci => chain'[a] = chain[a]
    OBVIOUS
  <2>2. /\ IsContract(chain'[maci])
        /\ chain'[maci].id = chain[maci].id /\ chain'[maci].policy = chain[maci].policy
        /\ chain'[maci].target = chain[maci].target /\ chain'[maci].polls = Append(chain[maci].polls, poll)
    BY <2>a, <1>8
  <2>3. PollAt(poll)' /\ poll \in Nat
    BY <2>a, <1>8 DEF PollAt
  <2>4. /\ chain'[maci].polls \in Seq(Nat) /\ Len(chain'[maci].polls) = Len(chain[maci].polls) + 1
        /\ \A i \in 1..Len(chain[maci].polls) : chain'[maci].polls[i] = chain[maci].polls[i]
        /\ chain'[maci].polls[Len(chain[maci].polls) + 1] = poll
    BY <2>a, <2>2, <2>3, AppendProperties DEF WellMade
  <2>5. Longer
    <3>1. \A a \in 1..Len(chain) : Len(chain[a].polls) \in Nat
      BY LenProperties DEF ChainInv, WellMade
    <3> QED
      BY SMTT(30), <1>1, <2>a, <2>1, <2>2, <2>4, <3>1 DEF Longer
  <2>6. WellMade(maci)'
    BY <1>2, <2>a, <2>2, <2>4 DEF WellMade
  <2>7. \A a \in 1..Len(chain') : WellMade(a)'
    BY ZenonT(60), <1>2, <1>3, <2>1, <2>6 DEF ChainInv, WellMade, IsContract
  <2>8. ASSUME NEW a \in instances, a # maci
        PROVE  WellBound(a)'
    <3>1. a \in 1..Len(chain) /\ WellBound(a) /\ chain'[a] = chain[a]
      BY <2>1, <2>8 DEF ChainInv
    <3> QED
      BY <1>1, <1>6, <3>1 DEF WellBound
  <2>9. WellBound(maci)'
    <3>1. chain'[maci].target \in 0..Len(chain')
      BY <1>1, <2>a, <2>2 DEF WellBound
    <3>2. DOMAIN chain[maci].polls = 1..Len(chain[maci].polls) /\ Len(chain[maci].polls) \in Nat
      BY <2>a, SeqIs, LenProperties DEF WellMade
    <3>3. ASSUME NEW i \in DOMAIN chain'[maci].polls, NEW x, x = chain'[maci].polls[i]
          PROVE  PollAt(x)'
      <4>1. i \in 1..(Len(chain[maci].polls) + 1)
        BY <2>4, SeqIs
      <4>2. CASE i \in 1..Len(chain[maci].polls)
        BY <2>a, <1>6, <2>4, <3>2, <3>3, <4>2 DEF WellBound
      <4>3. CASE i = Len(chain[maci].polls) + 1
        BY <2>3, <2>4, <3>3, <4>3
      <4> QED
        BY <3>2, <4>1, <4>2, <4>3
    <3> QED
      BY <3>1, <3>3 DEF WellBound
  <2>10. \A p \in DOMAIN named' :
            p \in Paths /\ named'[p].address \in instances' /\ chain'[named'[p].address].id = p[1]
    BY <1>2, <2>1, <2>2 DEF ChainInv
  <2>11. instances' \subseteq 1..Len(chain')
    BY <1>2, <1>4 DEF ChainInv
  <2> QED
    BY <1>2, <2>5, <2>7, <2>8, <2>9, <2>10, <2>11 DEF ChainInv
<1> QED
  BY <1>7, <1>8

(* One contract with a policy joins the chain. *)
LEMMA LongerPolicies ==
    ASSUME ChainInv, PolicyInv, Longer, UNCHANGED <<file, user, finished>>,
           At({"Poll"}, {"call"})' => At({"Poll"}, {"call"}) /\ run'.pollId = run.pollId,
           NEW guarded \in New, NEW policy, chain'[guarded].policy = policy,
           \A a \in New : a # guarded => chain'[a].policy = 0 /\ chain'[a].id # "Poll",
           IF chain'[guarded].id = "Poll" THEN Unused(policy) /\ policy # 0 ELSE GuardsNoPoll(policy),
           \A p \in DOMAIN named : OfPolicy(p) /\ named[p].address = policy =>
              /\ Len(p) = 2 => InUse(p)'
              /\ Len(p) = 1 /\ user = "tasks" => chain'[guarded].id # "Poll"
    PROVE  PolicyInv'
<1>1. /\ NextPollId' \in Nat /\ NextPollId <= NextPollId'
      /\ Len(chain) \in Nat /\ Len(chain') \in Nat /\ DOMAIN chain' = 1..Len(chain')
      /\ \A a \in 1..Len(chain') : a \in 1..Len(chain) \/ a \in New
      /\ \A x : (\A a \in New : chain'[a].policy # x) =>
            (Unused(x) => Unused(x)') /\ (GuardsNoPoll(x) => GuardsNoPoll(x)') /\ (Fresh(x) => Fresh(x)')
      /\ \A p : (Registered(p)' <=> Registered(p)) /\ GetAddress(p)' = GetAddress(p)
  BY LongerIs
<1>2. named' = named /\ instances' = instances /\ user' = user /\ finished' = finished
  BY DEF file
<1>3. DOMAIN chain = 1..Len(chain) /\ NextPollId \in Nat
  BY ChainDomain, NextPollIdIs
<1>4. \A a \in 1..Len(chain) :
         /\ chain'[a].id = chain[a].id /\ chain'[a].policy = chain[a].policy
         /\ chain[a].id = "Poll" => chain[a].policy # 0 /\ chain[a].policy # policy
  <2>1. GuardsNoPoll(policy)
    BY DEF Unused, GuardsNoPoll
  <2> QED
    BY <2>1 DEF ChainInv, WellMade, GuardsNoPoll, Longer
<1>5. OnePollPerPolicy'
  <2> SUFFICES ASSUME NEW poll \in 1..Len(chain'), chain'[poll].id = "Poll",
                      NEW a \in 1..Len(chain'), a # poll
               PROVE  chain'[a].policy # chain'[poll].policy
    BY <1>1 DEF OnePollPerPolicy, OfKind
  <2>1. CASE poll \in 1..Len(chain) /\ a \in 1..Len(chain)
    BY <1>3, <1>4, <2>1, ZenonT(60) DEF PolicyInv, OnePollPerPolicy, OfKind
  <2>2. CASE poll \in 1..Len(chain) /\ a \in New
    BY <1>4, <2>2
  <2>3. CASE poll \in New
    <3>1. poll = guarded /\ Unused(policy) /\ policy # 0
      BY <2>3
    <3>2. CASE a \in 1..Len(chain)
      BY <1>4, <3>1, <3>2 DEF Unused
    <3>3. CASE a \in New
      BY <3>1, <3>3
    <3> QED
      BY <1>1, <3>2, <3>3
  <2> QED
    BY <1>1, <2>1, <2>2, <2>3
<1>6. \A p \in DOMAIN named : named[p].address \in 1..Len(chain)
  BY DEF ChainInv
<1>7. ASSUME NEW p \in DOMAIN named, OfPolicy(p), named[p].address # policy
      PROVE  \A a \in New : chain'[a].policy # named[p].address
  BY <1>6, <1>7
<1>8. ASSUME NEW p \in DOMAIN named, OfPolicy(p), Len(p) = 2
      PROVE  /\ user = "tasks" /\ Has("full")' /\ Registered(Path("MACI"))'
             /\ ~InUse(p)' => Unused(named[p].address)'
  <2>1. /\ user = "tasks" /\ Has("full") /\ Registered(Path("MACI"))
        /\ ~InUse(p) => Unused(named[p].address)
    BY <1>8 DEF PolicyInv
  <2>2. p[2] \in Nat
    BY <1>8, PathIs DEF ChainInv
  <2>3. ~InUse(p)' => ~InUse(p)
    BY <1>1, <1>3, <2>2 DEF InUse
  <2>4. PICK x : x = named[p].address
    OBVIOUS
  <2>5. CASE x = policy
    <3>1. InUse(p)'
      BY <1>8, <2>4, <2>5
    <3> QED
      BY <1>2, <2>1, <3>1 DEF Has, Registered, Path
  <2>6. CASE x # policy
    <3>1. Unused(x) => Unused(x)'
      BY <1>1, <1>7, <1>8, <2>4, <2>6
    <3>2. ~InUse(p)' => Unused(x)'
      BY <2>1, <2>3, <2>4, <3>1
    <3>3. Unused(x)' => Unused(named[p].address)'
      BY <1>2, <2>4 DEF Unused
    <3> QED
      BY <1>2, <2>1, <3>2, <3>3 DEF Has, Registered, Path
  <2> QED
    BY <2>5, <2>6
<1>9. ASSUME NEW p \in DOMAIN named, OfPolicy(p), Len(p) = 1, user = "tasks", NEW x, x = named[p].address
      PROVE  GuardsNoPoll(x)'
  <2>1. GuardsNoPoll(x)
    BY <1>9 DEF PolicyInv
  <2>2. CASE x = policy
    <3>1. chain'[guarded].id # "Poll"
      BY <1>9, <2>2
    <3>2. \A a \in New : chain'[a].id # "Poll"
      BY <3>1
    <3> QED
      BY <1>1, <1>4, <2>1, <3>2 DEF GuardsNoPoll
  <2>3. CASE x # policy
    BY <1>1, <1>7, <1>9, <2>1, <2>3
  <2> QED
    BY <2>2, <2>3
<1>10. \A p \in DOMAIN named : OfPolicy(p) /\ Len(p) = 1 /\ user = "tasks" => GuardsNoPoll(named[p].address)'
  <2> SUFFICES ASSUME NEW p \in DOMAIN named, OfPolicy(p), Len(p) = 1, user = "tasks"
               PROVE  GuardsNoPoll(named[p].address)'
    OBVIOUS
  <2>1. PICK x : x = named[p].address
    OBVIOUS
  <2> QED
    BY <1>2, <1>9, <2>1 DEF GuardsNoPoll
<1> QED
  BY <1>2, <1>5, <1>8, <1>10 DEF PolicyInv, OfPolicy

LEMMA ContractIs ==
    ASSUME NEW id, NEW c, c = Contract(id)
    PROVE  IsContract(c) /\ c.id = id /\ c.policy = 0 /\ c.target = 0 /\ c.polls = <<>>
  BY DEF Contract, IsContract

LEMMA AppendChain ==
    ASSUME ChainInv, UNCHANGED file, NEW c, IsContract(c), c.policy \in 0..Len(chain),
           c.polls = <<>>, c.target = 0, c.id # "Poll", chain' = Append(chain, c)
    PROVE  /\ ChainInv' /\ Longer
           /\ Len(chain') = Len(chain) + 1 /\ New = {Len(chain) + 1} /\ chain'[Len(chain) + 1] = c
<1>1. IsSeq(chain) /\ Len(chain) \in Nat
  BY ChainDomain DEF ChainInv
<1>2. IsAppend(chain', chain, c)
  BY DEF IsAppend
<1>3. /\ IsSeq(chain') /\ Len(chain') = Len(chain) + 1
      /\ chain'[Len(chain) + 1] = c
      /\ \A i \in 1..Len(chain) : chain'[i] = chain[i]
  BY <1>1, <1>2, AppendIs
<1>4. New = {Len(chain) + 1}
  BY <1>1, <1>3 DEF New
<1>5. ASSUME NEW n \in New
      PROVE  WellMade(n)'
  <2>1. n = Len(chain) + 1 /\ chain'[n] = c
    BY <1>3, <1>4
  <2>2. c.policy \in 0..(n - 1) /\ c.polls \in Seq(Nat)
    BY <1>1, <2>1
  <2> QED
    BY <2>1, <2>2 DEF WellMade, IsContract
<1>6. ChainInv' /\ Longer
  <2>1. PICK n : n = 0
    OBVIOUS
  <2>2. n \notin 1..Len(chain)
    BY <1>1, <2>1
  <2>3. Len(chain) <= Len(chain')
    BY <1>1, <1>3
  <2> QED
    BY <1>3, <1>5, <2>2, <2>3, LongerChain
<1> QED
  BY <1>3, <1>4, <1>6

(* A poll joins the chain, after a policy of its own or none. *)
LEMMA NewPoll ==
    ASSUME ChainInv, UNCHANGED file, Registered(Path("MACI")),
           NEW n \in {Len(chain), Len(chain) + 1}, NEW policy \in 1..n,
           IsSeq(chain'), Len(chain') = n + 3,
           NEW d, WithPollOf(d, chain[Maci], n + 1),
           \A a \in 1..Len(chain) : chain'[a] = IF a = Maci THEN d ELSE chain[a],
           \A a \in New : IsContract(chain'[a]) /\ chain'[a].polls = <<>>,
           chain'[n + 1].id = "Poll", chain'[n + 1].policy = policy, chain'[n + 1].target = 0,
           chain'[n + 2].id = "MessageProcessor", chain'[n + 2].policy = 0, chain'[n + 2].target = 0,
           chain'[n + 3].id = "Tally", chain'[n + 3].policy = 0, chain'[n + 3].target = 0,
           n = Len(chain) + 1 => chain'[n].id = "Policy" /\ chain'[n].policy = 0
    PROVE  /\ ChainInv' /\ Longer /\ NextPollId' = NextPollId + 1
           /\ n + 1 \in New
           /\ \A a \in New : a # n + 1 => chain'[a].policy = 0 /\ chain'[a].id # "Poll"
<1>1. Len(chain) \in Nat
  BY ChainDomain
<1>2. Maci \in instances /\ Maci \in 1..Len(chain) /\ WellMade(Maci) /\ NextPollId = Len(chain[Maci].polls)
  BY NextPollIdIs DEF ChainInv
<1>3. PICK k \in Nat : k = n + 1
  BY <1>1
<1>4. /\ IsContract(d) /\ d.id = chain[Maci].id /\ d.policy = chain[Maci].policy
      /\ d.target = chain[Maci].target /\ d.polls = Append(chain[Maci].polls, k)
  BY <1>2, <1>3 DEF WellMade, IsContract, WithPollOf
<1>5. /\ n = Len(chain) => New = {n + 1, n + 2, n + 3}
      /\ n # Len(chain) => n = Len(chain) + 1 /\ New = {n, n + 1, n + 2, n + 3}
  <2>1. CASE n = Len(chain)
    <3>1. New = (n + 1)..(n + 3) /\ n \in Nat
      BY <1>1, <2>1 DEF New
    <3> QED
      BY <2>1, <3>1
  <2>2. CASE n = Len(chain) + 1
    <3>1. New = n..(n + 3) /\ n \in Nat
      BY <1>1, <2>2 DEF New
    <3> QED
      BY <1>1, <2>2, <3>1
  <2> QED
    BY <2>1, <2>2
<1>6. \A a \in New : a # n + 1 => chain'[a].policy = 0 /\ chain'[a].id # "Poll"
  BY <1>5
<1>7. PollAt(k)'
  <2>1. k \in 1..Len(chain') /\ k + 2 <= Len(chain') /\ k + 1 = n + 2 /\ k + 2 = n + 3
    BY <1>1, <1>3
  <2> QED
    BY <1>3, <2>1 DEF PollAt
<1>8. ASSUME NEW a \in New
      PROVE  WellMade(a)'
  <2>1. a \in Nat /\ a > Len(chain)
    BY <1>1, <1>5
  <2>2. chain'[a].policy \in 0..(a - 1) /\ (chain'[a].id = "Poll" => chain'[a].policy > 0)
    <3>1. CASE a = n + 1
      BY <1>1, <3>1
    <3>2. CASE a # n + 1
      BY <1>6, <2>1, <3>2
    <3> QED
      BY <3>1, <3>2
  <2>3. chain'[a].target # 0 => chain'[a].id = "Policy"
    BY <1>5
  <2>4. chain'[a].polls = <<>>
    OBVIOUS
  <2>5. IsContract(chain'[a])
    OBVIOUS
  <2> QED
    BY <2>2, <2>3, <2>4, <2>5 DEF WellMade, IsContract
<1>9. ChainInv' /\ Longer
  <2>1. PICK maci \in instances : maci = Maci
    BY <1>2
  <2>2. /\ IsContract(chain'[maci])
        /\ chain'[maci].id = chain[maci].id /\ chain'[maci].policy = chain[maci].policy
        /\ chain'[maci].target = chain[maci].target /\ chain'[maci].polls = Append(chain[maci].polls, k)
    BY <1>2, <1>4, <2>1
  <2>3. \A a \in 1..Len(chain) : a # maci => chain'[a] = chain[a]
    BY <2>1
  <2>4. Len(chain) <= Len(chain')
    BY <1>1
  <2> QED
    BY <1>7, <1>8, <2>2, <2>3, <2>4, LongerChain
<1>10. NextPollId' = NextPollId + 1
  <2>1. Registered(Path("MACI"))' /\ GetAddress(Path("MACI"))' = Maci
    BY DEF file, Registered, GetAddress, Path, Maci
  <2>2. chain'[Maci].polls = Append(chain[Maci].polls, k) /\ chain[Maci].polls \in Seq(Nat)
    BY <1>2, <1>4 DEF WellMade
  <2>3. Len(chain'[Maci].polls) = Len(chain[Maci].polls) + 1
    BY <2>2, AppendProperties
  <2>4. NextPollId' = Len(chain'[Maci].polls)
    BY <2>1 DEF NextPollId
  <2> QED
    BY <1>2, <2>3, <2>4
<1>11. n + 1 \in New
  BY <1>5
<1> QED
  BY <1>6, <1>9, <1>10, <1>11

LEMMA PollContractIs ==
    ASSUME NEW policy, NEW cfg, NEW c, c = PollContracts(policy, cfg)[1]
    PROVE  IsContract(c) /\ c.id = "Poll" /\ c.policy = policy /\ c.target = 0 /\ c.polls = <<>>
<1>1. PICK b : b = Contract("Poll")
  OBVIOUS
<1>2. IsContract(b) /\ b.id = "Poll" /\ b.target = 0 /\ b.polls = <<>>
  BY <1>1, ContractIs
<1>3. c = [b EXCEPT !.policy = policy, !.depth = cfg.pollDepth, !.tallyDepth = cfg.tallyDepth,
                    !.voteOptionDepth = cfg.voteOptionDepth, !.batch = cfg.batch, !.mode = cfg.mode]
  BY <1>1 DEF PollContracts
<1> QED
  BY <1>2, <1>3 DEF IsContract

LEMMA DeployedPoll ==
    ASSUME ChainInv, UNCHANGED file, Registered(Path("MACI")), NEW policy \in 1..Len(chain), NEW cfg,
           chain' = WithPoll(chain, Maci, policy, cfg)
    PROVE  /\ ChainInv' /\ Longer /\ NextPollId' = NextPollId + 1
           /\ Len(chain) + 1 \in New /\ chain'[Len(chain) + 1].id = "Poll" /\ chain'[Len(chain) + 1].policy = policy
           /\ \A a \in New : a # Len(chain) + 1 => chain'[a].policy = 0 /\ chain'[a].id # "Poll"
<1>1. IsSeq(chain) /\ Len(chain) \in Nat /\ Maci \in 1..Len(chain)
  BY ChainDomain, NextPollIdIs DEF ChainInv
<1>2. PICK d : WithPollOf(d, chain[Maci], Len(chain) + 1)
  BY DEF WithPollOf
<1>3. /\ IsSeq(chain') /\ Len(chain') = Len(chain) + 3
      /\ \A a \in 1..Len(chain) : chain'[a] = IF a = Maci THEN d ELSE chain[a]
      /\ chain'[Len(chain) + 1] = PollContracts(policy, cfg)[1]
      /\ chain'[Len(chain) + 2] = Contract("MessageProcessor") /\ chain'[Len(chain) + 3] = Contract("Tally")
  <2>1. WithNextPoll(d, chain, Maci) /\ IsWithPoll(chain', chain, Maci, policy, cfg)
    BY <1>2 DEF IsWithPoll, WithNextPoll
  <2> QED
    BY <1>1, <2>1, WithPollIs
<1>4. PICK n \in Nat : n = Len(chain)
  BY <1>1
<1>5. /\ IsContract(chain'[n + 1]) /\ chain'[n + 1].id = "Poll" /\ chain'[n + 1].policy = policy
      /\ chain'[n + 1].target = 0 /\ chain'[n + 1].polls = <<>>
  BY <1>3, <1>4, PollContractIs
<1>6. /\ IsContract(chain'[n + 2]) /\ chain'[n + 2].id = "MessageProcessor" /\ chain'[n + 2].policy = 0
      /\ chain'[n + 2].target = 0 /\ chain'[n + 2].polls = <<>>
  BY <1>3, <1>4, ContractIs
<1>7. /\ IsContract(chain'[n + 3]) /\ chain'[n + 3].id = "Tally" /\ chain'[n + 3].policy = 0
      /\ chain'[n + 3].target = 0 /\ chain'[n + 3].polls = <<>>
  BY <1>3, <1>4, ContractIs
<1>8. New = {n + 1, n + 2, n + 3}
  BY <1>3, <1>4 DEF New
<1>9. \A a \in New : IsContract(chain'[a]) /\ chain'[a].polls = <<>>
  BY <1>5, <1>6, <1>7, <1>8
<1> QED
  BY <1>2, <1>3, <1>4, <1>5, <1>6, <1>7, <1>9, NewPoll

LEMMA OthersPoll ==
    ASSUME ChainInv, UNCHANGED file, Registered(Path("MACI")), NEW cfg,
           chain' = Bound(WithPoll(Append(chain, Contract("Policy")), Maci, NextAddress, cfg),
                          NextAddress, NextAddress + 1)
    PROVE  /\ ChainInv' /\ Longer /\ NextPollId' = NextPollId + 1
           /\ Len(chain) + 2 \in New /\ chain'[Len(chain) + 2].id = "Poll"
           /\ chain'[Len(chain) + 2].policy = Len(chain) + 1
           /\ \A a \in New : a # Len(chain) + 2 => chain'[a].policy = 0 /\ chain'[a].id # "Poll"
<1>1. IsSeq(chain) /\ Maci \in 1..Len(chain)
  BY ChainDomain, NextPollIdIs DEF ChainInv
<1>2. PICK n \in Nat : n = Len(chain) + 1
  BY ChainDomain
<1>3. PICK s : s = Append(chain, Contract("Policy"))
  OBVIOUS
<1>4. PICK u : u = WithPoll(s, Maci, n, cfg)
  OBVIOUS
<1>5. /\ IsSeq(s) /\ Len(s) = n /\ s[n] = Contract("Policy")
      /\ \A a \in 1..Len(chain) : s[a] = chain[a]
  <2>1. IsAppend(s, chain, Contract("Policy"))
    BY <1>3 DEF IsAppend
  <2> QED
    BY <1>1, <1>2, <2>1, AppendIs
<1>6. PICK d : WithPollOf(d, chain[Maci], n + 1)
  BY DEF WithPollOf
<1>7. /\ IsSeq(u) /\ Len(u) = n + 3
      /\ \A a \in 1..n : u[a] = IF a = Maci THEN d ELSE s[a]
      /\ u[n + 1] = PollContracts(n, cfg)[1]
      /\ u[n + 2] = Contract("MessageProcessor") /\ u[n + 3] = Contract("Tally")
  <2>1. Maci \in 1..Len(s) /\ s[Maci] = chain[Maci]
    BY <1>1, <1>2, <1>5
  <2>2. WithPollOf(d, s[Maci], Len(s) + 1)
    BY <1>5, <1>6, <2>1
  <2>3. /\ IsSeq(u) /\ Len(u) = Len(s) + 3
        /\ \A a \in 1..Len(s) : u[a] = IF a = Maci THEN d ELSE s[a]
        /\ u[Len(s) + 1] = PollContracts(n, cfg)[1]
        /\ u[Len(s) + 2] = Contract("MessageProcessor") /\ u[Len(s) + 3] = Contract("Tally")
    <3>1. IsWithPoll(u, s, Maci, n, cfg) /\ IsSeq(s)
      BY <1>4, <1>5 DEF IsWithPoll
    <3>2. WithNextPoll(d, s, Maci)
      BY <2>2 DEF WithNextPoll
    <3> QED
      BY <2>1, <3>1, <3>2, WithPollIs
  <2> QED
    BY <1>5, <2>3
<1>8. PICK e : e = [u[n] EXCEPT !.target = n + 1]
  OBVIOUS
<1>9. IsChanged(chain', u, n, e)
  BY <1>2, <1>3, <1>4, <1>8 DEF Bound, NextAddress, IsChanged
<1>10. /\ IsSeq(chain') /\ Len(chain') = n + 3
       /\ \A a \in 1..(n + 3) : chain'[a] = IF a = n THEN e ELSE u[a]
  <2>1. n \in 1..Len(u)
    BY <1>2, <1>7, ChainDomain
  <2>2. /\ IsSeq(chain') /\ Len(chain') = Len(u)
        /\ \A a \in 1..Len(u) : chain'[a] = IF a = n THEN e ELSE u[a]
    BY <1>7, <1>9, <2>1, ChangedIs
  <2> QED
    BY <1>7, <2>2
<1>11. IsContract(e) /\ e.id = "Policy" /\ e.policy = 0 /\ e.polls = <<>>
  <2>1. u[n] = Contract("Policy")
    BY <1>1, <1>2, <1>5, <1>7, ChainDomain
  <2>2. IsContract(u[n]) /\ u[n].id = "Policy" /\ u[n].policy = 0 /\ u[n].polls = <<>>
    BY <2>1, ContractIs
  <2> QED
    BY <1>8, <2>2 DEF IsContract
<1>12. Len(chain) \in Nat /\ n # 0
  BY <1>2, ChainDomain
<1>13. \A a \in 1..Len(chain) : chain'[a] = IF a = Maci THEN d ELSE chain[a]
  BY <1>2, <1>5, <1>7, <1>10, <1>12
<1>14. chain'[n] = e /\ chain'[n + 1] = u[n + 1] /\ chain'[n + 2] = u[n + 2] /\ chain'[n + 3] = u[n + 3]
  BY <1>10, <1>12
<1>15. /\ IsContract(chain'[n + 1]) /\ chain'[n + 1].id = "Poll" /\ chain'[n + 1].policy = n
       /\ chain'[n + 1].target = 0 /\ chain'[n + 1].polls = <<>>
  BY <1>7, <1>14, PollContractIs
<1>16. /\ IsContract(chain'[n + 2]) /\ chain'[n + 2].id = "MessageProcessor" /\ chain'[n + 2].policy = 0
       /\ chain'[n + 2].target = 0 /\ chain'[n + 2].polls = <<>>
  BY <1>7, <1>14, ContractIs
<1>17. /\ IsContract(chain'[n + 3]) /\ chain'[n + 3].id = "Tally" /\ chain'[n + 3].policy = 0
       /\ chain'[n + 3].target = 0 /\ chain'[n + 3].polls = <<>>
  BY <1>7, <1>14, ContractIs
<1>18. New = {n, n + 1, n + 2, n + 3}
  BY <1>2, <1>10, <1>12 DEF New
<1>19. \A a \in New : IsContract(chain'[a]) /\ chain'[a].polls = <<>>
  BY <1>11, <1>14, <1>15, <1>16, <1>17, <1>18
<1>20. /\ ChainInv' /\ Longer /\ NextPollId' = NextPollId + 1
       /\ n + 1 \in New
       /\ \A a \in New : a # n + 1 => chain'[a].policy = 0 /\ chain'[a].id # "Poll"
  <2>1. n \in {Len(chain), Len(chain) + 1} /\ n \in 1..n
    BY <1>2, <1>12
  <2> QED
    BY <1>6, <1>10, <1>11, <1>13, <1>14, <1>15, <1>16, <1>17, <1>19, <2>1, NewPoll
<1> QED
  BY <1>2, <1>15, <1>20

-----------------------------------------------------------------------------
(* The invariant, action by action. *)

IInv == RunTyped /\ InTurn /\ ChainInv /\ PolicyInv /\ MadeInv /\ NeedsInv

LEMMA NothingRuns ==
    ASSUME Idle'
    PROVE  MadeInv' /\ NeedsInv'
  BY DEF MadeInv, NeedsInv, ServiceMaciUsesIt, At

(* A run is broken off. *)
LEMMA Broken ==
    ASSUME IInv, run' = NoRun, chain' = Remembered(instances), UNCHANGED <<file, user, finished>>
    PROVE  IInv'
<1>1. run' = [job |-> "none", cfg |-> run.cfg, failed |-> TRUE] /\ run.cfg \in Configs
  BY DEF NoRun, IInv, RunTyped, Busy
<1>2. RunTyped' /\ run'.job = "none"
  BY <1>1 DEF RunTyped
<1>3. Idle'
  BY <1>2 DEF Idle
<1>4. InTurn'
  BY <1>2 DEF IInv, InTurn
<1>5. ChainInv' /\ PolicyInv'
  BY Shorter, ShorterPolicies DEF IInv
<1> QED
  BY <1>2, <1>3, <1>4, <1>5, NothingRuns DEF IInv

(* A step goes on. *)
GoesTo(pc, pollId, todo, made) ==
    run' = [run EXCEPT !.pc = pc, !.pollId = pollId, !.todo = todo, !.made = made]

LEMMA StepGoesOn ==
    ASSUME RunTyped, InTurn, ~Idle, UNCHANGED <<user, finished>>,
           NEW pc \in Pcs, NEW pollId \in Nat, NEW todo \in Seq(Ids),
           NEW made \in Seq([path : Paths, address : Nat]), GoesTo(pc, pollId, todo, made)
    PROVE  /\ RunTyped' /\ InTurn' /\ ~Idle' /\ Step' = Step
           /\ run'.job = run.job /\ run'.step = run.step /\ run'.cfg = run.cfg /\ run'.incremental = run.incremental
           /\ run'.pc = pc /\ run'.pollId = pollId /\ run'.todo = todo /\ run'.made = made
           /\ Has("full")' = Has("full")
           /\ \A steps, pcs : At(steps, pcs)' <=> Step \in steps /\ pc \in pcs
<1>1. run \in Busy /\ run.job \in Jobs /\ run.step \in 1..Len(Steps[run.job])
  BY StepIs
<1>2. /\ run' \in Busy /\ run'.job = run.job /\ run'.step = run.step /\ run'.cfg = run.cfg
      /\ run'.incremental = run.incremental
      /\ run'.pc = pc /\ run'.pollId = pollId /\ run'.todo = todo /\ run'.made = made
  BY <1>1 DEF Busy, GoesTo
<1>3. RunTyped' /\ ~Idle'
  BY <1>1, <1>2 DEF RunTyped, Idle
<1>4. Step' = Step
  BY <1>2 DEF Step
<1>5. InTurn' /\ Has("full")' = Has("full")
  BY <1>2 DEF InTurn, Has
<1>6. \A steps, pcs : At(steps, pcs)' <=> Step \in steps /\ pc \in pcs
  BY <1>2, <1>3, <1>4 DEF At
<1> QED
  BY <1>2, <1>3, <1>4, <1>5, <1>6

LEMMA RunFields ==
    ASSUME RunTyped, ~Idle
    PROVE  /\ run.cfg \in Configs /\ run.pc \in Pcs /\ run.pollId \in Nat /\ run.todo \in Seq(Ids)
           /\ run.made \in Seq([path : Paths, address : Nat])
           /\ \A pc : run' = [run EXCEPT !.pc = pc] => GoesTo(pc, run.pollId, run.todo, run.made)
           /\ \A pc, todo, made :
                 run' = [run EXCEPT !.pc = pc, !.todo = todo, !.made = made] => GoesTo(pc, run.pollId, todo, made)
<1>1. run \in Busy
  BY StepIs
<1> QED
  BY <1>1 DEF Busy, GoesTo

(* What is to be shown of the run after a step. *)
LEMMA MadeThen ==
    ASSUME ~Idle', NEW step, Step' = step, NEW pc, run'.pc = pc, NEW todo, run'.todo = todo,
           NEW made, run'.made = made, NEW cfg, run'.cfg = cfg,
           (\/ pc \in {"deploy", "call", "register"}
            \/ step = "ServiceRegistry" /\ pc = "next"
            \/ step = "ServiceMaci" /\ pc = "enter") => \A i \in DOMAIN made : IsMade(made[i])',
           pc \in {"deploy", "register"} => \A i \in DOMAIN todo : OfStep(todo[i])' /\ todo[i] # "Poll",
           pc \in {"call", "bind"} => todo = <<>>,
           ~(step \in PollSteps /\ pc = "deploy"),
           pc = "bind" => step \in PollSteps,
           pc = "register" /\ todo # <<>> => step = "Policies",
           step \in MaciSteps /\ pc = "deploy" => \A i \in DOMAIN todo : todo[i] = "MACI" <=> i = Len(todo),
           step \in MaciSteps /\ pc = "call" => \E i \in DOMAIN made : made[i].path[1] = "MACI",
           step \in PolicySteps /\ pc = "deploy" => made = <<>> /\ (step # "Policies" => Len(todo) = 1),
           step \in PolicySteps /\ pc \in {"call", "register"} =>
              /\ \A i, j \in DOMAIN made : i = j
              /\ \A i \in DOMAIN made :
                    Fresh(made[i].address)' /\ (Len(made[i].path) = 2 <=> step = "PollPolicy"),
           step = "ServicePolicy" /\ pc = "deploy" => \A i \in DOMAIN todo : todo[i] = cfg.pollPolicy,
           step = "ServicePolicy" /\ pc \in {"call", "register"} =>
              \E i \in DOMAIN made : made[i].path = Path(cfg.pollPolicy)
    PROVE  MadeInv'
<1>1. \A steps, pcs : At(steps, pcs)' <=> step \in steps /\ pc \in pcs
  BY DEF At
<1>2. ASSUME NEW i, IsMade(made[i])'
      PROVE  IsMade(run.made[i])'
  BY <1>2 DEF IsMade, OfStep
<1>3. ASSUME NEW i, OfStep(todo[i])'
      PROVE  OfStep(run.todo[i])'
  BY <1>3 DEF OfStep
<1>4. ASSUME NEW i, Fresh(made[i].address)'
      PROVE  Fresh(run.made[i].address)'
  BY <1>4 DEF Fresh, Unused
<1>5. ((\/ ~Idle /\ run.pc \in {"deploy", "call", "register"}
        \/ At({"ServiceRegistry"}, {"next"})
        \/ At({"ServiceMaci"}, {"enter"})) => \A i \in DOMAIN run.made : IsMade(run.made[i]))'
  BY <1>1, <1>2
<1>6. (~Idle /\ run.pc \in {"deploy", "register"} =>
          \A i \in DOMAIN run.todo : OfStep(run.todo[i]) /\ run.todo[i] # "Poll")'
  BY <1>3
<1>7. (At(PolicySteps, {"call", "register"}) =>
          /\ \A i, j \in DOMAIN run.made : i = j
          /\ \A i \in DOMAIN run.made :
                Fresh(run.made[i].address) /\ (Len(run.made[i].path) = 2 <=> Step = "PollPolicy"))'
  BY <1>1, <1>4
<1> QED
  BY <1>1, <1>5, <1>6, <1>7 DEF MadeInv, PolicySteps, PollSteps, MaciSteps, Path

IsFree(path) == Registered(path) /\ Unused(GetAddress(path))

LEMMA NeedsThen ==
    ASSUME ~Idle', NEW step, Step' = step, NEW pc, run'.pc = pc, NEW cfg, run'.cfg = cfg,
           NEW pollId, run'.pollId = pollId,
           step = "MACI" /\ pc \in {"deploy", "call"} => Registered(Path(cfg.maciPolicy))',
           (\/ step = "PollPolicy" /\ pc \in {"deploy", "call", "register"}
            \/ step \in PollSteps /\ pc \in {"call", "bind"}) => Registered(Path("MACI"))',
           step = "Poll" /\ pc \in {"call", "bind"} => Registered(Keyed(cfg.pollPolicy, pollId))',
           step = "Poll" /\ pc = "call" => pollId <= NextPollId',
           step = "Poll" /\ pc = "bind" => pollId < NextPollId',
           (\/ step = "ServiceMaci" /\ pc = "call"
            \/ step = "ServicePoll" /\ pc = "bind") => Registered(Path(cfg.pollPolicy))',
           (\/ step = "ServicePolicy" /\ pc = "next"
            \/ step \in {"ServiceRegistry", "ServiceProxy"}
            \/ step = "ServiceMaci" /\ pc \in {"enter", "deploy"}
            \/ step = "ServicePoll" /\ pc \in {"enter", "call"}) => IsFree(Path(cfg.pollPolicy))'
    PROVE  NeedsInv'
<1>1. \A steps, pcs : At(steps, pcs)' <=> step \in steps /\ pc \in pcs
  BY DEF At
<1>2. \A id : Registered(Path(id)) <=> Path(id) \in DOMAIN named
  BY DEF Registered
<1>3. Path(run.cfg.pollPolicy)' = Path(cfg.pollPolicy)
  BY DEF Path
<1>4. ServiceMaciUsesIt' => Registered(Path(run.cfg.pollPolicy))' /\ Unused(GetAddress(Path(run.cfg.pollPolicy)))'
  BY <1>1, <1>3 DEF ServiceMaciUsesIt, IsFree, Registered, GetAddress, Unused, Path
<1> QED
  BY <1>1, <1>4 DEF NeedsInv, PollSteps, Registered, Path, Keyed

(* After the call of a step nothing but its contracts is different. *)
LEMMA Called ==
    ASSUME IInv, ~Idle, run.pc = "call", UNCHANGED <<file, user, finished>>, ChainInv', Alike,
           NEW pc \in {"register", "next"}, run' = [run EXCEPT !.pc = pc],
           pc = "next" => Step = "ServiceRegistry"
    PROVE  IInv'
<1>1. RunTyped /\ InTurn /\ ChainInv /\ PolicyInv /\ MadeInv /\ NeedsInv
  BY DEF IInv
<1>2. /\ run.cfg \in Configs /\ run.pollId \in Nat /\ run.todo \in Seq(Ids)
      /\ run.made \in Seq([path : Paths, address : Nat]) /\ GoesTo(pc, run.pollId, run.todo, run.made)
  BY <1>1, RunFields
<1>3. pc \in Pcs
  BY DEF Pcs
<1>4. /\ RunTyped' /\ InTurn' /\ ~Idle' /\ Step' = Step /\ run'.cfg = run.cfg /\ run'.pc = pc
      /\ run'.pollId = run.pollId /\ run'.todo = run.todo /\ run'.made = run.made
      /\ Has("full")' = Has("full")
      /\ \A steps, pcs : At(steps, pcs)' <=> Step \in steps /\ pc \in pcs
  BY <1>1, <1>2, <1>3, StepGoesOn, ZenonT(30)
<1>5. \A steps, pcs : At(steps, pcs) <=> Step \in steps /\ run.pc \in pcs
  BY DEF At
<1>6. /\ NextPollId' = NextPollId /\ DOMAIN chain' = 1..Len(chain)
      /\ \A x : (Unused(x)' <=> Unused(x)) /\ (GuardsNoPoll(x)' <=> GuardsNoPoll(x)) /\ (Fresh(x)' <=> Fresh(x))
      /\ \A p : (Registered(p)' <=> Registered(p)) /\ GetAddress(p)' = GetAddress(p)
  BY <1>1, AlikeIs
<1>7. PolicyInv'
  <2>1. ~At({"Poll"}, {"call"})'
    BY <1>4
  <2>2. Has("full") => Has("full")'
    BY <1>4
  <2> QED
    BY <1>1, <2>1, <2>2, AlikePolicies
<1>8. MadeInv'
  <2>1. \A i \in DOMAIN run.made : IsMade(run.made[i])
    BY <1>1 DEF MadeInv
  <2>2. \A m : IsMade(m) => IsMade(m)'
    BY <1>4 DEF IsMade, OfStep, Alike
  <2>3. run.todo = <<>>
    BY <1>1 DEF MadeInv
  <2>4. Step \in PolicySteps =>
          /\ \A i, j \in DOMAIN run.made : i = j
          /\ \A i \in DOMAIN run.made :
                Fresh(run.made[i].address) /\ (Len(run.made[i].path) = 2 <=> Step = "PollPolicy")
    BY <1>1, <1>5 DEF MadeInv
  <2>5. PICK made \in Seq([path : Paths, address : Nat]) : made = run.made
    BY <1>2
  <2>6. \A i \in DOMAIN made : IsMade(made[i])'
    BY <2>1, <2>2, <2>5
  <2>7. PICK step : step = Step
    OBVIOUS
  <2>8. step \in PolicySteps =>
          /\ \A i, j \in DOMAIN made : i = j
          /\ \A i \in DOMAIN made :
                Fresh(made[i].address)' /\ (Len(made[i].path) = 2 <=> step = "PollPolicy")
    BY <1>6, <2>5, <2>7, <2>4
  <2>9. PICK cfg \in Configs : cfg = run.cfg
    BY <1>2
  <2>10. step = "ServicePolicy" => \E i \in DOMAIN made : made[i].path = Path(cfg.pollPolicy)
    BY <1>1, <1>5, <2>5, <2>7, <2>9 DEF MadeInv
  <2> QED
    BY <1>4, <2>3, <2>5, <2>6, <2>7, <2>8, <2>9, <2>10, EmptyIs, MadeThen
<1>9. NeedsInv'
  <2>1. At({"PollPolicy"}, {"deploy", "call", "register"})' \/ At(PollSteps, {"call", "bind"})' =>
           Registered(Path("MACI"))
    BY <1>1, <1>4, <1>5 DEF NeedsInv
  <2>2. ServiceMaciUsesIt' => ServiceMaciUsesIt
    BY <1>4, <1>5 DEF ServiceMaciUsesIt, Pcs
  <2> QED
    BY <1>1, <1>4, <1>6, <2>1, <2>2 DEF NeedsInv
<1> QED
  BY <1>4, <1>7, <1>8, <1>9 DEF IInv

LEMMA NextStepKeeps ==
    ASSUME IInv, NextStep
    PROVE  IInv'
<1>1. RunTyped /\ InTurn /\ ChainInv /\ PolicyInv /\ MadeInv /\ NeedsInv
  BY DEF IInv
<1>2. ~Idle /\ run.pc = "next" /\ chain' = chain /\ UNCHANGED file /\ user' = user
  BY DEF NextStep
<1>3. /\ run \in Busy /\ run.job \in Jobs /\ run.step \in 1..Len(Steps[run.job])
      /\ run.cfg \in Configs /\ run.made \in Seq([path : Paths, address : Nat]) /\ run.todo \in Seq(Ids)
  BY <1>1, <1>2, StepIs, RunFields
<1>4. ChainInv' /\ Alike
  BY <1>1, <1>2, SameChain, SameIsAlike
<1>5. CASE LastStep
  <2>1. run' = [job |-> "none", cfg |-> run.cfg, failed |-> FALSE] /\ finished' = [finished EXCEPT ![run.job] = @ + 1]
    BY <1>5 DEF NextStep, NoRun
  <2>2. RunTyped' /\ run'.job = "none" /\ Idle'
    BY <1>3, <2>1 DEF RunTyped, Idle
  <2>3. finished' \in [Jobs -> Nat] /\ (Has("full") => Has("full")')
    <3>1. finished \in [Jobs -> Nat] /\ "full" \in Jobs
      BY <1>1 DEF InTurn, Jobs
    <3> QED
      BY <1>3, <2>1, <3>1 DEF Has
  <2>4. InTurn'
    BY <2>2, <2>3 DEF InTurn
  <2>5. PolicyInv'
    <3>1. ~At({"Poll"}, {"call"})'
      BY <2>2 DEF At
    <3> QED
      BY <1>1, <1>2, <1>4, <2>3, <3>1, AlikePolicies
  <2> QED
    BY <1>4, <2>2, <2>4, <2>5, NothingRuns DEF IInv
<1>6. CASE ~LastStep
  <2>1. run' = [run EXCEPT !.step = @ + 1, !.pc = "enter"] /\ finished' = finished
    BY <1>6 DEF NextStep
  <2>2. PICK next : next = Steps[run.job][run.step + 1]
    OBVIOUS
  <2>3. /\ run.step + 1 \in 1..Len(Steps[run.job])
        /\ next = "ServiceMaci" => Step = "ServiceRegistry"
        /\ next = "ServicePoll" => Step = "ServiceProxy"
        /\ next \in {"ServiceRegistry", "ServiceProxy"} => Step = "ServicePolicy"
    BY <1>1, <1>2, <1>6, <2>2, NextStepIs
  <2>4. /\ run' \in Busy /\ run'.job = run.job /\ run'.step = run.step + 1 /\ run'.pc = "enter"
        /\ run'.cfg = run.cfg /\ run'.pollId = run.pollId /\ run'.todo = run.todo /\ run'.made = run.made
    <3>1. PICK n \in Nat : n = run.step + 1
      BY <2>3
    <3>2. run' = [run EXCEPT !.step = n, !.pc = "enter"]
      BY <1>3, <2>1, <3>1 DEF Busy
    <3> QED
      BY <1>3, <3>1, <3>2 DEF Busy, Pcs
  <2>5. RunTyped' /\ ~Idle' /\ Step' = next
    BY <1>3, <2>2, <2>3, <2>4 DEF RunTyped, Idle, Step, Jobs
  <2>6. InTurn' /\ Has("full")' = Has("full")
    BY <1>1, <1>2, <2>1, <2>4 DEF InTurn, Has
  <2>7. PolicyInv'
    <3>1. ~At({"Poll"}, {"call"})'
      BY <2>4 DEF At
    <3> QED
      BY <1>1, <1>2, <1>4, <2>6, <3>1, AlikePolicies
  <2>8. PICK made \in Seq([path : Paths, address : Nat]), todo \in Seq(Ids), cfg \in Configs, pollId \in Nat :
           made = run.made /\ todo = run.todo /\ cfg = run.cfg /\ pollId = run.pollId
    BY <1>3 DEF Busy
  <2>9. MadeInv'
    <3>1. ASSUME next = "ServiceMaci", NEW m, IsMade(m)
          PROVE  IsMade(m)'
      BY <1>2, <2>3, <2>5, <3>1 DEF IsMade, OfStep, PolicySteps, MaciSteps
    <3>2. next = "ServiceMaci" => \A i \in DOMAIN made : IsMade(made[i])
      BY <1>1, <1>2, <2>3, <2>8 DEF MadeInv, At
    <3>3. next = "ServiceMaci" => \A i \in DOMAIN made : IsMade(made[i])'
      BY <3>1, <3>2
    <3> QED
      BY <2>4, <2>5, <2>8, <3>3, MadeThen
  <2>10. NeedsInv'
    <3>1. next \in {"ServiceRegistry", "ServiceProxy", "ServiceMaci", "ServicePoll"} => IsFree(Path(cfg.pollPolicy))
      BY <1>1, <1>2, <2>3, <2>8 DEF NeedsInv, ServiceMaciUsesIt, At, Pcs, IsFree
    <3>2. \A p : IsFree(p) => IsFree(p)'
      BY <1>2 DEF IsFree, Registered, GetAddress, Unused, file
    <3>3. next \in {"ServiceRegistry", "ServiceProxy", "ServiceMaci", "ServicePoll"} => IsFree(Path(cfg.pollPolicy))'
      BY <3>1, <3>2
    <3> QED
      BY <2>4, <2>5, <2>8, <3>3, NeedsThen
  <2> QED
    BY <1>4, <2>5, <2>6, <2>7, <2>9, <2>10 DEF IInv
<1> QED
  BY <1>5, <1>6

LEMMA StartKeeps ==
    ASSUME IInv, NEW job \in DOMAIN Steps, NEW incremental \in BOOLEAN, NEW cfg \in Configs,
           Start(job, incremental, cfg)
    PROVE  IInv'
<1>1. RunTyped /\ InTurn /\ ChainInv /\ PolicyInv /\ MadeInv /\ NeedsInv
  BY DEF IInv
<1>2. /\ Idle /\ Wanted(job) /\ user' = user /\ finished' = finished
      /\ run' = [job |-> job, cfg |-> cfg, failed |-> TRUE, incremental |-> incremental,
                 step |-> 1, pc |-> "enter", pollId |-> 0, todo |-> <<>>, made |-> <<>>]
  BY DEF Start
<1>3. job \in Jobs /\ 1 \in 1..Len(Steps[job])
  <2>1. job \in Jobs /\ Len(Steps[job]) = IF job = "full" THEN 9 ELSE 3
    BY StepsAre
  <2>2. PICK n \in {3, 9} : n = Len(Steps[job])
    BY <2>1
  <2>3. 1 \in 1..n
    BY <2>2
  <2> QED
    BY <2>1, <2>2, <2>3
<1>4. RunTyped' /\ ~Idle' /\ run'.job = job /\ run'.pc = "enter" /\ run'.cfg = cfg
      /\ run'.pollId = 0 /\ run'.todo = <<>> /\ run'.made = <<>> /\ run'.step = 1
  <2>1. <<>> \in Seq(Ids) /\ <<>> \in Seq([path : Paths, address : Nat])
    BY EmptySeq
  <2>2. PICK none : none = <<>>
    OBVIOUS
  <2>3. /\ run'.job = job /\ run'.pc = "enter" /\ run'.cfg = cfg
        /\ run'.pollId = 0 /\ run'.todo = <<>> /\ run'.made = <<>> /\ run'.step = 1
    BY <1>2
  <2>4. run' \in Busy
    BY <1>2, <1>3, <2>1, <2>2 DEF Busy, Pcs
  <2>5. job # "none"
    BY <1>3 DEF Jobs
  <2> QED
    BY <1>3, <2>3, <2>4, <2>5 DEF RunTyped, Idle
<1>5. Step' \in {"Policies", "InitialVoiceCreditProxy", "ServicePolicy"}
  BY <1>3, <1>4, StepsInOrder DEF Step, Jobs
<1>6. InTurn' /\ Has("full")' = Has("full")
  BY <1>1, <1>2, <1>4 DEF InTurn, Has, Wanted
<1>7. MadeInv'
  <2>1. PICK step : step = Step'
    OBVIOUS
  <2> QED
    BY <1>4, <1>5, <2>1, MadeThen
<1>8. NeedsInv'
  <2>1. PICK step : step = Step'
    OBVIOUS
  <2> QED
    BY <1>4, <1>5, <2>1, NeedsThen
<1>9. CASE UNCHANGED <<chain, file>>
  <2>1. ~At({"Poll"}, {"call"})'
    BY <1>4 DEF At
  <2>2. ChainInv' /\ Alike
    BY <1>1, <1>9, SameChain, SameIsAlike
  <2>3. PolicyInv'
    BY <1>1, <1>2, <1>6, <1>9, <2>1, <2>2, AlikePolicies
  <2> QED
    BY <1>4, <1>6, <1>7, <1>8, <2>2, <2>3 DEF IInv
<1>10. CASE named' = <<>> /\ instances' = {} /\ chain' = Remembered({})
  <2>1. Reachable({}) = {0}
    BY DEF Reachable
  <2>2. Max({0}) = 0
    BY Greatest
  <2>3. IsBeginning(chain', chain, 0)
    BY <1>10, <2>1, <2>2 DEF Remembered, IsBeginning
  <2>4. 0 \in 0..Len(chain) /\ IsSeq(chain)
    BY <1>1, ChainDomain DEF ChainInv
  <2>5. IsSeq(chain') /\ Len(chain') = 0 /\ DOMAIN chain' = 1..0
    BY <2>3, <2>4, BeginningIs
  <2>6. DOMAIN named' = {} /\ 1..0 = {}
    BY <1>10
  <2>7. ChainInv'
    BY <1>10, <2>5, <2>6 DEF ChainInv
  <2>8. PolicyInv'
    BY <2>5, <2>6 DEF PolicyInv, OnePollPerPolicy, OfKind
  <2> QED
    BY <1>4, <1>6, <1>7, <1>8, <2>7, <2>8 DEF IInv
<1> QED
  BY <1>9, <1>10 DEF Start

LEMMA EnterKeeps ==
    ASSUME IInv, Enter
    PROVE  IInv'
<1>1. RunTyped /\ InTurn /\ ChainInv /\ PolicyInv /\ MadeInv /\ NeedsInv
  BY DEF IInv
<1>2. ~Idle /\ run.pc = "enter"
  BY DEF Enter
<1>3. CASE Throw
  BY <1>3, Broken DEF Throw
<1>4. CASE ~Throw
  <2>1. /\ \A path \in Needed(Step, run.cfg, NextPollId) : Registered(path)
        /\ run' = IF run.incremental /\ Done(Step, run.cfg, NextPollId)
                  THEN [run EXCEPT !.pc = "next"]
                  ELSE [run EXCEPT !.pc = IF Deployed(Step, run.cfg) = <<>> THEN "call" ELSE "deploy",
                                   !.pollId = NextPollId,
                                   !.todo = Deployed(Step, run.cfg),
                                   !.made = IF Step = "ServiceMaci" THEN @ ELSE <<>>]
        /\ chain' = chain /\ UNCHANGED file /\ user' = user /\ finished' = finished
    BY <1>4 DEF Enter
  <2>2. /\ run.cfg \in Configs /\ run.pollId \in Nat /\ run.todo \in Seq(Ids)
        /\ run.made \in Seq([path : Paths, address : Nat])
        /\ \A pc : run' = [run EXCEPT !.pc = pc] => GoesTo(pc, run.pollId, run.todo, run.made)
        /\ run \in Busy
    BY <1>1, <1>2, RunFields, StepIs
  <2>3. ChainInv' /\ Alike
    BY <1>1, <2>1, SameChain, SameIsAlike
  <2>4. NextPollId' = NextPollId /\ NextPollId \in Nat
    BY <1>1, <2>1, <2>3, AlikeIs, NextPollIdIs
  <2>5. PICK step : step = Step
    OBVIOUS
  <2>6. PICK cfg \in Configs : cfg = run.cfg
    BY <2>2
  <2>7. CASE run' = [run EXCEPT !.pc = "next"]
    <3>1. "next" \in Pcs /\ GoesTo("next", run.pollId, run.todo, run.made)
      BY <2>2, <2>7 DEF Pcs
    <3>2. /\ RunTyped' /\ InTurn' /\ ~Idle' /\ Step' = Step /\ run'.cfg = run.cfg /\ run'.pc = "next"
          /\ run'.pollId = run.pollId /\ run'.todo = run.todo /\ run'.made = run.made
          /\ Has("full")' = Has("full")
          /\ \A steps, pcs : At(steps, pcs)' <=> Step \in steps /\ "next" \in pcs
      BY <1>1, <1>2, <2>1, <2>2, <3>1, StepGoesOn, ZenonT(30)
    <3>3. Done(Step, run.cfg, NextPollId)
      <4>1. run.pc = "enter" /\ run'.pc = "next"
        BY <1>2, <3>2
      <4> QED
        BY <2>1, <2>2, <3>2, <4>1 DEF Busy
    <3>4. Step \notin {"ServicePolicy", "ServiceRegistry", "ServiceMaci", "ServiceProxy", "ServicePoll"}
      BY <3>3 DEF Done
    <3>5. PolicyInv'
      <4>1. ~At({"Poll"}, {"call"})'
        BY <3>2
      <4> QED
        BY <1>1, <2>1, <2>3, <3>2, <4>1, AlikePolicies
    <3>6. PICK made \in Seq([path : Paths, address : Nat]), todo \in Seq(Ids), pollId \in Nat :
             made = run.made /\ todo = run.todo /\ pollId = run.pollId
      BY <2>2
    <3>7. MadeInv'
      BY <2>5, <2>6, <3>2, <3>4, <3>6, MadeThen
    <3>8. NeedsInv'
      BY <2>5, <2>6, <3>2, <3>4, <3>6, NeedsThen
    <3> QED
      BY <2>3, <3>2, <3>5, <3>7, <3>8 DEF IInv
  <2>8. CASE run' # [run EXCEPT !.pc = "next"]
    <3>1. PICK todo : todo = Deployed(Step, run.cfg)
      OBVIOUS
    <3>2. PICK made : made = IF Step = "ServiceMaci" THEN run.made ELSE <<>>
      OBVIOUS
    <3>3. PICK pc \in {"call", "deploy"} : pc = IF todo = <<>> THEN "call" ELSE "deploy"
      OBVIOUS
    <3>4. PICK pollId \in Nat : pollId = NextPollId
      BY <2>4
    <3>5. GoesTo(pc, pollId, todo, made)
      BY <2>1, <2>2, <2>8, <3>1, <3>2, <3>3, <3>4 DEF GoesTo, Busy
    <3>6. /\ todo \in Seq(Ids)
          /\ \A i \in 1..Len(todo) : OfStep(todo[i]) /\ todo[i] # "Poll"
          /\ step \in PollSteps => todo = <<>>
          /\ step \in MaciSteps => todo # <<>> /\ \A i \in 1..Len(todo) : todo[i] = "MACI" <=> i = Len(todo)
          /\ step \in PolicySteps => (step # "Policies" => Len(todo) = 1)
      BY <1>1, <1>2, <2>5, <3>1, DeployedSuits
    <3>7. made \in Seq([path : Paths, address : Nat]) /\ pc \in Pcs
      BY <2>2, <3>2, EmptySeq DEF Pcs
    <3>8. /\ RunTyped' /\ InTurn' /\ ~Idle' /\ Step' = Step /\ run'.cfg = run.cfg /\ run'.pc = pc
          /\ run'.pollId = pollId /\ run'.todo = todo /\ run'.made = made
          /\ Has("full")' = Has("full")
          /\ \A steps, pcs : At(steps, pcs)' <=> Step \in steps /\ pc \in pcs
      BY <1>1, <1>2, <2>1, <3>4, <3>5, <3>6, <3>7, StepGoesOn
    <3>9. PolicyInv'
      BY <1>1, <2>1, <2>3, <3>4, <3>8, AlikePolicies
    <3>10. MadeInv'
      <4>1. \A i \in DOMAIN made : IsMade(made[i])
        BY <1>1, <1>2, <3>2, EmptyIs DEF MadeInv, At
      <4>2. \A m : IsMade(m) => IsMade(m)'
        BY <2>1, <3>8 DEF IsMade, OfStep
      <4>3. \A i \in DOMAIN made : IsMade(made[i])'
        BY <4>1, <4>2
      <4>4. DOMAIN todo = 1..Len(todo)
        BY <3>6, SeqIs
      <4>5. \A id : OfStep(id) => OfStep(id)'
        BY <3>8 DEF OfStep
      <4>6. \A i \in DOMAIN todo : OfStep(todo[i])' /\ todo[i] # "Poll"
        BY <3>6, <4>4, <4>5
      <4>7. step \in PolicySteps => made = <<>> /\ step \notin MaciSteps
        BY <2>5, <3>2 DEF PolicySteps, MaciSteps
      <4>8. step = "ServicePolicy" => todo = <<cfg.pollPolicy>> /\ pc = "deploy"
        BY <2>5, <2>6, <3>1, <3>3, DeployedIs
      <4>9. step = "ServicePolicy" => pc = "deploy" /\ \A i \in DOMAIN todo : todo[i] = cfg.pollPolicy
        BY <4>8
      <4>10. step \in MaciSteps => pc = "deploy" /\ \A i \in DOMAIN todo : todo[i] = "MACI" <=> i = Len(todo)
        BY <3>3, <3>6, <4>4
      <4>11. step \in PollSteps => pc # "deploy"
        BY <3>3, <3>6
      <4>12. pc = "call" => todo = <<>>
        BY <3>3
      <4> QED
        BY <2>5, <2>6, <3>3, <3>6, <3>8, <4>3, <4>6, <4>7, <4>9, <4>10, <4>11, <4>12, EmptyIs, MadeThen
    <3>11. NeedsInv'
      <4>1. step = "MACI" => Registered(Path(cfg.maciPolicy))
        BY <2>1, <2>5, <2>6 DEF Needed, Factories, Range
      <4>2. step \in {"PollPolicy", "Poll", "ServicePoll"} => Registered(Path("MACI"))
        BY <2>1, <2>5, <2>6 DEF Needed, Factories, Range
      <4>3. step = "Poll" => Registered(Keyed(cfg.pollPolicy, pollId))
        BY <2>1, <2>5, <2>6, <3>4 DEF Needed, Factories, Range
      <4>4. step \in {"ServiceRegistry", "ServiceProxy", "ServiceMaci", "ServicePoll"} => IsFree(Path(cfg.pollPolicy))
        BY <1>1, <1>2, <2>5, <2>6 DEF NeedsInv, ServiceMaciUsesIt, At, Pcs, IsFree
      <4>5. \A p : (Registered(p) => Registered(p)') /\ (IsFree(p) => IsFree(p)')
        BY <2>1 DEF IsFree, Registered, GetAddress, Unused, file
      <4>6. step = "MACI" => Registered(Path(cfg.maciPolicy))'
        BY <4>1, <4>5
      <4>7. step \in {"PollPolicy", "Poll", "ServicePoll"} => Registered(Path("MACI"))'
        BY <4>2, <4>5
      <4>8. step = "Poll" => Registered(Keyed(cfg.pollPolicy, pollId))'
        BY <4>3, <4>5
      <4>9. step \in {"ServiceRegistry", "ServiceProxy", "ServiceMaci", "ServicePoll"} => IsFree(Path(cfg.pollPolicy))'
        BY <4>4, <4>5
      <4>10. pollId <= NextPollId'
        BY <2>4, <3>4
      <4>11. step = "ServiceMaci" => pc = "deploy"
        BY <3>3, <3>6 DEF MaciSteps
      <4> QED
        BY <2>5, <2>6, <3>3, <3>8, <4>2, <4>6, <4>7, <4>8, <4>9, <4>10, <4>11, NeedsThen DEF PollSteps
    <3> QED
      BY <2>3, <3>8, <3>9, <3>10, <3>11 DEF IInv
  <2> QED
    BY <2>7, <2>8
<1> QED
  BY <1>3, <1>4

LEMMA SetKeysKeeps ==
    ASSUME IInv, SetKeys
    PROVE  IInv'
<1>1. CASE Throw
  BY <1>1, Broken DEF Throw
<1>2. CASE ~Throw
  <2>1. ~Idle /\ run.pc = "call" /\ UNCHANGED <<file, user, finished>>
    BY <1>2 DEF SetKeys
  <2>2. PICK registry, keys : chain' = [chain EXCEPT ![registry].keys = keys]
    BY <1>2 DEF SetKeys
  <2>3. ChainInv' /\ Alike
    BY <2>1, <2>2, Rekeyed DEF IInv
  <2>4. PICK pc \in {"register", "next"} :
           run' = [run EXCEPT !.pc = pc] /\ (pc = "next" => Step = "ServiceRegistry")
    BY <1>2 DEF SetKeys, Goto
  <2> QED
    BY <2>1, <2>3, <2>4, Called
<1> QED
  BY <1>1, <1>2

LEMMA NoCallKeeps ==
    ASSUME IInv, NoCall
    PROVE  IInv'
<1>1. ~Idle /\ run.pc = "call" /\ chain' = chain /\ UNCHANGED <<file, user, finished>>
      /\ run' = [run EXCEPT !.pc = "register"]
  BY DEF NoCall, Goto
<1>2. ChainInv' /\ Alike
  BY <1>1, SameChain, SameIsAlike DEF IInv
<1>3. PICK pc \in {"register", "next"} : pc = "register"
  OBVIOUS
<1> QED
  BY <1>1, <1>2, <1>3, Called

(* The policy a MACI is made with is one of the file. *)
LEMMA MaciPolicyIs ==
    ASSUME RunTyped, InTurn, ChainInv, NeedsInv, At(MaciSteps, {"deploy", "call"})
    PROVE  /\ Step = "MACI" => user = "tasks" /\ Registered(Path(run.cfg.maciPolicy))
                               /\ MaciPolicy = GetAddress(Path(run.cfg.maciPolicy))
           /\ Step = "ServiceMaci" => Registered(Path(run.cfg.pollPolicy))
                                      /\ MaciPolicy = GetAddress(Path(run.cfg.pollPolicy))
           /\ MaciPolicy \in instances /\ MaciPolicy \in 1..Len(chain)
<1>1. ~Idle /\ Step \in MaciSteps /\ run.pc \in {"deploy", "call"}
  BY DEF At
<1>2. CASE Step = "MACI"
  <2>1. run.job = "full" /\ user = "tasks"
    BY <1>1, <1>2, StepIs DEF InTurn
  <2>2. Registered(Path(run.cfg.maciPolicy))
    BY <1>1, <1>2 DEF NeedsInv, At
  <2>3. MaciPolicy = GetAddress(Path(run.cfg.maciPolicy))
    BY <2>1 DEF MaciPolicy
  <2> QED
    BY <1>2, <2>1, <2>2, <2>3, RegisteredIs
<1>3. CASE Step = "ServiceMaci"
  <2>1. user = "service"
    BY <1>1, <1>3, StepIs DEF InTurn
  <2>2. Registered(Path(run.cfg.pollPolicy))
    BY <1>1, <1>3 DEF NeedsInv, ServiceMaciUsesIt, At
  <2>3. MaciPolicy = GetAddress(Path(run.cfg.pollPolicy))
    BY <2>1 DEF MaciPolicy
  <2> QED
    BY <1>3, <2>2, <2>3, RegisteredIs
<1> QED
  BY <1>1, <1>2, <1>3 DEF MaciSteps

LEMMA BindMaciKeeps ==
    ASSUME IInv, BindMaci
    PROVE  IInv'
<1>1. CASE Throw
  BY <1>1, Broken DEF Throw
<1>2. CASE ~Throw
  <2>1. /\ ~Idle /\ run.pc = "call" /\ Step \in MaciSteps /\ UNCHANGED <<file, user, finished>>
        /\ chain' = Bound(chain, MaciPolicy, Made("MACI"))
        /\ run' = [run EXCEPT !.pc = "register"]
    BY <1>2 DEF BindMaci, Goto, MaciSteps
  <2>2. MaciPolicy \in instances
    BY <2>1, MaciPolicyIs DEF IInv, At
  <2>3. Made("MACI") \in 1..Len(chain)
    <3>1. \A i \in DOMAIN run.made : IsMade(run.made[i])
      BY <2>1 DEF IInv, MadeInv
    <3>2. \E i \in DOMAIN run.made : run.made[i].path[1] = "MACI"
      BY <2>1 DEF IInv, MadeInv, At
    <3>3. \A m \in Range(run.made) : IsMade(m)
      BY <3>1 DEF Range
    <3>4. \E m \in Range(run.made) : m.path[1] = "MACI"
      BY <3>2 DEF Range
    <3>5. PICK m \in Range(run.made) : m = CHOOSE x \in Range(run.made) : x.path[1] = "MACI"
      BY <3>4
    <3> QED
      BY <3>3, <3>5 DEF Made, IsMade
  <2>4. ChainInv' /\ Alike
    <3>1. PICK policy \in instances, guarded \in 1..Len(chain) : policy = MaciPolicy /\ guarded = Made("MACI")
      BY <2>2, <2>3
    <3> QED
      BY <2>1, <3>1, Targeted DEF IInv
  <2>5. PICK pc \in {"register", "next"} : pc = "register"
    OBVIOUS
  <2> QED
    BY <2>1, <2>4, <2>5, Called
<1> QED
  BY <1>1, <1>2

LEMMA CrashKeeps ==
    ASSUME IInv, Crash
    PROVE  IInv'
  BY Broken DEF Crash

(* What a step deploys next, the contract it then adds to the chain and to what it made, and
   how it goes on. *)
TakesNext(step, id, rest) ==
    /\ Len(run.todo) \in Nat /\ Len(run.todo) > 0 /\ DOMAIN run.todo = 1..Len(run.todo) /\ id = run.todo[1]
    /\ id \in Ids /\ rest \in Seq(Ids) /\ Len(rest) = Len(run.todo) - 1 /\ DOMAIN rest = 1..Len(rest)
    /\ \A i \in 1..Len(rest) : rest[i] = run.todo[i + 1] /\ i + 1 \in 1..Len(run.todo)
    /\ OfStep(id) /\ id # "Poll" /\ \A i \in 1..Len(rest) : OfStep(rest[i]) /\ rest[i] # "Poll"
    /\ step \notin PollSteps
    /\ id = "MACI" => step \in MaciSteps
    /\ step \in PolicySteps => id # "MACI"
    /\ step \in MaciSteps => step \notin PolicySteps
IsAdded(id, n, c) ==
    /\ IsContract(c) /\ c.id = id /\ c.target = 0 /\ c.polls = <<>> /\ c.policy \in 0..Len(chain)
    /\ id # "MACI" => c.policy = 0
    /\ id = "MACI" => c.policy = MaciPolicy
    /\ ChainInv' /\ Longer
    /\ Len(chain') = n /\ New = {n} /\ chain'[n] = c /\ chain' = Append(chain, c)
IsListed(step, id, n, m, made) ==
    /\ m \in [path : Paths, address : Nat] /\ m.address = n /\ m.path[1] = id
    /\ step \in PolicySteps => (Len(m.path) = 2 <=> step = "PollPolicy")
    /\ step = "ServicePolicy" => m.path = Path(id)
    /\ made \in Seq([path : Paths, address : Nat]) /\ DOMAIN made = 1..Len(made)
    /\ Len(run.made) \in Nat /\ Len(made) = Len(run.made) + 1 /\ DOMAIN run.made = 1..Len(run.made)
    /\ made[Len(run.made) + 1] = m /\ \A i \in 1..Len(run.made) : made[i] = run.made[i]
HasGoneOn(pc, rest, made) ==
    /\ RunTyped' /\ InTurn' /\ ~Idle' /\ Step' = Step /\ run'.job = run.job /\ run'.cfg = run.cfg /\ run'.pc = pc
    /\ run'.pollId = run.pollId /\ run'.todo = rest /\ run'.made = made
    /\ Has("full")' = Has("full")
    /\ \A steps, pcs : At(steps, pcs)' <=> Step \in steps /\ pc \in pcs

Deploys(step, id, rest, n, c, m, made, pc) ==
    /\ step = Step /\ id = Head(run.todo) /\ rest = Tail(run.todo)
    /\ n = Len(chain) + 1 /\ c = MadeContract(id)
    /\ m = [path |-> PathFor(step, id), address |-> n] /\ made = Append(run.made, m)
    /\ pc = IF step = "Policies" THEN "register" ELSE IF Len(run.todo) > 1 THEN "deploy" ELSE "call"

LEMMA DeployIs ==
    ASSUME IInv, Deploy, NEW step, NEW id, NEW rest, NEW n, NEW c, NEW m, NEW made, NEW pc,
           Deploys(step, id, rest, n, c, m, made, pc)
    PROVE  /\ TakesNext(step, id, rest) /\ IsAdded(id, n, c)
           /\ IsListed(step, id, n, m, made) /\ HasGoneOn(pc, rest, made)
<1>1. RunTyped /\ InTurn /\ ChainInv /\ PolicyInv /\ MadeInv /\ NeedsInv
  BY DEF IInv
<1>2. ~Idle /\ run.pc = "deploy" /\ run.todo # <<>> /\ UNCHANGED <<file, user, finished>>
  BY DEF Deploy
<1>3. /\ run.cfg \in Configs /\ run.pollId \in Nat /\ run.todo \in Seq(Ids)
      /\ run.made \in Seq([path : Paths, address : Nat])
      /\ \A next, todo, after :
            run' = [run EXCEPT !.pc = next, !.todo = todo, !.made = after] => GoesTo(next, run.pollId, todo, after)
  BY <1>1, <1>2, RunFields
<1>4. id = Head(run.todo)
  BY DEF Deploys
<1>5. rest = Tail(run.todo)
  BY DEF Deploys
<1>6. /\ Len(run.todo) \in Nat /\ Len(run.todo) > 0 /\ DOMAIN run.todo = 1..Len(run.todo) /\ id = run.todo[1]
      /\ id \in Ids /\ rest \in Seq(Ids) /\ Len(rest) = Len(run.todo) - 1 /\ DOMAIN rest = 1..Len(rest)
      /\ \A i \in 1..Len(rest) : rest[i] = run.todo[i + 1] /\ i + 1 \in 1..Len(run.todo)
  <2>1. PICK t \in Seq(Ids) : t = run.todo /\ t # <<>>
    BY <1>2, <1>3
  <2>2. /\ Len(t) \in Nat /\ Len(t) > 0 /\ DOMAIN t = 1..Len(t)
    BY <2>1, LenProperties, EmptySeq
  <2>3. id = t[1] /\ id \in Ids /\ rest \in Seq(Ids) /\ Len(rest) = Len(t) - 1
        /\ \A i \in 1..Len(rest) : rest[i] = t[i + 1]
    BY <1>4, <1>5, <2>1, <2>2, HeadTailProperties
  <2>4. DOMAIN rest = 1..Len(rest)
    BY <2>3, SeqIs
  <2>5. \A i \in 1..Len(rest) : i + 1 \in 1..Len(t)
    BY <2>2, <2>3
  <2> QED
    BY <2>1, <2>2, <2>3, <2>4, <2>5
<1>7. id \in Ids /\ OfStep(id) /\ id # "Poll" /\ \A i \in 1..Len(rest) : OfStep(rest[i]) /\ rest[i] # "Poll"
  <2>1. \A i \in DOMAIN run.todo : OfStep(run.todo[i]) /\ run.todo[i] # "Poll"
    BY <1>1, <1>2 DEF MadeInv
  <2>2. 1 \in DOMAIN run.todo
    BY <1>6
  <2> QED
    BY <1>6, <2>1, <2>2
<1>8. step = Step
  BY DEF Deploys
<1>9. /\ step \notin PollSteps
      /\ id = "MACI" => step \in MaciSteps
      /\ step \in PolicySteps => id # "MACI"
      /\ step \in MaciSteps => step \notin PolicySteps
  BY <1>1, <1>2, <1>7, <1>8, ContractsAre DEF MadeInv, At, OfStep, MaciSteps, PolicySteps
<1>10. n \in Nat /\ n = Len(chain) + 1
  BY <1>1, ChainDomain DEF Deploys
<1>11. c = MadeContract(id)
  BY DEF Deploys
<1>12. /\ IsContract(c) /\ c.id = id /\ c.target = 0 /\ c.polls = <<>> /\ c.policy \in 0..Len(chain)
       /\ id # "MACI" => c.policy = 0
       /\ id = "MACI" => c.policy = MaciPolicy
  <2>1. PICK b : b = Contract(id)
    OBVIOUS
  <2>2. IsContract(b) /\ b.id = id /\ b.policy = 0 /\ b.target = 0 /\ b.polls = <<>>
    BY <2>1, ContractIs
  <2>3. CASE id = "MACI"
    <3>1. MaciPolicy \in 1..Len(chain)
      BY <1>1, <1>2, <1>8, <1>9, <2>3, MaciPolicyIs DEF At
    <3>2. PICK policy, depth : policy = MaciPolicy /\ depth = run.cfg.depth
      OBVIOUS
    <3>3. c = [b EXCEPT !.policy = policy, !.depth = depth]
      BY <1>11, <2>1, <2>3, <3>2 DEF MadeContract
    <3>4. /\ IsContract(c) /\ c.id = b.id /\ c.target = b.target /\ c.polls = b.polls /\ c.policy = policy
      BY <2>2, <3>3 DEF IsContract
    <3>5. policy \in 0..Len(chain)
      BY <3>1, <3>2
    <3> QED
      BY <2>2, <2>3, <3>2, <3>4, <3>5
  <2>4. CASE id # "MACI"
    <3>1. c = b /\ 0 \in 0..Len(chain)
      BY <1>1, <1>11, <2>1, <2>4, ChainDomain DEF MadeContract
    <3> QED
      BY <2>2, <2>4, <3>1
  <2> QED
    BY <2>3, <2>4
<1>13. /\ ChainInv' /\ Longer
       /\ Len(chain') = n /\ New = {n} /\ chain'[n] = c /\ chain' = Append(chain, c)
  <2>1. chain' = Append(chain, c)
    BY <1>4, <1>11 DEF Deploy
  <2> QED
    BY <1>1, <1>2, <1>7, <1>10, <1>12, <2>1, AppendChain
<1>14. m = [path |-> PathFor(step, id), address |-> n]
  BY DEF Deploys
<1>15. /\ m \in [path : Paths, address : Nat] /\ m.address = n /\ m.path[1] = id
       /\ step \in PolicySteps => (Len(m.path) = 2 <=> step = "PollPolicy")
       /\ step = "ServicePolicy" => m.path = Path(id)
  <2>1. PathFor(step, id) \in {Path(id), Keyed(id, run.pollId)}
    BY DEF PathFor
  <2>2. /\ Path(id) \in Paths /\ Path(id)[1] = id /\ Len(Path(id)) = 1
        /\ Keyed(id, run.pollId) \in Paths /\ Keyed(id, run.pollId)[1] = id /\ Len(Keyed(id, run.pollId)) = 2
    BY <1>3, <1>7, ShortPaths
  <2>3. m.path = PathFor(step, id) /\ m.address = n /\ m \in [path : Paths, address : Nat]
    BY <1>10, <1>14, <2>1, <2>2
  <2>4. step \in PolicySteps =>
           PathFor(step, id) = IF step = "PollPolicy" THEN Keyed(id, run.pollId) ELSE Path(id)
    BY DEF PathFor, PolicySteps
  <2> QED
    BY <2>1, <2>2, <2>3, <2>4 DEF PolicySteps
<1>16. made = Append(run.made, m)
  BY DEF Deploys
<1>17. /\ made \in Seq([path : Paths, address : Nat]) /\ DOMAIN made = 1..Len(made)
       /\ Len(run.made) \in Nat /\ Len(made) = Len(run.made) + 1 /\ DOMAIN run.made = 1..Len(run.made)
       /\ made[Len(run.made) + 1] = m /\ \A i \in 1..Len(run.made) : made[i] = run.made[i]
  <2>1. made \in Seq([path : Paths, address : Nat]) /\ Len(made) = Len(run.made) + 1
        /\ made[Len(run.made) + 1] = m /\ \A i \in 1..Len(run.made) : made[i] = run.made[i]
    <3>1. PICK S : S = [path : Paths, address : Nat]
      OBVIOUS
    <3>2. PICK old \in Seq(S) : old = run.made
      BY <1>3, <3>1
    <3>3. m \in S /\ made = Append(old, m)
      BY <1>15, <1>16, <3>1, <3>2
    <3>4. /\ made \in Seq(S) /\ Len(made) = Len(old) + 1
          /\ made[Len(old) + 1] = m /\ \A i \in 1..Len(old) : made[i] = old[i]
      BY <3>3, AppendProperties
    <3> QED
      BY <3>1, <3>2, <3>4
  <2>2. DOMAIN made = 1..Len(made)
    BY <2>1, SeqIs
  <2>3. Len(run.made) \in Nat /\ DOMAIN run.made = 1..Len(run.made)
    BY <1>3, SeqIs, LenProperties
  <2> QED
    BY <2>1, <2>2, <2>3
<1>18. /\ pc \in {"register", "deploy", "call"}
       /\ pc = IF step = "Policies" THEN "register" ELSE IF Len(run.todo) > 1 THEN "deploy" ELSE "call"
  BY DEF Deploys
<1>19. pc \in Pcs /\ GoesTo(pc, run.pollId, rest, made)
  <2>1. run' = [run EXCEPT !.todo = rest, !.made = made, !.pc = pc]
    BY <1>4, <1>5, <1>8, <1>10, <1>14, <1>16, <1>18 DEF Deploy, NextAddress
  <2>2. run' = [run EXCEPT !.pc = pc, !.todo = rest, !.made = made]
    BY <1>1, <1>2, <2>1, StepIs DEF Busy
  <2> QED
    BY <1>3, <1>18, <2>2 DEF Pcs
<1>20. /\ RunTyped' /\ InTurn' /\ ~Idle' /\ Step' = Step /\ run'.job = run.job /\ run'.cfg = run.cfg /\ run'.pc = pc
       /\ run'.pollId = run.pollId /\ run'.todo = rest /\ run'.made = made
       /\ Has("full")' = Has("full")
       /\ \A steps, pcs : At(steps, pcs)' <=> Step \in steps /\ pc \in pcs
  BY <1>1, <1>2, <1>3, <1>6, <1>17, <1>19, StepGoesOn
<1> QED
  BY <1>6, <1>7, <1>9, <1>12, <1>13, <1>15, <1>17, <1>20 DEF TakesNext, IsAdded, IsListed, HasGoneOn

LEMMA DeployKeeps ==
    ASSUME IInv, Deploy
    PROVE  IInv'
<1>1. RunTyped /\ InTurn /\ ChainInv /\ PolicyInv /\ MadeInv /\ NeedsInv
  BY DEF IInv
<1>2. ~Idle /\ run.pc = "deploy" /\ run.todo # <<>> /\ UNCHANGED <<file, user, finished>>
  BY DEF Deploy
<1>3. run.cfg \in Configs
  BY <1>1, <1>2, RunFields
<1>4. PICK step, id, rest : step = Step /\ id = Head(run.todo) /\ rest = Tail(run.todo)
  OBVIOUS
<1>5. PICK n \in Nat : n = Len(chain) + 1
  BY <1>1, ChainDomain
<1>6. PICK c, m, made : /\ c = MadeContract(id) /\ m = [path |-> PathFor(step, id), address |-> n]
                        /\ made = Append(run.made, m)
  OBVIOUS
<1>7. PICK pc \in {"register", "deploy", "call"} :
         pc = IF step = "Policies" THEN "register" ELSE IF Len(run.todo) > 1 THEN "deploy" ELSE "call"
  OBVIOUS
<1>8. TakesNext(step, id, rest) /\ IsAdded(id, n, c) /\ IsListed(step, id, n, m, made) /\ HasGoneOn(pc, rest, made)
  BY <1>4, <1>5, <1>6, <1>7, DeployIs DEF Deploys
<1>9. PICK cfg \in Configs : cfg = run.cfg
  BY <1>3
<1>10. Len(chain) \in Nat /\ DOMAIN chain = 1..Len(chain)
  BY <1>1, ChainDomain
<1>11. \A x : chain'[n].policy # x =>
          (Unused(x) => Unused(x)') /\ (GuardsNoPoll(x) => GuardsNoPoll(x)') /\ (Fresh(x) => Fresh(x)')
  BY <1>1, <1>2, <1>8, LongerIs DEF IsAdded
<1>12. PolicyInv'
  <2>1. PICK policy : policy = c.policy
    OBVIOUS
  <2>2. GuardsNoPoll(policy) /\ \A p \in DOMAIN named : OfPolicy(p) /\ named[p].address = policy => Len(p) = 1
    <3>1. CASE id # "MACI"
      BY <1>1, <1>8, <1>10, <2>1, <3>1 DEF ChainInv, WellMade, GuardsNoPoll, IsAdded
    <3>2. CASE id = "MACI"
      <4>1. step \in MaciSteps /\ policy = MaciPolicy
        BY <1>8, <2>1, <3>2 DEF TakesNext, IsAdded
      <4>2. PICK path \in {Path(cfg.maciPolicy), Path(cfg.pollPolicy)} :
               /\ Registered(path) /\ MaciPolicy = GetAddress(path)
               /\ step = "MACI" => user = "tasks"
               /\ step = "ServiceMaci" => path = Path(cfg.pollPolicy)
        BY <1>1, <1>2, <1>4, <1>9, <4>1, MaciPolicyIs DEF At, MaciSteps
      <4>3. Len(path) = 1 /\ OfPolicy(path)
        <5>1. cfg.maciPolicy \in Ids \ Contracts /\ cfg.pollPolicy \in Ids \ Contracts
          BY ConfigIs
        <5>2. \A x \in Ids : Len(Path(x)) = 1 /\ Path(x)[1] = x
          BY ShortPaths
        <5> QED
          BY <4>2, <5>1, <5>2 DEF OfPolicy
      <4>4. GuardsNoPoll(policy)
        <5>1. CASE step = "MACI"
          BY <1>1, <4>1, <4>2, <4>3, <5>1 DEF PolicyInv, Registered, GetAddress
        <5>2. CASE step = "ServiceMaci"
          <6>1. Unused(GetAddress(Path(cfg.pollPolicy)))
            BY <1>1, <1>2, <1>4, <1>9, <5>2 DEF NeedsInv, ServiceMaciUsesIt, At
          <6>2. Unused(policy)
            BY <4>1, <4>2, <5>2, <6>1
          <6> QED
            BY <6>2 DEF Unused, GuardsNoPoll
        <5> QED
          BY <4>1, <5>1, <5>2 DEF MaciSteps
      <4>5. ASSUME NEW p \in DOMAIN named, OfPolicy(p), named[p].address = policy
            PROVE  p = path
        BY <1>1, <4>1, <4>2, <4>3, <4>5 DEF PolicyInv, Registered, GetAddress
      <4> QED
        BY <4>3, <4>4, <4>5
    <3> QED
      BY <3>1, <3>2
  <2>3. ~At({"Poll"}, {"call"})'
    BY <1>4, <1>8 DEF PollSteps, TakesNext, HasGoneOn
  <2>4. PICK guarded \in New : guarded = n
    BY <1>8 DEF IsAdded
  <2>5. chain'[guarded].policy = policy /\ chain'[guarded].id # "Poll"
    BY <1>8, <2>1, <2>4 DEF TakesNext, IsAdded
  <2>6. \A a \in New : a # guarded => chain'[a].policy = 0 /\ chain'[a].id # "Poll"
    BY <1>8, <2>4 DEF IsAdded
  <2>7. Longer
    BY <1>8 DEF IsAdded
  <2>8. \A p \in DOMAIN named : OfPolicy(p) /\ named[p].address = policy =>
           /\ Len(p) = 2 => InUse(p)'
           /\ Len(p) = 1 /\ user = "tasks" => chain'[guarded].id # "Poll"
    BY <2>2, <2>5
  <2> QED
    BY <1>1, <1>2, <2>2, <2>3, <2>5, <2>6, <2>7, <2>8, LongerPolicies
<1>13. MadeInv'
  <2>1. \A x : IsMade(x) => IsMade(x)'
    BY <1>5, <1>8, <1>10 DEF IsMade, OfStep, Longer, IsAdded, HasGoneOn
  <2>2. IsMade(m)'
    BY <1>5, <1>8, <1>10 DEF IsMade, OfStep, TakesNext, IsAdded, IsListed, HasGoneOn
  <2>3. \A i \in DOMAIN run.made : IsMade(run.made[i])
    BY <1>1, <1>2 DEF MadeInv
  <2>4. ASSUME NEW i \in DOMAIN made
        PROVE  IsMade(made[i])'
    <3>1. PICK x : x = made[i]
      OBVIOUS
    <3>2. x = m \/ \E j \in DOMAIN run.made : x = run.made[j]
      <4>1. /\ Len(run.made) \in Nat /\ DOMAIN made = 1..(Len(run.made) + 1) /\ DOMAIN run.made = 1..Len(run.made)
            /\ made[Len(run.made) + 1] = m /\ \A j \in 1..Len(run.made) : made[j] = run.made[j]
        BY <1>8 DEF IsListed
      <4>2. i = Len(run.made) + 1 \/ i \in 1..Len(run.made)
        BY <4>1
      <4> QED
        BY <3>1, <4>1, <4>2
    <3>3. IsMade(x)'
      BY <2>1, <2>2, <2>3, <3>2
    <3> QED
      BY <3>1, <3>3
  <2>5. \A x : OfStep(x) => OfStep(x)'
    BY <1>8 DEF OfStep, HasGoneOn
  <2>6. \A i \in DOMAIN rest : OfStep(rest[i])' /\ rest[i] # "Poll"
    BY <1>8, <2>5 DEF TakesNext
  <2>7. pc = "call" => rest = <<>>
    <3>1. pc = "call" => ~(Len(run.todo) > 1)
      BY <1>7
    <3>2. pc = "call" => Len(rest) = 0
      <4>1. PICK k \in Nat : k = Len(run.todo) /\ k > 0 /\ Len(rest) = k - 1
        BY <1>8 DEF TakesNext
      <4>2. \A j \in Nat : j > 0 => j > 1 \/ j - 1 = 0
        OBVIOUS
      <4> QED
        BY <3>1, <4>1, <4>2
    <3> QED
      BY <1>8, <3>2, EmptySeq DEF TakesNext
  <2>8. step \in MaciSteps => \A i \in DOMAIN run.todo : run.todo[i] = "MACI" <=> i = Len(run.todo)
    BY <1>1, <1>2, <1>4 DEF MadeInv, At
  <2>9. step \in MaciSteps => \A i \in DOMAIN rest : rest[i] = "MACI" <=> i = Len(rest)
    BY <1>8, <2>8 DEF TakesNext
  <2>10. step \in MaciSteps /\ pc = "call" => \E i \in DOMAIN made : made[i].path[1] = "MACI"
    <3>1. step \in MaciSteps /\ pc = "call" => id = "MACI"
      BY <1>7, <1>8, <2>8 DEF TakesNext
    <3>2. Len(run.made) + 1 \in DOMAIN made
      BY <1>8 DEF IsListed
    <3> QED
      BY <1>8, <3>1, <3>2 DEF IsListed
  <2>11. step \in PolicySteps => run.made = <<>> /\ (step # "Policies" => Len(run.todo) = 1)
    BY <1>1, <1>2, <1>4 DEF MadeInv, At
  <2>12. step \in PolicySteps => pc # "deploy"
    BY <1>7, <1>8, <2>11 DEF TakesNext
  <2>13. step \in PolicySteps => Len(made) = 1 /\ made[1] = m
    BY <1>8, <2>11, EmptyIs DEF IsListed
  <2>14. step \in PolicySteps => Fresh(n)'
    <3>1. ASSUME NEW a \in 1..Len(chain'), step \in PolicySteps
          PROVE  chain'[a].policy # n
      <4>1. CASE a \in 1..Len(chain)
        <5>1. chain'[a].policy \in 0..(a - 1)
          BY <1>1, <1>8, <4>1 DEF ChainInv, WellMade, Longer, IsAdded
        <5> QED
          BY <1>5, <1>10, <4>1, <5>1
      <4>2. CASE a = n
        BY <1>5, <1>8, <1>10, <3>1, <4>2 DEF TakesNext, IsAdded
      <4> QED
        BY <1>5, <1>8, <1>10, <4>1, <4>2 DEF IsAdded
    <3>2. \A p \in DOMAIN named' : named'[p].address # n
      BY <1>1, <1>2, <1>5, <1>10 DEF ChainInv, file
    <3> QED
      BY <3>1, <3>2 DEF Fresh, Unused
  <2>15. step \in PolicySteps =>
            /\ \A i, j \in DOMAIN made : i = j
            /\ \A i \in DOMAIN made : Fresh(made[i].address)' /\ (Len(made[i].path) = 2 <=> step = "PollPolicy")
    <3>1. step \in PolicySteps => \A i \in DOMAIN made : i = 1 /\ made[i] = m
      BY <1>8, <2>13 DEF IsListed
    <3>2. \A x : x = n /\ Fresh(n)' => Fresh(x)'
      OBVIOUS
    <3>3. ASSUME NEW i \in DOMAIN made, step \in PolicySteps
          PROVE  Fresh(made[i].address)'
      BY <1>8, <2>14, <3>1, <3>2, <3>3 DEF IsListed
    <3> QED
      BY <1>8, <3>1, <3>3 DEF IsListed
  <2>16. step = "ServicePolicy" => \E i \in DOMAIN made : made[i].path = Path(cfg.pollPolicy)
    <3>1. step = "ServicePolicy" => id = cfg.pollPolicy
      BY <1>1, <1>2, <1>4, <1>8, <1>9 DEF MadeInv, At, TakesNext
    <3>2. step = "ServicePolicy" => step \in PolicySteps
      BY DEF PolicySteps
    <3>3. 1 \in DOMAIN made
      BY <1>8 DEF IsListed
    <3> QED
      BY <1>8, <2>13, <3>1, <3>2, <3>3 DEF IsListed
  <2>17. step = "ServicePolicy" => pc # "deploy"
    BY <2>12 DEF PolicySteps
  <2>18. pc = "register" => step = "Policies"
    BY <1>7
  <2>19. pc # "bind" /\ pc # "next" /\ pc # "enter"
    OBVIOUS
  <2>20. /\ step \notin PollSteps /\ ~Idle' /\ Step' = step /\ run'.pc = pc /\ run'.todo = rest
         /\ run'.made = made /\ run'.cfg = cfg
    BY <1>4, <1>8, <1>9 DEF TakesNext, HasGoneOn
  <2> QED
    BY <2>4, <2>6, <2>7, <2>9, <2>10, <2>12, <2>15, <2>16, <2>17, <2>18, <2>19, <2>20, MadeThen
<1>14. NeedsInv'
  <2>1. \A p : Registered(p) => Registered(p)'
    BY <1>2 DEF Registered, file
  <2>2. step = "MACI" => Registered(Path(cfg.maciPolicy))'
    BY <1>1, <1>2, <1>4, <1>9, <2>1 DEF NeedsInv, At
  <2>3. step = "PollPolicy" => Registered(Path("MACI"))'
    BY <1>1, <1>2, <1>4, <2>1 DEF NeedsInv, At
  <2>4. step \in {"ServiceRegistry", "ServiceProxy", "ServiceMaci"} => IsFree(Path(cfg.pollPolicy))
    BY <1>1, <1>2, <1>4, <1>9 DEF NeedsInv, ServiceMaciUsesIt, At, Pcs, IsFree
  <2>5. step = "ServiceMaci" => Registered(Path(cfg.pollPolicy))'
    BY <2>1, <2>4 DEF IsFree
  <2>6. (step \in {"ServiceRegistry", "ServiceProxy"} \/ (step = "ServiceMaci" /\ pc = "deploy")) =>
           IsFree(Path(cfg.pollPolicy))'
    <3> SUFFICES ASSUME step \in {"ServiceRegistry", "ServiceProxy"} \/ (step = "ServiceMaci" /\ pc = "deploy")
                 PROVE  IsFree(Path(cfg.pollPolicy))'
      OBVIOUS
    <3>1. id # "MACI"
      <4>1. CASE step = "ServiceMaci" /\ pc = "deploy"
        <5>1. Len(run.todo) > 1
          BY <1>7, <4>1
        <5>2. \A i \in DOMAIN run.todo : run.todo[i] = "MACI" <=> i = Len(run.todo)
          BY <1>1, <1>2, <1>4, <4>1 DEF MadeInv, At, MaciSteps
        <5> QED
          BY <1>8, <5>1, <5>2 DEF TakesNext
      <4> QED
        BY <1>8, <4>1 DEF MaciSteps, TakesNext
    <3>2. PICK p : p = Path(cfg.pollPolicy)
      OBVIOUS
    <3>3. Registered(p) /\ Unused(GetAddress(p))
      BY <2>4, <3>2 DEF IsFree
    <3>4. PICK x : x = GetAddress(p)
      OBVIOUS
    <3>5. x \in 1..Len(chain)
      BY <1>1, <3>3, <3>4, RegisteredIs
    <3>6. chain'[n].policy # x
      BY <1>8, <3>1, <3>5 DEF IsAdded
    <3>7. Unused(x)'
      BY <1>11, <3>3, <3>4, <3>6
    <3>8. Registered(p)' /\ GetAddress(p)' = x
      BY <1>2, <2>1, <3>3, <3>4 DEF GetAddress, file
    <3> QED
      BY <3>2, <3>7, <3>8 DEF IsFree, Unused
  <2> QED
    BY <1>4, <1>8, <1>9, <2>2, <2>3, <2>5, <2>6, NeedsThen DEF PollSteps, TakesNext, HasGoneOn
<1> QED
  BY <1>8, <1>12, <1>13, <1>14 DEF IInv, IsAdded, HasGoneOn

(* The policy of the poll that is deployed is the file's, and guards nothing yet. *)
LEMMA PollPolicyIs ==
    ASSUME RunTyped, ChainInv, NeedsInv, At(PollSteps, {"call", "bind"}),
           NEW path, path = IF Step = "Poll" THEN Keyed(run.cfg.pollPolicy, run.pollId) ELSE Path(run.cfg.pollPolicy)
    PROVE  /\ Registered(Path("MACI")) /\ Registered(path) /\ PollPolicy = GetAddress(path) /\ OfPolicy(path)
           /\ PollPolicy \in instances /\ PollPolicy \in 1..Len(chain)
           /\ Step = "Poll" => Len(path) = 2 /\ path[2] = run.pollId
           /\ Step = "ServicePoll" => Len(path) = 1
<1>1. ~Idle /\ Step \in PollSteps /\ run.pc \in {"call", "bind"}
  BY DEF At
<1>2. run.cfg.pollPolicy \in Ids /\ run.cfg.pollPolicy \notin Contracts /\ run.pollId \in Nat
  BY <1>1, RunFields, ConfigIs
<1>3. /\ Path(run.cfg.pollPolicy)[1] = run.cfg.pollPolicy /\ Len(Path(run.cfg.pollPolicy)) = 1
      /\ Keyed(run.cfg.pollPolicy, run.pollId)[1] = run.cfg.pollPolicy
      /\ Keyed(run.cfg.pollPolicy, run.pollId)[2] = run.pollId /\ Len(Keyed(run.cfg.pollPolicy, run.pollId)) = 2
  BY <1>2, ShortPaths
<1>4. Registered(Path("MACI"))
  BY <1>1 DEF NeedsInv, At
<1>5. Registered(path)
  BY <1>1 DEF NeedsInv, ServiceMaciUsesIt, At, PollSteps
<1>6. PollPolicy = GetAddress(path)
  BY DEF PollPolicy
<1>7. OfPolicy(path)
  BY <1>2, <1>3 DEF OfPolicy
<1>8. PollPolicy \in instances /\ PollPolicy \in 1..Len(chain)
  BY <1>5, <1>6, RegisteredIs
<1> QED
  BY <1>3, <1>4, <1>5, <1>6, <1>7, <1>8

LEMMA DeployPollKeeps ==
    ASSUME IInv, DeployPoll
    PROVE  IInv'
<1>1. RunTyped /\ InTurn /\ ChainInv /\ PolicyInv /\ MadeInv /\ NeedsInv
  BY DEF IInv
<1>2. /\ ~Idle /\ run.pc = "call" /\ Step \in PollSteps /\ UNCHANGED <<file, user, finished>>
      /\ chain' = WithPoll(chain, Maci, PollPolicy, run.cfg)
      /\ run' = [run EXCEPT !.pc = "bind", !.pollId = IF Step = "Poll" THEN @ ELSE NextPollId]
  BY DEF DeployPoll, PollSteps
<1>3. /\ run.cfg \in Configs /\ run.pollId \in Nat /\ run.todo \in Seq(Ids)
      /\ run.made \in Seq([path : Paths, address : Nat]) /\ run \in Busy
  BY <1>1, <1>2, RunFields, StepIs
<1>4. PICK step : step = Step
  OBVIOUS
<1>5. PICK cfg \in Configs : cfg = run.cfg
  BY <1>3
<1>6. NextPollId \in Nat
  BY <1>1, NextPollIdIs
<1>7. PICK pollId \in Nat : pollId = IF step = "Poll" THEN run.pollId ELSE NextPollId
  BY <1>3, <1>6
<1>8. PICK made \in Seq([path : Paths, address : Nat]), todo \in Seq(Ids) : made = run.made /\ todo = run.todo
  BY <1>3
<1>9. GoesTo("bind", pollId, todo, made) /\ "bind" \in Pcs
  BY <1>2, <1>3, <1>4, <1>7, <1>8 DEF GoesTo, Busy, Pcs
<1>10. /\ RunTyped' /\ InTurn' /\ ~Idle' /\ Step' = Step /\ run'.cfg = run.cfg /\ run'.pc = "bind"
       /\ run'.pollId = pollId /\ run'.todo = todo /\ run'.made = made
       /\ Has("full")' = Has("full")
       /\ \A steps, pcs : At(steps, pcs)' <=> Step \in steps /\ "bind" \in pcs
  BY <1>1, <1>2, <1>9, StepGoesOn
<1>11. PICK path : path = IF Step = "Poll" THEN Keyed(run.cfg.pollPolicy, run.pollId) ELSE Path(run.cfg.pollPolicy)
  OBVIOUS
<1>12. /\ Registered(Path("MACI")) /\ Registered(path) /\ PollPolicy = GetAddress(path) /\ OfPolicy(path)
       /\ PollPolicy \in 1..Len(chain)
       /\ Step = "Poll" => Len(path) = 2 /\ path[2] = run.pollId
       /\ Step = "ServicePoll" => Len(path) = 1
  <2>1. At(PollSteps, {"call", "bind"})
    BY <1>2 DEF At
  <2> QED
    BY <1>1, <1>11, <2>1, PollPolicyIs
<1>13. PICK policy \in 1..Len(chain) : policy = PollPolicy
  BY <1>12
<1>14. /\ ChainInv' /\ Longer /\ NextPollId' = NextPollId + 1
       /\ Len(chain) + 1 \in New /\ chain'[Len(chain) + 1].id = "Poll" /\ chain'[Len(chain) + 1].policy = policy
       /\ \A a \in New : a # Len(chain) + 1 => chain'[a].policy = 0 /\ chain'[a].id # "Poll"
  BY <1>1, <1>2, <1>12, <1>13, DeployedPoll
<1>15. PolicyInv'
  <2>1. Unused(policy)
    <3>1. CASE step = "Poll"
      <4>1. path \in DOMAIN named /\ named[path].address = policy
        BY <1>12, <1>13 DEF Registered, GetAddress
      <4>2. ~InUse(path)
        BY <1>2, <1>4, <1>12, <3>1 DEF InUse, At
      <4>3. Len(path) = 2
        BY <1>4, <1>12, <3>1
      <4>4. Unused(named[path].address)
        BY <1>1, <1>12, <4>1, <4>2, <4>3 DEF PolicyInv
      <4> QED
        BY <4>1, <4>4
    <3>2. CASE step = "ServicePoll"
      <4>1. Unused(GetAddress(Path(run.cfg.pollPolicy)))
        BY <1>1, <1>2, <1>4, <3>2 DEF NeedsInv, ServiceMaciUsesIt, At
      <4>2. policy = GetAddress(Path(run.cfg.pollPolicy))
        BY <1>4, <1>11, <1>12, <1>13, <3>2
      <4> QED
        BY <4>1, <4>2
    <3> QED
      BY <1>2, <1>4, <3>1, <3>2 DEF PollSteps
  <2>2. ASSUME NEW p \in DOMAIN named, OfPolicy(p), named[p].address = policy
        PROVE  /\ Len(p) = 2 => InUse(p)'
               /\ ~(Len(p) = 1 /\ user = "tasks")
    <3>1. p = path
      BY <1>1, <1>12, <1>13, <2>2 DEF PolicyInv, Registered, GetAddress
    <3>2. CASE step = "Poll"
      <4>1. Len(p) = 2 /\ p[2] = run.pollId /\ run.pollId <= NextPollId
        BY <1>1, <1>2, <1>4, <1>12, <3>1, <3>2 DEF NeedsInv, At
      <4>2. p[2] < NextPollId'
        BY <1>3, <1>6, <1>14, <4>1
      <4>3. InUse(p)'
        BY <1>10, <4>2 DEF InUse
      <4> QED
        BY <4>1, <4>3
    <3>3. CASE step = "ServicePoll"
      <4>1. user = "service"
        BY <1>1, <1>2, <1>4, <3>3, StepIs DEF InTurn
      <4>2. Len(p) = 1
        BY <1>4, <1>12, <3>1, <3>3
      <4>3. ~(Len(p) = 2)
        BY <4>2
      <4>4. ~(user = "tasks")
        BY <4>1
      <4> QED
        BY <4>3, <4>4
    <3> QED
      BY <1>2, <1>4, <3>2, <3>3 DEF PollSteps
  <2>3. ~At({"Poll"}, {"call"})'
    BY <1>10
  <2>4. PICK guarded \in New : guarded = Len(chain) + 1
    BY <1>14
  <2>5. chain'[guarded].policy = policy /\ chain'[guarded].id = "Poll" /\ policy # 0
    BY <1>14, <2>4
  <2>6. \A a \in New : a # guarded => chain'[a].policy = 0 /\ chain'[a].id # "Poll"
    BY <1>14, <2>4
  <2> QED
    BY <1>1, <1>2, <1>14, <2>1, <2>2, <2>3, <2>5, <2>6, LongerPolicies
<1>16. MadeInv'
  <2>1. todo = <<>>
    BY <1>1, <1>2, <1>8 DEF MadeInv
  <2> QED
    BY <1>2, <1>4, <1>5, <1>10, <2>1, MadeThen DEF PollSteps
<1>17. NeedsInv'
  <2>1. \A p : Registered(p) => Registered(p)'
    BY <1>2 DEF Registered, file
  <2>2. Registered(Path("MACI"))'
    BY <1>12, <2>1
  <2>3. step = "Poll" => Registered(Keyed(cfg.pollPolicy, pollId))'
    BY <1>4, <1>5, <1>7, <1>11, <1>12, <2>1
  <2>4. step = "ServicePoll" => Registered(Path(cfg.pollPolicy))'
    BY <1>4, <1>5, <1>11, <1>12, <2>1
  <2>5. step = "Poll" => pollId < NextPollId'
    <3>1. step = "Poll" => pollId <= NextPollId
      BY <1>1, <1>2, <1>4, <1>7 DEF NeedsInv, At
    <3> QED
      BY <1>6, <1>14, <3>1
  <2> QED
    BY <1>2, <1>4, <1>5, <1>10, <2>2, <2>3, <2>4, <2>5, NeedsThen DEF PollSteps
<1> QED
  BY <1>10, <1>14, <1>15, <1>16, <1>17 DEF IInv

LEMMA BindPollKeeps ==
    ASSUME IInv, NEW pollId \in Nat, BindPoll(pollId)
    PROVE  IInv'
<1>1. RunTyped /\ InTurn /\ ChainInv /\ PolicyInv /\ MadeInv /\ NeedsInv
  BY DEF IInv
<1>2. CASE Throw
  BY <1>2, Broken DEF Throw
<1>3. CASE ~Throw
  <2>1. PICK poll : poll = chain[Maci].polls[pollId + 1]
    OBVIOUS
  <2>2. PICK made : made = [i \in 1..3 |->
                        [path |-> Keyed(chain[poll + i - 1].id, pollId), address |-> poll + i - 1]]
    OBVIOUS
  <2>3. /\ ~Idle /\ run.pc = "bind" /\ UNCHANGED <<file, user, finished>>
        /\ IF Step = "Poll" THEN pollId = run.pollId ELSE pollId \in run.pollId..(NextPollId - 1)
        /\ chain' = Bound(chain, PollPolicy, poll)
        /\ run' = [run EXCEPT !.pc = "register", !.pollId = pollId, !.made = made]
    BY <1>3, <2>1, <2>2 DEF BindPoll
  <2>4. Step \in PollSteps
    BY <1>1, <2>3 DEF MadeInv
  <2>5. PICK step \in PollSteps : step = Step
    BY <2>4
  <2>6. /\ run.cfg \in Configs /\ run.pollId \in Nat /\ run.todo \in Seq(Ids)
        /\ run.made \in Seq([path : Paths, address : Nat]) /\ run \in Busy
    BY <1>1, <2>3, RunFields, StepIs
  <2>7. PICK cfg \in Configs : cfg = run.cfg
    BY <2>6
  <2>8. PICK path : path = IF Step = "Poll" THEN Keyed(run.cfg.pollPolicy, run.pollId) ELSE Path(run.cfg.pollPolicy)
    OBVIOUS
  <2>9. Registered(Path("MACI")) /\ PollPolicy \in instances
    <3>1. At(PollSteps, {"call", "bind"})
      BY <2>3, <2>4 DEF At
    <3> QED
      BY <1>1, <2>8, <3>1, PollPolicyIs
  <2>10. PollAt(poll)
    <3>1. /\ Maci \in instances /\ NextPollId \in Nat /\ DOMAIN chain[Maci].polls = 1..NextPollId
      BY <1>1, <2>9, NextPollIdIs
    <3>2. pollId < NextPollId
      <4>1. CASE Step = "Poll"
        BY <1>1, <2>3, <4>1 DEF NeedsInv, At
      <4>2. CASE Step # "Poll"
        BY <2>3, <2>6, <3>1, <4>2
      <4> QED
        BY <4>1, <4>2
    <3>3. PICK i \in DOMAIN chain[Maci].polls : i = pollId + 1
      BY <3>1, <3>2
    <3> QED
      BY <1>1, <2>1, <3>1, <3>3 DEF ChainInv, WellBound
  <2>11. Len(chain) \in Nat
    BY <1>1, ChainDomain
  <2>12. PICK k \in Nat : k = poll
    BY <2>10, <2>11 DEF PollAt
  <2>13. /\ k \in 1..Len(chain) /\ k + 1 \in 1..Len(chain) /\ k + 2 \in 1..Len(chain)
         /\ chain[k].id = "Poll" /\ chain[k + 1].id = "MessageProcessor" /\ chain[k + 2].id = "Tally"
    BY <2>10, <2>11, <2>12 DEF PollAt
  <2>14. ASSUME NEW i \in 1..3
         PROVE  /\ made[i] \in [path : Paths, address : Nat]
                /\ made[i].address \in 1..Len(chain) /\ chain[made[i].address].id = made[i].path[1]
                /\ made[i].path[1] \in {"Poll", "MessageProcessor", "Tally"}
    <3>1. PICK a \in {k, k + 1, k + 2} : a = poll + i - 1
      BY <2>12
    <3>2. a \in 1..Len(chain) /\ a \in Nat /\ chain[a].id \in {"Poll", "MessageProcessor", "Tally"}
      BY <2>13, <3>1
    <3>3. chain[a].id \in Ids
      BY <3>2, ContractsAre DEF Ids
    <3>4. made[i] = [path |-> Keyed(chain[a].id, pollId), address |-> a]
      BY <2>2, <3>1
    <3>5. Keyed(chain[a].id, pollId) \in Paths /\ Keyed(chain[a].id, pollId)[1] = chain[a].id
      BY <3>3, ShortPaths
    <3> QED
      BY <3>2, <3>4, <3>5
  <2>15. made \in Seq([path : Paths, address : Nat]) /\ DOMAIN made = 1..3
    <3>1. PICK S : S = [path : Paths, address : Nat]
      OBVIOUS
    <3>2. \A i \in 1..3 : made[i] \in S
      BY <2>14, <3>1
    <3>3. made \in [1..3 -> S]
      BY <2>2, <3>2
    <3>4. 3 \in Nat /\ made = [i \in 1..3 |-> made[i]] /\ DOMAIN made = 1..3
      BY <2>2, <3>3
    <3>5. [i \in 1..3 |-> made[i]] \in Seq(S)
      BY <3>2, <3>4, IsASeq
    <3> QED
      BY <3>1, <3>4, <3>5
  <2>16. PICK todo \in Seq(Ids) : todo = run.todo /\ todo = <<>>
    BY <1>1, <2>3, <2>6 DEF MadeInv
  <2>17. GoesTo("register", pollId, todo, made) /\ "register" \in Pcs
    BY <2>3, <2>6, <2>16 DEF GoesTo, Busy, Pcs
  <2>18. /\ RunTyped' /\ InTurn' /\ ~Idle' /\ Step' = Step /\ run'.cfg = run.cfg /\ run'.pc = "register"
         /\ run'.pollId = pollId /\ run'.todo = todo /\ run'.made = made
         /\ Has("full")' = Has("full")
         /\ \A steps, pcs : At(steps, pcs)' <=> Step \in steps /\ "register" \in pcs
    BY <1>1, <2>3, <2>15, <2>17, StepGoesOn
  <2>19. ChainInv' /\ Alike
    <3>1. PICK policy \in instances, guarded \in 1..Len(chain) : policy = PollPolicy /\ guarded = poll
      BY <2>9, <2>12, <2>13
    <3> QED
      BY <1>1, <2>3, <3>1, Targeted
  <2>20. PolicyInv'
    <3>1. ~At({"Poll"}, {"call"})'
      BY <2>18
    <3> QED
      BY <1>1, <2>3, <2>18, <2>19, <3>1, AlikePolicies
  <2>21. MadeInv'
    <3>1. \A m : /\ m.address \in 1..Len(chain) /\ chain[m.address].id = m.path[1]
                 /\ m.path[1] \in {"Poll", "MessageProcessor", "Tally"}
                 => IsMade(m)'
      BY <2>4, <2>18, <2>19, ContractsAre DEF IsMade, OfStep, Alike, PollSteps, PolicySteps
    <3>2. \A i \in DOMAIN made : IsMade(made[i])'
      BY <2>14, <2>15, <3>1
    <3>3. step \notin PolicySteps /\ step \notin MaciSteps /\ step # "ServicePolicy"
      BY DEF PollSteps, PolicySteps, MaciSteps
    <3>4. DOMAIN todo = {}
      BY <2>16
    <3> QED
      BY <2>5, <2>7, <2>16, <2>18, <3>2, <3>3, <3>4, MadeThen
  <2>22. NeedsInv'
    BY <2>5, <2>7, <2>18, NeedsThen DEF PollSteps
  <2> QED
    BY <2>18, <2>19, <2>20, <2>21, <2>22 DEF IInv
<1> QED
  BY <1>2, <1>3

LEMMA OtherPollKeeps ==
    ASSUME IInv, OtherPoll
    PROVE  IInv'
<1>1. RunTyped /\ InTurn /\ ChainInv /\ PolicyInv /\ MadeInv /\ NeedsInv
  BY DEF IInv
<1>2. /\ Registered(Path("MACI")) /\ UNCHANGED <<file, user, run, finished>>
      /\ chain' = Bound(WithPoll(Append(chain, Contract("Policy")), Maci, NextAddress, run.cfg),
                        NextAddress, NextAddress + 1)
  BY DEF OtherPoll
<1>3. PICK n \in Nat : n = Len(chain) + 1
  BY <1>1, ChainDomain
<1>4. /\ ChainInv' /\ Longer /\ NextPollId' = NextPollId + 1
      /\ n + 1 \in New /\ chain'[n + 1].id = "Poll" /\ chain'[n + 1].policy = n
      /\ \A a \in New : a # n + 1 => chain'[a].policy = 0 /\ chain'[a].id # "Poll"
  <2>1. /\ ChainInv' /\ Longer /\ NextPollId' = NextPollId + 1
        /\ Len(chain) + 2 \in New /\ chain'[Len(chain) + 2].id = "Poll"
        /\ chain'[Len(chain) + 2].policy = Len(chain) + 1
        /\ \A a \in New : a # Len(chain) + 2 => chain'[a].policy = 0 /\ chain'[a].id # "Poll"
    BY <1>1, <1>2, OthersPoll
  <2>2. Len(chain) + 2 = n + 1
    BY <1>1, <1>3, ChainDomain
  <2> QED
    BY <1>3, <2>1, <2>2
<1>5. Len(chain) \in Nat /\ n # 0 /\ n \notin 1..Len(chain) /\ NextPollId \in Nat
  BY <1>1, <1>3, ChainDomain, NextPollIdIs
<1>6. \A a \in New : chain'[a].policy \in {0, n}
  BY <1>4
<1>7. \A x \in 1..Len(chain) : (Unused(x) => Unused(x)') /\ (Fresh(x) => Fresh(x)')
  <2>1. \A x \in 1..Len(chain) : \A a \in New : chain'[a].policy # x
    BY <1>5, <1>6
  <2>2. \A x : (\A a \in New : chain'[a].policy # x) => (Unused(x) => Unused(x)') /\ (Fresh(x) => Fresh(x)')
    BY <1>1, <1>2, <1>4, LongerIs
  <2> QED
    BY <2>1, <2>2
<1>8. /\ RunTyped' /\ InTurn' /\ (Idle' <=> Idle) /\ Step' = Step
      /\ \A steps, pcs : At(steps, pcs)' <=> At(steps, pcs)
  BY <1>1, <1>2 DEF RunTyped, InTurn, Idle, Step, At, Has
<1>9. PolicyInv'
  <2>1. Unused(n)
    BY <1>1, <1>3, <1>5 DEF ChainInv, WellMade, Unused
  <2>2. \A p \in DOMAIN named : named[p].address # n
    BY <1>1, <1>5 DEF ChainInv
  <2>3. At({"Poll"}, {"call"})' => At({"Poll"}, {"call"}) /\ run'.pollId = run.pollId
    BY <1>2, <1>8
  <2>4. PICK guarded \in New : guarded = n + 1
    BY <1>4
  <2>5. chain'[guarded].policy = n /\ chain'[guarded].id = "Poll"
    BY <1>4, <2>4
  <2>6. \A a \in New : a # guarded => chain'[a].policy = 0 /\ chain'[a].id # "Poll"
    BY <1>4, <2>4
  <2> QED
    BY <1>1, <1>2, <1>4, <1>5, <2>1, <2>2, <2>3, <2>5, <2>6, LongerPolicies
<1>10. CASE Idle
  BY <1>4, <1>8, <1>9, <1>10, NothingRuns DEF IInv
<1>11. CASE ~Idle
  <2>1. /\ run.cfg \in Configs /\ run.pollId \in Nat /\ run.todo \in Seq(Ids)
        /\ run.made \in Seq([path : Paths, address : Nat]) /\ run.pc \in Pcs
    BY <1>1, <1>11, RunFields
  <2>2. PICK step, pc, pollId, cfg : step = Step /\ pc = run.pc /\ pollId = run.pollId /\ cfg = run.cfg
    OBVIOUS
  <2>3. PICK made, todo : made = run.made /\ todo = run.todo
    OBVIOUS
  <2>4. MadeInv'
    <3>1. \A m : IsMade(m) => IsMade(m)'
      BY <1>4, <1>5, <1>8 DEF IsMade, OfStep, Longer
    <3>2. \A id : OfStep(id) => OfStep(id)'
      BY <1>8 DEF OfStep
    <3>3. (\/ pc \in {"deploy", "call", "register"}
           \/ step = "ServiceRegistry" /\ pc = "next"
           \/ step = "ServiceMaci" /\ pc = "enter") => \A i \in DOMAIN made : IsMade(made[i])
      BY <1>1, <1>11, <2>2, <2>3 DEF MadeInv, At
    <3>4. (\/ pc \in {"deploy", "call", "register"}
           \/ step = "ServiceRegistry" /\ pc = "next"
           \/ step = "ServiceMaci" /\ pc = "enter") => \A i \in DOMAIN made : IsMade(made[i])'
      BY <3>1, <3>3
    <3>5. pc \in {"deploy", "register"} => \A i \in DOMAIN todo : OfStep(todo[i]) /\ todo[i] # "Poll"
      BY <1>1, <1>11, <2>2, <2>3 DEF MadeInv
    <3>6. pc \in {"deploy", "register"} => \A i \in DOMAIN todo : OfStep(todo[i])' /\ todo[i] # "Poll"
      BY <3>2, <3>5
    <3>7. step \in PolicySteps /\ pc \in {"call", "register"} =>
              /\ \A i, j \in DOMAIN made : i = j
              /\ \A i \in DOMAIN made :
                    Fresh(made[i].address) /\ (Len(made[i].path) = 2 <=> step = "PollPolicy")
      BY <1>1, <1>11, <2>2, <2>3 DEF MadeInv, At
    <3>8. \A m : IsMade(m) => m.address \in 1..Len(chain)
      BY DEF IsMade
    <3>9. step \in PolicySteps /\ pc \in {"call", "register"} =>
              /\ \A i, j \in DOMAIN made : i = j
              /\ \A i \in DOMAIN made :
                    Fresh(made[i].address)' /\ (Len(made[i].path) = 2 <=> step = "PollPolicy")
      BY <1>7, <3>3, <3>7, <3>8
    <3>10. /\ pc \in {"call", "bind"} => todo = <<>>
           /\ ~(step \in PollSteps /\ pc = "deploy")
           /\ pc = "bind" => step \in PollSteps
           /\ pc = "register" /\ todo # <<>> => step = "Policies"
           /\ step \in MaciSteps /\ pc = "deploy" => \A i \in DOMAIN todo : todo[i] = "MACI" <=> i = Len(todo)
           /\ step \in MaciSteps /\ pc = "call" => \E i \in DOMAIN made : made[i].path[1] = "MACI"
           /\ step \in PolicySteps /\ pc = "deploy" => made = <<>> /\ (step # "Policies" => Len(todo) = 1)
           /\ step = "ServicePolicy" /\ pc = "deploy" => \A i \in DOMAIN todo : todo[i] = cfg.pollPolicy
           /\ step = "ServicePolicy" /\ pc \in {"call", "register"} =>
                 \E i \in DOMAIN made : made[i].path = Path(cfg.pollPolicy)
      BY <1>1, <1>11, <2>2, <2>3 DEF MadeInv, At
    <3> QED
      BY <1>2, <1>8, <1>11, <2>2, <2>3, <3>4, <3>6, <3>9, <3>10, MadeThen
  <2>5. NeedsInv'
    <3>1. \A p : Registered(p) => Registered(p)'
      BY <1>2 DEF Registered, file
    <3>2. \A p : IsFree(p) => IsFree(p)'
      <4> SUFFICES ASSUME NEW p, IsFree(p)
                   PROVE  IsFree(p)'
        OBVIOUS
      <4>1. PICK x : x = GetAddress(p)
        OBVIOUS
      <4>2. Registered(p) /\ Unused(x) /\ x \in 1..Len(chain)
        BY <1>1, <4>1, RegisteredIs DEF IsFree
      <4>3. Registered(p)' /\ GetAddress(p)' = x /\ Unused(x)'
        BY <1>2, <1>7, <3>1, <4>1, <4>2 DEF GetAddress, file
      <4> QED
        BY <4>3 DEF IsFree, Unused
    <3>3. /\ step = "MACI" /\ pc \in {"deploy", "call"} => Registered(Path(cfg.maciPolicy))
          /\ (\/ step = "PollPolicy" /\ pc \in {"deploy", "call", "register"}
              \/ step \in PollSteps /\ pc \in {"call", "bind"}) => Registered(Path("MACI"))
          /\ step = "Poll" /\ pc \in {"call", "bind"} => Registered(Keyed(cfg.pollPolicy, pollId))
          /\ step = "Poll" /\ pc = "call" => pollId <= NextPollId
          /\ step = "Poll" /\ pc = "bind" => pollId < NextPollId
          /\ (\/ step = "ServiceMaci" /\ pc = "call"
              \/ step = "ServicePoll" /\ pc = "bind") => Registered(Path(cfg.pollPolicy))
          /\ (\/ step = "ServicePolicy" /\ pc = "next"
              \/ step \in {"ServiceRegistry", "ServiceProxy"}
              \/ step = "ServiceMaci" /\ pc \in {"enter", "deploy"}
              \/ step = "ServicePoll" /\ pc \in {"enter", "call"}) => IsFree(Path(cfg.pollPolicy))
      BY <1>1, <1>11, <2>1, <2>2 DEF NeedsInv, ServiceMaciUsesIt, At, IsFree
    <3>4. /\ step = "Poll" /\ pc = "call" => pollId <= NextPollId'
          /\ step = "Poll" /\ pc = "bind" => pollId < NextPollId'
      BY <1>4, <1>5, <2>1, <2>2, <3>3
    <3>5. /\ step = "MACI" /\ pc \in {"deploy", "call"} => Registered(Path(cfg.maciPolicy))'
          /\ (\/ step = "PollPolicy" /\ pc \in {"deploy", "call", "register"}
              \/ step \in PollSteps /\ pc \in {"call", "bind"}) => Registered(Path("MACI"))'
          /\ step = "Poll" /\ pc \in {"call", "bind"} => Registered(Keyed(cfg.pollPolicy, pollId))'
          /\ (\/ step = "ServiceMaci" /\ pc = "call"
              \/ step = "ServicePoll" /\ pc = "bind") => Registered(Path(cfg.pollPolicy))'
          /\ (\/ step = "ServicePolicy" /\ pc = "next"
              \/ step \in {"ServiceRegistry", "ServiceProxy"}
              \/ step = "ServiceMaci" /\ pc \in {"enter", "deploy"}
              \/ step = "ServicePoll" /\ pc \in {"enter", "call"}) => IsFree(Path(cfg.pollPolicy))'
      BY <3>1, <3>2, <3>3
    <3> QED
      BY <1>2, <1>8, <1>11, <2>2, <3>4, <3>5, NeedsThen
  <2> QED
    BY <1>4, <1>8, <1>9, <2>4, <2>5 DEF IInv
<1> QED
  BY <1>10, <1>11

(* What a step made is its own: a policy that nothing uses, or no policy. *)
LEMMA MadeIs ==
    ASSUME RunTyped, InTurn, ChainInv, MadeInv, NeedsInv, ~Idle, run.pc = "register",
           NEW m \in Range(run.made)
    PROVE  /\ IsMade(m) /\ m.path \in Paths /\ m.address \in 1..Len(chain)
           /\ chain[m.address].id = m.path[1] /\ m.path[1] # "Policy"
           /\ OfPolicy(m.path) <=> Step \in PolicySteps
           /\ Step \in PolicySteps =>
                 /\ Fresh(m.address) /\ (Len(m.path) = 2 <=> Step = "PollPolicy")
                 /\ \A other \in Range(run.made) : other = m
           /\ m.path[1] = "MACI" => Step \in MaciSteps
<1>1. PICK i \in DOMAIN run.made : m = run.made[i]
  BY DEF Range
<1>2. IsMade(m)
  BY <1>1 DEF MadeInv
<1>3. m \in [path : Paths, address : Nat]
  <2>1. PICK S : S = [path : Paths, address : Nat]
    OBVIOUS
  <2>2. run.made \in Seq(S)
    BY <2>1, RunFields
  <2>3. m \in S
    BY <1>1, <2>2
  <2> QED
    BY <2>1, <2>3
<1>4. m.address \in 1..Len(chain) /\ chain[m.address].id = m.path[1] /\ OfStep(m.path[1])
  BY <1>2 DEF IsMade
<1>5. /\ m.path[1] # "Policy" /\ (OfPolicy(m.path) <=> Step \in PolicySteps)
      /\ m.path[1] = "MACI" => Step \in MaciSteps
  BY <1>4, ContractsAre DEF OfStep, OfPolicy
<1>6. Step \in PolicySteps =>
         /\ \A j \in DOMAIN run.made : i = j
         /\ Fresh(m.address) /\ (Len(m.path) = 2 <=> Step = "PollPolicy")
  BY <1>1 DEF MadeInv, At
<1>7. Step \in PolicySteps => \A other \in Range(run.made) : other = m
  BY <1>1, <1>6 DEF Range
<1> QED
  BY <1>2, <1>3, <1>4, <1>5, <1>6, <1>7

(* What a step that registers does to the file, and how it goes on. *)
IsToRegister(made) == made = {m \in Range(run.made) : Kept(m)}

LEMMA RegisterIs ==
    ASSUME RunTyped, InTurn, ChainInv, MadeInv, NeedsInv, Register,
           NEW made, IsToRegister(made)
    PROVE  /\ ~Idle /\ run.pc = "register" /\ chain' = chain /\ user' = user /\ finished' = finished
           /\ instances' = instances \cup {m.address : m \in made}
           /\ run' = IF run.todo # <<>> THEN [run EXCEPT !.pc = "deploy", !.made = <<>>]
                     ELSE [run EXCEPT !.pc = "next"]
           /\ \A m \in made :
                 /\ m.path \in Paths /\ m.address \in 1..Len(chain)
                 /\ chain[m.address].id = m.path[1] /\ m.path[1] # "Policy"
                 /\ OfPolicy(m.path) <=> Step \in PolicySteps
                 /\ Step \in PolicySteps =>
                       /\ Fresh(m.address) /\ (Len(m.path) = 2 <=> Step = "PollPolicy")
                       /\ \A other \in made : other = m
                 /\ m.path[1] = "MACI" => Step \in MaciSteps
           /\ \A p \in DOMAIN named' :
                 \/ \E m \in made : m.path = p /\ named'[p].address = m.address
                 \/ /\ p \in DOMAIN named /\ named'[p] = named[p]
                    /\ \A m \in made : ~IsPrefix(m.path, p) /\ m.path # p
           /\ \A m \in made : m.path \in DOMAIN named'
           /\ \A p \in DOMAIN named :
                 (\A m \in made : m.path[1] # p[1]) => p \in DOMAIN named' /\ named'[p] = named[p]
           /\ \A p \in DOMAIN named : Len(p) = 1 => p \in DOMAIN named'
<1>1. /\ ~Idle /\ run.pc = "register" /\ chain' = chain /\ user' = user /\ finished' = finished
      /\ named' = Put(made) /\ instances' = instances \cup {m.address : m \in made}
      /\ run' = IF run.todo # <<>> THEN [run EXCEPT !.pc = "deploy", !.made = <<>>]
                ELSE [run EXCEPT !.pc = "next"]
  BY DEF Register, IsToRegister
<1>2. \A m \in made :
         /\ m.path \in Paths /\ m.address \in 1..Len(chain)
         /\ chain[m.address].id = m.path[1] /\ m.path[1] # "Policy"
         /\ OfPolicy(m.path) <=> Step \in PolicySteps
         /\ Step \in PolicySteps =>
               /\ Fresh(m.address) /\ (Len(m.path) = 2 <=> Step = "PollPolicy")
               /\ \A other \in made : other = m
         /\ m.path[1] = "MACI" => Step \in MaciSteps
  <2>1. made \subseteq Range(run.made)
    BY DEF IsToRegister
  <2> QED
    BY <1>1, <2>1, MadeIs
<1>3. \A p \in DOMAIN named : p \in Paths
  BY DEF ChainInv
<1>4. \A m \in made : m.path \in Paths
  BY <1>2
<1>5. PICK t : t = Put(made)
  OBVIOUS
<1>6. /\ \A p \in DOMAIN t :
            \/ \E m \in made : m.path = p /\ t[p].address = m.address
            \/ /\ p \in DOMAIN named /\ t[p] = named[p]
               /\ \A m \in made : ~IsPrefix(m.path, p) /\ m.path # p
      /\ \A m \in made : m.path \in DOMAIN t
      /\ \A p \in DOMAIN named :
            (\A m \in made : m.path[1] # p[1]) => p \in DOMAIN t /\ t[p] = named[p]
      /\ \A p \in DOMAIN named : Len(p) = 1 => p \in DOMAIN t
  BY <1>3, <1>4, <1>5, PutIs
<1>7. named' = t
  BY <1>1, <1>5
<1> QED
  BY <1>1, <1>2, <1>6, <1>7

LEMMA RegisterGoesOn ==
    ASSUME RunTyped, InTurn, Register,
           NEW pc \in {"deploy", "next"}, pc = IF run.todo # <<>> THEN "deploy" ELSE "next",
           NEW kept, kept = IF run.todo # <<>> THEN <<>> ELSE run.made
    PROVE  /\ RunTyped' /\ InTurn' /\ ~Idle' /\ Step' = Step /\ run'.job = run.job /\ run'.cfg = run.cfg
           /\ run'.pc = pc /\ run'.pollId = run.pollId /\ run'.todo = run.todo /\ run'.made = kept
           /\ Has("full")' = Has("full")
           /\ \A steps, pcs : At(steps, pcs)' <=> Step \in steps /\ pc \in pcs
<1>1. /\ ~Idle /\ user' = user /\ finished' = finished
      /\ run' = IF run.todo # <<>> THEN [run EXCEPT !.pc = "deploy", !.made = <<>>]
                ELSE [run EXCEPT !.pc = "next"]
  BY DEF Register
<1>2. /\ run.todo \in Seq(Ids) /\ run.made \in Seq([path : Paths, address : Nat]) /\ run \in Busy
      /\ run.pollId \in Nat
  BY <1>1, RunFields, StepIs
<1>3. kept \in Seq([path : Paths, address : Nat]) /\ pc \in Pcs
  BY <1>2, EmptySeq DEF Pcs
<1>4. GoesTo(pc, run.pollId, run.todo, kept)
  BY <1>1, <1>2 DEF GoesTo, Busy
<1>5. PICK todo \in Seq(Ids), pollId \in Nat : todo = run.todo /\ pollId = run.pollId
  BY <1>2
<1> QED
  BY <1>1, <1>3, <1>4, <1>5, StepGoesOn, ZenonT(60)

LEMMA RegisterKeeps ==
    ASSUME IInv, Register
    PROVE  IInv'
<1>1. RunTyped /\ InTurn /\ ChainInv /\ PolicyInv /\ MadeInv /\ NeedsInv
  BY DEF IInv
<1>2. PICK made : IsToRegister(made)
  BY DEF IsToRegister
<1>3. /\ ~Idle /\ run.pc = "register" /\ chain' = chain /\ user' = user /\ finished' = finished
      /\ instances' = instances \cup {m.address : m \in made}
      /\ run' = IF run.todo # <<>> THEN [run EXCEPT !.pc = "deploy", !.made = <<>>]
                ELSE [run EXCEPT !.pc = "next"]
  BY <1>1, <1>2, RegisterIs
<1>4. \A m \in made :
         /\ m.path \in Paths /\ m.address \in 1..Len(chain)
         /\ chain[m.address].id = m.path[1] /\ m.path[1] # "Policy"
         /\ OfPolicy(m.path) <=> Step \in PolicySteps
         /\ Step \in PolicySteps =>
               /\ Fresh(m.address) /\ (Len(m.path) = 2 <=> Step = "PollPolicy")
               /\ \A other \in made : other = m
         /\ m.path[1] = "MACI" => Step \in MaciSteps
  BY <1>1, <1>2, RegisterIs
<1>5. /\ \A p \in DOMAIN named' :
            \/ \E m \in made : m.path = p /\ named'[p].address = m.address
            \/ /\ p \in DOMAIN named /\ named'[p] = named[p]
               /\ \A m \in made : ~IsPrefix(m.path, p) /\ m.path # p
      /\ \A m \in made : m.path \in DOMAIN named'
      /\ \A p \in DOMAIN named :
            (\A m \in made : m.path[1] # p[1]) => p \in DOMAIN named' /\ named'[p] = named[p]
  BY <1>1, <1>2, RegisterIs
<1>a. PICK step : step = Step
  OBVIOUS
<1>b. PICK cfg \in Configs, pollId \in Nat : cfg = run.cfg /\ pollId = run.pollId
  BY <1>1, <1>3, RunFields
<1>6. step = Step /\ cfg = run.cfg /\ pollId = run.pollId
  BY <1>a, <1>b
<1>7. \A p \in DOMAIN named :
         p \in Paths /\ named[p].address \in instances /\ named[p].address \in 1..Len(chain)
         /\ chain[named[p].address].id = p[1]
  BY <1>1 DEF ChainInv
<1>8. ChainInv'
  <2>1. \A a \in 1..Len(chain') : WellMade(a)'
    BY <1>1, <1>3 DEF ChainInv, WellMade, IsContract
  <2>2. instances' \subseteq 1..Len(chain')
    BY <1>1, <1>3, <1>4 DEF ChainInv
  <2>3. ASSUME NEW a \in instances'
        PROVE  WellBound(a)'
    <3>1. CASE a \in instances
      BY <1>1, <1>3, <3>1 DEF ChainInv, WellBound, PollAt
    <3>2. CASE a \notin instances
      <4>1. a \in 1..Len(chain) /\ chain[a].id # "Policy"
        BY <1>3, <1>4, <3>2
      <4>2. WellMade(a)
        BY <1>1, <4>1 DEF ChainInv
      <4>3. chain[a].target = 0 /\ chain[a].polls = <<>>
        BY <3>2, <4>1, <4>2 DEF WellMade
      <4>4. Len(chain) \in Nat /\ DOMAIN chain[a].polls = {}
        BY <1>1, <4>3, ChainDomain
      <4> QED
        BY <1>3, <4>3, <4>4 DEF WellBound
    <3> QED
      BY <3>1, <3>2
  <2>4. ASSUME NEW p \in DOMAIN named'
        PROVE  p \in Paths /\ named'[p].address \in instances' /\ chain'[named'[p].address].id = p[1]
    <3>1. CASE \E m \in made : m.path = p /\ named'[p].address = m.address
      BY <1>3, <1>4, <3>1
    <3>2. CASE p \in DOMAIN named /\ named'[p] = named[p]
      BY <1>3, <1>7, <3>2
    <3> QED
      BY <1>5, <3>1, <3>2
  <2> QED
    BY <1>1, <1>3, <2>1, <2>2, <2>3, <2>4 DEF ChainInv
<1>9. PICK pc \in {"deploy", "next"} : pc = IF run.todo # <<>> THEN "deploy" ELSE "next"
  OBVIOUS
<1>10. PICK kept : kept = IF run.todo # <<>> THEN <<>> ELSE run.made
  OBVIOUS
<1>11. /\ RunTyped' /\ InTurn' /\ ~Idle' /\ Step' = Step /\ run'.cfg = run.cfg /\ run'.pc = pc
       /\ run'.pollId = run.pollId /\ run'.todo = run.todo /\ run'.made = kept
       /\ Has("full")' = Has("full")
       /\ \A steps, pcs : At(steps, pcs)' <=> Step \in steps /\ pc \in pcs
  BY <1>1, <1>9, <1>10, RegisterGoesOn
<1>12. \A x : (Unused(x)' <=> Unused(x)) /\ (GuardsNoPoll(x)' <=> GuardsNoPoll(x))
  BY <1>3 DEF Unused, GuardsNoPoll
(* MACI's entry is replaced only before there are polls. *)
<1>13. (user = "tasks" /\ Has("full")) => \A m \in made : m.path[1] # "MACI"
  <2> SUFFICES ASSUME user = "tasks", Has("full"), NEW m \in made, m.path[1] = "MACI"
               PROVE  FALSE
    OBVIOUS
  <2>1. Step \in MaciSteps
    BY <1>4
  <2>2. run.job \in {"full", "serviceMaci", "servicePoll"}
    BY <1>1, <1>3, <2>1, StepIs DEF MaciSteps
  <2> QED
    BY <1>1, <2>2 DEF InTurn
<1>14. (user = "tasks" /\ Has("full") /\ Registered(Path("MACI"))) =>
          Registered(Path("MACI"))' /\ NextPollId' = NextPollId
  <2> SUFFICES ASSUME user = "tasks", Has("full"), Registered(Path("MACI"))
               PROVE  Registered(Path("MACI"))' /\ NextPollId' = NextPollId
    OBVIOUS
  <2>1. PICK p : p = Path("MACI")
    OBVIOUS
  <2>2. p \in DOMAIN named /\ p[1] = "MACI"
    BY <2>1 DEF Registered, Path
  <2>3. p \in DOMAIN named' /\ named'[p] = named[p]
    BY <1>5, <1>13, <2>2
  <2> QED
    BY <1>3, <2>1, <2>2, <2>3 DEF NextPollId, Registered, GetAddress, Path
<1>15. PolicyInv'
  <2>1. OnePollPerPolicy'
    BY <1>1, <1>3 DEF PolicyInv, OnePollPerPolicy, OfKind
  <2>2. ASSUME NEW p \in DOMAIN named', NEW q \in DOMAIN named', OfPolicy(p),
               named'[p].address = named'[q].address
        PROVE  p = q
    <3>1. chain'[named'[p].address].id = p[1] /\ chain'[named'[q].address].id = q[1]
      BY <1>8 DEF ChainInv
    <3>2. OfPolicy(q)
      BY <2>2, <3>1 DEF OfPolicy
    <3>3. CASE \E m \in made : m.path = p /\ named'[p].address = m.address
      <4>1. PICK m \in made : m.path = p /\ named'[p].address = m.address
        BY <3>3
      <4>2. Fresh(m.address) /\ \A other \in made : other = m
        BY <1>4, <2>2, <4>1
      <4>3. ~(q \in DOMAIN named /\ named'[q] = named[q])
        BY <2>2, <4>1, <4>2 DEF Fresh
      <4> QED
        BY <1>5, <4>1, <4>2, <4>3
    <3>4. CASE \E m \in made : m.path = q /\ named'[q].address = m.address
      <4>1. PICK m \in made : m.path = q /\ named'[q].address = m.address
        BY <3>4
      <4>2. Fresh(m.address) /\ \A other \in made : other = m
        BY <1>4, <3>2, <4>1
      <4>3. ~(p \in DOMAIN named /\ named'[p] = named[p])
        BY <2>2, <4>1, <4>2 DEF Fresh
      <4> QED
        BY <1>5, <4>1, <4>2, <4>3
    <3>5. CASE p \in DOMAIN named /\ named'[p] = named[p] /\ q \in DOMAIN named /\ named'[q] = named[q]
      BY <1>1, <2>2, <3>5 DEF PolicyInv
    <3> QED
      BY <1>5, <3>3, <3>4, <3>5
  <2>3. ASSUME NEW p \in DOMAIN named', OfPolicy(p), Len(p) = 2
        PROVE  /\ user' = "tasks" /\ Has("full")' /\ Registered(Path("MACI"))'
               /\ ~InUse(p)' => Unused(named'[p].address)
    <3>1. CASE \E m \in made : m.path = p /\ named'[p].address = m.address
      <4>1. PICK m \in made : m.path = p /\ named'[p].address = m.address
        BY <3>1
      <4>2. Step = "PollPolicy" /\ Unused(m.address)
        BY <1>4, <2>3, <4>1 DEF Fresh
      <4>3. user = "tasks" /\ Has("full")
        BY <1>1, <1>3, <4>2, StepIs DEF InTurn
      <4>4. Registered(Path("MACI"))
        BY <1>1, <1>3, <4>2 DEF NeedsInv, At
      <4> QED
        BY <1>3, <1>11, <1>14, <4>1, <4>2, <4>3, <4>4
    <3>2. CASE p \in DOMAIN named /\ named'[p] = named[p]
      <4>1. /\ user = "tasks" /\ Has("full") /\ Registered(Path("MACI"))
            /\ ~InUse(p) => Unused(named[p].address)
        BY <1>1, <2>3, <3>2 DEF PolicyInv
      <4>2. NextPollId' = NextPollId /\ Registered(Path("MACI"))'
        BY <1>14, <4>1
      <4>3. ~InUse(p)' => ~InUse(p)
        BY <1>11, <4>2 DEF InUse
      <4> QED
        BY <1>3, <1>11, <3>2, <4>1, <4>2, <4>3
    <3> QED
      BY <1>5, <3>1, <3>2
  <2>4. ASSUME NEW p \in DOMAIN named', OfPolicy(p), Len(p) = 1, user = "tasks"
        PROVE  GuardsNoPoll(named'[p].address)
    <3>1. CASE \E m \in made : m.path = p /\ named'[p].address = m.address
      <4>1. PICK m \in made : m.path = p /\ named'[p].address = m.address
        BY <3>1
      <4>2. Unused(m.address)
        BY <1>4, <2>4, <4>1 DEF Fresh
      <4> QED
        BY <4>1, <4>2 DEF Unused, GuardsNoPoll
    <3>2. CASE p \in DOMAIN named /\ named'[p] = named[p]
      BY <1>1, <2>4, <3>2 DEF PolicyInv
    <3> QED
      BY <1>5, <3>1, <3>2
  <2>5. \A p \in DOMAIN named' : OfPolicy(p) /\ Len(p) = 2 =>
           (~InUse(p)' => Unused(named[p].address)')
    <3> SUFFICES ASSUME NEW p \in DOMAIN named', OfPolicy(p), Len(p) = 2, ~InUse(p)'
                 PROVE  Unused(named[p].address)'
      OBVIOUS
    <3>1. PICK x : x = named'[p].address
      OBVIOUS
    <3>2. Unused(x)'
      BY <1>12, <2>3, <3>1
    <3> QED
      BY <3>1, <3>2 DEF Unused
  <2>6. \A p \in DOMAIN named' : OfPolicy(p) /\ Len(p) = 1 /\ user = "tasks" => GuardsNoPoll(named[p].address)'
    <3> SUFFICES ASSUME NEW p \in DOMAIN named', OfPolicy(p), Len(p) = 1, user = "tasks"
                 PROVE  GuardsNoPoll(named[p].address)'
      OBVIOUS
    <3>1. PICK x : x = named'[p].address
      OBVIOUS
    <3>2. GuardsNoPoll(x)'
      BY <1>12, <2>4, <3>1
    <3> QED
      BY <3>1, <3>2 DEF GuardsNoPoll
  <2> QED
    BY <1>3, <2>1, <2>2, <2>3, <2>5, <2>6 DEF PolicyInv, OfPolicy
<1>16. MadeInv'
  <2>1. PICK todo : todo = run.todo
    OBVIOUS
  <2>2. pc = "deploy" =>
           /\ step = "Policies" /\ kept = <<>> /\ \A i \in DOMAIN todo : OfStep(todo[i]) /\ todo[i] # "Poll"
    BY <1>1, <1>3, <1>6, <1>9, <1>10, <2>1 DEF MadeInv
  <2>3. \A id : OfStep(id) => OfStep(id)'
    BY <1>11 DEF OfStep
  <2>4. pc = "deploy" => \A i \in DOMAIN todo : OfStep(todo[i])' /\ todo[i] # "Poll"
    BY <2>2, <2>3
  <2>5. \A m : IsMade(m) => IsMade(m)'
    BY <1>3, <1>11 DEF IsMade, OfStep
  <2>6. pc = "next" => kept = run.made
    BY <1>9, <1>10
  <2>7. \A i \in DOMAIN run.made : IsMade(run.made[i])
    BY <1>1, <1>3 DEF MadeInv
  <2>8. \A i \in DOMAIN kept : IsMade(kept[i])'
    BY <1>9, <2>2, <2>5, <2>6, <2>7, EmptyIs
  <2>9. step = "Policies" => step \notin PollSteps /\ step \notin MaciSteps /\ step # "ServicePolicy"
    BY DEF PollSteps, MaciSteps
  <2> QED
    BY <1>6, <1>11, <2>1, <2>2, <2>4, <2>8, <2>9, MadeThen
<1>17. NeedsInv'
  <2>1. pc = "deploy" => step = "Policies"
    BY <1>1, <1>3, <1>6, <1>9 DEF MadeInv
  <2>2. cfg.pollPolicy \in Ids /\ cfg.pollPolicy \notin Contracts
    BY ConfigIs
  <2>3. PICK p : p = Path(cfg.pollPolicy)
    OBVIOUS
  <2>4. p[1] = cfg.pollPolicy /\ OfPolicy(p)
    BY <2>2, <2>3, ShortPaths DEF OfPolicy
  <2>5. step \in {"ServiceRegistry", "ServiceProxy"} => IsFree(p)'
    <3> SUFFICES ASSUME step \in {"ServiceRegistry", "ServiceProxy"}
                 PROVE  IsFree(p)'
      OBVIOUS
    <3>1. Registered(p) /\ Unused(GetAddress(p))
      BY <1>1, <1>3, <1>6, <2>3 DEF NeedsInv, ServiceMaciUsesIt, At, Pcs
    <3>2. \A m \in made : m.path[1] # p[1]
      BY <1>4, <1>6, <2>4 DEF OfPolicy, PolicySteps
    <3>3. p \in DOMAIN named' /\ named'[p] = named[p]
      BY <1>5, <3>1, <3>2 DEF Registered
    <3> QED
      BY <1>3, <3>1, <3>3 DEF IsFree, Registered, GetAddress, Unused
  <2>6. step = "ServicePolicy" => IsFree(p)'
    <3> SUFFICES ASSUME step = "ServicePolicy"
                 PROVE  IsFree(p)'
      OBVIOUS
    <3>1. PICK i \in DOMAIN run.made : run.made[i].path = p
      BY <1>1, <1>3, <1>6, <2>3 DEF MadeInv, At
    <3>2. PICK m : m = run.made[i]
      OBVIOUS
    <3>3. m \in made /\ m.path = p
      BY <1>2, <1>6, <3>1, <3>2 DEF IsToRegister, Range, Kept
    <3>4. step \in PolicySteps
      BY DEF PolicySteps
    <3>5. Fresh(m.address) /\ \A other \in made : other = m
      BY <1>4, <1>6, <3>3, <3>4
    <3>6. p \in DOMAIN named' /\ named'[p].address = m.address
      BY <1>5, <3>3, <3>5
    <3> QED
      BY <1>3, <3>5, <3>6 DEF IsFree, Registered, GetAddress, Unused, Fresh
  <2> QED
    BY <1>6, <1>9, <1>11, <2>1, <2>3, <2>5, <2>6, NeedsThen DEF PollSteps
<1> QED
  BY <1>8, <1>11, <1>15, <1>16, <1>17 DEF IInv

LEMMA InitHolds == Init => IInv
<1> SUFFICES ASSUME Init
             PROVE  IInv
  OBVIOUS
<1>1. PICK cfg \in Configs : run = [job |-> "none", cfg |-> cfg, failed |-> FALSE]
  BY DEF Init
<1>2. RunTyped /\ Idle
  BY <1>1 DEF RunTyped, Idle
<1>3. InTurn
  <2>1. finished = [job \in Jobs |-> 0]
    BY StepsAre DEF Init
  <2> QED
    BY <1>1, <2>1 DEF InTurn
<1>4. chain = <<>> /\ named = <<>> /\ instances = {}
  BY DEF Init
<1>5. IsSeq(chain) /\ Len(chain) = 0 /\ DOMAIN chain = {} /\ DOMAIN named = {} /\ 1..0 = {}
  BY <1>4, EmptyIs
<1>6. ChainInv
  BY <1>4, <1>5 DEF ChainInv
<1>7. PolicyInv
  BY <1>5 DEF PolicyInv, OnePollPerPolicy, OfKind
<1>8. MadeInv /\ NeedsInv
  BY <1>2 DEF MadeInv, NeedsInv, ServiceMaciUsesIt, At
<1> QED
  BY <1>2, <1>3, <1>6, <1>7, <1>8 DEF IInv

LEMMA NextKeeps == IInv /\ [Next]_vars => IInv'
<1> SUFFICES ASSUME IInv, [Next]_vars
             PROVE  IInv'
  OBVIOUS
<1>1. CASE StartAny
  BY <1>1, StartKeeps DEF StartAny
<1>2. CASE Work
  <2>1. ASSUME NEW pollId \in 0..(MaxPolls + MaxCrashes + MaxOthers), BindPoll(pollId)
        PROVE  IInv'
    <3>1. pollId \in Nat
      OBVIOUS
    <3> QED
      BY <2>1, <3>1, BindPollKeeps
  <2> QED
    BY <1>2, <2>1, EnterKeeps, DeployKeeps, SetKeysKeeps, BindMaciKeeps, DeployPollKeeps, NoCallKeeps,
       RegisterKeeps, NextStepKeeps DEF Work
<1>3. CASE Crash
  BY <1>3, CrashKeeps
<1>4. CASE OtherPoll
  BY <1>4, OtherPollKeeps
<1>5. CASE UNCHANGED vars
  <2>1. chain' = chain /\ named' = named /\ instances' = instances /\ user' = user /\ run' = run /\ finished' = finished
    BY <1>5 DEF vars
  <2>2. RunTyped' /\ InTurn' /\ ChainInv'
    <3>1. RunTyped'
      BY <2>1 DEF IInv, RunTyped
    <3>2. InTurn'
      BY <2>1 DEF IInv, InTurn, Has
    <3>3. ChainInv'
      BY <2>1, SameChain DEF IInv, file
    <3> QED
      BY <3>1, <3>2, <3>3
  <2>3. PolicyInv'
    <3>1. Alike
      BY <2>1, SameIsAlike DEF IInv
    <3>2. At({"Poll"}, {"call"})' => At({"Poll"}, {"call"}) /\ run'.pollId = run.pollId
      BY <2>1 DEF At, Idle, Step
    <3>3. Has("full") => Has("full")'
      BY <2>1 DEF Has
    <3>4. UNCHANGED <<file, user>>
      BY <2>1 DEF file
    <3> QED
      BY <3>1, <3>2, <3>3, <3>4, AlikePolicies DEF IInv
  <2>4. MadeInv'
    BY <2>1 DEF IInv, MadeInv, IsMade, OfStep, Fresh, Unused, At, Idle, Step, Path
  <2>5. NeedsInv'
    BY <2>1 DEF IInv, NeedsInv, ServiceMaciUsesIt, Unused, At, Idle, Step, Registered, NextPollId, GetAddress, Path, Keyed
  <2> QED
    BY <2>2, <2>3, <2>4, <2>5 DEF IInv
<1> QED
  BY <1>1, <1>2, <1>3, <1>4, <1>5 DEF Next

(* However runs are broken off and repeated, by the operator or by others' polls, no poll
   has the policy of another poll or of a MACI (deploy-poll, SelfEligibilityPolicy.setTarget). *)
THEOREM OnePollPerPolicyHolds == Spec => []OnePollPerPolicy
<1>1. IInv => OnePollPerPolicy
  BY DEF IInv, PolicyInv
<1> QED
  BY <1>1, InitHolds, NextKeeps, PTL DEF Spec

-----------------------------------------------------------------------------
(* What the file names can be used. *)

(* What it takes: the configurations agree on what keys are for, and have the keys of their
   modes; the service is asked for one MACI; nobody deploys a poll while a run does. *)
OneCircuit ==
    \A a, b \in Configs :
        /\ a.depth = b.depth /\ a.pollDepth = b.pollDepth /\ a.tallyDepth = b.tallyDepth
        /\ a.voteOptionDepth = b.voteOptionDepth /\ a.zkeys = b.zkeys
ModesHaveKeys == \A cfg \in Configs : cfg.mode \in cfg.zkeys \cap Range(EModes)
OneMaci == MaxMacis <= 1
NoRace == OthersRace = FALSE

(* Polls and MACIs have the depths of a configuration. *)
FromConfig(c) ==
    /\ c.id = "Poll" =>
          \E cfg \in Configs : /\ c.depth = cfg.pollDepth /\ c.tallyDepth = cfg.tallyDepth
                               /\ c.voteOptionDepth = cfg.voteOptionDepth /\ c.mode = cfg.mode
    /\ c.id = "MACI" => \E cfg \in Configs : c.depth = cfg.depth
(* The keys of a poll's contracts. *)
IsRegistry(keys) ==
    keys = [joining |-> keys.joining, joined |-> keys.joined, process |-> keys.process,
            tally |-> keys.tally, ok |-> keys.ok]
HasKeysFor(keys, cfg) ==
    /\ HasPollJoiningVerifyingKey(keys, cfg.pollDepth)
    /\ HasPollJoinedVerifyingKey(keys, cfg.pollDepth)
    /\ HasProcessVerifyingKey(keys, cfg.depth, cfg.voteOptionDepth, cfg.batch, cfg.mode)
    /\ HasTallyVerifyingKey(keys, cfg.depth, cfg.tallyDepth, cfg.voteOptionDepth, cfg.mode)
    /\ GetTallyVerifyingKey(keys, cfg.depth, cfg.tallyDepth, cfg.voteOptionDepth, cfg.mode).mode
          = TallyZkey(cfg.mode)
HasAllKeys(a) == \A cfg \in Configs : HasKeysFor(chain[a].keys, cfg)

Registry == Path("VerifyingKeysRegistry")
IsBound(a) == chain[a].policy \in instances /\ chain[chain[a].policy].target = a
IsPollOf(poll, k) ==
    /\ k + 1 \in DOMAIN chain[Maci].polls
    /\ poll = chain[Maci].polls[k + 1]
    /\ IsBound(poll)

ContractsInv == \A a \in 1..Len(chain) : FromConfig(chain[a]) /\ IsRegistry(chain[a].keys)
FileInv ==
    /\ MaciIsUsable
    /\ Registered(Registry) => HasAllKeys(GetAddress(Registry))
    /\ \A p \in DOMAIN named : p[1] = "Poll" =>
          /\ IF user = "tasks" THEN Has("full") ELSE Has("serviceMaci")
          /\ Registered(Path("MACI")) /\ Registered(Registry)
          /\ IsPollOf(GetAddress(p), p[2])

(* What a step made: nothing twice; a MACI with its policy, a registry with its keys, a
   poll of its number. *)
RegistryParts == {"Verifier", "VerifyingKeysRegistry"}
RegistrySteps == {"VerifyingKeysRegistry", "ServiceRegistry"}
IsOnce(made, todo) ==
    /\ \A i, j \in DOMAIN made : made[i].path[1] = made[j].path[1] => i = j
    /\ \A i, j \in DOMAIN todo : todo[i] = todo[j] => i = j
    /\ \A i \in DOMAIN made : \A j \in DOMAIN todo : made[i].path[1] # todo[j]
MakesRegistry(step, pc) ==
    \/ step = "ServiceRegistry" /\ pc \in {"deploy", "call", "next"}
    \/ step = "ServiceMaci" /\ pc = "enter"
HasRegistry(step, pc) ==
    \/ step = "VerifyingKeysRegistry" /\ pc = "register"
    \/ step = "ServiceRegistry" /\ pc = "next"
    \/ step = "ServiceMaci" /\ pc \in {"enter", "deploy", "call", "register"}
RegistryIn(made) == \E i \in DOMAIN made : made[i].path[1] = "VerifyingKeysRegistry"
NothingElse(step, made, todo) ==
    /\ step \notin PollSteps => \A i \in DOMAIN made : made[i].path[1] # "Poll"
    /\ step \notin RegistrySteps /\ step # "ServiceMaci" =>
          /\ \A i \in DOMAIN made : made[i].path[1] # "VerifyingKeysRegistry"
          /\ \A i \in DOMAIN todo : todo[i] # "VerifyingKeysRegistry"
MadeRight(step, pc, made, todo) ==
    /\ (step # "Policies" /\ pc \in {"deploy", "call"}) \/ MakesRegistry(step, pc) => IsOnce(made, todo)
    /\ MakesRegistry(step, pc) =>
          /\ \A i \in DOMAIN made : made[i].path[1] \in RegistryParts
          /\ \A i \in DOMAIN todo : todo[i] \in RegistryParts
    /\ step \in RegistrySteps /\ pc = "deploy" =>
          RegistryIn(made) \/ \E i \in DOMAIN todo : todo[i] = "VerifyingKeysRegistry"
    /\ (step \in RegistrySteps /\ pc = "call") \/ HasRegistry(step, pc) => RegistryIn(made)
    /\ pc = "register" => step # "ServiceRegistry"
    /\ pc \in {"deploy", "call", "register"} => NothingElse(step, made, todo)
MadeUsable(step, pc, made) ==
    /\ HasRegistry(step, pc) =>
          \A i \in DOMAIN made : made[i].path[1] = "VerifyingKeysRegistry" => HasAllKeys(made[i].address)
    /\ step \in MaciSteps /\ pc = "call" =>
          \A i \in DOMAIN made : made[i].path[1] = "MACI" => chain[made[i].address].policy = MaciPolicy
    /\ step \in MaciSteps /\ pc = "register" =>
          \A i \in DOMAIN made : made[i].path[1] = "MACI" => IsBound(made[i].address)
AskedOnce(job) ==
    /\ job = "serviceMaci" => ~Has("serviceMaci")
    /\ job = "servicePoll" => Has("serviceMaci")
StepInv ==
    /\ AskedOnce(run.job)
    /\ ~Idle => MadeRight(Step, run.pc, run.made, run.todo) /\ MadeUsable(Step, run.pc, run.made)
PollInv ==
    /\ At(PollSteps, {"call", "bind", "register"}) => Registered(Path("MACI")) /\ Registered(Registry)
    /\ At({"Poll"}, {"call"}) => run.pollId = NextPollId
    /\ At(PollSteps, {"bind"}) =>
          run.pollId + 1 = NextPollId /\ chain[chain[Maci].polls[NextPollId]].policy = PollPolicy
    /\ At(PollSteps, {"register"}) =>
          \A i \in DOMAIN run.made : run.made[i].path[1] = "Poll" =>
              run.made[i].path[2] = run.pollId /\ IsPollOf(run.made[i].address, run.pollId)
UInv == ContractsInv /\ FileInv /\ StepInv /\ PollInv

-----------------------------------------------------------------------------
(* The keys a batch sets. *)

(* A registry that has what another had, as long as no call reverted. *)
HasKeysOf(s, r) ==
    /\ IsRegistry(s)
    /\ s.ok =>
          /\ r.ok
          /\ \A x \in DOMAIN r.joining : x \in DOMAIN s.joining
          /\ \A x \in DOMAIN r.joined : x \in DOMAIN s.joined
          /\ \A x \in DOMAIN r.process : x \in DOMAIN s.process
          /\ \A x \in DOMAIN r.tally : x \in DOMAIN s.tally /\ s.tally[x] = r.tally[x]

LEMMA Joins ==
    ASSUME NEW f, NEW x, NEW y, NEW g, g = WithKey(f, x, y)
    PROVE  /\ x \in DOMAIN g /\ g[x] = y
           /\ \A z \in DOMAIN f : z \in DOMAIN g /\ (z # x => g[z] = f[z])
  BY DEF WithKey

LEMMA JoiningIsSet ==
    ASSUME NEW r, IsRegistry(r), NEW depth, NEW key, NEW s, s = SetPollJoiningVerifyingKey(r, depth, key)
    PROVE  HasKeysOf(s, r) /\ (s.ok => HasPollJoiningVerifyingKey(s, depth))
<1> DEFINE x == PollJoiningSignature(depth)
<1>1. CASE x \in DOMAIN r.joining
  BY <1>1 DEF SetPollJoiningVerifyingKey, Reverted, IsRegistry, HasKeysOf
<1>2. CASE x \notin DOMAIN r.joining
  <2>1. PICK g : g = WithKey(r.joining, x, key)
    OBVIOUS
  <2>2. s = [r EXCEPT !.joining = g]
    BY <1>2, <2>1 DEF SetPollJoiningVerifyingKey
  <2>3. x \in DOMAIN g /\ \A z \in DOMAIN r.joining : z \in DOMAIN g
    BY <2>1, Joins
  <2> QED
    BY <2>2, <2>3 DEF IsRegistry, HasKeysOf, HasPollJoiningVerifyingKey
<1> QED
  BY <1>1, <1>2

LEMMA JoinedIsSet ==
    ASSUME NEW r, IsRegistry(r), NEW depth, NEW key, NEW s, s = SetPollJoinedVerifyingKey(r, depth, key)
    PROVE  HasKeysOf(s, r) /\ (s.ok => HasPollJoinedVerifyingKey(s, depth))
<1> DEFINE x == PollJoinedSignature(depth)
<1>1. CASE x \in DOMAIN r.joined
  BY <1>1 DEF SetPollJoinedVerifyingKey, Reverted, IsRegistry, HasKeysOf
<1>2. CASE x \notin DOMAIN r.joined
  <2>1. PICK g : g = WithKey(r.joined, x, key)
    OBVIOUS
  <2>2. s = [r EXCEPT !.joined = g]
    BY <1>2, <2>1 DEF SetPollJoinedVerifyingKey
  <2>3. x \in DOMAIN g /\ \A z \in DOMAIN r.joined : z \in DOMAIN g
    BY <2>1, Joins
  <2> QED
    BY <2>2, <2>3 DEF IsRegistry, HasKeysOf, HasPollJoinedVerifyingKey
<1> QED
  BY <1>1, <1>2

(* The keys of one mode of a batch. *)
HasModeKeys(s, args, mode, tallyKey) ==
    /\ HasProcessVerifyingKey(s, args.stateTreeDepth, args.voteOptionTreeDepth, args.messageBatchSize, mode)
    /\ HasTallyVerifyingKey(s, args.stateTreeDepth, args.tallyProcessingStateTreeDepth,
                            args.voteOptionTreeDepth, mode)
    /\ GetTallyVerifyingKey(s, args.stateTreeDepth, args.tallyProcessingStateTreeDepth,
                            args.voteOptionTreeDepth, mode) = tallyKey

LEMMA ModeIsSet ==
    ASSUME NEW r, IsRegistry(r), NEW args, NEW mode, NEW processKey, NEW tallyKey,
           NEW s, s = SetVerifyingKeys(r, args, mode, processKey, tallyKey)
    PROVE  HasKeysOf(s, r) /\ (s.ok => HasModeKeys(s, args, mode, tallyKey))
<1> DEFINE x == <<mode, ProcessSignature(args.stateTreeDepth, args.voteOptionTreeDepth, args.messageBatchSize)>>
           y == <<mode, TallySignature(args.stateTreeDepth, args.tallyProcessingStateTreeDepth,
                                       args.voteOptionTreeDepth)>>
<1>1. PICK p : p = SetProcessVerifyingKey(r, args.stateTreeDepth, args.voteOptionTreeDepth,
                                          args.messageBatchSize, mode, processKey)
  OBVIOUS
<1>2. HasKeysOf(p, r) /\ (p.ok => x \in DOMAIN p.process)
  <2>1. CASE x \in DOMAIN r.process
    BY <1>1, <2>1 DEF SetProcessVerifyingKey, Reverted, IsRegistry, HasKeysOf
  <2>2. CASE x \notin DOMAIN r.process
    <3>1. PICK g : g = WithKey(r.process, x, processKey)
      OBVIOUS
    <3>2. p = [r EXCEPT !.process = g]
      BY <1>1, <2>2, <3>1 DEF SetProcessVerifyingKey
    <3>3. x \in DOMAIN g /\ \A z \in DOMAIN r.process : z \in DOMAIN g
      BY <3>1, Joins
    <3> HIDE DEF x
    <3> QED
      BY <3>2, <3>3 DEF IsRegistry, HasKeysOf
  <2> QED
    BY <2>1, <2>2
<1>3. s = SetTallyVerifyingKey(p, args.stateTreeDepth, args.tallyProcessingStateTreeDepth,
                               args.voteOptionTreeDepth, mode, tallyKey)
  BY <1>1 DEF SetVerifyingKeys
<1>4. HasKeysOf(s, p) /\ (s.ok => y \in DOMAIN s.tally /\ s.tally[y] = tallyKey)
  <2>1. CASE y \in DOMAIN p.tally
    BY <1>2, <1>3, <2>1 DEF SetTallyVerifyingKey, Reverted, IsRegistry, HasKeysOf
  <2>2. CASE y \notin DOMAIN p.tally
    <3>1. PICK g : g = WithKey(p.tally, y, tallyKey)
      OBVIOUS
    <3>2. s = [p EXCEPT !.tally = g]
      BY <1>3, <2>2, <3>1 DEF SetTallyVerifyingKey
    <3>3. y \in DOMAIN g /\ g[y] = tallyKey /\ \A z \in DOMAIN p.tally : z \in DOMAIN g /\ g[z] = p.tally[z]
      BY <2>2, <3>1, Joins
    <3> HIDE DEF y
    <3> QED
      BY <1>2, <3>2, <3>3 DEF IsRegistry, HasKeysOf
  <2> QED
    BY <2>1, <2>2
<1>5. HasKeysOf(s, r) /\ (s.ok => x \in DOMAIN s.process /\ y \in DOMAIN s.tally /\ s.tally[y] = tallyKey)
  BY <1>2, <1>4 DEF HasKeysOf
<1> QED
  BY <1>5 DEF HasModeKeys, HasProcessVerifyingKey, HasTallyVerifyingKey, GetTallyVerifyingKey

LEMMA StillHas ==
    ASSUME NEW r, NEW s, HasKeysOf(s, r), s.ok
    PROVE  /\ \A depth : /\ HasPollJoiningVerifyingKey(r, depth) => HasPollJoiningVerifyingKey(s, depth)
                         /\ HasPollJoinedVerifyingKey(r, depth) => HasPollJoinedVerifyingKey(s, depth)
           /\ \A args, mode, tallyKey : HasModeKeys(r, args, mode, tallyKey) => HasModeKeys(s, args, mode, tallyKey)
  BY DEF HasKeysOf, HasPollJoiningVerifyingKey, HasPollJoinedVerifyingKey, HasModeKeys, HasProcessVerifyingKey,
         HasTallyVerifyingKey, GetTallyVerifyingKey

(* A batch of some modes sets the keys of each, unless a call reverts. *)
LEMMA BatchIsSet ==
    ASSUME NEW r, IsRegistry(r), NEW args, NEW modes, modes = args.modes, Len(modes) \in 0..3,
           NEW s, s = SetVerifyingKeysBatch(r, args), s.ok
    PROVE  /\ IsRegistry(s) /\ Len(modes) = Len(args.processKeys) /\ Len(modes) = Len(args.tallyKeys)
           /\ HasPollJoiningVerifyingKey(s, args.pollStateTreeDepth)
           /\ HasPollJoinedVerifyingKey(s, args.pollStateTreeDepth)
           /\ \A i \in 1..Len(modes) : HasModeKeys(s, args, modes[i], args.tallyKeys[i])
<1>1. Len(modes) = Len(args.processKeys) /\ Len(modes) = Len(args.tallyKeys)
  BY DEF SetVerifyingKeysBatch, Reverted, IsRegistry
<1>2. PICK j : j = SetPollJoiningVerifyingKey(r, args.pollStateTreeDepth, args.joiningKey)
  OBVIOUS
<1>3. PICK p : p = SetPollJoinedVerifyingKey(j, args.pollStateTreeDepth, args.joinedKey)
  OBVIOUS
<1>4. HasKeysOf(j, r) /\ (j.ok => HasPollJoiningVerifyingKey(j, args.pollStateTreeDepth))
  BY <1>2, JoiningIsSet
<1>5. HasKeysOf(p, j) /\ (p.ok => HasPollJoinedVerifyingKey(p, args.pollStateTreeDepth))
  BY <1>3, <1>4, JoinedIsSet DEF HasKeysOf
<1>6. p.ok => /\ HasPollJoiningVerifyingKey(p, args.pollStateTreeDepth)
              /\ HasPollJoinedVerifyingKey(p, args.pollStateTreeDepth)
  BY <1>4, <1>5, StillHas DEF HasKeysOf
<1> DEFINE After(k, n) == SetVerifyingKeys(k, args, args.modes[n], args.processKeys[n], args.tallyKeys[n])
           IsSet(k, n) == HasModeKeys(k, args, modes[n], args.tallyKeys[n])
<1>7. PICK n \in 0..3 : n = Len(modes)
  OBVIOUS
<1>8. PICK known : /\ known = [i \in 0..n |-> IF i = 0 THEN p ELSE After(known[i - 1], i)]
                   /\ s = known[n]
  <2> DEFINE Is(f) == f = [i \in 0..n |-> IF i = 0 THEN p ELSE After(f[i - 1], i)]
  <2>1. \E f : Is(f)
    <3>1. PICK k1, k2, k3 : k1 = After(p, 1) /\ k2 = After(k1, 2) /\ k3 = After(k2, 3)
      OBVIOUS
    <3> HIDE DEF After
    <3>2. PICK f : f = [i \in 0..n |-> IF i = 0 THEN p ELSE IF i = 1 THEN k1 ELSE IF i = 2 THEN k2 ELSE k3]
      OBVIOUS
    <3>3. \A i \in 0..n : i \in {0, 1, 2, 3} /\ (i # 0 => i - 1 \in 0..n)
      OBVIOUS
    <3>4. \A i \in 0..n : f[i] = IF i = 0 THEN p ELSE After(f[i - 1], i)
      BY <3>1, <3>2, <3>3
    <3>5. f = [i \in 0..n |-> IF i = 0 THEN p ELSE After(f[i - 1], i)]
      BY <3>2, <3>4
    <3> QED
      BY <3>5
  <2>2. PICK known : known = CHOOSE f : Is(f)
    OBVIOUS
  <2>3. Is(known)
    <3> HIDE DEF Is
    <3> QED
      BY <2>1, <2>2
  <2>4. s = known[n]
    BY <1>1, <1>2, <1>3, <1>7, <2>2 DEF SetVerifyingKeysBatch
  <2> QED
    BY <2>3, <2>4
<1> HIDE DEF After, IsSet
<1>9. known[0] = p /\ \A i \in 1..n : known[i] = After(known[i - 1], i)
  BY <1>8
<1>10. ASSUME NEW k, IsRegistry(k), NEW i \in 1..n, NEW k2, k2 = After(k, i)
       PROVE  HasKeysOf(k2, k) /\ (k2.ok => IsSet(k2, i))
  <2>1. PICK mode, processKey, tallyKey :
           mode = args.modes[i] /\ processKey = args.processKeys[i] /\ tallyKey = args.tallyKeys[i]
    OBVIOUS
  <2>2. k2 = SetVerifyingKeys(k, args, mode, processKey, tallyKey)
    BY <1>10, <2>1 DEF After
  <2>3. HasKeysOf(k2, k) /\ (k2.ok => HasModeKeys(k2, args, mode, tallyKey))
    BY <1>10, <2>2, ModeIsSet
  <2> QED
    BY <2>1, <2>3 DEF IsSet
<1>11. ASSUME NEW k, NEW k2, HasKeysOf(k2, k), k2.ok
       PROVE  \A i : IsSet(k, i) => IsSet(k2, i)
  BY <1>11, StillHas DEF IsSet
<1> DEFINE Good(k, m) ==
             /\ IsRegistry(k)
             /\ k.ok => /\ p.ok /\ HasKeysOf(k, p)
                        /\ \A i \in 1..m : IsSet(k, i)
<1>12. Good(known[0], 0)
  BY <1>5, <1>9 DEF HasKeysOf
<1>13. ASSUME NEW m \in 1..n, Good(known[m - 1], m - 1)
       PROVE  Good(known[m], m)
  <2>1. PICK k, k2 : k = known[m - 1] /\ k2 = known[m]
    OBVIOUS
  <2>2. k2 = After(k, m) /\ Good(k, m - 1)
    BY <1>9, <1>13, <2>1
  <2>3. HasKeysOf(k2, k) /\ (k2.ok => IsSet(k2, m))
    BY <1>10, <2>2
  <2>4. k2.ok => \A i : IsSet(k, i) => IsSet(k2, i)
    BY <1>11, <2>3
  <2>5. k2.ok => k.ok /\ p.ok /\ HasKeysOf(k2, p)
    BY <2>2, <2>3 DEF HasKeysOf
  <2>6. k2.ok => \A i \in 1..(m - 1) : IsSet(k2, i)
    BY <2>2, <2>4, <2>5
  <2>7. k2.ok => \A i \in 1..m : IsSet(k2, i)
    BY <2>3, <2>6
  <2> QED
    BY <2>1, <2>3, <2>5, <2>7 DEF HasKeysOf
<1>14. Good(known[n], n)
  <2> HIDE DEF Good
  <2>1. n >= 1 => Good(known[1], 1)
    BY <1>12, <1>13
  <2>2. n >= 2 => Good(known[2], 2)
    BY <1>13, <2>1
  <2>3. n >= 3 => Good(known[3], 3)
    BY <1>13, <2>2
  <2>4. n \in {0, 1, 2, 3}
    OBVIOUS
  <2> QED
    BY <1>12, <2>1, <2>2, <2>3, <2>4
<1>15. HasKeysOf(s, p) /\ \A i \in 1..n : IsSet(s, i)
  BY <1>8, <1>14
<1>16. HasPollJoiningVerifyingKey(s, args.pollStateTreeDepth) /\ HasPollJoinedVerifyingKey(s, args.pollStateTreeDepth)
  BY <1>6, <1>15, StillHas DEF HasKeysOf
<1> QED
  BY <1>1, <1>7, <1>15, <1>16 DEF IsSet, HasKeysOf

LEMMA InOrderIs ==
    ASSUME NEW S, NEW s, s = InOrder(S)
    PROVE  /\ Len(s) \in 0..3 /\ DOMAIN s = 1..Len(s)
           /\ \A mode \in S \cap Range(EModes) : \E i \in 1..Len(s) : s[i] = mode
           /\ Len(s) = (IF "qv" \in S THEN 1 ELSE 0) + (IF "nonQv" \in S THEN 1 ELSE 0)
                         + (IF "full" \in S THEN 1 ELSE 0)
<1>1. EModes[1] = "qv" /\ EModes[2] = "nonQv" /\ EModes[3] = "full" /\ Range(EModes) = {"qv", "nonQv", "full"}
  BY DEF EModes, Range
<1> DEFINE A(mode) == IF mode \in S THEN <<mode>> ELSE <<>>
<1>2. s = A("qv") \o A("nonQv") \o A("full")
  BY <1>1 DEF InOrder
<1>3. ASSUME NEW mode
      PROVE  /\ IsSeq(A(mode)) /\ Len(A(mode)) = IF mode \in S THEN 1 ELSE 0
             /\ mode \in S => A(mode)[1] = mode
  <2>1. CASE mode \in S
    <3>1. <<mode>> \in Seq({mode}) /\ Len(<<mode>>) = 1 /\ <<mode>>[1] = mode
      OBVIOUS
    <3>2. IsSeq(<<mode>>)
      BY <3>1, SeqIs
    <3> QED
      BY <2>1, <3>1, <3>2
  <2>2. CASE mode \notin S
    BY <2>2, EmptyIs
  <2> QED
    BY <2>1, <2>2
<1> HIDE DEF A
<1>4. PICK a, b, c : a = A("qv") /\ b = A("nonQv") /\ c = A("full")
  OBVIOUS
<1>5. PICK ab : ab = a \o b
  OBVIOUS
<1>6. /\ IsSeq(a) /\ IsSeq(b) /\ IsSeq(c) /\ IsSeq(ab) /\ IsSeq(s) /\ DOMAIN s = 1..Len(s)
      /\ Len(ab) = Len(a) + Len(b) /\ Len(s) = Len(ab) + Len(c)
      /\ \A i \in 1..Len(a) : ab[i] = a[i]
      /\ \A i \in 1..Len(b) : ab[Len(a) + i] = b[i]
      /\ \A i \in 1..Len(ab) : s[i] = ab[i]
      /\ \A i \in 1..Len(c) : s[Len(ab) + i] = c[i]
  <2>1. IsSeq(a) /\ IsSeq(b) /\ IsSeq(c) /\ IsConcat(ab, a, b) /\ IsConcat(s, ab, c)
    BY <1>2, <1>3, <1>4, <1>5 DEF IsConcat
  <2> QED
    BY <2>1, ConcatIs
<1>7. /\ Len(a) = IF "qv" \in S THEN 1 ELSE 0 
      /\ Len(b) = IF "nonQv" \in S THEN 1 ELSE 0 
      /\ Len(c) = IF "full" \in S THEN 1 ELSE 0
      /\ "qv" \in S => a[1] = "qv"
      /\ "nonQv" \in S => b[1] = "nonQv"
      /\ "full" \in S => c[1] = "full"
  BY <1>3, <1>4
<1>8. Len(s) \in 0..3 /\ DOMAIN s = 1..Len(s)
  BY <1>6, <1>7
<1>9. "qv" \in S => 1 \in 1..Len(s) /\ s[1] = "qv"
  BY <1>6, <1>7
<1>10. "nonQv" \in S => Len(a) + 1 \in 1..Len(s) /\ s[Len(a) + 1] = "nonQv"
  BY <1>6, <1>7
<1>11. "full" \in S => Len(ab) + 1 \in 1..Len(s) /\ s[Len(ab) + 1] = "full"
  BY <1>6, <1>7
<1>12. \A mode \in S \cap Range(EModes) : \E i \in 1..Len(s) : s[i] = mode
  BY <1>1, <1>9, <1>10, <1>11
<1> QED
  BY <1>6, <1>7, <1>8, <1>12

HasModesOf(b, zkeys) ==
    \A mode \in zkeys \cap Range(EModes) :
        \E i \in 1..Len(b.modes) : b.modes[i] = mode /\ b.tallyKeys[i].mode = TallyZkey(mode)
(* The batches of the task and of the service have the keys of every mode that has files,
   if they are as long as their keys. *)
LEMMA BatchHas ==
    ASSUME NEW cfg, NEW b \in {TaskBatch(cfg), ServiceBatch(cfg)},
           Len(b.modes) = Len(b.processKeys), Len(b.modes) = Len(b.tallyKeys)
    PROVE  HasModesOf(b, cfg.zkeys)
<1> DEFINE tallies == {mode \in Range(EModes) : TallyZkey(mode) \in cfg.zkeys}
<1>1. ASSUME NEW modes, NEW ts, DOMAIN modes = 1..Len(modes), DOMAIN ts = 1..Len(ts), Len(ts) \in Nat,
             Len(Zkeys(cfg)) \in Nat, DOMAIN Zkeys(cfg) = 1..Len(Zkeys(cfg)), b = Batch(cfg, modes, ts)
      PROVE  /\ b.modes = modes /\ Len(b.processKeys) = Len(Zkeys(cfg)) /\ Len(b.tallyKeys) = Len(ts)
             /\ \A i \in 1..Len(ts) : b.tallyKeys[i].mode = TallyZkey(ts[i])
  <2>1. PICK keys : keys = [i \in 1..Len(ts) |-> [mode |-> TallyZkey(ts[i])]]
    OBVIOUS
  <2>2. PICK process : process = [i \in 1..Len(Zkeys(cfg)) |-> [mode |-> Zkeys(cfg)[i], batch |-> cfg.batch]]
    OBVIOUS
  <2>3. b.modes = modes /\ b.processKeys = process /\ b.tallyKeys = keys
    BY <1>1, <2>1, <2>2 DEF Batch
  <2>4. PICK n \in Nat, m \in Nat : n = Len(ts) /\ m = Len(Zkeys(cfg))
    BY <1>1
  <2>5. Len(keys) = n /\ Len(process) = m
    BY <2>1, <2>2, <2>4
  <2>6. \A i \in 1..n : keys[i].mode = TallyZkey(ts[i])
    BY <2>1, <2>4
  <2> QED
    BY <2>3, <2>4, <2>5, <2>6
<1>2. CASE b = ServiceBatch(cfg)
  <2>1. PICK z : z = Zkeys(cfg)
    OBVIOUS
  <2>2. z = InOrder(cfg.zkeys) /\ b = Batch(cfg, z, z)
    BY <1>2, <2>1 DEF ServiceBatch, Zkeys
  <2>3. /\ Len(z) \in 0..3 /\ DOMAIN z = 1..Len(z)
        /\ \A mode \in cfg.zkeys \cap Range(EModes) : \E i \in 1..Len(z) : z[i] = mode
    BY <2>2, InOrderIs
  <2>4. b.modes = z /\ \A i \in 1..Len(z) : b.tallyKeys[i].mode = TallyZkey(z[i])
    BY <1>1, <2>1, <2>2, <2>3
  <2> QED
    BY <2>3, <2>4 DEF HasModesOf
<1>3. CASE b = TaskBatch(cfg)
  <2>1. PICK z, m, t, T : z = Zkeys(cfg) /\ m = InOrder(cfg.zkeys \cap tallies) /\ t = InOrder(tallies) /\ T = tallies
    OBVIOUS
  <2>2. z = InOrder(cfg.zkeys) /\ b = Batch(cfg, m, t)
    BY <1>3, <2>1 DEF TaskBatch, Zkeys
  <2> HIDE DEF tallies
  <2>3. /\ Len(z) \in 0..3 /\ DOMAIN z = 1..Len(z)
        /\ Len(z) = (IF "qv" \in cfg.zkeys THEN 1 ELSE 0) + (IF "nonQv" \in cfg.zkeys THEN 1 ELSE 0)
                      + (IF "full" \in cfg.zkeys THEN 1 ELSE 0)
    BY <2>2, InOrderIs
  <2>4. /\ Len(t) \in 0..3 /\ DOMAIN t = 1..Len(t)
        /\ Len(t) = (IF "qv" \in T THEN 1 ELSE 0) + (IF "nonQv" \in T THEN 1 ELSE 0)
                      + (IF "full" \in T THEN 1 ELSE 0)
    BY <2>1, InOrderIs
  <2>5. PICK both : both = cfg.zkeys \cap T
    OBVIOUS
  <2>6. /\ Len(m) \in 0..3 /\ DOMAIN m = 1..Len(m)
        /\ \A mode \in both \cap Range(EModes) : \E i \in 1..Len(m) : m[i] = mode
        /\ Len(m) = (IF "qv" \in both THEN 1 ELSE 0) + (IF "nonQv" \in both THEN 1 ELSE 0)
                      + (IF "full" \in both THEN 1 ELSE 0)
    <3>1. m = InOrder(both)
      BY <2>1, <2>5
    <3> QED
      BY <3>1, InOrderIs
  <2>7. /\ b.modes = m /\ Len(b.processKeys) = Len(z) /\ Len(b.tallyKeys) = Len(t)
        /\ \A i \in 1..Len(t) : b.tallyKeys[i].mode = TallyZkey(t[i])
    <3>1. /\ DOMAIN m = 1..Len(m) /\ DOMAIN t = 1..Len(t) /\ Len(t) \in Nat
          /\ Len(Zkeys(cfg)) \in Nat /\ DOMAIN Zkeys(cfg) = 1..Len(Zkeys(cfg))
      BY <2>1, <2>3, <2>4, <2>6
    <3>2. /\ b.modes = m /\ Len(b.processKeys) = Len(Zkeys(cfg)) /\ Len(b.tallyKeys) = Len(t)
          /\ \A i \in 1..Len(t) : b.tallyKeys[i].mode = TallyZkey(t[i])
      BY ONLY <1>1, <2>2, <3>1
    <3> QED
      BY <2>1, <3>2
  <2>8. Len(m) = Len(z) /\ Len(m) = Len(t)
    BY <2>7
  <2>9. \A mode \in {"qv", "nonQv", "full"} : (mode \in both <=> mode \in cfg.zkeys) /\ (mode \in both <=> mode \in T)
    BY <2>3, <2>4, <2>5, <2>6, <2>8
  <2>10. Range(EModes) = {"qv", "nonQv", "full"} /\ EModes[1] = "qv" /\ EModes[2] = "nonQv" /\ EModes[3] = "full"
    BY DEF EModes, Range
  <2>11. m = t
    BY <2>1, <2>5, <2>9, <2>10 DEF InOrder
  <2> QED
    BY <2>6, <2>7, <2>9, <2>10, <2>11 DEF HasModesOf
<1> QED
  BY <1>2, <1>3

LEMMA AllKeysSet ==
    ASSUME OneCircuit, ModesHaveKeys, NEW cfg \in Configs, NEW b \in {TaskBatch(cfg), ServiceBatch(cfg)},
           NEW r, IsRegistry(r), NEW s, s = SetVerifyingKeysBatch(r, b), s.ok
    PROVE  IsRegistry(s) /\ \A other \in Configs : HasKeysFor(s, other)
<1>1. /\ b.stateTreeDepth = cfg.depth /\ b.pollStateTreeDepth = cfg.pollDepth
      /\ b.tallyProcessingStateTreeDepth = cfg.tallyDepth /\ b.voteOptionTreeDepth = cfg.voteOptionDepth
  BY DEF TaskBatch, ServiceBatch, Batch
<1>2. b.modes \in {InOrder(cfg.zkeys),
                 InOrder(cfg.zkeys \cap {mode \in Range(EModes) : TallyZkey(mode) \in cfg.zkeys})}
  BY DEF TaskBatch, ServiceBatch, Batch, Zkeys
<1>3. PICK S : b.modes = InOrder(S)
  BY <1>2
<1>4. PICK modes : modes = b.modes
  OBVIOUS
<1>5. Len(modes) \in 0..3
  BY <1>3, <1>4, InOrderIs
<1>6. /\ IsRegistry(s) /\ Len(modes) = Len(b.processKeys) /\ Len(modes) = Len(b.tallyKeys)
      /\ HasPollJoiningVerifyingKey(s, b.pollStateTreeDepth)
      /\ HasPollJoinedVerifyingKey(s, b.pollStateTreeDepth)
      /\ \A i \in 1..Len(modes) : HasModeKeys(s, b, modes[i], b.tallyKeys[i])
  BY <1>4, <1>5, BatchIsSet
<1>7. \A mode \in cfg.zkeys \cap Range(EModes) :
         \E i \in 1..Len(modes) : modes[i] = mode /\ b.tallyKeys[i].mode = TallyZkey(mode)
  <2>1. Len(b.modes) = Len(b.processKeys) /\ Len(b.modes) = Len(b.tallyKeys)
    BY <1>4, <1>6
  <2>2. HasModesOf(b, cfg.zkeys)
    BY <2>1, BatchHas
  <2> QED
    BY <1>4, <2>2 DEF HasModesOf
<1>8. \A x, y, z : ProcessSignature(x, y, z) = <<0, x, y>>
  BY DEF ProcessSignature, ShiftedLeft
<1>9. ASSUME NEW other \in Configs
      PROVE  HasKeysFor(s, other)
  <2>1. /\ other.depth = cfg.depth /\ other.pollDepth = cfg.pollDepth /\ other.tallyDepth = cfg.tallyDepth
        /\ other.voteOptionDepth = cfg.voteOptionDepth /\ other.zkeys = cfg.zkeys
    BY DEF OneCircuit
  <2>2. other.mode \in cfg.zkeys \cap Range(EModes)
    BY <2>1 DEF ModesHaveKeys
  <2>3. PICK i \in 1..Len(modes) : modes[i] = other.mode /\ b.tallyKeys[i].mode = TallyZkey(other.mode)
    BY <1>7, <2>2
  <2>4. PICK key, mode : key = b.tallyKeys[i] /\ mode = other.mode
    OBVIOUS
  <2>5. HasModeKeys(s, b, mode, key) /\ key.mode = TallyZkey(mode)
    BY <1>6, <2>3, <2>4
  <2>6. /\ HasProcessVerifyingKey(s, other.depth, other.voteOptionDepth, other.batch, mode)
        /\ HasTallyVerifyingKey(s, other.depth, other.tallyDepth, other.voteOptionDepth, mode)
        /\ GetTallyVerifyingKey(s, other.depth, other.tallyDepth, other.voteOptionDepth, mode) = key
    BY <1>1, <1>8, <2>1, <2>5 DEF HasModeKeys, HasProcessVerifyingKey
  <2> QED
    BY <1>1, <1>6, <2>1, <2>4, <2>5, <2>6 DEF HasKeysFor
<1> QED
  BY <1>6, <1>9

-----------------------------------------------------------------------------
(* What a contract may become. *)
AsBefore(c, b) ==
    /\ c.id = b.id /\ c.policy = b.policy /\ c.mode = b.mode /\ c.keys = b.keys
    /\ c.depth = b.depth /\ c.tallyDepth = b.tallyDepth /\ c.voteOptionDepth = b.voteOptionDepth
    /\ b.target # 0 => c.target = b.target
    /\ \A k \in DOMAIN b.polls : k \in DOMAIN c.polls /\ c.polls[k] = b.polls[k]
ChainStays == \A a \in 1..Len(chain) : a \in 1..Len(chain') /\ AsBefore(chain'[a], chain[a])
(* The same of a registry, whose keys may become more. *)
Stays(a) ==
    /\ a \in 1..Len(chain')
    /\ chain'[a].policy = chain[a].policy
    /\ chain[a].target # 0 => chain'[a].target = chain[a].target
    /\ \A k \in DOMAIN chain[a].polls : k \in DOMAIN chain'[a].polls /\ chain'[a].polls[k] = chain[a].polls[k]
    /\ HasAllKeys(a) => HasAllKeys(a)'

LEMMA ItStays ==
    ASSUME NEW a, a \in 1..Len(chain'), AsBefore(chain'[a], chain[a])
    PROVE  Stays(a) /\ (FromConfig(chain[a]) => FromConfig(chain'[a]))
           /\ (IsRegistry(chain[a].keys) => IsRegistry(chain'[a].keys))
  BY DEF Stays, AsBefore, FromConfig, HasAllKeys

LEMMA ContractsStay ==
    ASSUME ContractsInv,
           \A a \in 1..Len(chain') : \/ a \in 1..Len(chain) /\ AsBefore(chain'[a], chain[a])
                                     \/ FromConfig(chain'[a]) /\ IsRegistry(chain'[a].keys)
    PROVE  ContractsInv'
<1>1. ASSUME NEW a \in 1..Len(chain')
      PROVE  FromConfig(chain'[a]) /\ IsRegistry(chain'[a].keys)
  BY ItStays DEF ContractsInv
<1> QED
  BY <1>1 DEF ContractsInv, FromConfig, IsRegistry

LEMMA SameBefore ==
    ASSUME NEW c
    PROVE  AsBefore(c, c)
  BY DEF AsBefore

LEMMA SameStays ==
    ASSUME chain' = chain
    PROVE  ChainStays
  BY SameBefore DEF ChainStays

(* What is said of the file stays true as long as what it names does. *)
LEMMA FileStays ==
    ASSUME ChainInv, FileInv, UNCHANGED <<file, user>>, \A a \in instances : Stays(a),
           Has("full") => Has("full")', Has("serviceMaci") => Has("serviceMaci")'
    PROVE  FileInv'
<1>1. named' = named /\ instances' = instances /\ user' = user
  BY DEF file
<1>2. \A p : (Registered(p)' <=> Registered(p)) /\ GetAddress(p)' = GetAddress(p)
  BY <1>1 DEF Registered, GetAddress
<1>3. ASSUME NEW p, Registered(p)
      PROVE  GetAddress(p) \in instances /\ GetAddress(p) \in 1..Len(chain) /\ GetAddress(p) # 0
  BY <1>3, RegisteredIs
<1>4. ASSUME NEW a, a \in instances, IsBound(a)
      PROVE  IsBound(a)'
  <2>1. chain[a].policy \in instances /\ chain[chain[a].policy].target = a /\ a # 0
    BY <1>4 DEF IsBound, ChainInv
  <2>2. PICK p : p = chain[a].policy
    OBVIOUS
  <2>3. chain'[a].policy = p /\ chain'[p].target = a
    BY <1>4, <2>1, <2>2 DEF Stays
  <2> QED
    BY <1>1, <2>1, <2>2, <2>3 DEF IsBound
<1>5. Maci' = Maci
  BY <1>1 DEF Maci, GetAddress, Path
<1>6. MaciIsUsable'
  <2>1. Registered(Path("MACI")) => Maci \in instances /\ IsBound(Maci)
    BY <1>3 DEF FileInv, MaciIsUsable, IsBound, Maci
  <2>2. Registered(Path("MACI")) => IsBound(Maci)'
    BY <1>4, <1>5, <2>1 DEF IsBound
  <2>3. Registered(Path("MACI"))' => Registered(Path("MACI"))
    BY <1>1 DEF Registered, Path
  <2> QED
    BY <2>2, <2>3 DEF MaciIsUsable, IsBound
<1>7. Registered(Registry)' => HasAllKeys(GetAddress(Registry))'
  <2>1. Registered(Registry) => GetAddress(Registry) \in instances /\ HasAllKeys(GetAddress(Registry))
    BY <1>3 DEF FileInv
  <2>2. PICK a : a = GetAddress(Registry)
    OBVIOUS
  <2>3. Registered(Registry) => HasAllKeys(a)'
    BY <2>1, <2>2 DEF Stays
  <2>4. GetAddress(Registry)' = a /\ (Registered(Registry)' => Registered(Registry))
    BY <1>1, <2>2 DEF Registered, GetAddress, Registry, Path
  <2> QED
    BY <2>3, <2>4 DEF HasAllKeys
<1>8. ASSUME NEW p \in DOMAIN named, p[1] = "Poll"
      PROVE  /\ IF user = "tasks" THEN Has("full")' ELSE Has("serviceMaci")'
             /\ Registered(Path("MACI"))' /\ Registered(Registry)'
             /\ IsPollOf(GetAddress(p), p[2])'
  <2>1. /\ IF user = "tasks" THEN Has("full") ELSE Has("serviceMaci")
        /\ Registered(Path("MACI")) /\ Registered(Registry)
        /\ IsPollOf(GetAddress(p), p[2])
    BY <1>8 DEF FileInv
  <2>2. PICK poll, k : poll = GetAddress(p) /\ k = p[2]
    OBVIOUS
  <2>3. /\ k + 1 \in DOMAIN chain[Maci].polls /\ poll = chain[Maci].polls[k + 1] /\ IsBound(poll)
        /\ poll \in instances /\ Maci \in instances
    BY <1>3, <2>1, <2>2 DEF IsPollOf, Maci, Registered
  <2>4. k + 1 \in DOMAIN chain'[Maci].polls /\ poll = chain'[Maci].polls[k + 1]
    BY <2>3 DEF Stays
  <2>5. IsBound(poll)'
    BY <1>4, <2>3
  <2>6. IsPollOf(poll, k)'
    BY <1>5, <2>4, <2>5 DEF IsPollOf
  <2>7. GetAddress(p)' = poll
    BY <1>1, <2>2 DEF GetAddress
  <2>8. Registered(Path("MACI"))' /\ Registered(Registry)'
    BY <1>1, <2>1 DEF Registered, Path, Registry
  <2> QED
    BY <2>1, <2>2, <2>6, <2>7, <2>8 DEF IsPollOf, IsBound
<1> QED
  BY <1>1, <1>6, <1>7, <1>8 DEF FileInv

-----------------------------------------------------------------------------
(* The changes of the chain. *)

LEMMA BoundStays ==
    ASSUME ChainInv, NEW policy \in 1..Len(chain), Bindable(policy), NEW guarded,
           chain' = Bound(chain, policy, guarded)
    PROVE  ChainStays /\ Len(chain') = Len(chain) /\ chain'[policy].target = guarded
<1>1. IsSeq(chain) /\ IsContract(chain[policy])
  BY DEF ChainInv, WellMade
<1>2. PICK c : c = [chain[policy] EXCEPT !.target = guarded]
  OBVIOUS
<1>3. IsChanged(chain', chain, policy, c)
  BY <1>2 DEF Bound, IsChanged
<1>4. /\ Len(chain') = Len(chain)
      /\ \A a \in 1..Len(chain) : chain'[a] = IF a = policy THEN c ELSE chain[a]
  BY <1>1, <1>3, ChangedIs
<1>5. PICK b : b = chain[policy]
  OBVIOUS
<1>6. AsBefore(c, b) /\ c.target = guarded
  BY <1>1, <1>2, <1>5 DEF IsContract, AsBefore, Bindable
<1> QED
  BY <1>4, <1>5, <1>6, SameBefore DEF ChainStays

LEMMA RekeyedStays ==
    ASSUME ChainInv, ContractsInv, NEW registry, NEW keys, IsRegistry(keys),
           \A cfg \in Configs : HasKeysFor(keys, cfg),
           chain' = [chain EXCEPT ![registry].keys = keys]
    PROVE  /\ Len(chain') = Len(chain) /\ ContractsInv' /\ \A a \in 1..Len(chain) : Stays(a)
           /\ registry \in 1..Len(chain) => HasAllKeys(registry)'
<1>1. IsSeq(chain) /\ DOMAIN chain = 1..Len(chain)
  BY ChainDomain DEF ChainInv
<1>2. PICK c : c = [chain[registry] EXCEPT !.keys = keys]
  OBVIOUS
<1>3. CASE registry \in 1..Len(chain)
  <2>1. IsContract(chain[registry])
    BY <1>3 DEF ChainInv, WellMade
  <2>2. IsChanged(chain', chain, registry, c)
    BY <1>2 DEF IsChanged
  <2>3. /\ Len(chain') = Len(chain)
        /\ \A a \in 1..Len(chain) : chain'[a] = IF a = registry THEN c ELSE chain[a]
    BY <1>1, <1>3, <2>2, ChangedIs
  <2>4. PICK b : b = chain[registry]
    OBVIOUS
  <2>5. /\ c.keys = keys /\ c.id = b.id /\ c.policy = b.policy /\ c.mode = b.mode /\ c.depth = b.depth
        /\ c.tallyDepth = b.tallyDepth /\ c.voteOptionDepth = b.voteOptionDepth /\ c.target = b.target
        /\ c.polls = b.polls
    BY <1>2, <2>1, <2>4 DEF IsContract
  <2>6. HasAllKeys(registry)' /\ Stays(registry)
    BY <1>3, <2>3, <2>4, <2>5 DEF HasAllKeys, Stays
  <2>7. FromConfig(c) /\ IsRegistry(c.keys)
    BY <1>3, <2>4, <2>5 DEF FromConfig, ContractsInv
  <2>8. \A a \in 1..Len(chain) : a # registry => AsBefore(chain'[a], chain[a])
    BY <2>3, SameBefore
  <2>9. \A a \in 1..Len(chain) : Stays(a)
    BY <2>3, <2>6, <2>8, ItStays
  <2>10. ContractsInv'
    BY <2>3, <2>7, <2>8, ContractsStay
  <2> QED
    BY <2>3, <2>6, <2>9, <2>10
<1>4. CASE registry \notin 1..Len(chain)
  <2>1. chain' = chain
    BY <1>1, <1>4 DEF IsSeq
  <2>2. \A a \in 1..Len(chain) : a \in 1..Len(chain') /\ AsBefore(chain'[a], chain[a])
    BY <2>1, SameBefore
  <2> QED
    BY <1>4, <2>1, <2>2, ItStays, ContractsStay
<1> QED
  BY <1>3, <1>4

LEMMA ContractSuits ==
    ASSUME NEW id, id \notin {"Poll", "MACI"}, NEW c, c = Contract(id)
    PROVE  FromConfig(c) /\ IsRegistry(c.keys)
  BY DEF Contract, FromConfig, IsRegistry, EmptyRegistry

LEMMA PollSuits ==
    ASSUME NEW policy, NEW cfg \in Configs, NEW c, c = PollContracts(policy, cfg)[1]
    PROVE  FromConfig(c) /\ IsRegistry(c.keys) /\ c.policy = policy
<1>1. PICK b : b = Contract("Poll")
  OBVIOUS
<1>2. IsContract(b) /\ b.id = "Poll" /\ IsRegistry(b.keys)
  BY <1>1, ContractIs DEF Contract, IsRegistry, EmptyRegistry
<1>3. c = [b EXCEPT !.policy = policy, !.depth = cfg.pollDepth, !.tallyDepth = cfg.tallyDepth,
                    !.voteOptionDepth = cfg.voteOptionDepth, !.batch = cfg.batch, !.mode = cfg.mode]
  BY <1>1 DEF PollContracts
<1>4. /\ c.id = "Poll" /\ c.keys = b.keys /\ c.policy = policy /\ c.depth = cfg.pollDepth
      /\ c.tallyDepth = cfg.tallyDepth /\ c.voteOptionDepth = cfg.voteOptionDepth /\ c.mode = cfg.mode
  BY <1>2, <1>3 DEF IsContract
<1> QED
  BY <1>2, <1>4 DEF FromConfig

LEMMA ListedStays ==
    ASSUME NEW b, IsContract(b), b.polls \in Seq(Nat), NEW poll \in Nat, NEW d, WithPollOf(d, b, poll)
    PROVE  AsBefore(d, b) /\ d.polls = Append(b.polls, poll)
<1>1. PICK polls : polls = Append(b.polls, poll)
  OBVIOUS
<1>2. d = [b EXCEPT !.polls = polls]
  BY <1>1 DEF WithPollOf
<1>3. /\ d.id = b.id /\ d.policy = b.policy /\ d.mode = b.mode /\ d.keys = b.keys /\ d.target = b.target
      /\ d.depth = b.depth /\ d.tallyDepth = b.tallyDepth /\ d.voteOptionDepth = b.voteOptionDepth /\ d.polls = polls
  BY <1>2 DEF IsContract
<1>4. \A k \in DOMAIN b.polls : k \in DOMAIN polls /\ polls[k] = b.polls[k]
  <2>1. PICK old \in Seq(Nat) : old = b.polls
    OBVIOUS
  <2>2. /\ polls \in Seq(Nat) /\ Len(polls) = Len(old) + 1 /\ \A i \in 1..Len(old) : polls[i] = old[i]
        /\ Len(old) \in Nat /\ DOMAIN old = 1..Len(old)
    BY <1>1, <2>1, AppendProperties, LenProperties
  <2>3. DOMAIN polls = 1..(Len(old) + 1)
    BY <2>2, LenProperties
  <2> QED
    BY <2>1, <2>2, <2>3
<1> QED
  BY <1>1, <1>3, <1>4 DEF AsBefore

(* A poll of the run's MACI, or one of another account. *)
LEMMA DeployedStays ==
    ASSUME ChainInv, ContractsInv, Registered(Path("MACI")), NEW policy, NEW cfg \in Configs,
           chain' = WithPoll(chain, Maci, policy, cfg)
    PROVE  /\ ChainStays /\ ContractsInv' /\ NextPollId + 1 \in DOMAIN chain'[Maci].polls
           /\ chain'[Maci].polls[NextPollId + 1] = Len(chain) + 1 /\ chain'[Len(chain) + 1].policy = policy
<1>1. /\ IsSeq(chain) /\ Len(chain) \in Nat /\ Maci \in 1..Len(chain) /\ IsContract(chain[Maci])
      /\ chain[Maci].polls \in Seq(Nat) /\ NextPollId = Len(chain[Maci].polls)
  BY ChainDomain, NextPollIdIs DEF ChainInv, WellMade
<1>2. PICK d : WithPollOf(d, chain[Maci], Len(chain) + 1)
  BY DEF WithPollOf
<1>3. /\ Len(chain') = Len(chain) + 3
      /\ \A a \in 1..Len(chain) : chain'[a] = IF a = Maci THEN d ELSE chain[a]
      /\ chain'[Len(chain) + 1] = PollContracts(policy, cfg)[1]
      /\ chain'[Len(chain) + 2] = Contract("MessageProcessor") /\ chain'[Len(chain) + 3] = Contract("Tally")
  <2>1. WithNextPoll(d, chain, Maci) /\ IsWithPoll(chain', chain, Maci, policy, cfg)
    BY <1>2 DEF IsWithPoll, WithNextPoll
  <2> QED
    BY <1>1, <2>1, WithPollIs
<1>4. PICK n \in Nat : n = Len(chain)
  BY <1>1
<1>5. FromConfig(chain'[n + 1]) /\ IsRegistry(chain'[n + 1].keys) /\ chain'[n + 1].policy = policy
  BY <1>3, <1>4, PollSuits
<1>6. /\ FromConfig(chain'[n + 2]) /\ IsRegistry(chain'[n + 2].keys)
      /\ FromConfig(chain'[n + 3]) /\ IsRegistry(chain'[n + 3].keys)
  BY <1>3, <1>4, ContractSuits
<1>7. AsBefore(d, chain[Maci]) /\ d.polls = Append(chain[Maci].polls, n + 1)
  <2>1. PICK b : b = chain[Maci]
    OBVIOUS
  <2>2. IsContract(b) /\ b.polls \in Seq(Nat) /\ n + 1 \in Nat /\ WithPollOf(d, b, n + 1)
    BY <1>1, <1>2, <1>4, <2>1
  <2> QED
    BY <2>1, <2>2, ListedStays
<1>8. \A a \in 1..Len(chain) : a \in 1..Len(chain') /\ AsBefore(chain'[a], chain[a])
  BY <1>1, <1>3, <1>7, SameBefore
<1>9. ContractsInv'
  <2>1. \A a \in 1..Len(chain') : a \in 1..Len(chain) \/ a \in {n + 1, n + 2, n + 3}
    BY <1>3, <1>4
  <2> QED
    BY <1>5, <1>6, <1>8, <2>1, ContractsStay
<1>10. NextPollId + 1 \in DOMAIN d.polls /\ d.polls[NextPollId + 1] = n + 1
  <2>1. PICK old \in Seq(Nat) : old = chain[Maci].polls
    BY <1>1
  <2> DEFINE polls == Append(old, n + 1)
  <2>2. polls \in Seq(Nat) /\ Len(polls) = Len(old) + 1 /\ polls[Len(old) + 1] = n + 1 /\ Len(old) \in Nat
    BY <1>4, <2>1, AppendProperties, LenProperties
  <2> HIDE DEF polls
  <2>3. DOMAIN polls = 1..(Len(old) + 1)
    BY <2>2, LenProperties
  <2>4. d.polls = polls
    BY <1>7, <2>1 DEF polls
  <2> QED
    BY <1>1, <2>1, <2>2, <2>3, <2>4
<1> QED
  BY <1>1, <1>3, <1>4, <1>5, <1>8, <1>9, <1>10 DEF ChainStays

LEMMA AppendStays ==
    ASSUME ChainInv, ContractsInv, NEW c, FromConfig(c), IsRegistry(c.keys), chain' = Append(chain, c)
    PROVE  ChainStays /\ ContractsInv' /\ Len(chain') = Len(chain) + 1 /\ chain'[Len(chain) + 1] = c
<1>1. IsSeq(chain) /\ Len(chain) \in Nat
  BY ChainDomain DEF ChainInv
<1>2. IsAppend(chain', chain, c)
  BY DEF IsAppend
<1>3. /\ Len(chain') = Len(chain) + 1
      /\ chain'[Len(chain) + 1] = c
      /\ \A i \in 1..Len(chain) : chain'[i] = chain[i]
  BY <1>1, <1>2, AppendIs
<1>4. \A a \in 1..Len(chain) : a \in 1..Len(chain') /\ AsBefore(chain'[a], chain[a])
  BY <1>1, <1>3, SameBefore
<1>5. \A a \in 1..Len(chain') : a \in 1..Len(chain) \/ a = Len(chain) + 1
  BY <1>1, <1>3
<1> QED
  BY <1>3, <1>4, <1>5, ContractsStay DEF ChainStays

LEMMA OthersStays ==
    ASSUME ChainInv, ContractsInv, Registered(Path("MACI")), NEW cfg \in Configs,
           chain' = Bound(WithPoll(Append(chain, Contract("Policy")), Maci, NextAddress, cfg),
                          NextAddress, NextAddress + 1)
    PROVE  ChainStays /\ ContractsInv'
<1>1. /\ IsSeq(chain) /\ Maci \in 1..Len(chain) /\ IsContract(chain[Maci]) /\ chain[Maci].polls \in Seq(Nat)
      /\ Len(chain) \in Nat
  BY ChainDomain, NextPollIdIs DEF ChainInv, WellMade
<1>2. PICK n \in Nat : n = Len(chain) + 1
  BY <1>1
<1>3. PICK s : s = Append(chain, Contract("Policy"))
  OBVIOUS
<1>4. PICK u : u = WithPoll(s, Maci, n, cfg)
  OBVIOUS
<1>5. /\ IsSeq(s) /\ Len(s) = n /\ s[n] = Contract("Policy")
      /\ \A a \in 1..Len(chain) : s[a] = chain[a]
  <2>1. IsAppend(s, chain, Contract("Policy"))
    BY <1>3 DEF IsAppend
  <2> QED
    BY <1>1, <1>2, <2>1, AppendIs
<1>6. PICK d : WithPollOf(d, chain[Maci], n + 1)
  BY DEF WithPollOf
<1>7. /\ IsSeq(u) /\ Len(u) = n + 3
      /\ \A a \in 1..n : u[a] = IF a = Maci THEN d ELSE s[a]
      /\ u[n + 1] = PollContracts(n, cfg)[1]
      /\ u[n + 2] = Contract("MessageProcessor") /\ u[n + 3] = Contract("Tally")
  <2>1. Maci \in 1..Len(s) /\ s[Maci] = chain[Maci]
    BY <1>1, <1>2, <1>5
  <2>2. WithPollOf(d, s[Maci], Len(s) + 1)
    BY <1>5, <1>6, <2>1
  <2>3. IsWithPoll(u, s, Maci, n, cfg) /\ IsSeq(s)
    BY <1>4, <1>5 DEF IsWithPoll
  <2>4. WithNextPoll(d, s, Maci)
    BY <2>2 DEF WithNextPoll
  <2>5. /\ IsSeq(u) /\ Len(u) = Len(s) + 3
        /\ \A a \in 1..Len(s) : u[a] = IF a = Maci THEN d ELSE s[a]
        /\ u[Len(s) + 1] = PollContracts(n, cfg)[1]
        /\ u[Len(s) + 2] = Contract("MessageProcessor") /\ u[Len(s) + 3] = Contract("Tally")
    BY <2>1, <2>3, <2>4, WithPollIs
  <2> QED
    BY <1>5, <2>5
<1>8. PICK e : e = [u[n] EXCEPT !.target = n + 1]
  OBVIOUS
<1>9. IsChanged(chain', u, n, e)
  BY <1>2, <1>3, <1>4, <1>8 DEF Bound, NextAddress, IsChanged
<1>10. Len(chain') = n + 3 /\ \A a \in 1..(n + 3) : chain'[a] = IF a = n THEN e ELSE u[a]
  <2>1. n \in 1..Len(u)
    BY <1>1, <1>2, <1>7
  <2>2. Len(chain') = Len(u) /\ \A a \in 1..Len(u) : chain'[a] = IF a = n THEN e ELSE u[a]
    BY <1>7, <1>9, <2>1, ChangedIs
  <2> QED
    BY <1>7, <2>2
<1>11. FromConfig(e) /\ IsRegistry(e.keys)
  <2>1. u[n] = Contract("Policy")
    BY <1>1, <1>2, <1>5, <1>7
  <2>2. PICK b : b = Contract("Policy")
    OBVIOUS
  <2>3. IsContract(b) /\ b.id = "Policy" /\ IsRegistry(b.keys)
    BY <2>2, ContractIs, ContractSuits
  <2>4. e.id = "Policy" /\ e.keys = b.keys
    BY <1>8, <2>1, <2>2, <2>3 DEF IsContract
  <2> QED
    BY <2>3, <2>4 DEF FromConfig
<1>12. AsBefore(d, chain[Maci])
  <2>1. PICK b : b = chain[Maci]
    OBVIOUS
  <2>2. IsContract(b) /\ b.polls \in Seq(Nat) /\ n + 1 \in Nat /\ WithPollOf(d, b, n + 1)
    BY <1>1, <1>2, <1>6, <2>1
  <2> QED
    BY <2>1, <2>2, ListedStays
<1>13. \A a \in 1..Len(chain) : a \in 1..Len(chain') /\ AsBefore(chain'[a], chain[a])
  <2>1. \A a \in 1..Len(chain) : a \in 1..Len(chain') /\ chain'[a] = IF a = Maci THEN d ELSE chain[a]
    BY <1>1, <1>2, <1>5, <1>7, <1>10
  <2> QED
    BY <1>12, <2>1, SameBefore
<1>14. /\ FromConfig(chain'[n]) /\ IsRegistry(chain'[n].keys)
       /\ FromConfig(chain'[n + 1]) /\ IsRegistry(chain'[n + 1].keys)
       /\ FromConfig(chain'[n + 2]) /\ IsRegistry(chain'[n + 2].keys)
       /\ FromConfig(chain'[n + 3]) /\ IsRegistry(chain'[n + 3].keys)
  <2>1. chain'[n] = e /\ chain'[n + 1] = u[n + 1] /\ chain'[n + 2] = u[n + 2] /\ chain'[n + 3] = u[n + 3]
    BY <1>1, <1>2, <1>10, SMTT(30)
  <2> QED
    BY <1>7, <1>11, <2>1, PollSuits, ContractSuits
<1>15. \A a \in 1..Len(chain') : a \in 1..Len(chain) \/ a \in {n, n + 1, n + 2, n + 3}
  BY <1>1, <1>2, <1>10
<1>16. ContractsInv'
  BY <1>13, <1>14, <1>15, ContractsStay
<1> QED
  BY <1>13, <1>16 DEF ChainStays

-----------------------------------------------------------------------------
(* The invariant, action by action. *)

LEMMA NothingIsMade ==
    ASSUME Idle'
    PROVE  StepInv' /\ PollInv'
  BY DEF Idle, StepInv, PollInv, At, AskedOnce

LEMMA InstancesStay ==
    ASSUME ChainInv, ChainStays
    PROVE  \A a \in 1..Len(chain) : Stays(a)
  BY ItStays DEF ChainStays, ChainInv

(* A run is broken off. *)
LEMMA BrokenIsUsable ==
    ASSUME IInv, UInv, run' = NoRun, chain' = Remembered(instances), UNCHANGED <<file, user, finished>>
    PROVE  UInv'
<1>1. /\ ChainInv' /\ \A a \in 1..Len(chain') : a \in 1..Len(chain) /\ chain'[a] = chain[a]
  <2>1. /\ ChainInv' /\ Len(chain') \in 0..Len(chain)
        /\ \A a \in 1..Len(chain') : chain'[a] = chain[a]
    BY Shorter DEF IInv
  <2>2. Len(chain) \in Nat
    BY ChainDomain DEF IInv
  <2> QED
    BY <2>1, <2>2
<1>2. instances \subseteq 1..Len(chain')
  BY <1>1 DEF ChainInv, file
<1>3. \A a \in 1..Len(chain') : a \in 1..Len(chain) /\ AsBefore(chain'[a], chain[a])
  BY <1>1, SameBefore
<1>4. \A a \in instances : Stays(a)
  BY <1>2, <1>3, ItStays
<1>5. ContractsInv'
  BY <1>3, ContractsStay DEF UInv
<1>6. (Has("full") => Has("full")') /\ (Has("serviceMaci") => Has("serviceMaci")')
  BY DEF Has
<1>7. FileInv'
  BY <1>4, <1>6, FileStays DEF UInv, IInv
<1>8. Idle'
  BY DEF Idle, NoRun
<1> QED
  BY <1>5, <1>7, <1>8, NothingIsMade DEF UInv

(* What is to be shown of the run after a step. *)
LEMMA StepThen ==
    ASSUME ~Idle', NEW job, run'.job = job, AskedOnce(job)',
           NEW step, Step' = step, NEW pc, run'.pc = pc, NEW todo, run'.todo = todo, NEW made, run'.made = made,
           MadeRight(step, pc, made, todo), MadeUsable(step, pc, made)'
    PROVE  StepInv'
<1>1. MadeRight(Step, run.pc, run.made, run.todo)'
  BY DEF MadeRight, NothingElse, IsOnce, MakesRegistry, HasRegistry, RegistryIn
<1>2. MadeUsable(Step, run.pc, run.made)'
  BY DEF MadeUsable, HasAllKeys, IsBound, MaciPolicy
<1> QED
  BY <1>1, <1>2 DEF StepInv

LEMMA PollThen ==
    ASSUME ~Idle', NEW step, Step' = step, NEW pc, run'.pc = pc, NEW pollId, run'.pollId = pollId,
           NEW made, run'.made = made,
           step \in PollSteps /\ pc \in {"call", "bind", "register"} =>
              Registered(Path("MACI"))' /\ Registered(Registry)',
           step = "Poll" /\ pc = "call" => pollId = NextPollId',
           step \in PollSteps /\ pc = "bind" =>
              pollId + 1 = NextPollId' /\ (chain[chain[Maci].polls[NextPollId]].policy = PollPolicy)',
           step \in PollSteps /\ pc = "register" =>
              \A i \in DOMAIN made : made[i].path[1] = "Poll" =>
                  made[i].path[2] = pollId /\ IsPollOf(made[i].address, pollId)'
    PROVE  PollInv'
<1>1. \A steps, pcs : At(steps, pcs)' <=> step \in steps /\ pc \in pcs
  BY DEF At
<1>2. ASSUME NEW i, IsPollOf(made[i].address, pollId)'
      PROVE  IsPollOf(run.made[i].address, run.pollId)'
  BY <1>2 DEF IsPollOf, IsBound
<1>3. (At(PollSteps, {"register"}) =>
          \A i \in DOMAIN run.made : run.made[i].path[1] = "Poll" =>
              run.made[i].path[2] = run.pollId /\ IsPollOf(run.made[i].address, run.pollId))'
  BY <1>1, <1>2
<1> QED
  BY <1>1, <1>3 DEF PollInv, PollSteps

(* What a step made stays right while the chain does. *)
LEMMA MadeStays ==
    ASSUME ChainInv, UNCHANGED <<file, user>>, run'.cfg = run.cfg, \A a \in 1..Len(chain) : Stays(a),
           NEW made, \A i \in DOMAIN made : made[i].address \in 1..Len(chain),
           NEW step, NEW pc, MadeUsable(step, pc, made)
    PROVE  MadeUsable(step, pc, made)'
<1>1. named' = named /\ instances' = instances /\ user' = user /\ MaciPolicy' = MaciPolicy
  BY DEF file, MaciPolicy, GetAddress, Path
<1>2. instances \subseteq 1..Len(chain)
  BY DEF ChainInv
<1>3. ASSUME NEW a \in 1..Len(chain)
      PROVE  /\ HasAllKeys(a) => HasAllKeys(a)'
             /\ chain'[a].policy = chain[a].policy
             /\ IsBound(a) => IsBound(a)'
  <2>1. (HasAllKeys(a) => HasAllKeys(a)') /\ chain'[a].policy = chain[a].policy
    BY DEF Stays
  <2>2. ASSUME IsBound(a)
        PROVE  IsBound(a)'
    <3>1. PICK p : p = chain[a].policy
      OBVIOUS
    <3>2. p \in instances /\ chain[p].target = a
      BY <2>2, <3>1 DEF IsBound
    <3>3. p \in 1..Len(chain) /\ a # 0
      <4>1. Len(chain) \in Nat
        BY ChainDomain
      <4> QED
        BY <1>2, <3>2, <4>1
    <3>4. chain'[p].target = a /\ chain'[a].policy = p
      BY <2>1, <3>1, <3>2, <3>3 DEF Stays
    <3> QED
      BY <1>1, <3>2, <3>4 DEF IsBound
  <2> QED
    BY <2>1, <2>2
<1>4. PICK policy : policy = MaciPolicy
  OBVIOUS
<1>5. MaciPolicy' = policy
  BY <1>1, <1>4
<1>6. ASSUME HasRegistry(step, pc), NEW i \in DOMAIN made, made[i].path[1] = "VerifyingKeysRegistry"
      PROVE  HasAllKeys(made[i].address)'
  BY <1>3, <1>6 DEF MadeUsable
<1>7. ASSUME step \in MaciSteps, pc = "call", NEW i \in DOMAIN made, made[i].path[1] = "MACI"
      PROVE  chain'[made[i].address].policy = policy
  BY <1>3, <1>4, <1>7 DEF MadeUsable
<1>8. ASSUME step \in MaciSteps, pc = "register", NEW i \in DOMAIN made, made[i].path[1] = "MACI"
      PROVE  IsBound(made[i].address)'
  BY <1>3, <1>8 DEF MadeUsable
<1> QED
  BY <1>5, <1>6, <1>7, <1>8 DEF MadeUsable

LEMMA NextStepUses ==
    ASSUME IInv, UInv, NextStep, IInv'
    PROVE  UInv'
<1>1. RunTyped /\ InTurn /\ ChainInv /\ MadeInv /\ ContractsInv /\ FileInv /\ StepInv
  BY DEF IInv, UInv
<1>2. ~Idle /\ run.pc = "next" /\ chain' = chain /\ UNCHANGED <<file, user>>
  BY DEF NextStep
<1>3. run \in Busy /\ run.job \in Jobs /\ run.step \in 1..Len(Steps[run.job])
  BY <1>1, <1>2, StepIs
<1>4. ChainStays /\ \A a \in 1..Len(chain) : Stays(a)
  BY <1>1, <1>2, SameStays, InstancesStay
<1>5. ContractsInv'
  BY <1>1, <1>2 DEF ContractsInv, FromConfig, IsRegistry
<1>6. (Has("full") => Has("full")') /\ (Has("serviceMaci") => Has("serviceMaci")')
  <2>1. finished \in [Jobs -> Nat] /\ "full" \in Jobs /\ "serviceMaci" \in Jobs
    BY <1>1 DEF InTurn, Jobs
  <2>2. finished' = finished \/ finished' = [finished EXCEPT ![run.job] = @ + 1]
    BY DEF NextStep
  <2> QED
    BY <2>1, <2>2 DEF Has
<1>7. FileInv'
  <2>1. \A a \in instances : Stays(a)
    BY <1>1, <1>4 DEF ChainInv
  <2> QED
    BY <1>1, <1>2, <1>6, <2>1, FileStays
<1>8. CASE LastStep
  <2>1. Idle'
    BY <1>8 DEF NextStep, NoRun, Idle
  <2> QED
    BY <1>5, <1>7, <2>1, NothingIsMade DEF UInv
<1>9. CASE ~LastStep
  <2>1. run' = [run EXCEPT !.step = @ + 1, !.pc = "enter"] /\ finished' = finished
    BY <1>9 DEF NextStep
  <2>2. PICK next : next = Steps[run.job][run.step + 1]
    OBVIOUS
  <2>3. next = "ServiceMaci" => Step = "ServiceRegistry"
    BY <1>1, <1>2, <1>9, <2>2, NextStepIs
  <2>4. PICK job, made, todo, pollId : job = run.job /\ made = run.made /\ todo = run.todo /\ pollId = run.pollId
    OBVIOUS
  <2>5. /\ run'.job = job /\ run'.step = run.step + 1 /\ run'.pc = "enter" /\ run'.cfg = run.cfg
        /\ run'.made = made /\ run'.todo = todo /\ run'.pollId = pollId
    BY <1>3, <2>1, <2>4 DEF Busy
  <2>6. ~Idle' /\ Step' = next
    BY <1>2, <2>2, <2>4, <2>5 DEF Idle, Step
  <2>7. PICK pc : pc = "enter"
    OBVIOUS
  <2>8. MadeRight(next, pc, made, todo) /\ MadeUsable(next, pc, made)'
    <3>1. CASE next = "ServiceMaci"
      <4>1. Step = "ServiceRegistry" /\ MadeRight(Step, run.pc, made, todo) /\ MadeUsable(Step, run.pc, made)
        BY <1>1, <1>2, <2>3, <2>4, <3>1 DEF StepInv
      <4>2. MadeRight(next, pc, made, todo)
        BY <1>2, <2>7, <3>1, <4>1 DEF MadeRight, MakesRegistry, HasRegistry, RegistrySteps
      <4>3. MadeUsable(next, pc, made)
        BY <1>2, <2>7, <3>1, <4>1 DEF MadeUsable, HasRegistry
      <4>4. \A i \in DOMAIN made : made[i].address \in 1..Len(chain)
        BY <1>1, <1>2, <2>4, <4>1 DEF MadeInv, IsMade, At
      <4> QED
        BY <1>1, <1>2, <1>4, <2>5, <4>2, <4>3, <4>4, MadeStays
    <3>2. CASE next # "ServiceMaci"
      <4>1. ~HasRegistry(next, pc) /\ ~MakesRegistry(next, pc)
        BY <2>7, <3>2 DEF HasRegistry, MakesRegistry
      <4> QED
        BY <2>7, <4>1 DEF MadeRight, MadeUsable
    <3> QED
      BY <3>1, <3>2
  <2>9. StepInv'
    <3>1. AskedOnce(job)'
      BY <1>1, <2>1, <2>4 DEF AskedOnce, StepInv, Has
    <3> QED
      BY <2>5, <2>6, <2>7, <2>8, <3>1, StepThen
  <2>10. PollInv'
    BY <2>5, <2>6, PollThen
  <2> QED
    BY <1>5, <1>7, <2>9, <2>10 DEF UInv
<1> QED
  BY <1>8, <1>9

LEMMA StartUses ==
    ASSUME OneMaci, DeploymentAssumption, IInv, UInv,
           NEW job \in DOMAIN Steps, NEW incremental \in BOOLEAN, NEW cfg \in Configs,
           Start(job, incremental, cfg), IInv'
    PROVE  UInv'
<1>1. InTurn /\ ChainInv /\ ContractsInv /\ FileInv
  BY DEF IInv, UInv
<1>2. /\ Idle /\ Wanted(job) /\ user' = user /\ finished' = finished
      /\ run' = [job |-> job, cfg |-> cfg, failed |-> TRUE, incremental |-> incremental,
                 step |-> 1, pc |-> "enter", pollId |-> 0, todo |-> <<>>, made |-> <<>>]
  BY DEF Start
<1>3. job \in Jobs
  BY StepsAre
<1>4. PICK pc, todo, made, pollId : pc = "enter" /\ todo = <<>> /\ made = <<>> /\ pollId = 0
  OBVIOUS
<1>5. run'.job = job /\ run'.pc = pc /\ run'.todo = todo /\ run'.made = made /\ run'.pollId = pollId /\ run'.step = 1
  BY <1>2, <1>4
<1>6. PICK step : step = Step'
  OBVIOUS
<1>7. ~Idle' /\ step \in {"Policies", "InitialVoiceCreditProxy", "ServicePolicy"}
  <2>1. Step' = Steps[job][1] /\ job # "none"
    BY <1>3, <1>5 DEF Step, Jobs
  <2> QED
    BY <1>3, <1>5, <1>6, <2>1, StepsInOrder DEF Idle, Jobs
<1>8. StepInv'
  <2>1. AskedOnce(job)'
    BY <1>1, <1>2 DEF AskedOnce, Wanted, OneMaci, DeploymentAssumption, Has, InTurn, Jobs
  <2>2. ~HasRegistry(step, pc) /\ ~MakesRegistry(step, pc)
    BY <1>4, <1>7 DEF HasRegistry, MakesRegistry
  <2>3. MadeRight(step, pc, made, todo) /\ MadeUsable(step, pc, made)'
    BY <1>4, <2>2 DEF MadeRight, MadeUsable
  <2> QED
    BY <1>5, <1>6, <1>7, <2>1, <2>3, StepThen
<1>9. PollInv'
  BY <1>4, <1>5, <1>6, <1>7, PollThen
<1>10. CASE UNCHANGED <<chain, file>>
  <2>1. ContractsInv'
    BY <1>1, <1>10 DEF ContractsInv, FromConfig, IsRegistry
  <2>2. \A a \in instances : Stays(a)
    BY <1>1, <1>10, SameStays, InstancesStay DEF ChainInv
  <2>3. FileInv'
    BY <1>1, <1>2, <1>10, <2>2, FileStays DEF Has
  <2> QED
    BY <1>8, <1>9, <2>1, <2>3 DEF UInv
<1>11. CASE named' = <<>> /\ instances' = {} /\ chain' = Remembered({})
  <2>1. Reachable({}) = {0}
    BY DEF Reachable
  <2>2. Max({0}) = 0
    BY Greatest
  <2>3. IsBeginning(chain', chain, 0)
    BY <1>11, <2>1, <2>2 DEF Remembered, IsBeginning
  <2>4. 0 \in 0..Len(chain) /\ IsSeq(chain)
    BY <1>1, ChainDomain DEF ChainInv
  <2>5. Len(chain') = 0
    BY <2>3, <2>4, BeginningIs
  <2>6. DOMAIN named' = {} /\ 1..0 = {}
    BY <1>11
  <2>7. ContractsInv'
    BY <2>5, <2>6 DEF ContractsInv
  <2>8. FileInv'
    BY <2>6 DEF FileInv, MaciIsUsable, Registered
  <2> QED
    BY <1>8, <1>9, <2>7, <2>8 DEF UInv
<1> QED
  BY <1>10, <1>11 DEF Start

(* A step deploys nothing twice, and a registry as a registry's step. *)
LEMMA NothingTwice ==
    ASSUME NEW step, step # "Policies", NEW cfg \in Configs, NEW d, d = Deployed(step, cfg)
    PROVE  /\ \A i, j \in DOMAIN d : d[i] = d[j] => i = j
           /\ step = "ServiceMaci" => \A i \in DOMAIN d : d[i] \notin RegistryParts
           /\ step = "ServiceRegistry" => \A i \in DOMAIN d : d[i] \in RegistryParts
           /\ step \in RegistrySteps => \E i \in DOMAIN d : d[i] = "VerifyingKeysRegistry"
           /\ step \in RegistrySteps \cup MaciSteps => d # <<>>
           /\ step \notin RegistrySteps => \A i \in DOMAIN d : d[i] # "VerifyingKeysRegistry"
<1>1. \A a : DOMAIN <<a>> = {1} /\ <<a>>[1] = a /\ <<a>> # <<>>
  OBVIOUS
<1>2. CASE step \in {"PollPolicy", "ServicePolicy"}
  BY <1>1, <1>2, DeployedIs, ConfigIs, ContractsAre DEF RegistrySteps, MaciSteps
<1>3. CASE step = "ServiceMaci"
  <2>1. d = ServiceMaciContracts
    BY <1>3, DeployedIs
  <2>2. DOMAIN d = 1..8 /\ d # <<>>
    BY <2>1, ServiceMaciIsLast, EmptyIs DEF IsSeq
  <2>3. /\ d[1] = "PoseidonT3" /\ d[2] = "PoseidonT4" /\ d[3] = "PoseidonT5" /\ d[4] = "PoseidonT6"
        /\ d[5] = "PollFactory" /\ d[6] = "MessageProcessorFactory" /\ d[7] = "TallyFactory" /\ d[8] = "MACI"
    BY <2>1 DEF ServiceMaciContracts
  <2>4. \A i \in 1..8 : i \in {1, 2, 3, 4, 5, 6, 7, 8}
    OBVIOUS
  <2>5. \A i, j \in DOMAIN d : d[i] = d[j] => i = j
    BY <2>2, <2>3, <2>4
  <2>6. \A i \in DOMAIN d : d[i] \notin RegistryParts
    BY <2>2, <2>3, <2>4 DEF RegistryParts
  <2> QED
    BY <1>3, <2>2, <2>5, <2>6 DEF RegistrySteps, RegistryParts
<1>4. CASE step \in {"Poll", "ServicePoll"}
  BY <1>4, DeployedIs, EmptyIs DEF RegistrySteps, MaciSteps
<1>5. CASE step = "Poseidon"
  <2>1. d = Poseidons
    BY <1>5, DeployedIs
  <2>2. /\ DOMAIN d = {1, 2, 3, 4} /\ d[1] = "PoseidonT3" /\ d[2] = "PoseidonT4"
        /\ d[3] = "PoseidonT5" /\ d[4] = "PoseidonT6"
    BY <2>1 DEF Poseidons
  <2> QED
    BY <1>5, <2>2 DEF RegistrySteps, MaciSteps
<1>6. CASE step = "ServiceRegistry"
  <2>1. d = <<"Verifier", "VerifyingKeysRegistry">>
    BY <1>6, DeployedIs
  <2>2. DOMAIN d = {1, 2} /\ d[1] = "Verifier" /\ d[2] = "VerifyingKeysRegistry" /\ d # <<>>
    BY <2>1
  <2> QED
    BY <1>6, <2>2 DEF RegistryParts, RegistrySteps
<1>7. CASE step = "ServiceProxy"
  <2>1. d = <<"InitialVoiceCreditProxyFactory", "InitialVoiceCreditProxy">>
    BY <1>7, DeployedIs
  <2>2. DOMAIN d = {1, 2} /\ d[1] = "InitialVoiceCreditProxyFactory" /\ d[2] = "InitialVoiceCreditProxy"
    BY <2>1
  <2> QED
    BY <1>7, <2>2 DEF RegistrySteps, MaciSteps
<1>8. CASE step \notin {"PollPolicy", "ServicePolicy", "Poseidon", "ServiceRegistry", "ServiceMaci",
                        "ServiceProxy", "Poll", "ServicePoll"}
  <2>1. d = <<step>>
    BY <1>8, DeployedIs
  <2>2. DOMAIN d = {1} /\ d[1] = step /\ d # <<>>
    BY <1>1, <2>1
  <2> QED
    BY <1>8, <2>2 DEF RegistrySteps
<1> QED
  BY <1>2, <1>3, <1>4, <1>5, <1>6, <1>7, <1>8

LEMMA EnterUses ==
    ASSUME IInv, UInv, Enter, IInv'
    PROVE  UInv'
<1>1. RunTyped /\ InTurn /\ ChainInv /\ MadeInv /\ ContractsInv /\ FileInv /\ StepInv
  BY DEF IInv, UInv
<1>2. ~Idle /\ run.pc = "enter"
  BY DEF Enter
<1>3. CASE Throw
  BY <1>3, BrokenIsUsable DEF Throw
<1>4. CASE ~Throw
  <2>1. /\ \A path \in Needed(Step, run.cfg, NextPollId) : Registered(path)
        /\ run' = IF run.incremental /\ Done(Step, run.cfg, NextPollId)
                  THEN [run EXCEPT !.pc = "next"]
                  ELSE [run EXCEPT !.pc = IF Deployed(Step, run.cfg) = <<>> THEN "call" ELSE "deploy",
                                   !.pollId = NextPollId,
                                   !.todo = Deployed(Step, run.cfg),
                                   !.made = IF Step = "ServiceMaci" THEN @ ELSE <<>>]
        /\ chain' = chain /\ UNCHANGED <<file, user, finished>>
    BY <1>4 DEF Enter
  <2>2. /\ run.cfg \in Configs /\ run.pollId \in Nat /\ run.todo \in Seq(Ids)
        /\ run.made \in Seq([path : Paths, address : Nat])
        /\ \A pc : run' = [run EXCEPT !.pc = pc] => GoesTo(pc, run.pollId, run.todo, run.made)
        /\ run \in Busy
    BY <1>1, <1>2, RunFields, StepIs
  <2>3. ChainInv' /\ Alike
    BY <1>1, <2>1, SameChain, SameIsAlike
  <2>4. NextPollId' = NextPollId /\ NextPollId \in Nat
    BY <1>1, <2>1, <2>3, AlikeIs, NextPollIdIs
  <2>5. PICK step, job : step = Step /\ job = run.job
    OBVIOUS
  <2>6. PICK cfg \in Configs : cfg = run.cfg
    BY <2>2
  <2>7. \A a \in 1..Len(chain) : Stays(a)
    BY <1>1, <2>1, SameStays, InstancesStay
  <2>8. ContractsInv'
    BY <1>1, <2>1 DEF ContractsInv, FromConfig, IsRegistry
  <2>9. FileInv'
    <3>1. \A a \in instances : Stays(a)
      BY <1>1, <2>7 DEF ChainInv
    <3> QED
      BY <1>1, <2>1, <3>1, FileStays DEF Has
  <2>10. AskedOnce(job)'
    BY <1>1, <2>1, <2>5 DEF AskedOnce, StepInv, Has
  <2>11. CASE run' = [run EXCEPT !.pc = "next"]
    <3>1. "next" \in Pcs /\ GoesTo("next", run.pollId, run.todo, run.made)
      BY <2>2, <2>11 DEF Pcs
    <3>2. /\ ~Idle' /\ Step' = Step /\ run'.job = run.job /\ run'.cfg = run.cfg /\ run'.pc = "next"
          /\ run'.pollId = run.pollId /\ run'.todo = run.todo /\ run'.made = run.made
      BY <1>1, <1>2, <2>1, <2>2, <3>1, StepGoesOn, ZenonT(60)
    <3>3. Done(Step, run.cfg, NextPollId)
      <4>1. run.pc = "enter" /\ run'.pc = "next"
        BY <1>2, <3>2
      <4> QED
        BY <2>1, <2>2, <3>2, <4>1 DEF Busy
    <3>4. Step # "ServiceRegistry"
      BY <3>3 DEF Done
    <3>5. PICK made, todo, pollId, pc : made = run.made /\ todo = run.todo /\ pollId = run.pollId /\ pc = "next"
      OBVIOUS
    <3>6. MadeRight(step, pc, made, todo) /\ MadeUsable(step, pc, made)'
      <4>1. ~HasRegistry(step, pc) /\ ~MakesRegistry(step, pc)
        BY <2>5, <3>4, <3>5 DEF HasRegistry, MakesRegistry
      <4> QED
        BY <3>5, <4>1 DEF MadeRight, MadeUsable
    <3>7. StepInv'
      BY <2>5, <2>10, <3>2, <3>5, <3>6, StepThen
    <3>8. PollInv'
      BY <2>5, <3>2, <3>5, PollThen
    <3> QED
      BY <2>8, <2>9, <3>7, <3>8 DEF UInv
  <2>12. CASE run' # [run EXCEPT !.pc = "next"]
    <3>1. PICK todo : todo = Deployed(Step, run.cfg)
      OBVIOUS
    <3>2. PICK made : made = IF Step = "ServiceMaci" THEN run.made ELSE <<>>
      OBVIOUS
    <3>3. PICK pc \in {"call", "deploy"} : pc = IF todo = <<>> THEN "call" ELSE "deploy"
      OBVIOUS
    <3>4. PICK pollId \in Nat : pollId = NextPollId
      BY <2>4
    <3>5. GoesTo(pc, pollId, todo, made)
      BY <2>1, <2>2, <2>12, <3>1, <3>2, <3>3, <3>4 DEF GoesTo, Busy
    <3>6. todo \in Seq(Ids) /\ DOMAIN todo = 1..Len(todo)
      BY <1>1, <1>2, <3>1, DeployedSuits, SeqIs
    <3>7. made \in Seq([path : Paths, address : Nat]) /\ pc \in Pcs
      BY <2>2, <3>2, EmptySeq DEF Pcs
    <3>8. /\ ~Idle' /\ Step' = Step /\ run'.job = run.job /\ run'.cfg = run.cfg /\ run'.pc = pc
          /\ run'.pollId = pollId /\ run'.todo = todo /\ run'.made = made
      BY <1>1, <1>2, <2>1, <3>4, <3>5, <3>6, <3>7, StepGoesOn
    <3>9. /\ step # "Policies" => \A i, j \in DOMAIN todo : todo[i] = todo[j] => i = j
          /\ step = "ServiceMaci" => \A i \in DOMAIN todo : todo[i] \notin RegistryParts
          /\ step = "ServiceRegistry" => \A i \in DOMAIN todo : todo[i] \in RegistryParts
          /\ step \in RegistrySteps => \E i \in DOMAIN todo : todo[i] = "VerifyingKeysRegistry"
          /\ step \in RegistrySteps \cup MaciSteps => pc = "deploy"
          /\ step # "Policies" /\ step \notin RegistrySteps =>
                \A i \in DOMAIN todo : todo[i] # "VerifyingKeysRegistry"
      <4>1. step \in RegistrySteps \cup MaciSteps => step # "Policies"
        BY DEF RegistrySteps, MaciSteps
      <4>2. step # "Policies" /\ step \notin RegistrySteps =>
                \A i \in DOMAIN todo : todo[i] # "VerifyingKeysRegistry"
        BY <2>5, <2>6, <3>1, NothingTwice
      <4>3. /\ step # "Policies" => \A i, j \in DOMAIN todo : todo[i] = todo[j] => i = j
            /\ step = "ServiceMaci" => \A i \in DOMAIN todo : todo[i] \notin RegistryParts
            /\ step = "ServiceRegistry" => \A i \in DOMAIN todo : todo[i] \in RegistryParts
            /\ step \in RegistrySteps => \E i \in DOMAIN todo : todo[i] = "VerifyingKeysRegistry"
        BY <2>5, <2>6, <3>1, <4>1, NothingTwice, SMTT(30) DEF RegistrySteps
      <4>4. step \in RegistrySteps \cup MaciSteps => pc = "deploy"
        BY <2>5, <2>6, <3>1, <3>3, <4>1, NothingTwice
      <4> QED
        BY <4>2, <4>3, <4>4
    <3>10. MadeRight(step, pc, made, todo) /\ MadeUsable(step, pc, made)'
      <4>1. CASE step = "ServiceMaci"
        <5>1. made = run.made /\ pc = "deploy" /\ step # "Policies" /\ step \notin RegistrySteps
          BY <2>5, <3>2, <3>9, <4>1 DEF MaciSteps, RegistrySteps
        <5>2. MadeRight(step, run.pc, made, run.todo) /\ MadeUsable(step, run.pc, made)
          BY <1>1, <1>2, <2>5, <5>1 DEF StepInv
        <5>3. /\ MakesRegistry(step, run.pc) /\ ~MakesRegistry(step, pc)
              /\ HasRegistry(step, run.pc) /\ HasRegistry(step, pc)
          BY <1>2, <4>1, <5>1 DEF MakesRegistry, HasRegistry
        <5>4. /\ \A i, j \in DOMAIN made : made[i].path[1] = made[j].path[1] => i = j
              /\ \A i \in DOMAIN made : made[i].path[1] \in RegistryParts
              /\ RegistryIn(made)
          BY <5>2, <5>3 DEF MadeRight, IsOnce
        <5>5. IsOnce(made, todo)
          BY <3>9, <4>1, <5>1, <5>4 DEF IsOnce
        <5>6. MadeRight(step, pc, made, todo)
          BY <4>1, <5>1, <5>3, <5>4, <5>5 DEF MadeRight, NothingElse, RegistryParts
        <5>7. MadeUsable(step, pc, made)
          BY <4>1, <5>1, <5>2, <5>3 DEF MadeUsable
        <5>8. \A i \in DOMAIN made : made[i].address \in 1..Len(chain)
          BY <1>1, <1>2, <2>5, <4>1, <5>1 DEF MadeInv, IsMade, At
        <5> QED
          BY <1>1, <2>1, <2>7, <3>8, <5>6, <5>7, <5>8, MadeStays
      <4>2. CASE step # "ServiceMaci"
        <5>1. made = <<>> /\ DOMAIN made = {}
          BY <2>5, <3>2, <4>2, EmptyIs
        <5>2. step # "Policies" => IsOnce(made, todo)
          BY <3>9, <5>1 DEF IsOnce
        <5>3. ~HasRegistry(step, pc) /\ (MakesRegistry(step, pc) => step = "ServiceRegistry")
          BY <4>2 DEF HasRegistry, MakesRegistry
        <5>4. MadeRight(step, pc, made, todo)
          <6>1. step = "Policies" => \A i \in DOMAIN todo : todo[i] # "VerifyingKeysRegistry"
            <7>1. \A i \in DOMAIN todo : OfStep(todo[i])
              <8>1. \A i \in 1..Len(todo) : OfStep(todo[i])
                BY <1>1, <1>2, <3>1, DeployedSuits
              <8> QED
                BY <3>6, <8>1
            <7>2. "VerifyingKeysRegistry" \in Contracts
              BY ContractsAre
            <7> QED
              BY <2>5, <7>1, <7>2 DEF OfStep, PolicySteps
          <6>2. NothingElse(step, made, todo)
            BY <3>9, <5>1, <6>1 DEF NothingElse
          <6> QED
            BY <3>3, <3>9, <5>1, <5>2, <5>3, <6>2 DEF MadeRight
        <5>5. MadeUsable(step, pc, made)'
          BY <5>1, <5>3 DEF MadeUsable
        <5> QED
          BY <5>4, <5>5
      <4> QED
        BY <4>1, <4>2
    <3>11. StepInv'
      BY <2>5, <2>10, <3>8, <3>10, StepThen
    <3>12. PollInv'
      <4>1. step \in PollSteps => Registered(Path("MACI")) /\ Registered(Registry)
        BY <2>1, <2>5, <2>6 DEF Needed, Factories, Range, PollSteps, Registry
      <4>2. step \in PollSteps => Registered(Path("MACI"))' /\ Registered(Registry)'
        BY <2>1, <4>1 DEF Registered, Registry, Path, file
      <4>3. pc # "bind" /\ pc # "register" /\ pollId = NextPollId'
        BY <2>4, <3>3, <3>4
      <4> QED
        BY <2>5, <3>8, <4>2, <4>3, PollThen
    <3> QED
      BY <2>8, <2>9, <3>11, <3>12 DEF UInv
  <2> QED
    BY <2>11, <2>12
<1> QED
  BY <1>3, <1>4

LEMMA MadeSuits ==
    ASSUME RunTyped, ~Idle, NEW id, id # "Poll", NEW c, c = MadeContract(id)
    PROVE  FromConfig(c) /\ IsRegistry(c.keys)
<1>1. PICK cfg \in Configs : cfg = run.cfg
  BY RunFields
<1>2. PICK b : b = Contract(id)
  OBVIOUS
<1>3. IsContract(b) /\ b.id = id /\ IsRegistry(b.keys)
  BY <1>2, ContractIs DEF Contract, IsRegistry, EmptyRegistry
<1>4. CASE id = "MACI"
  <2>1. PICK policy : policy = MaciPolicy
    OBVIOUS
  <2>2. c = [b EXCEPT !.policy = policy, !.depth = cfg.depth]
    BY <1>1, <1>2, <1>4, <2>1 DEF MadeContract
  <2>3. c.id = id /\ c.keys = b.keys /\ c.depth = cfg.depth
    BY <1>3, <2>2 DEF IsContract
  <2> QED
    BY <1>3, <1>4, <2>3 DEF FromConfig
<1>5. CASE id # "MACI"
  <2>1. c = b
    BY <1>2, <1>5 DEF MadeContract
  <2> QED
    BY <1>3, <1>5, <2>1 DEF FromConfig
<1> QED
  BY <1>4, <1>5

(* The list of what a step made, with one more. *)
LEMMA OnceMore ==
    ASSUME NEW step, NEW id, NEW rest, NEW n, NEW m, NEW made,
           TakesNext(step, id, rest), IsListed(step, id, n, m, made)
    PROVE  /\ \A i \in DOMAIN made : made[i] = m \/ \E j \in DOMAIN run.made : made[i] = run.made[j]
           /\ \A j \in DOMAIN run.made : j \in DOMAIN made /\ made[j] = run.made[j]
           /\ \E i \in DOMAIN made : made[i] = m
           /\ \A j \in DOMAIN run.todo : run.todo[j] = id \/ \E i \in DOMAIN rest : rest[i] = run.todo[j]
           /\ \A i \in DOMAIN rest : \E j \in DOMAIN run.todo : rest[i] = run.todo[j]
           /\ IsOnce(run.made, run.todo) => IsOnce(made, rest)
<1>1. /\ Len(run.made) \in Nat /\ DOMAIN made = 1..(Len(run.made) + 1) /\ DOMAIN run.made = 1..Len(run.made)
      /\ made[Len(run.made) + 1] = m /\ \A j \in 1..Len(run.made) : made[j] = run.made[j]
      /\ m.path[1] = id
  BY DEF IsListed
<1>2. /\ Len(run.todo) \in Nat /\ Len(run.todo) > 0 /\ DOMAIN run.todo = 1..Len(run.todo) /\ id = run.todo[1]
      /\ DOMAIN rest = 1..(Len(run.todo) - 1)
      /\ \A i \in 1..(Len(run.todo) - 1) : rest[i] = run.todo[i + 1]
  BY DEF TakesNext
<1>3. PICK k \in Nat, l \in Nat : k = Len(run.made) /\ l = Len(run.todo)
  BY <1>1, <1>2
<1>4. \A i \in DOMAIN made : i = k + 1 \/ i \in 1..k
  BY <1>1, <1>3
<1>5. \A i \in 1..k : i \in DOMAIN made /\ made[i] = run.made[i] /\ i \in DOMAIN run.made
  BY <1>1, <1>3
<1>6. k + 1 \in DOMAIN made /\ made[k + 1] = m
  BY <1>1, <1>3
<1>7. \A i \in DOMAIN rest : i \in Nat /\ i + 1 \in DOMAIN run.todo /\ i + 1 # 1 /\ rest[i] = run.todo[i + 1]
  BY <1>2, <1>3
<1>8. \A j \in DOMAIN run.todo : j = 1 \/ (j - 1 \in DOMAIN rest /\ rest[j - 1] = run.todo[j])
  <2>1. ASSUME NEW j \in 1..l, j # 1
        PROVE  j - 1 \in 1..(l - 1) /\ (j - 1) + 1 = j
    BY <2>1
  <2> QED
    BY <1>2, <1>3, <2>1
<1>9. 1 \in DOMAIN run.todo
  BY <1>2, <1>3
<1>10. ASSUME IsOnce(run.made, run.todo)
       PROVE  IsOnce(made, rest)
  <2>1. /\ \A i, j \in DOMAIN run.made : run.made[i].path[1] = run.made[j].path[1] => i = j
        /\ \A i, j \in DOMAIN run.todo : run.todo[i] = run.todo[j] => i = j
        /\ \A i \in DOMAIN run.made : \A j \in DOMAIN run.todo : run.made[i].path[1] # run.todo[j]
    BY <1>10 DEF IsOnce
  <2>2. \A i \in 1..k : made[i].path[1] # id
    BY <1>2, <1>5, <1>9, <2>1
  <2>3. \A i, j \in DOMAIN made : made[i].path[1] = made[j].path[1] => i = j
    BY <1>1, <1>4, <1>5, <1>6, <2>1, <2>2
  <2>4. \A i, j \in DOMAIN rest : rest[i] = rest[j] => i = j
    BY <1>7, <2>1
  <2>5. \A i \in DOMAIN rest : rest[i] # id
    BY <1>2, <1>7, <1>9, <2>1
  <2>6. \A i \in DOMAIN made : \A j \in DOMAIN rest : made[i].path[1] # rest[j]
    BY <1>1, <1>4, <1>5, <1>6, <1>7, <2>1, <2>5
  <2> QED
    BY <2>3, <2>4, <2>6 DEF IsOnce
<1>11. \A j \in DOMAIN run.made : j \in 1..k
  BY <1>1, <1>3
<1> QED
  BY <1>2, <1>4, <1>5, <1>6, <1>7, <1>8, <1>10, <1>11

LEMMA DeployUses ==
    ASSUME IInv, UInv, Deploy, IInv'
    PROVE  UInv'
<1>1. RunTyped /\ InTurn /\ ChainInv /\ MadeInv /\ ContractsInv /\ FileInv /\ StepInv
  BY DEF IInv, UInv
<1>2. ~Idle /\ run.pc = "deploy" /\ run.todo # <<>> /\ UNCHANGED <<file, user, finished>>
  BY DEF Deploy
<1>3. PICK step, id, rest : step = Step /\ id = Head(run.todo) /\ rest = Tail(run.todo)
  OBVIOUS
<1>4. PICK n \in Nat : n = Len(chain) + 1
  BY <1>1, ChainDomain
<1>5. PICK c, m, made : /\ c = MadeContract(id) /\ m = [path |-> PathFor(step, id), address |-> n]
                        /\ made = Append(run.made, m)
  OBVIOUS
<1>6. PICK pc \in {"register", "deploy", "call"} :
         pc = IF step = "Policies" THEN "register" ELSE IF Len(run.todo) > 1 THEN "deploy" ELSE "call"
  OBVIOUS
<1>7. TakesNext(step, id, rest) /\ IsAdded(id, n, c) /\ IsListed(step, id, n, m, made) /\ HasGoneOn(pc, rest, made)
  BY <1>3, <1>4, <1>5, <1>6, DeployIs DEF Deploys
<1>8. FromConfig(c) /\ IsRegistry(c.keys)
  BY <1>1, <1>2, <1>5, <1>7, MadeSuits DEF TakesNext
<1>9. ChainStays /\ ContractsInv'
  <2>1. chain' = Append(chain, c)
    BY <1>7 DEF IsAdded
  <2> QED
    BY <1>1, <1>8, <2>1, AppendStays
<1>10. \A a \in 1..Len(chain) : Stays(a)
  BY <1>1, <1>9, InstancesStay
<1>11. FileInv'
  <2>1. \A a \in instances : Stays(a)
    BY <1>1, <1>10 DEF ChainInv
  <2> QED
    BY <1>1, <1>2, <2>1, FileStays DEF Has
<1>12. MadeRight(step, "deploy", run.made, run.todo) /\ MadeUsable(step, "deploy", run.made)
  BY <1>1, <1>2, <1>3 DEF StepInv
<1>13. /\ \A i \in DOMAIN made : made[i] = m \/ \E j \in DOMAIN run.made : made[i] = run.made[j]
       /\ \A j \in DOMAIN run.made : j \in DOMAIN made /\ made[j] = run.made[j]
       /\ \E i \in DOMAIN made : made[i] = m
       /\ \A j \in DOMAIN run.todo : run.todo[j] = id \/ \E i \in DOMAIN rest : rest[i] = run.todo[j]
       /\ \A i \in DOMAIN rest : \E j \in DOMAIN run.todo : rest[i] = run.todo[j]
       /\ IsOnce(run.made, run.todo) => IsOnce(made, rest)
  BY <1>7, OnceMore
<1>14. m.path[1] = id /\ m.address = n
  BY <1>7 DEF IsListed
<1>15. pc = "register" => step = "Policies"
  BY <1>6
<1>16. 1 \in DOMAIN run.todo /\ run.todo[1] = id
  BY <1>7 DEF TakesNext
<1>17. pc = "call" => DOMAIN rest = {}
  <2>1. ASSUME pc = "call"
        PROVE  Len(rest) = 0
    <3>1. ~(Len(run.todo) > 1)
      BY <1>6, <2>1
    <3>2. PICK k \in Nat : k = Len(run.todo) /\ k > 0 /\ Len(rest) = k - 1
      BY <1>7 DEF TakesNext
    <3>3. \A j \in Nat : j > 0 => j > 1 \/ j - 1 = 0
      OBVIOUS
    <3> QED
      BY <3>1, <3>2, <3>3
  <2>2. 1..0 = {}
    OBVIOUS
  <2> QED
    BY <1>7, <2>1, <2>2 DEF TakesNext
<1>18. RegistryIn(run.made) => RegistryIn(made)
  BY <1>13 DEF RegistryIn
<1>19. MadeRight(step, pc, made, rest)
  <2>0. NothingElse(step, made, rest)
    <3>1. NothingElse(step, run.made, run.todo) /\ id # "Poll"
      BY <1>7, <1>12 DEF MadeRight, TakesNext
    <3> QED
      BY <1>13, <1>14, <1>16, <3>1 DEF NothingElse
  <2>1. CASE step = "Policies"
    BY <2>0, <2>1 DEF MadeRight, MakesRegistry, HasRegistry, RegistrySteps
  <2>2. CASE step # "Policies"
    <3>1. IsOnce(made, rest)
      BY <1>12, <1>13, <2>2 DEF MadeRight
    <3>2. ASSUME MakesRegistry(step, pc)
          PROVE  /\ \A i \in DOMAIN made : made[i].path[1] \in RegistryParts
                 /\ \A i \in DOMAIN rest : rest[i] \in RegistryParts
      <4>1. MakesRegistry(step, "deploy")
        BY <1>6, <3>2 DEF MakesRegistry
      <4>2. /\ \A i \in DOMAIN run.made : run.made[i].path[1] \in RegistryParts
            /\ \A i \in DOMAIN run.todo : run.todo[i] \in RegistryParts
        BY <1>12, <4>1 DEF MadeRight
      <4> QED
        BY <1>13, <1>14, <1>16, <4>2
    <3>3. ASSUME step \in RegistrySteps
          PROVE  RegistryIn(made) \/ \E i \in DOMAIN rest : rest[i] = "VerifyingKeysRegistry"
      <4>1. RegistryIn(run.made) \/ \E i \in DOMAIN run.todo : run.todo[i] = "VerifyingKeysRegistry"
        BY <1>12, <3>3 DEF MadeRight
      <4>2. id = "VerifyingKeysRegistry" => RegistryIn(made)
        BY <1>13, <1>14 DEF RegistryIn
      <4> QED
        BY <1>13, <1>18, <4>1, <4>2
    <3>4. step \in RegistrySteps /\ pc = "call" => RegistryIn(made)
      BY <1>17, <3>3
    <3>5. HasRegistry(step, pc) => RegistryIn(made)
      <4>1. HasRegistry(step, pc) => HasRegistry(step, "deploy")
        BY <1>6, <1>15, <2>2 DEF HasRegistry
      <4> QED
        BY <1>12, <1>18, <4>1 DEF MadeRight
    <3> QED
      BY <1>15, <2>0, <2>2, <3>1, <3>2, <3>3, <3>4, <3>5 DEF MadeRight
  <2> QED
    BY <2>1, <2>2
<1>20. \A i \in DOMAIN run.made : run.made[i].address \in 1..Len(chain)
  BY <1>1, <1>2 DEF MadeInv, IsMade
<1>21. MadeUsable(step, pc, made)'
  <2>1. CASE step = "Policies"
    BY <2>1 DEF MadeUsable, HasRegistry, MaciSteps
  <2>2. CASE step # "Policies"
    <3>1. IsOnce(run.made, run.todo)
      BY <1>12, <2>2 DEF MadeRight
    <3>2. ASSUME HasRegistry(step, pc), NEW i \in DOMAIN made, made[i].path[1] = "VerifyingKeysRegistry"
          PROVE  HasAllKeys(made[i].address)'
      <4>1. HasRegistry(step, "deploy")
        BY <1>6, <1>15, <2>2, <3>2 DEF HasRegistry
      <4>2. RegistryIn(run.made)
        BY <1>12, <4>1 DEF MadeRight
      <4>3. id # "VerifyingKeysRegistry"
        BY <1>16, <3>1, <4>2 DEF IsOnce, RegistryIn
      <4>4. PICK j \in DOMAIN run.made : made[i] = run.made[j]
        BY <1>13, <1>14, <3>2, <4>3
      <4>5. PICK a : a = run.made[j].address
        OBVIOUS
      <4>6. HasAllKeys(a) /\ a \in 1..Len(chain)
        BY <1>12, <1>20, <3>2, <4>1, <4>4, <4>5 DEF MadeUsable
      <4>7. HasAllKeys(a)'
        BY <1>10, <4>6 DEF Stays
      <4> QED
        BY <4>4, <4>5, <4>7 DEF HasAllKeys
    <3>3. ASSUME step \in MaciSteps, pc = "call", NEW i \in DOMAIN made, made[i].path[1] = "MACI"
          PROVE  chain'[made[i].address].policy = MaciPolicy
      <4>1. PICK last \in DOMAIN run.todo : run.todo[last] = "MACI"
        <5>1. \A j \in DOMAIN run.todo : run.todo[j] = "MACI" <=> j = Len(run.todo)
          BY <1>1, <1>2, <1>3, <3>3 DEF MadeInv, At
        <5>2. Len(run.todo) \in DOMAIN run.todo
          BY <1>7 DEF TakesNext
        <5> QED
          BY <5>1, <5>2
      <4>2. \A j \in DOMAIN run.made : run.made[j].path[1] # "MACI"
        BY <3>1, <4>1 DEF IsOnce
      <4>3. made[i] = m /\ id = "MACI"
        BY <1>13, <1>14, <3>3, <4>2
      <4> QED
        BY <1>7, <1>14, <4>3 DEF IsAdded
    <3>4. MaciPolicy' = MaciPolicy
      BY <1>2, <1>7 DEF MaciPolicy, GetAddress, Path, file, HasGoneOn
    <3>5. ~(step \in MaciSteps /\ pc = "register")
      BY <1>15, <2>2
    <3>6. PICK policy : policy = MaciPolicy
      OBVIOUS
    <3>7. \A i \in DOMAIN made :
             step \in MaciSteps /\ pc = "call" /\ made[i].path[1] = "MACI" => chain'[made[i].address].policy = policy
      BY <3>3, <3>6
    <3> QED
      BY <3>2, <3>4, <3>5, <3>6, <3>7 DEF MadeUsable
  <2> QED
    BY <2>1, <2>2
<1>22. PICK job : job = run.job
  OBVIOUS
<1>23. /\ ~Idle' /\ run'.job = job /\ Step' = step /\ run'.pc = pc /\ run'.todo = rest /\ run'.made = made
       /\ run'.pollId = run.pollId
  BY <1>3, <1>7, <1>22 DEF HasGoneOn
<1>24. StepInv'
  <2>1. AskedOnce(job)'
    BY <1>1, <1>2, <1>22 DEF AskedOnce, StepInv, Has
  <2> QED
    BY <1>19, <1>21, <1>23, <2>1, StepThen
<1>25. PollInv'
  <2>1. step \notin PollSteps
    BY <1>7 DEF TakesNext
  <2>2. PICK pollId : pollId = run.pollId
    OBVIOUS
  <2> QED
    BY <1>23, <2>1, <2>2, PollThen DEF PollSteps
<1> QED
  BY <1>9, <1>11, <1>24, <1>25 DEF UInv

(* After the call of a step that deploys no poll. *)
LEMMA CalledUses ==
    ASSUME IInv, UInv, ~Idle, run.pc = "call", Step \notin PollSteps, UNCHANGED <<file, user, finished>>,
           NEW pc \in {"register", "next"}, run' = [run EXCEPT !.pc = pc], pc = "next" <=> Step = "ServiceRegistry",
           ContractsInv', \A a \in 1..Len(chain) : Stays(a), NEW made, made = run.made,
           Step \in RegistrySteps =>
              \A i \in DOMAIN made : made[i].path[1] = "VerifyingKeysRegistry" => HasAllKeys(made[i].address)',
           Step \in MaciSteps => \A i \in DOMAIN made : made[i].path[1] = "MACI" => IsBound(made[i].address)'
    PROVE  UInv'
<1>1. RunTyped /\ InTurn /\ ChainInv /\ MadeInv /\ ContractsInv /\ FileInv /\ StepInv
  BY DEF IInv, UInv
<1>2. PICK step, job, pollId, todo : step = Step /\ job = run.job /\ pollId = run.pollId /\ todo = run.todo
  OBVIOUS
<1>3. /\ ~Idle' /\ run'.job = job /\ Step' = step /\ run'.pc = pc /\ run'.todo = todo /\ run'.made = made
      /\ run'.pollId = pollId /\ run'.cfg = run.cfg
  <2>1. run \in Busy
    BY <1>1, StepIs
  <2>2. /\ run'.job = job /\ run'.step = run.step /\ run'.pc = pc /\ run'.todo = todo /\ run'.made = made
        /\ run'.pollId = pollId /\ run'.cfg = run.cfg
    BY <1>2, <2>1 DEF Busy
  <2> QED
    BY <1>2, <2>2 DEF Idle, Step
<1>4. FileInv'
  <2>1. \A a \in instances : Stays(a)
    BY <1>1 DEF ChainInv
  <2> QED
    BY <1>1, <2>1, FileStays DEF Has
<1>5. MadeRight(step, "call", made, todo) /\ MadeUsable(step, "call", made)
  BY <1>1, <1>2 DEF StepInv
<1>6. MadeRight(step, pc, made, todo)
  <2>1. MakesRegistry(step, pc) => MakesRegistry(step, "call")
    BY DEF MakesRegistry
  <2>2. HasRegistry(step, pc) => step \in RegistrySteps \/ HasRegistry(step, "call")
    BY DEF HasRegistry, RegistrySteps
  <2> QED
    BY <1>2, <1>5, <2>1, <2>2 DEF MadeRight
<1>7. \A i \in DOMAIN made : made[i].address \in 1..Len(chain)
  BY <1>1, <1>2 DEF MadeInv, IsMade
<1>8. MadeUsable(step, pc, made)'
  <2>1. ASSUME HasRegistry(step, pc), NEW i \in DOMAIN made, made[i].path[1] = "VerifyingKeysRegistry"
        PROVE  HasAllKeys(made[i].address)'
    <3>1. CASE step \in RegistrySteps
      BY <1>2, <2>1, <3>1 DEF HasAllKeys
    <3>2. CASE step \notin RegistrySteps
      <4>1. HasRegistry(step, "call")
        BY <2>1, <3>2 DEF HasRegistry, RegistrySteps
      <4> QED
        BY <1>5, <1>7, <2>1, <4>1 DEF MadeUsable, Stays
    <3> QED
      BY <3>1, <3>2
  <2>2. ASSUME step \in MaciSteps, NEW i \in DOMAIN made, made[i].path[1] = "MACI"
        PROVE  IsBound(made[i].address)'
    BY <1>2, <2>2 DEF IsBound
  <2> QED
    BY <2>1, <2>2 DEF MadeUsable
<1>9. StepInv'
  <2>1. AskedOnce(job)'
    BY <1>1, <1>2 DEF AskedOnce, StepInv, Has
  <2> QED
    BY <1>3, <1>6, <1>8, <2>1, StepThen
<1>10. PollInv'
  <2>1. step \notin PollSteps /\ step # "Poll"
    BY <1>2 DEF PollSteps
  <2> QED
    BY <1>3, <2>1, PollThen
<1> QED
  BY <1>4, <1>9, <1>10 DEF UInv

LEMMA NoCallUses ==
    ASSUME IInv, UInv, NoCall
    PROVE  UInv'
<1>1. /\ ~Idle /\ run.pc = "call" /\ chain' = chain /\ UNCHANGED <<file, user, finished>>
      /\ run' = [run EXCEPT !.pc = "register"]
      /\ Step \notin PollSteps /\ Step \notin RegistrySteps /\ Step \notin MaciSteps /\ Step # "ServiceRegistry"
  BY DEF NoCall, Goto, PollSteps, RegistrySteps, MaciSteps
<1>2. ContractsInv'
  BY <1>1 DEF UInv, ContractsInv, FromConfig, IsRegistry
<1>3. \A a \in 1..Len(chain) : Stays(a)
  BY <1>1, SameStays, InstancesStay DEF IInv
<1>4. PICK pc \in {"register", "next"} : pc = "register"
  OBVIOUS
<1> QED
  BY <1>1, <1>2, <1>3, <1>4, CalledUses

(* What a step made of a kind, if it made one. *)
LEMMA MadeOnce ==
    ASSUME NEW id, NEW todo, IsOnce(run.made, todo), NEW i \in DOMAIN run.made, run.made[i].path[1] = id
    PROVE  Made(id) = run.made[i].address
<1>1. run.made[i] \in Range(run.made)
  BY DEF Range
<1>2. PICK m \in Range(run.made) : m = CHOOSE x \in Range(run.made) : x.path[1] = id
  BY <1>1
<1>3. m.path[1] = id
  BY <1>1, <1>2
<1>4. PICK j \in DOMAIN run.made : m = run.made[j]
  BY <1>2 DEF Range
<1>5. i = j
  BY <1>3, <1>4 DEF IsOnce
<1> QED
  BY <1>2, <1>4, <1>5 DEF Made

LEMMA SetKeysUses ==
    ASSUME OneCircuit, ModesHaveKeys, IInv, UInv, SetKeys
    PROVE  UInv'
<1>1. CASE Throw
  BY <1>1, BrokenIsUsable DEF Throw
<1>2. CASE ~Throw
  <2>1. ~Idle /\ run.pc = "call" /\ Step \in RegistrySteps /\ UNCHANGED <<file, user, finished>>
    BY <1>2 DEF SetKeys, RegistrySteps
  <2>2. Step \notin PollSteps /\ Step \notin MaciSteps /\ Step # "Policies"
    BY <2>1 DEF RegistrySteps, PollSteps, MaciSteps
  <2>3. PICK registry, batch, keys :
           /\ registry = Made("VerifyingKeysRegistry")
           /\ batch = IF user = "tasks" THEN TaskBatch(run.cfg) ELSE ServiceBatch(run.cfg)
           /\ keys = SetVerifyingKeysBatch(chain[registry].keys, batch)
    OBVIOUS
  <2>4. /\ keys.ok /\ chain' = [chain EXCEPT ![registry].keys = keys]
        /\ run' = [run EXCEPT !.pc = IF Step = "ServiceRegistry" THEN "next" ELSE "register"]
    BY <1>2, <2>3 DEF SetKeys, Goto
  <2>5. MadeRight(Step, "call", run.made, run.todo)
    BY <2>1 DEF UInv, StepInv
  <2>6. IsOnce(run.made, run.todo) /\ RegistryIn(run.made)
    BY <2>1, <2>2, <2>5 DEF MadeRight
  <2>7. \A i \in DOMAIN run.made : run.made[i].address \in 1..Len(chain)
    BY <2>1 DEF IInv, MadeInv, IsMade
  <2>8. \A i \in DOMAIN run.made :
           run.made[i].path[1] = "VerifyingKeysRegistry" => run.made[i].address = registry
    BY <2>3, <2>6, MadeOnce
  <2>9. registry \in 1..Len(chain)
    BY <2>6, <2>7, <2>8 DEF RegistryIn
  <2>10. PICK cfg \in Configs : cfg = run.cfg
    BY <2>1, RunFields DEF IInv
  <2>11. PICK r : r = chain[registry].keys
    OBVIOUS
  <2>12. IsRegistry(r)
    BY <2>9, <2>11 DEF UInv, ContractsInv
  <2>13. IsRegistry(keys) /\ \A other \in Configs : HasKeysFor(keys, other)
    <3>1. batch \in {TaskBatch(cfg), ServiceBatch(cfg)} /\ keys = SetVerifyingKeysBatch(r, batch)
      BY <2>3, <2>10, <2>11
    <3> QED
      BY <2>4, <2>12, <3>1, AllKeysSet
  <2>14. ContractsInv' /\ HasAllKeys(registry)' /\ \A a \in 1..Len(chain) : Stays(a)
    BY <2>4, <2>9, <2>13, RekeyedStays DEF IInv, UInv
  <2>15. PICK pc \in {"register", "next"} : pc = IF Step = "ServiceRegistry" THEN "next" ELSE "register"
    OBVIOUS
  <2>16. PICK made : made = run.made
    OBVIOUS
  <2>17. run' = [run EXCEPT !.pc = pc] /\ (pc = "next" <=> Step = "ServiceRegistry")
    BY <2>4, <2>15
  <2>18. ASSUME NEW i \in DOMAIN made, made[i].path[1] = "VerifyingKeysRegistry"
         PROVE  HasAllKeys(made[i].address)'
    BY <2>8, <2>14, <2>16, <2>18 DEF HasAllKeys
  <2> QED
    BY <2>1, <2>2, <2>14, <2>16, <2>17, <2>18, CalledUses
<1> QED
  BY <1>1, <1>2

LEMMA BindMaciUses ==
    ASSUME IInv, UInv, BindMaci
    PROVE  UInv'
<1>1. CASE Throw
  BY <1>1, BrokenIsUsable DEF Throw
<1>2. CASE ~Throw
  <2>1. /\ ~Idle /\ run.pc = "call" /\ Step \in MaciSteps /\ UNCHANGED <<file, user, finished>>
        /\ Bindable(MaciPolicy) /\ chain' = Bound(chain, MaciPolicy, Made("MACI"))
        /\ run' = [run EXCEPT !.pc = "register"]
    BY <1>2 DEF BindMaci, Goto, MaciSteps
  <2>2. Step \notin PollSteps /\ Step \notin RegistrySteps /\ Step # "Policies"
    BY <2>1 DEF RegistrySteps, PollSteps, MaciSteps
  <2>3. MaciPolicy \in instances /\ MaciPolicy \in 1..Len(chain)
    BY <2>1, MaciPolicyIs DEF IInv, At
  <2>4. PICK policy, guarded : policy = MaciPolicy /\ policy \in 1..Len(chain) /\ guarded = Made("MACI")
    BY <2>3
  <2>5. MadeRight(Step, "call", run.made, run.todo) /\ MadeUsable(Step, "call", run.made)
    BY <2>1 DEF UInv, StepInv
  <2>6. IsOnce(run.made, run.todo)
    BY <2>2, <2>5 DEF MadeRight
  <2>7. PICK made : made = run.made
    OBVIOUS
  <2>8. /\ \A i \in DOMAIN made : made[i].address \in 1..Len(chain)
        /\ \E i \in DOMAIN made : made[i].path[1] = "MACI"
    BY <2>1, <2>7 DEF IInv, MadeInv, IsMade, At
  <2>9. \A i \in DOMAIN made : made[i].path[1] = "MACI" => made[i].address = guarded
    BY <2>4, <2>6, <2>7, MadeOnce
  <2>10. guarded \in 1..Len(chain) /\ chain[guarded].policy = policy
    BY <2>1, <2>4, <2>5, <2>7, <2>8, <2>9 DEF MadeUsable
  <2>11. ChainStays /\ Len(chain') = Len(chain) /\ chain'[policy].target = guarded
    BY <2>1, <2>4, BoundStays DEF IInv
  <2>12. ContractsInv'
    BY <2>11, ContractsStay DEF UInv, ChainStays
  <2>13. \A a \in 1..Len(chain) : Stays(a)
    BY <2>11, InstancesStay DEF IInv
  <2>14. chain'[guarded].policy = policy
    BY <2>10, <2>13 DEF Stays
  <2>15. policy \in instances'
    BY <2>1, <2>3, <2>4 DEF file
  <2>16. \A i \in DOMAIN made : made[i].path[1] = "MACI" => IsBound(made[i].address)'
    BY <2>9, <2>11, <2>14, <2>15 DEF IsBound
  <2>17. PICK pc \in {"register", "next"} : pc = "register" /\ Step # "ServiceRegistry"
    BY <2>2 DEF RegistrySteps
  <2> QED
    BY <2>1, <2>2, <2>7, <2>12, <2>13, <2>16, <2>17, CalledUses
<1> QED
  BY <1>1, <1>2

LEMMA DeployPollUses ==
    ASSUME IInv, UInv, DeployPoll, IInv'
    PROVE  UInv'
<1>1. RunTyped /\ InTurn /\ ChainInv /\ NeedsInv /\ ContractsInv /\ FileInv /\ StepInv /\ PollInv
  BY DEF IInv, UInv
<1>2. /\ ~Idle /\ run.pc = "call" /\ Step \in PollSteps /\ UNCHANGED <<file, user, finished>>
      /\ chain' = WithPoll(chain, Maci, PollPolicy, run.cfg)
      /\ run' = [run EXCEPT !.pc = "bind", !.pollId = IF Step = "Poll" THEN @ ELSE NextPollId]
  BY DEF DeployPoll, PollSteps
<1>3. PICK cfg \in Configs : cfg = run.cfg
  BY <1>1, <1>2, RunFields
<1>4. PICK step, job, todo, made : step = Step /\ job = run.job /\ todo = run.todo /\ made = run.made
  OBVIOUS
<1>5. PICK pollId \in Nat : pollId = NextPollId
  BY <1>1, NextPollIdIs
<1>6. Registered(Path("MACI")) /\ Registered(Registry) /\ (step = "Poll" => run.pollId = pollId)
  BY <1>1, <1>2, <1>4, <1>5 DEF PollInv, At
<1>7. PICK pc : pc = "bind"
  OBVIOUS
<1>8. /\ ~Idle' /\ run'.job = job /\ Step' = step /\ run'.pc = pc /\ run'.todo = todo /\ run'.made = made
      /\ run'.pollId = pollId /\ run'.cfg = cfg
  <2>1. run \in Busy
    BY <1>1, <1>2, StepIs
  <2>2. run' = [run EXCEPT !.pc = pc, !.pollId = pollId]
    BY <1>2, <1>4, <1>5, <1>6, <1>7, <2>1 DEF Busy
  <2>3. /\ run'.job = job /\ run'.step = run.step /\ run'.pc = pc /\ run'.todo = todo /\ run'.made = made
        /\ run'.pollId = pollId /\ run'.cfg = cfg
    BY <1>3, <1>4, <2>1, <2>2 DEF Busy
  <2> QED
    BY <1>2, <1>4, <2>3 DEF Idle, Step
<1>9. PollPolicy \in 1..Len(chain)
  <2>1. At(PollSteps, {"call", "bind"})
    BY <1>2 DEF At
  <2> QED
    BY <1>1, <2>1, PollPolicyIs
<1>10. PICK policy \in 1..Len(chain) : policy = PollPolicy
  BY <1>9
<1>11. /\ ChainStays /\ ContractsInv' /\ NextPollId + 1 \in DOMAIN chain'[Maci].polls
       /\ chain'[Maci].polls[NextPollId + 1] = Len(chain) + 1 /\ chain'[Len(chain) + 1].policy = policy
  BY <1>1, <1>2, <1>3, <1>6, <1>10, DeployedStays
<1>12. NextPollId' = pollId + 1
  BY <1>1, <1>2, <1>3, <1>5, <1>6, <1>10, DeployedPoll
<1>13. FileInv'
  <2>1. \A a \in instances : Stays(a)
    BY <1>1, <1>11, InstancesStay DEF ChainInv
  <2> QED
    BY <1>1, <1>2, <2>1, FileStays DEF Has
<1>14. Maci' = Maci /\ PollPolicy' = PollPolicy
  <2>1. named' = named
    BY <1>2 DEF file
  <2>2. step = "Poll" => run'.pollId = run.pollId
    BY <1>6, <1>8
  <2> QED
    BY <1>3, <1>4, <1>8, <2>1, <2>2 DEF Maci, PollPolicy, GetAddress, Path, Keyed
<1>15. Registered(Path("MACI"))' /\ Registered(Registry)'
  BY <1>2, <1>6 DEF Registered, Path, Registry, file
<1>16. StepInv'
  <2>1. AskedOnce(job)'
    BY <1>1, <1>2, <1>4 DEF AskedOnce, StepInv, Has
  <2>2. ~HasRegistry(step, pc) /\ ~MakesRegistry(step, pc)
    BY <1>7 DEF HasRegistry, MakesRegistry
  <2>3. MadeRight(step, pc, made, todo) /\ MadeUsable(step, pc, made)'
    BY <1>7, <2>2 DEF MadeRight, MadeUsable
  <2> QED
    BY <1>8, <2>1, <2>3, StepThen
<1>17. PollInv'
  <2>1. (chain[chain[Maci].polls[NextPollId]].policy = PollPolicy)'
    BY <1>5, <1>10, <1>11, <1>12, <1>14
  <2> QED
    BY <1>7, <1>8, <1>12, <1>15, <2>1, PollThen
<1> QED
  BY <1>11, <1>13, <1>16, <1>17 DEF UInv

LEMMA BindPollUses ==
    ASSUME IInv, UInv, NEW pollId \in Nat, BindPoll(pollId), IInv'
    PROVE  UInv'
<1>1. RunTyped /\ InTurn /\ ChainInv /\ MadeInv /\ NeedsInv /\ ContractsInv /\ FileInv /\ StepInv /\ PollInv
  BY DEF IInv, UInv
<1>2. CASE Throw
  BY <1>2, BrokenIsUsable DEF Throw
<1>3. CASE ~Throw
  <2>1. PICK poll, made :
           /\ poll = chain[Maci].polls[pollId + 1]
           /\ made = [i \in 1..3 |-> [path |-> Keyed(chain[poll + i - 1].id, pollId), address |-> poll + i - 1]]
    OBVIOUS
  <2>2. /\ ~Idle /\ run.pc = "bind" /\ UNCHANGED <<file, user, finished>>
        /\ IF Step = "Poll" THEN pollId = run.pollId ELSE pollId \in run.pollId..(NextPollId - 1)
        /\ Bindable(PollPolicy) /\ chain' = Bound(chain, PollPolicy, poll)
        /\ run' = [run EXCEPT !.pc = "register", !.pollId = pollId, !.made = made]
    BY <1>3, <2>1 DEF BindPoll
  <2>3. Step \in PollSteps /\ run \in Busy
    BY <1>1, <2>2, StepIs DEF MadeInv
  <2>4. PICK step, job, todo, pc : step = Step /\ job = run.job /\ todo = run.todo /\ pc = "register"
    OBVIOUS
  <2>5. /\ Registered(Path("MACI")) /\ Registered(Registry) /\ run.pollId + 1 = NextPollId
        /\ chain[chain[Maci].polls[NextPollId]].policy = PollPolicy
    BY <1>1, <2>2, <2>3 DEF PollInv, At
  <2>6. /\ Maci \in instances /\ Maci \in 1..Len(chain) /\ NextPollId \in Nat
        /\ DOMAIN chain[Maci].polls = 1..NextPollId /\ run.pollId \in Nat
    BY <1>1, <2>2, <2>5, NextPollIdIs, RunFields
  <2>7. pollId + 1 = NextPollId
    <3>1. \A k \in run.pollId..(NextPollId - 1) : k = run.pollId
      BY <2>5, <2>6
    <3> QED
      BY <2>2, <2>5, <3>1
  <2>8. pollId + 1 \in DOMAIN chain[Maci].polls
    BY <2>6, <2>7
  <2>9. PollAt(poll)
    BY <1>1, <2>1, <2>6, <2>8 DEF ChainInv, WellBound
  <2>10. PICK k \in 1..Len(chain) : /\ k = poll /\ chain[k].id = "Poll" /\ chain[k + 1].id = "MessageProcessor"
                                    /\ chain[k + 2].id = "Tally"
    BY <2>9, ChainDomain DEF PollAt
  <2>11. PollPolicy \in instances /\ PollPolicy \in 1..Len(chain)
    <3>1. At(PollSteps, {"call", "bind"})
      BY <2>2, <2>3 DEF At
    <3> QED
      BY <1>1, <3>1, PollPolicyIs
  <2>12. PICK policy \in 1..Len(chain) : policy = PollPolicy
    BY <2>11
  <2>13. ChainStays /\ Len(chain') = Len(chain) /\ chain'[policy].target = k
    BY <1>1, <2>2, <2>10, <2>12, BoundStays
  <2>14. ContractsInv'
    BY <1>1, <2>13, ContractsStay DEF ChainStays
  <2>15. \A a \in 1..Len(chain) : Stays(a)
    BY <1>1, <2>13, InstancesStay
  <2>16. FileInv'
    <3>1. \A a \in instances : Stays(a)
      BY <1>1, <2>15 DEF ChainInv
    <3> QED
      BY <1>1, <2>2, <3>1, FileStays DEF Has
  <2>17. IsPollOf(k, pollId)'
    <3>1. Maci' = Maci /\ instances' = instances
      BY <2>2 DEF Maci, GetAddress, Path, file
    <3>2. pollId + 1 \in DOMAIN chain'[Maci].polls /\ k = chain'[Maci].polls[pollId + 1]
      BY <2>1, <2>6, <2>8, <2>10, <2>15 DEF Stays
    <3>3. chain'[k].policy = policy
      BY ZenonT(60), <2>1, <2>5, <2>7, <2>10, <2>12, <2>15 DEF Stays
    <3>4. IsBound(k)'
      BY <2>11, <2>12, <2>13, <3>1, <3>3 DEF IsBound
    <3> QED
      BY <3>1, <3>2, <3>4 DEF IsPollOf
  <2>18. /\ ~Idle' /\ run'.job = job /\ Step' = step /\ run'.pc = pc /\ run'.todo = todo /\ run'.made = made
         /\ run'.pollId = pollId
    <3>1. /\ run'.job = job /\ run'.step = run.step /\ run'.pc = pc /\ run'.todo = todo /\ run'.made = made
          /\ run'.pollId = pollId
      BY <2>2, <2>3, <2>4 DEF Busy
    <3> QED
      BY <2>2, <2>4, <3>1 DEF Idle, Step
  <2>19. ASSUME NEW i \in DOMAIN made
         PROVE  /\ made[i].path[1] = "Poll" => made[i].path[2] = pollId /\ made[i].address = k
                /\ made[i].path[1] # "VerifyingKeysRegistry"
    <3>1. i \in 1..3
      BY <2>1
    <3>2. PICK a : a = poll + i - 1
      OBVIOUS
    <3>3. a \in {k, k + 1, k + 2} /\ (i = 1 => a = k) /\ (i = 2 => a = k + 1) /\ (i = 3 => a = k + 2)
      <4>1. Len(chain) \in Nat
        BY <1>1, ChainDomain
      <4> QED
        BY <2>10, <3>1, <3>2, <4>1
    <3>4. made[i] = [path |-> Keyed(chain[a].id, pollId), address |-> a]
      BY <2>1, <3>1, <3>2
    <3>5. made[i].path[1] = chain[a].id /\ made[i].path[2] = pollId /\ made[i].address = a
      BY <3>4 DEF Keyed
    <3> QED
      BY <2>10, <3>3, <3>5
  <2>20. StepInv'
    <3>1. AskedOnce(job)'
      BY <1>1, <2>2, <2>4 DEF AskedOnce, StepInv, Has
    <3>2. ~HasRegistry(step, pc) /\ ~MakesRegistry(step, pc) /\ step \notin MaciSteps
      BY <2>3, <2>4 DEF HasRegistry, MakesRegistry, PollSteps, MaciSteps
    <3>3. MadeUsable(step, pc, made)'
      BY <3>2 DEF MadeUsable
    <3>4. todo = <<>> /\ DOMAIN todo = {}
      BY <1>1, <2>2, <2>4, EmptyIs DEF MadeInv
    <3>5. NothingElse(step, made, todo)
      BY <2>3, <2>4, <2>19, <3>4 DEF NothingElse
    <3>6. MadeRight(step, pc, made, todo)
      BY <2>3, <2>4, <3>2, <3>5 DEF MadeRight, PollSteps, RegistrySteps
    <3> QED
      BY <2>18, <3>1, <3>3, <3>6, StepThen
  <2>21. PollInv'
    <3>1. Registered(Path("MACI"))' /\ Registered(Registry)'
      BY <2>2, <2>5 DEF Registered, Path, Registry, file
    <3>2. \A i \in DOMAIN made : made[i].path[1] = "Poll" =>
             made[i].path[2] = pollId /\ IsPollOf(made[i].address, pollId)'
      BY <2>17, <2>19 DEF IsPollOf, IsBound
    <3> QED
      BY <2>4, <2>18, <3>1, <3>2, PollThen
  <2> QED
    BY <2>14, <2>16, <2>20, <2>21 DEF UInv
<1> QED
  BY <1>2, <1>3

(* Whose steps make polls and MACIs. *)
LEMMA StepOfJob ==
    ASSUME RunTyped, ~Idle
    PROVE  /\ Step = "MACI" => run.job = "full"
           /\ Step = "ServiceMaci" => run.job = "serviceMaci"
           /\ Step = "Poll" => run.job = "poll"
           /\ Step = "ServicePoll" => run.job = "servicePoll"
<1>1. run.job \in Jobs /\ run.step \in 1..Len(Steps[run.job])
  BY StepIs
<1>2. PICK job \in Jobs, n \in 1..Len(Steps[run.job]) : job = run.job /\ n = run.step /\ Step = Steps[job][n]
  BY <1>1 DEF Step
<1>3. CASE job = "full"
  BY <1>2, <1>3, StepIs
<1>4. CASE job # "full"
  <2>1. n \in {1, 2, 3}
    BY <1>2, <1>4, StepsAre
  <2>2. job \in {"poll", "serviceMaci", "servicePoll"}
    BY <1>4 DEF Jobs
  <2> QED
    BY <1>2, <2>1, <2>2, StepsInOrder
<1> QED
  BY <1>3, <1>4

LEMMA RegisterUses ==
    ASSUME IInv, UInv, Register, IInv'
    PROVE  UInv'
<1>1. /\ RunTyped /\ InTurn /\ ChainInv /\ MadeInv /\ NeedsInv
      /\ ContractsInv /\ FileInv /\ StepInv /\ PollInv
  BY DEF IInv, UInv
<1>2. PICK made : IsToRegister(made)
  BY DEF IsToRegister
<1>3. /\ ~Idle /\ run.pc = "register" /\ chain' = chain /\ user' = user /\ finished' = finished
      /\ instances' = instances \cup {m.address : m \in made}
  BY <1>1, <1>2, RegisterIs
<1>4. /\ \A p \in DOMAIN named' :
            \/ \E m \in made : m.path = p /\ named'[p].address = m.address
            \/ p \in DOMAIN named /\ named'[p] = named[p]
      /\ \A p \in DOMAIN named :
            (\A m \in made : m.path[1] # p[1]) => p \in DOMAIN named' /\ named'[p] = named[p]
      /\ \A p \in DOMAIN named : Len(p) = 1 => p \in DOMAIN named'
  BY <1>1, <1>2, RegisterIs
<1>5. PICK step, pc, old, todo, pollId :
         step = Step /\ pc = "register" /\ old = run.made /\ todo = run.todo /\ pollId = run.pollId
  OBVIOUS
<1>6. MadeRight(step, pc, old, todo) /\ MadeUsable(step, pc, old)
  BY <1>1, <1>3, <1>5 DEF StepInv
<1>7. \A m \in made : \E i \in DOMAIN old : m = old[i]
  BY <1>2, <1>5 DEF IsToRegister, Range
(* What is registered can be used. *)
<1>8. step # "ServiceRegistry" /\ NothingElse(step, old, todo)
  BY <1>5, <1>6 DEF MadeRight
<1>9. ASSUME NEW m \in made, m.path[1] = "MACI"
      PROVE  step \in MaciSteps /\ IsBound(m.address)
  <2>1. step \in MaciSteps
    BY <1>1, <1>2, <1>5, <1>9, RegisterIs
  <2> QED
    BY <1>5, <1>6, <1>7, <1>9, <2>1 DEF MadeUsable
<1>10. ASSUME NEW m \in made, m.path[1] = "VerifyingKeysRegistry"
       PROVE  HasAllKeys(m.address)
  <2>1. step \in RegistrySteps \cup {"ServiceMaci"}
    BY <1>7, <1>8, <1>10 DEF NothingElse
  <2>2. HasRegistry(step, pc)
    BY <1>5, <1>8, <2>1 DEF HasRegistry, RegistrySteps
  <2> QED
    BY <1>6, <1>7, <1>10, <2>2 DEF MadeUsable
<1>11. ASSUME NEW m \in made, m.path[1] = "Poll"
       PROVE  /\ step \in PollSteps /\ Registered(Path("MACI")) /\ Registered(Registry)
              /\ IsPollOf(m.address, m.path[2])
  <2>1. step \in PollSteps
    BY <1>7, <1>8, <1>11 DEF NothingElse
  <2>2. At(PollSteps, {"call", "bind", "register"}) /\ At(PollSteps, {"register"})
    BY <1>3, <1>5, <2>1 DEF At
  <2>3. PICK i \in DOMAIN old : m = old[i]
    BY <1>7
  <2>4. m.path[2] = pollId /\ IsPollOf(m.address, pollId)
    BY <1>1, <1>5, <1>11, <2>2, <2>3 DEF PollInv
  <2> QED
    BY <1>1, <2>1, <2>2, <2>4 DEF PollInv
(* A MACI is registered when there are no polls. *)
<1>12. ASSUME IF user = "tasks" THEN Has("full") ELSE Has("serviceMaci"), NEW m \in made
       PROVE  m.path[1] # "MACI"
  <2> SUFFICES ASSUME m.path[1] = "MACI"
               PROVE  FALSE
    OBVIOUS
  <2>1. step \in MaciSteps
    BY <1>9
  <2>2. run.job \in {"full", "serviceMaci"}
    BY <1>1, <1>3, <1>5, <2>1, StepOfJob DEF MaciSteps
  <2>3. /\ run.job = "full" => user = "tasks" /\ ~Has("full")
        /\ run.job = "serviceMaci" => user = "service" /\ ~Has("serviceMaci")
    BY <1>1 DEF InTurn, StepInv, AskedOnce
  <2> QED
    BY <1>12, <2>2, <2>3
<1>13. ASSUME NEW a, IsBound(a)
       PROVE  IsBound(a)'
  BY <1>3, <1>13 DEF IsBound
<1>a. PICK p : p = Path("MACI")
  OBVIOUS
<1>b. PICK q : q = Registry
  OBVIOUS
<1>14. p = Path("MACI") /\ p[1] = "MACI" /\ Len(p) = 1
  BY <1>a DEF Path
<1>15. q = Registry /\ q[1] = "VerifyingKeysRegistry" /\ Len(q) = 1
  BY <1>b DEF Path, Registry
<1>16. /\ Path("MACI")' = p /\ Registry' = q
       /\ Maci = named[p].address /\ Maci' = named'[p].address
       /\ GetAddress(Registry) = named[q].address /\ GetAddress(Registry)' = named'[q].address
       /\ (Registered(Path("MACI")) <=> p \in DOMAIN named) /\ (Registered(Path("MACI"))' <=> p \in DOMAIN named')
       /\ (Registered(Registry) <=> q \in DOMAIN named) /\ (Registered(Registry)' <=> q \in DOMAIN named')
  BY <1>14, <1>15 DEF Path, Registry, Maci, GetAddress, Registered
<1>17. p \in DOMAIN named => p \in DOMAIN named'
  BY <1>4, <1>14
<1>18. q \in DOMAIN named => q \in DOMAIN named'
  BY <1>4, <1>15
<1>19. FileInv'
  <2>1. MaciIsUsable'
    <3> SUFFICES ASSUME p \in DOMAIN named'
                 PROVE  IsBound(Maci)'
      BY <1>16 DEF MaciIsUsable, IsBound
    <3>1. CASE \E m \in made : m.path = p /\ named'[p].address = m.address
      <4>1. PICK m \in made : m.path = p /\ named'[p].address = m.address
        BY <3>1
      <4>2. PICK a : a = m.address
        OBVIOUS
      <4>3. IsBound(a)'
        BY <1>9, <1>13, <1>14, <4>1, <4>2
      <4> QED
        BY <1>16, <4>1, <4>2, <4>3 DEF IsBound
    <3>2. CASE p \in DOMAIN named /\ named'[p] = named[p]
      <4>1. PICK a : a = Maci
        OBVIOUS
      <4>2. IsBound(a)'
        BY <1>1, <1>13, <1>16, <3>2, <4>1 DEF FileInv, MaciIsUsable, IsBound
      <4> QED
        BY <1>16, <3>2, <4>1, <4>2 DEF IsBound
    <3> QED
      BY <1>4, <3>1, <3>2
  <2>2. (Registered(Registry) => HasAllKeys(GetAddress(Registry)))'
    <3> SUFFICES ASSUME q \in DOMAIN named'
                 PROVE  HasAllKeys(GetAddress(Registry))'
      BY <1>16
    <3>1. CASE \E m \in made : m.path = q /\ named'[q].address = m.address
      <4>1. PICK m \in made : m.path = q /\ named'[q].address = m.address
        BY <3>1
      <4>2. PICK a : a = m.address
        OBVIOUS
      <4>3. HasAllKeys(a)
        BY <1>10, <1>15, <4>1, <4>2
      <4> QED
        BY <1>3, <1>16, <4>1, <4>2, <4>3 DEF HasAllKeys
    <3>2. CASE q \in DOMAIN named /\ named'[q] = named[q]
      <4>1. PICK a : a = GetAddress(Registry)
        OBVIOUS
      <4>2. HasAllKeys(a)
        BY <1>1, <1>16, <3>2, <4>1 DEF FileInv
      <4> QED
        BY <1>3, <1>16, <3>2, <4>1, <4>2 DEF HasAllKeys
    <3> QED
      BY <1>4, <3>1, <3>2
  <2>3. ASSUME NEW r \in DOMAIN named', r[1] = "Poll"
        PROVE  /\ IF user = "tasks" THEN Has("full") ELSE Has("serviceMaci")
               /\ Registered(Path("MACI")) /\ Registered(Registry)
               /\ IsPollOf(named'[r].address, r[2])
    <3>1. CASE \E m \in made : m.path = r /\ named'[r].address = m.address
      <4>1. PICK m \in made : m.path = r /\ named'[r].address = m.address
        BY <3>1
      <4>2. /\ step \in PollSteps /\ Registered(Path("MACI")) /\ Registered(Registry)
            /\ IsPollOf(m.address, r[2])
        BY <1>11, <2>3, <4>1
      <4>3. run.job \in {"poll", "servicePoll"}
        BY <1>1, <1>3, <1>5, <4>2, StepOfJob DEF PollSteps
      <4>4. /\ run.job = "poll" => user = "tasks" /\ Has("full")
            /\ run.job = "servicePoll" => user = "service" /\ Has("serviceMaci")
        BY <1>1 DEF InTurn, StepInv, AskedOnce
      <4> QED
        BY <4>1, <4>2, <4>3, <4>4
    <3>2. CASE r \in DOMAIN named /\ named'[r] = named[r]
      BY <1>1, <2>3, <3>2 DEF FileInv, GetAddress
    <3> QED
      BY <1>4, <3>1, <3>2
  <2>4. ASSUME NEW r \in DOMAIN named', r[1] = "Poll"
        PROVE  /\ (IF user = "tasks" THEN Has("full") ELSE Has("serviceMaci"))'
               /\ Registered(Path("MACI"))' /\ Registered(Registry)'
               /\ IsPollOf(GetAddress(r), r[2])'
    <3>1. /\ IF user = "tasks" THEN Has("full") ELSE Has("serviceMaci")
          /\ Registered(Path("MACI")) /\ Registered(Registry)
          /\ IsPollOf(named'[r].address, r[2])
      BY <2>3, <2>4
    <3>2. (IF user = "tasks" THEN Has("full") ELSE Has("serviceMaci"))'
      BY <1>3, <3>1 DEF Has
    <3>3. p \in DOMAIN named' /\ q \in DOMAIN named'
      BY <1>16, <1>17, <1>18, <3>1
    <3>4. Maci' = Maci
      <4>1. \A m \in made : m.path[1] # p[1]
        BY <1>12, <1>14, <3>1
      <4>2. named'[p] = named[p]
        BY <1>4, <1>16, <3>1, <4>1
      <4> QED
        BY <1>16, <4>2
    <3>5. PICK poll, k : poll = named'[r].address /\ k = r[2]
      OBVIOUS
    <3>6. k + 1 \in DOMAIN chain[Maci].polls /\ poll = chain[Maci].polls[k + 1] /\ IsBound(poll)
      BY <3>1, <3>5 DEF IsPollOf
    <3>7. IsPollOf(poll, k)'
      BY <1>3, <1>13, <3>4, <3>6 DEF IsPollOf
    <3>8. GetAddress(r)' = poll
      BY <3>5 DEF GetAddress
    <3> QED
      BY <1>16, <3>2, <3>3, <3>5, <3>7, <3>8 DEF IsPollOf, IsBound
  <2> QED
    BY <2>1, <2>2, <2>4 DEF FileInv
<1>20. ContractsInv'
  BY <1>1, <1>3 DEF ContractsInv, FromConfig, IsRegistry
<1>21. PICK next \in {"deploy", "next"} : next = IF run.todo # <<>> THEN "deploy" ELSE "next"
  OBVIOUS
<1>22. PICK kept : kept = IF run.todo # <<>> THEN <<>> ELSE run.made
  OBVIOUS
<1>23. PICK job : job = run.job
  OBVIOUS
<1>24. /\ ~Idle' /\ Step' = step /\ run'.job = job /\ run'.pc = next /\ run'.pollId = pollId
       /\ run'.todo = todo /\ run'.made = kept
  BY <1>1, <1>5, <1>21, <1>22, <1>23, RegisterGoesOn
<1>25. StepInv'
  <2>1. AskedOnce(job)'
    BY <1>1, <1>3, <1>23 DEF AskedOnce, StepInv, Has
  <2>2. CASE next = "deploy"
    <3>1. run.todo # <<>> /\ kept = <<>> /\ DOMAIN kept = {}
      BY <1>21, <1>22, <2>2, EmptyIs
    <3>2. step = "Policies"
      BY <1>1, <1>3, <1>5, <3>1 DEF MadeInv
    <3>3. NothingElse(step, kept, todo)
      BY <1>8, <3>1 DEF NothingElse
    <3>4. ~HasRegistry(step, next) /\ ~MakesRegistry(step, next)
      BY <3>2 DEF HasRegistry, MakesRegistry
    <3>5. MadeRight(step, next, kept, todo) /\ MadeUsable(step, next, kept)'
      BY <2>2, <3>2, <3>3, <3>4 DEF MadeRight, MadeUsable, RegistrySteps, MaciSteps
    <3> QED
      BY <1>24, <2>1, <3>5, StepThen
  <2>3. CASE next = "next"
    <3>1. ~HasRegistry(step, next) /\ ~MakesRegistry(step, next)
      BY <1>8, <2>3 DEF HasRegistry, MakesRegistry
    <3>2. MadeRight(step, next, kept, todo) /\ MadeUsable(step, next, kept)'
      BY <2>3, <3>1 DEF MadeRight, MadeUsable
    <3> QED
      BY <1>24, <2>1, <3>2, StepThen
  <2> QED
    BY <2>2, <2>3
<1>26. PollInv'
  BY <1>24, PollThen
<1> QED
  BY <1>19, <1>20, <1>25, <1>26 DEF UInv

LEMMA OtherPollUses ==
    ASSUME NoRace, IInv, UInv, OtherPoll, IInv'
    PROVE  UInv'
<1>1. RunTyped /\ InTurn /\ ChainInv /\ MadeInv /\ ContractsInv /\ FileInv /\ StepInv
  BY DEF IInv, UInv
<1>2. /\ Registered(Path("MACI")) /\ ~Deploying /\ UNCHANGED <<file, user, run, finished>>
      /\ chain' = Bound(WithPoll(Append(chain, Contract("Policy")), Maci, NextAddress, run.cfg),
                        NextAddress, NextAddress + 1)
  BY DEF OtherPoll, NoRace
<1>3. PICK cfg \in Configs : cfg = run.cfg
  <2>1. run.cfg \in Configs
    BY <1>1 DEF RunTyped, Busy
  <2> QED
    BY <2>1
<1>4. ChainStays /\ ContractsInv'
  BY <1>1, <1>2, <1>3, OthersStays
<1>5. \A a \in 1..Len(chain) : Stays(a)
  BY <1>1, <1>4, InstancesStay
<1>6. FileInv'
  <2>1. \A a \in instances : Stays(a)
    BY <1>1, <1>5 DEF ChainInv
  <2> QED
    BY <1>1, <1>2, <2>1, FileStays DEF Has
<1>7. CASE Idle
  <2>1. Idle'
    BY <1>2, <1>7 DEF Idle
  <2> QED
    BY <1>4, <1>6, <2>1, NothingIsMade DEF UInv
<1>8. CASE ~Idle
  <2>1. PICK step, pc, made, todo, job, pollId :
           /\ step = Step /\ pc = run.pc /\ made = run.made /\ todo = run.todo /\ job = run.job
           /\ pollId = run.pollId
    OBVIOUS
  <2>2. /\ ~Idle' /\ Step' = step /\ run'.pc = pc /\ run'.made = made /\ run'.todo = todo /\ run'.job = job
        /\ run'.pollId = pollId /\ run'.cfg = run.cfg
    BY <1>2, <1>8, <2>1 DEF Idle, Step
  <2>3. AskedOnce(job)'
    BY <1>1, <1>2, <2>1 DEF AskedOnce, StepInv, Has
  <2>4. MadeRight(step, pc, made, todo) /\ MadeUsable(step, pc, made)
    BY <1>1, <1>8, <2>1 DEF StepInv
  <2>5. MadeUsable(step, pc, made)'
    <3>1. CASE HasRegistry(step, pc) \/ (step \in MaciSteps /\ pc \in {"call", "register"})
      <4>1. \/ ~Idle /\ run.pc \in {"deploy", "call", "register"}
            \/ At({"ServiceRegistry"}, {"next"})
            \/ At({"ServiceMaci"}, {"enter"})
        BY <1>8, <2>1, <3>1 DEF HasRegistry, At
      <4>2. \A i \in DOMAIN made : made[i].address \in 1..Len(chain)
        BY <1>1, <2>1, <4>1 DEF MadeInv, IsMade
      <4> QED
        BY <1>1, <1>2, <1>5, <2>2, <2>4, <4>2, MadeStays
    <3>2. CASE ~(HasRegistry(step, pc) \/ (step \in MaciSteps /\ pc \in {"call", "register"}))
      BY <3>2 DEF MadeUsable
    <3> QED
      BY <3>1, <3>2
  <2>6. StepInv'
    BY <2>2, <2>3, <2>4, <2>5, StepThen
  <2>7. step \notin PollSteps
    BY <1>2, <1>8, <2>1 DEF Deploying, PollSteps
  <2>8. PollInv'
    BY <2>2, <2>7, PollThen DEF PollSteps
  <2> QED
    BY <1>4, <1>6, <2>6, <2>8 DEF UInv
<1> QED
  BY <1>7, <1>8

LEMMA CrashUses ==
    ASSUME IInv, UInv, Crash
    PROVE  UInv'
  BY BrokenIsUsable DEF Crash

LEMMA InitUses == Init => UInv
<1> SUFFICES ASSUME Init
             PROVE  UInv
  OBVIOUS
<1>1. chain = <<>> /\ named = <<>>
  BY DEF Init
<1>2. Len(chain) = 0 /\ DOMAIN named = {} /\ 1..0 = {}
  BY <1>1, EmptyIs
<1>3. Idle /\ run.job = "none"
  BY DEF Init, Idle
<1>4. ContractsInv
  BY <1>2 DEF ContractsInv
<1>5. FileInv
  BY <1>2 DEF FileInv, MaciIsUsable, Registered
<1>6. StepInv /\ PollInv
  BY <1>3 DEF StepInv, PollInv, AskedOnce, At
<1> QED
  BY <1>4, <1>5, <1>6 DEF UInv

LEMMA NextUses ==
    ASSUME OneCircuit, ModesHaveKeys, OneMaci, NoRace
    PROVE  IInv /\ IInv' /\ UInv /\ [Next]_vars => UInv'
<1> SUFFICES ASSUME IInv, IInv', UInv, [Next]_vars
             PROVE  UInv'
  OBVIOUS
<1>1. CASE StartAny
  BY <1>1, DeploymentAssumption, StartUses DEF StartAny
<1>2. CASE Work
  <2>1. ASSUME NEW pollId \in 0..(MaxPolls + MaxCrashes + MaxOthers), BindPoll(pollId)
        PROVE  UInv'
    <3>1. pollId \in Nat
      OBVIOUS
    <3> QED
      BY <2>1, <3>1, BindPollUses
  <2> QED
    BY <1>2, <2>1, EnterUses, DeployUses, SetKeysUses, BindMaciUses, DeployPollUses, NoCallUses,
       RegisterUses, NextStepUses DEF Work
<1>3. CASE Crash
  BY <1>3, CrashUses
<1>4. CASE OtherPoll
  BY <1>4, OtherPollUses
<1>5. CASE UNCHANGED vars
  <2>1. /\ chain' = chain /\ named' = named /\ instances' = instances
        /\ user' = user /\ run' = run /\ finished' = finished
    BY <1>5 DEF vars
  <2>2. ContractsInv'
    BY <2>1 DEF UInv, ContractsInv, FromConfig, IsRegistry
  <2>3. UNCHANGED <<file, user>> /\ \A a \in instances : Stays(a)
    <3>1. ChainInv
      BY DEF IInv
    <3> QED
      BY <2>1, <3>1, SameStays, InstancesStay DEF ChainInv, file
  <2>4. FileInv'
    BY <2>1, <2>3, FileStays DEF IInv, UInv, Has
  <2>5. StepInv'
    <3>1. AskedOnce(run.job)'
      BY <2>1 DEF UInv, StepInv, AskedOnce, Has, Idle, Step
    <3>2. ~Idle' => MadeRight(Step, run.pc, run.made, run.todo)'
      BY <2>1 DEF UInv, StepInv, Idle, Step, MadeRight, NothingElse, IsOnce, MakesRegistry, HasRegistry,
         RegistryIn, MaciPolicy, GetAddress, Path
    <3>3. ~Idle' => MadeUsable(Step, run.pc, run.made)'
      BY <2>1 DEF UInv, StepInv, Idle, Step, MadeUsable, IsRegistry, HasAllKeys, IsBound, MakesRegistry,
         HasRegistry, RegistryIn, MaciPolicy, GetAddress, Path
    <3> QED
      BY <3>1, <3>2, <3>3 DEF StepInv
  <2>6. PollInv'
    BY <2>1 DEF UInv, PollInv, At, Idle, Step, Registered, Registry, Path, NextPollId, GetAddress, Maci, PollPolicy,
       Keyed, IsPollOf, IsBound
  <2> QED
    BY <2>2, <2>4, <2>5, <2>6 DEF UInv
<1> QED
  BY <1>1, <1>2, <1>3, <1>4, <1>5 DEF Next

LEMMA UsableThen ==
    ASSUME OneCircuit, IInv, UInv
    PROVE  RegisteredIsUsable
<1>1. ChainInv /\ ContractsInv /\ FileInv
  BY DEF IInv, UInv
<1>2. ASSUME NEW path \in DOMAIN named, path[1] = "Poll"
      PROVE  PollIsUsable(path)
  <2>1. Registered(Path("MACI")) /\ Registered(Registry) /\ IsPollOf(GetAddress(path), path[2])
    BY <1>1, <1>2 DEF FileInv
  <2>2. PICK poll, registry : poll = GetAddress(path) /\ registry = GetAddress(Registry)
    OBVIOUS
  <2>3. HasAllKeys(registry)
    BY <1>1, <2>1, <2>2 DEF FileInv
  <2>4. poll \in 1..Len(chain) /\ chain[poll].id = "Poll"
    BY <1>1, <1>2, <2>2, RegisteredIs DEF Registered
  <2>5. Maci \in 1..Len(chain) /\ chain[Maci].id = "MACI"
    <3>1. PICK p : p = Path("MACI")
      OBVIOUS
    <3>2. p[1] = "MACI"
      BY <3>1 DEF Path
    <3> QED
      BY <1>1, <2>1, <3>1, <3>2, RegisteredIs DEF Maci
  <2>6. PICK c, keys, depth : c = chain[poll] /\ keys = chain[registry].keys /\ depth = chain[Maci].depth
    OBVIOUS
  <2>7. PICK cfg \in Configs : /\ c.depth = cfg.pollDepth /\ c.tallyDepth = cfg.tallyDepth
                               /\ c.voteOptionDepth = cfg.voteOptionDepth /\ c.mode = cfg.mode
    <3>1. FromConfig(c) /\ c.id = "Poll"
      BY <1>1, <2>4, <2>6 DEF ContractsInv
    <3> QED
      BY <3>1 DEF FromConfig
  <2>8. depth = cfg.depth
    <3>1. PICK b : b = chain[Maci]
      OBVIOUS
    <3>2. FromConfig(b) /\ b.id = "MACI"
      BY <1>1, <2>5, <3>1 DEF ContractsInv
    <3>3. PICK other \in Configs : b.depth = other.depth
      BY <3>2 DEF FromConfig
    <3> QED
      BY <2>6, <3>1, <3>3 DEF OneCircuit
  <2>9. HasKeysFor(keys, cfg)
    BY <2>3, <2>6 DEF HasAllKeys
  <2>10. \A x, y, z : ProcessSignature(x, y, z) = <<0, x, y>>
    BY DEF ProcessSignature, ShiftedLeft
  <2>11. /\ HasPollJoiningVerifyingKey(keys, c.depth)
         /\ HasPollJoinedVerifyingKey(keys, c.depth)
         /\ HasProcessVerifyingKey(keys, depth, c.voteOptionDepth, c.batch, c.mode)
         /\ HasTallyVerifyingKey(keys, depth, c.tallyDepth, c.voteOptionDepth, c.mode)
         /\ GetTallyVerifyingKey(keys, depth, c.tallyDepth, c.voteOptionDepth, c.mode).mode = TallyZkey(c.mode)
    BY <2>7, <2>8, <2>9, <2>10 DEF HasKeysFor, HasProcessVerifyingKey
  <2>12. HasKeys(chain[poll])
    BY <2>2, <2>6, <2>11 DEF HasKeys, Registry
  <2> QED
    BY <2>1, <2>2, <2>12 DEF PollIsUsable, IsPollOf, IsBound
<1> QED
  BY <1>1, <1>2 DEF RegisteredIsUsable, FileInv

(* Whatever the file names after a run that ended anywhere can be used: its MACI and its polls
   are what their policies guard, a poll is the one of its number, and the file's registry has
   the keys of its depths and its mode (deploy-full, deploy-poll, deployer.service.ts). *)
THEOREM RegisteredIsUsableHolds ==
    ASSUME OneCircuit, ModesHaveKeys, OneMaci, NoRace
    PROVE  Spec => []RegisteredIsUsable
<1>1. Init => IInv /\ UInv
  BY InitHolds, InitUses
<1>2. (IInv /\ UInv) /\ [Next]_vars => (IInv /\ UInv)'
  BY NextKeeps, NextUses
<1>3. IInv /\ UInv => RegisteredIsUsable
  BY UsableThen
<1> QED
  BY <1>1, <1>2, <1>3, PTL DEF Spec
=============================================================================
