------------------------------- MODULE Names -------------------------------
(***************************************************************************)
(* Public names: the registrar and resolver contracts/ens/VenekoVoxNames   *)
(* under two registries of parent names that others administer, and the    *)
(* pages of the front end that read and register names: pages/Names, the   *)
(* hook useAccountName of the ballot, and pages/NamedPoll.                 *)
(*                                                                         *)
(* A task is an asynchronous call, and an action what it does from one     *)
(* await to the next.  A page numbers its generations and drops what an    *)
(* older one brings; a task knows only whether its generation is current.  *)
(* The wallet's events and answers reach the page in the order in which    *)
(* the wallet sends them.                                                  *)
(***************************************************************************)
EXTENDS Naturals, Sequences, FiniteSets, SequencesExt

CONSTANTS
    Accounts, Operator,      \* the operator is one of the accounts
    Labels,                  \* labels within the registrar's subset
    Visits,                  \* the pages: "names", "ballot", "poll"
    VoteStart, VoteEnd,      \* of the poll there is to name; a block takes one unit of time
    MaxBlocks, MaxClicks, MaxTasks,
    MaxTroubles              \* reorganisations, wallet events and failed requests together

None == "none"

ASSUME NamesAssumption ==
    /\ Operator \in Accounts /\ None \notin Accounts \cup Labels
    /\ Visits \subseteq {"names", "ballot", "poll"}
    /\ {VoteStart, VoteEnd, MaxBlocks, MaxClicks, MaxTasks, MaxTroubles} \subseteq Nat

VARIABLES
    chain,     \* blocks, each with the state it leaves and the fork it is of
    served,    \* pairs of an account, or the poll, and a name some block has had for it
    txs,       \* transactions the page has sent
    wallet,    \* its account on Sepolia, or None
    events,    \* wallet events on their way to the page
    visit,     \* the page that is open
    page, tasks,
    reorgs, switches, clicks, faults

world == <<chain, served, txs, reorgs>>
outside == <<wallet, events, switches>>
vars == <<world, outside, visit, page, tasks, clicks, faults>>

-----------------------------------------------------------------------------
(* The contract.  A node is a kind and a label; the two kinds have registries of their
   own.  The registration of a node has a resource, which another registration has not. *)
Nodes == BOOLEAN \X Labels
NoNames ==
    [entries |-> <<>>, expired |-> FALSE, ended |-> {},
     registry |-> [node \in Nodes |-> [owner |-> None, resource |-> 0, here |-> FALSE]]]

Available(st, isPoll, label) ==
    /\ ~st.expired
    /\ <<isPoll, label>> \notin DOMAIN st.entries
    /\ st.registry[<<isPoll, label>>].owner = None

\* Any account has one profile node, the one poll at most one.
Named(st, account) == \E node \in DOMAIN st.entries : ~node[1] /\ st.entries[node].owner = account
PollNamed(st) == \E node \in DOMAIN st.entries : node[1]

MayRegister(st, from, isPoll, label) ==
    /\ IF isPoll THEN from = Operator /\ ~PollNamed(st) ELSE ~Named(st, from)
    /\ Available(st, isPoll, label)

Register(st, from, isPoll, label) ==
    LET node == <<isPoll, label>>
        entry == [owner |-> from, resource |-> st.registry[node].resource]
    IN  [st EXCEPT !.registry[node] = [@ EXCEPT !.owner = from, !.here = TRUE],
                   !.entries = [n \in DOMAIN @ \cup {node} |-> IF n = node THEN entry ELSE @[n]]]

ActiveAnyResource(st, node) ==   \* a slip
    /\ node \in DOMAIN st.entries /\ ~st.expired
    /\ st.registry[node].owner = st.entries[node].owner /\ st.registry[node].here
Active(st, node) ==
    /\ node \in DOMAIN st.entries /\ ~st.expired
    /\ st.registry[node].owner = st.entries[node].owner /\ st.registry[node].here
    /\ st.registry[node].resource = st.entries[node].resource

ProfileName(st, account) ==
    LET mine == {label \in Labels : Active(st, <<FALSE, label>>) /\ st.entries[<<FALSE, label>>].owner = account}
    IN  IF mine = {} THEN None ELSE CHOOSE label \in mine : TRUE
Addr(st, label) == IF Active(st, <<FALSE, label>>) THEN st.entries[<<FALSE, label>>].owner ELSE None
HasRecord(st, label) == Active(st, <<TRUE, label>>)

(* The administrators of a parent give a free name with the resolver, give a name to
   somebody else, set another resolver, or take a name back. *)
Administered(name) ==
    IF name.owner = None THEN {[name EXCEPT !.owner = a, !.here = TRUE] : a \in Accounts}
    ELSE {[name EXCEPT !.owner = a] : a \in Accounts} \cup {[name EXCEPT !.here = ~@]}
Rewritten(st, node, name) == [st EXCEPT !.registry[node] = name]
TakenBack(st, node) ==
    [Rewritten(st, node, [owner |-> None, resource |-> st.registry[node].resource + 1, here |-> FALSE])
        EXCEPT !.ended = IF node \in DOMAIN st.entries THEN @ \cup {node} ELSE @]

-----------------------------------------------------------------------------
(* The chain. *)
Height == Len(chain)
Troubles == reorgs + switches + faults
Latest == chain[Height].state
PairsOf(st) ==
    {<<a, ProfileName(st, a)>> : a \in {b \in Accounts : ProfileName(st, b) # None}}
      \cup {<<"poll", label>> : label \in {l \in Labels : HasRecord(st, l)}}
Add(blocks, st) ==
    /\ chain' = Append(blocks, [state |-> st, fork |-> reorgs'])
    /\ served' = served \cup PairsOf(st)

ByParent(node) ==
    \/ \E name \in Administered(Latest.registry[node]) : Add(chain, Rewritten(Latest, node, name))
    \/ Latest.registry[node].owner # None /\ Add(chain, TakenBack(Latest, node))
\* Accounts also register from other pages.
ByOthers(from, isPoll, label) ==
    MayRegister(Latest, from, isPoll, label) /\ Add(chain, Register(Latest, from, isPoll, label))
Expire == Add(chain, [Latest EXCEPT !.expired = TRUE])

Mine ==
    /\ Height <= MaxBlocks
    /\ UNCHANGED reorgs
    /\ \/ /\ \/ \E node \in Nodes : ByParent(node)
             \/ \E from \in Accounts, isPoll \in BOOLEAN, label \in Labels : ByOthers(from, isPoll, label)
             \/ Expire
          /\ UNCHANGED txs
       \/ \E x \in txs :
            /\ x.block = 0
            /\ LET ok == MayRegister(Latest, x.from, x.isPoll, x.label)
               IN  /\ Add(chain, IF ok THEN Register(Latest, x.from, x.isPoll, x.label) ELSE Latest)
                   /\ txs' = (txs \ {x}) \cup {[x EXCEPT !.block = Height + 1, !.ok = ok]}
    /\ UNCHANGED <<outside, visit, page, tasks, clicks, faults>>

\* The last block is replaced by an empty one; its transaction is pending again.
Reorg ==
    /\ Troubles < MaxTroubles /\ Height > 1
    /\ reorgs' = reorgs + 1
    /\ Add(Front(chain), chain[Height - 1].state)
    /\ txs' = {IF x.block = Height THEN [x EXCEPT !.block = 0] ELSE x : x \in txs}
    /\ UNCHANGED <<outside, visit, page, tasks, clicks, faults>>

-----------------------------------------------------------------------------
(* The tasks and the awaits they go through: readNamingConfig is a block and what is read
   there, recoverProfile a block with a name, resolvePollName one with a text. *)
Route ==
    [load |-> <<"block", "config", "peek", "block", "name", "resolve", "check">>,
     claim |-> <<"peek", "block", "config", "available", "rehearse", "assert", "send", "wait",
                 "assert", "block", "name", "resolve", "check", "assert">>,
     namePoll |-> <<"peek", "block", "config", "available", "rehearse", "assert", "send", "wait",
                    "assert", "block", "text", "check", "assert">>,
     hook |-> <<"block", "config", "block", "name", "resolve", "check">>,
     lookup |-> <<"block", "text", "check">>]

Pc(t) == Route[t.kind][t.at]
IsLast(t) == t.at = Len(Route[t.kind])
Submits == {"claim", "namePoll"}

Task(kind, account, label) ==
    [kind |-> kind, at |-> 1, current |-> TRUE, changed |-> FALSE, shown |-> None, consent |-> None,
     account |-> account, label |-> label, name |-> None, n |-> 0, fork |-> 0]
\* A submission remembers what the page showed when it was asked for.
Submission(kind, label) ==
    [Task(kind, None, label) EXCEPT !.shown = page.account, !.consent = page.consent]

Outdated(ts) == {[t EXCEPT !.current = FALSE] : t \in ts}
\* Wallet events and leaving the page also reach registerName, and abort it.
Aborted(ts) == {[t EXCEPT !.current = FALSE, !.changed = t.kind \in Submits] : t \in ts}

Goes(t, u) ==
    /\ tasks' = (tasks \ {t}) \cup {[u EXCEPT !.at = t.at + 1]}
    /\ UNCHANGED page

\* What a task leaves on the page at its end, if it is of the page's generation.
Shown(t) ==
    CASE t.kind = "load" -> [page EXCEPT !.config = TRUE, !.account = t.account, !.profile = t.name,
                                         !.loading = FALSE]
      [] t.kind = "claim" -> [page EXCEPT !.profile = t.label]
      [] t.kind = "namePoll" -> [page EXCEPT !.published = t.label]
      [] t.kind = "hook" -> [page EXCEPT !.profile = t.name]
      [] OTHER -> [page EXCEPT !.phase = "ready", !.result = t.label, !.status = t.name]

Ends(t, shown) ==
    /\ tasks' = tasks \ {t}
    /\ page' = [IF t.current THEN shown ELSE page EXCEPT !.busy = @ /\ t.kind \notin Submits]

Fails(t) ==
    Ends(t, CASE t.kind = "lookup" -> [page EXCEPT !.phase = "error"]
              [] t.kind = "hook" -> [page EXCEPT !.profile = None]
              [] OTHER -> [page EXCEPT !.loading = @ /\ t.kind # "load"])

\* The last await of a task and the page's use of its result are one step.
Passes(t, u) == IF IsLast(t) THEN Ends(t, Shown(u)) ELSE Goes(t, u)

-----------------------------------------------------------------------------
At(t) == chain[t.n].state
Unmoved(t) == chain[t.n].fork = t.fork

Block(t) ==
    /\ Pc(t) = "block"
    /\ Goes(t, [t EXCEPT !.n = Height, !.fork = chain[Height].fork])
    /\ UNCHANGED txs

\* readNamingConfig: what it reads never changes, but for the date.
ReadConfig(t) ==
    /\ Pc(t) = "config"
    /\ IF Unmoved(t) /\ ~At(t).expired /\ (t.kind = "namePoll" => t.account = Operator)
       THEN Goes(t, [t EXCEPT !.n = 0, !.fork = 0]) ELSE Fails(t)
    /\ UNCHANGED txs

Peek(t) ==
    /\ Pc(t) = "peek" /\ events = 0
    /\ CASE t.kind = "load" /\ wallet = None -> Ends(t, Shown([t EXCEPT !.account = None]))
         [] t.kind # "load" /\ wallet = None -> Fails(t)
         [] OTHER -> Goes(t, [t EXCEPT !.account = wallet])
    /\ UNCHANGED txs

CheckAvailable(t) ==
    /\ Pc(t) = "available"
    /\ IF Available(Latest, t.kind = "namePoll", t.label) THEN Goes(t, t) ELSE Fails(t)
    /\ UNCHANGED txs

Rehearse(t) ==
    /\ Pc(t) = "rehearse"
    /\ IF MayRegister(Latest, t.account, t.kind = "namePoll", t.label) THEN Goes(t, t) ELSE Fails(t)
    /\ UNCHANGED txs

SameAccount(t) == wallet = t.account   \* a slip
StillCurrent(t) == wallet = t.account /\ ~t.changed

AssertCurrent(t) ==
    /\ Pc(t) = "assert" /\ events = 0
    /\ IF StillCurrent(t) THEN Passes(t, t) ELSE Fails(t)
    /\ UNCHANGED txs

\* The adapter looks at the account once more and names it in the transaction.
Send(t) ==
    /\ Pc(t) = "send" /\ events = 0
    /\ \/ /\ wallet = t.account /\ wallet # None
          /\ txs' = txs \cup {[from |-> t.account, isPoll |-> t.kind = "namePoll", label |-> t.label,
                               shown |-> t.shown, consent |-> t.consent, block |-> 0, ok |-> FALSE]}
          /\ Goes(t, t)
       \/ Fails(t) /\ UNCHANGED txs

\* One confirmation, a revert, or the end of patience.
Mine1(t) == {x \in txs : x.from = t.account /\ x.label = t.label /\ x.isPoll = (t.kind = "namePoll")}
Wait(t) ==
    /\ Pc(t) = "wait"
    /\ \/ (\E x \in Mine1(t) : x.block # 0 /\ x.ok) /\ Goes(t, t)
       \/ (\E x \in Mine1(t) : x.block = 0 \/ ~x.ok) /\ Fails(t)
    /\ UNCHANGED txs

\* recoverProfile; an account without a name is asked nothing more.
ReadName(t) ==
    /\ Pc(t) = "name"
    /\ LET name == ProfileName(At(t), t.account)
       IN  CASE name # None -> Goes(t, [t EXCEPT !.name = name])
             [] name = None /\ t.kind = "claim" -> Fails(t)
             [] OTHER -> Ends(t, Shown(t))
    /\ UNCHANGED txs

Resolve(t) ==
    /\ Pc(t) = "resolve"
    /\ IF Addr(At(t), t.name) = t.account THEN Goes(t, t) ELSE Fails(t)
    /\ UNCHANGED txs

\* The block is still there; a name that was registered is the one that was found.
Check(t) ==
    /\ Pc(t) = "check"
    /\ IF Unmoved(t) /\ (t.kind = "claim" => t.name = t.label) THEN Passes(t, [t EXCEPT !.n = 0, !.fork = 0]) ELSE Fails(t)
    /\ UNCHANGED txs

\* resolvePollName: the record, the poll it names, and its dates at the block's time.
VotingWindow(start, end, now) ==
    CASE start = 0 \/ end <= start -> "INVALID_WINDOW"
      [] now < start -> "UPCOMING"
      [] now > end -> "CLOSED"
      [] OTHER -> "OPEN"

ReadText(t) ==
    /\ Pc(t) = "text"
    /\ IF HasRecord(At(t), t.label)
       THEN Goes(t, [t EXCEPT !.name = VotingWindow(VoteStart, VoteEnd, t.n)]) ELSE Fails(t)
    /\ UNCHANGED txs

Step(t) ==
    /\ \/ Block(t) \/ ReadConfig(t) \/ Peek(t) \/ CheckAvailable(t) \/ Rehearse(t) \/ AssertCurrent(t)
       \/ Send(t) \/ Wait(t) \/ ReadName(t) \/ Resolve(t) \/ Check(t) \/ ReadText(t)
    /\ UNCHANGED <<chain, served, reorgs, outside, visit, clicks, faults>>

\* A request to the provider fails.
Fault(t) ==
    /\ Troubles < MaxTroubles
    /\ Pc(t) \notin {"peek", "assert", "send"}
    /\ faults' = faults + 1
    /\ Fails(t)
    /\ UNCHANGED <<world, outside, visit, clicks>>

-----------------------------------------------------------------------------
(* The names page. *)
Blank ==
    [account |-> None, profile |-> None, config |-> FALSE, loading |-> TRUE,
     busy |-> FALSE, consent |-> None, published |-> None, refresh |-> TRUE,
     connecting |-> FALSE, url |-> None, phase |-> "idle", result |-> None, status |-> None]

Room == Cardinality(tasks) < MaxTasks
Clicks == clicks < MaxClicks /\ clicks' = clicks + 1
Touch(p) == page' = p /\ UNCHANGED <<world, outside, visit, tasks, faults>>

Event ==
    /\ events > 0
    /\ events' = events - 1
    /\ IF visit = "names"
       THEN /\ tasks' = Aborted(tasks)
            /\ page' = [page EXCEPT !.account = None, !.profile = None, !.consent = None,
                                    !.published = None, !.refresh = TRUE]
       ELSE UNCHANGED <<page, tasks>>
    /\ UNCHANGED <<world, wallet, visit, switches, clicks, faults>>

\* The effect of a refresh, also the first.
Load ==
    /\ visit = "names" /\ page.refresh /\ Room
    /\ tasks' = Outdated(tasks) \cup {Task("load", None, None)}
    /\ page' = [page EXCEPT !.config = FALSE, !.account = None, !.profile = None,
                            !.loading = TRUE, !.refresh = FALSE]
    /\ UNCHANGED <<world, outside, visit, clicks, faults>>

CheckAgain ==
    /\ visit = "names" /\ ~page.busy /\ ~page.loading
    /\ Clicks /\ Touch([page EXCEPT !.refresh = TRUE])

Form == visit = "names" /\ page.config /\ page.account # None

Consent ==
    /\ Form /\ page.profile = None /\ ~page.busy /\ page.consent = None
    /\ UNCHANGED clicks /\ Touch([page EXCEPT !.consent = page.account])

Submit(kind, label) ==
    /\ Form /\ ~page.busy /\ Room
    /\ kind = "claim" => page.profile = None /\ page.consent # None
    /\ kind = "namePoll" => page.account = Operator
    /\ Clicks
    /\ tasks' = tasks \cup {Submission(kind, label)}
    /\ page' = [page EXCEPT !.busy = TRUE, !.published = None]
    /\ UNCHANGED <<world, outside, visit, faults>>

Connect ==
    /\ visit = "names" /\ page.config /\ page.account = None /\ ~page.busy
    /\ Clicks /\ Touch([page EXCEPT !.connecting = TRUE])
Connected ==
    /\ page.connecting /\ events = 0 /\ wallet # None
    /\ UNCHANGED clicks /\ Touch([page EXCEPT !.connecting = FALSE, !.refresh = TRUE])
ConnectRefused ==
    /\ page.connecting /\ events = 0
    /\ UNCHANGED clicks /\ Touch([page EXCEPT !.connecting = FALSE])

Switch(account) ==
    /\ account # wallet /\ Troubles < MaxTroubles
    /\ switches' = switches + 1
    /\ wallet' = account /\ events' = events + 1
    /\ UNCHANGED <<world, visit, page, tasks, clicks, faults>>

Leave ==
    /\ visit = "names" /\ \E t \in tasks : t.kind \in Submits
    /\ visit' = "left"
    /\ tasks' = Aborted(tasks)
    /\ UNCHANGED <<world, outside, page, clicks, faults>>

-----------------------------------------------------------------------------
(* The hook of the ballot, which is given an account, and its effect. *)
Given(account) ==
    /\ visit = "ballot" /\ account # page.account
    /\ Clicks /\ Touch([page EXCEPT !.account = account, !.refresh = TRUE])

LookUpAccount ==
    /\ visit = "ballot" /\ page.refresh /\ Room
    /\ tasks' = Outdated(tasks) \cup (IF page.account = None THEN {} ELSE {Task("hook", page.account, None)})
    /\ page' = [page EXCEPT !.profile = None, !.refresh = FALSE]
    /\ UNCHANGED <<world, outside, visit, clicks, faults>>

(* The page of a named poll: a search for a name, for something that is no name, or for
   the same again, and the effect of another address. *)
Search(label) ==
    /\ visit = "poll"
    /\ Clicks
    /\ tasks' = Outdated(tasks)
    /\ page' = [page EXCEPT !.url = label, !.refresh = TRUE]
    /\ UNCHANGED <<world, outside, visit, faults>>
SearchNoName ==
    /\ visit = "poll"
    /\ Clicks
    /\ tasks' = Outdated(tasks)
    /\ page' = [page EXCEPT !.phase = "error"]
    /\ UNCHANGED <<world, outside, visit, faults>>
Follow(label) ==
    /\ visit = "poll" /\ label # page.url
    /\ Clicks /\ Touch([page EXCEPT !.url = label, !.refresh = TRUE])

LookUpPoll ==
    /\ visit = "poll" /\ page.refresh /\ Room
    /\ IF page.url = None
       THEN /\ tasks' = Outdated(tasks)
            /\ page' = [page EXCEPT !.refresh = FALSE, !.phase = "idle"]
       ELSE /\ tasks' = Outdated(tasks) \cup {Task("lookup", None, page.url)}
            /\ page' = [page EXCEPT !.refresh = FALSE, !.phase = "loading"]
    /\ UNCHANGED <<world, outside, visit, clicks, faults>>

-----------------------------------------------------------------------------
\* The label that has a name at first, if any.
FirstStates ==
    {NoNames} \cup {Register(NoNames, x[1], FALSE, x[2]) : x \in Accounts \X Labels}

Init ==
    /\ \E st \in FirstStates : chain = <<[state |-> st, fork |-> 0]>> /\ served = PairsOf(st)
    /\ txs = {} /\ reorgs = 0
    /\ wallet \in Accounts \cup {None} /\ events = 0 /\ switches = 0
    /\ visit \in Visits
    /\ page = Blank /\ tasks = {}
    /\ clicks = 0 /\ faults = 0

Next ==
    \/ Mine \/ Reorg
    \/ \E account \in Accounts \cup {None} : Switch(account) \/ Given(account)
    \/ Event \/ Load \/ CheckAgain \/ Consent \/ Connect \/ Connected \/ ConnectRefused \/ Leave
    \/ \E kind \in Submits, label \in Labels : Submit(kind, label)
    \/ LookUpAccount \/ LookUpPoll \/ SearchNoName
    \/ \E label \in Labels \cup {None} : Search(label) \/ Follow(label)
    \/ \E t \in tasks : Step(t) \/ Fault(t)

Spec == Init /\ [][Next]_vars

-----------------------------------------------------------------------------
(* docs/ens-registration.md:58, "Re-registration must not revive records from an old
   registration": a name a parent has taken back is not served again, whoever is given
   it afterwards, its old owner included. *)
NeverRevived == \A i \in DOMAIN chain : \A node \in chain[i].state.ended : ~Active(chain[i].state, node)

(* docs/ens-registration.md:22, "Account/chain changes, page departure, failures and
   timeouts cannot produce success for a different context": a transaction is sent by the
   account that the page showed when it was asked for, and consented. *)
SentByTheShown == \A x \in txs : x.from = x.shown /\ (~x.isPoll => x.consent = x.from)

(* A name that is shown as an account's, or as the poll's, has been served as that. *)
ShownWasServed ==
    /\ page.profile # None /\ ~page.refresh => <<page.account, page.profile>> \in served
    /\ page.published # None => <<"poll", page.published>> \in served
    /\ page.phase = "ready" => <<"poll", page.result>> \in served

(* With nothing under way the names page is not busy and shows the account of the wallet,
   and the page of a poll what the name of its address has led to. *)
AtRest == tasks = {} /\ events = 0 /\ ~page.refresh /\ ~page.connecting
RestIsSettled ==
    AtRest /\ visit # "left" =>
        /\ ~page.busy
        /\ visit = "names" => ~page.loading /\ page.account = (IF page.config THEN wallet ELSE None)
        /\ visit = "poll" => page.phase # "loading" /\ (page.phase = "ready" => page.result = page.url)

NamesAreRight == SentByTheShown /\ ShownWasServed /\ RestIsSettled
=============================================================================
