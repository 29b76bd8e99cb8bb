---------------------------- MODULE VoteFlow ----------------------------
(***************************************************************************)
(* A voter's page: the vote flow of apps/front-end (hooks/voteFlow.ts and  *)
(* hooks/useMaci.ts), the hydration that restores what the page shows      *)
(* (lib/hydration.ts), the receipts it keeps (lib/receipts.ts), and the    *)
(* calls of the SDK's browser entry they are made of (user/signup.ts,      *)
(* user/utils.ts, browser/joinPoll.ts, vote/submit.ts).                    *)
(*                                                                         *)
(* One device holds one MACI key, Own, whichever account its wallet is on. *)
(* Every await of the flow and of a hydration is a step of its own, so     *)
(* that wallet events, hydrations, other voters and reloads fall between   *)
(* them.  The chain mines transactions one by one into the current block;  *)
(* a transaction's receipt is seen when its block is sealed.  The keys of  *)
(* the other voters are in Others.                                         *)
(*                                                                         *)
(* Bounds: BlockSpace, the transactions of one block; the Max constants,   *)
(* how often each thing outside the page's control may happen; MaxRuns,    *)
(* the hydrations that wait for an answer at once.  MaxTroubles counts     *)
(* failed calls, connections and reloads together.                         *)
(***************************************************************************)
EXTENDS Naturals, FiniteSets, Sequences, SequencesExt

CONSTANTS Accounts, Others, BlockSpace,
          MaxSwitches, MaxVotes, MaxTroubles, MaxRuns

ASSUME VoteFlowAssumption ==
    /\ BlockSpace \in Nat \ {0}
    /\ {MaxSwitches, MaxVotes, MaxTroubles} \subseteq Nat
    /\ MaxRuns \in Nat \ {0}
    /\ IsFiniteSet(Others)
    /\ "none" \notin Accounts

None == "none"
Own  == "own"

VARIABLES
    \* the chain: the sign ups and joins in order, the votes published, the
    \* transactions sent and what became of those mined
    block, filled, log, votes, pool, outcome,
    account,        \* the account the wallet is on, or None
    events,         \* the wallet events the page has not handled yet
    keyStored,      \* localStorage: the MACI key
    stored,         \* localStorage: the receipt of each account, 0 for none
    page,           \* the refs and the state of useMaci
    runs,           \* the hydrations that are running
    flow,           \* the vote or the connection that is running
    left            \* what the bounds still allow

chain   == <<block, filled, log, votes, pool, outcome>>
storage == <<keyStored, stored>>
vars    == <<chain, account, events, storage, page, runs, flow, left>>

-----------------------------------------------------------------------------
(* The chain.                                                              *)

\* The events of a kind, by their places in the log.  The contract numbers them from 1:
\* leaf 0 is the padding.
Of(what) == {i \in DOMAIN log : log[i].what = what}
Number(what, place) == Cardinality({i \in Of(what) : i <= place})

\* The index the contract gave a key.
IndexOf(what, key) ==
    LET at == {i \in Of(what) : log[i].key = key}
    IN  IF at = {} THEN 0 ELSE Number(what, CHOOSE i \in at : TRUE)

\* Slip: the filter forgets the key.
JoinedIndexOfAnyone == IF Of("join") = {} THEN 0 ELSE 1

\* parsePollJoinEvents: the first PollJoined with the voter's key.
JoinedIndex == IndexOf("join", Own)

\* getJoinedUserData.
LookupJoined == JoinedIndex

\* signup and joinPoll ask for the events of the block of their receipt and
\* take the first, whoever's it is.
IndexInBlock(what, b) ==
    LET at == {i \in Of(what) : log[i].block = b}
    IN  Number(what, CHOOSE i \in at : \A j \in at : i <= j)

Mined(what, key) == log' = Append(log, [what |-> what, key |-> key, block |-> block])

\* The page sends a transaction and waits for it.
Send(what, leaf, next) ==
    LET id == Cardinality(DOMAIN outcome) + Cardinality(pool) + 1
    IN  /\ pool' = pool \cup {[id |-> id, what |-> what, from |-> flow.account, leaf |-> leaf]}
        /\ flow' = [flow EXCEPT !.pc = next, !.tx = id]
        /\ UNCHANGED <<block, filled, log, votes, outcome>>

\* A transaction of this device: an account's are mined in the order of their
\* nonces; the nullifier and the registry let a key sign up and join once.
MineOwn(tx) ==
    LET ok == tx.what = "vote" \/ IndexOf(tx.what, Own) = 0
    IN  /\ filled < BlockSpace
        /\ \A other \in pool : other.from = tx.from => other.id >= tx.id
        /\ filled' = filled + 1
        /\ pool' = pool \ {tx}
        /\ outcome' = [id \in DOMAIN outcome \cup {tx.id} |->
                           IF id = tx.id THEN [ok |-> ok, block |-> block] ELSE outcome[id]]
        /\ IF tx.what # "vote" /\ ok THEN Mined(tx.what, Own) ELSE UNCHANGED log
        /\ votes' = IF tx.what = "vote" THEN votes \cup {tx} ELSE votes
        /\ UNCHANGED <<block, account, events, storage, page, runs, flow, left>>

\* Another voter, who has signed up, joins.
MineOther(key) ==
    /\ filled < BlockSpace
    /\ filled' = filled + 1
    /\ IndexOf("join", key) = 0
    /\ Mined("join", key)
    /\ UNCHANGED <<block, votes, pool, outcome, account, events, storage, page, runs, flow, left>>

Seal ==
    /\ filled > 0
    /\ block' = block + 1
    /\ filled' = 0
    /\ UNCHANGED <<log, votes, pool, outcome, account, events, storage, page, runs, flow, left>>

Waited == flow.tx \in DOMAIN outcome /\ outcome[flow.tx].block < block
Succeeded == outcome[flow.tx].ok

-----------------------------------------------------------------------------
(* The page: what each write of a hydration does to it, and the lock that  *)
(* keeps two hydrations of a context apart.                                *)

InFlight == {"connecting", "signing-up", "joining", "voting"}

InitPage ==
    [generation |-> 0, operation |-> 0, active |-> 0, busy |-> FALSE,
     shown |-> None, status |-> "idle", participation |-> "checking",
     receipt |-> 0, receiptOf |-> None,
     hydratedFor |-> None, lock |-> None, owner |-> 0]

\* Slip: the run's operation id is not compared.
CurrentGeneration(p, r) == r.generation = p.generation /\ ~p.busy /\ p.status \notin InFlight

\* canApply and the captured operation id.
Current(p, r) == CurrentGeneration(p, r) /\ r.operation = p.operation

Kept(p) == IF p.status = "voted" THEN "voted" ELSE "idle"

WriteDisconnected(p) ==
    [p EXCEPT !.hydratedFor = None, !.shown = None, !.status = "idle",
              !.participation = "disconnected", !.receipt = 0, !.receiptOf = None]
WriteProbeError(p) == [p EXCEPT !.participation = "lookup-failed"]
WriteAccount(p, a, status, participation) ==
    [p EXCEPT !.shown = a, !.status = status, !.participation = participation]

\* Slip: a stored receipt is written over the one of this session.
WriteAnyReceipt(p, a, hash) == [p EXCEPT !.receipt = hash, !.receiptOf = a]

WriteReceipt(p, a, hash) ==
    IF p.receipt \notin {0, hash} THEN p ELSE [p EXCEPT !.receipt = hash, !.receiptOf = a]

BeginFlight(p, r, a) == [p EXCEPT !.lock = a, !.owner = r.operation]
EndFlight(p, r) ==
    IF p.lock = r.account /\ p.owner = r.operation THEN [p EXCEPT !.lock = None, !.owner = 0] ELSE p
InvalidateFlight(p) == [p EXCEPT !.lock = None, !.owner = 0]
MarkHydrated(p, r) == [p EXCEPT !.hydratedFor = r.account]

\* hydrate(): a run captures the generation and the operation it starts in.
Run(p, others) ==
    [id |-> CHOOSE i \in 1..(Cardinality(others) + 1) : \A r \in others : r.id # i,
     pc |-> "peek", generation |-> p.generation, operation |-> p.operation,
     account |-> None, receipt |-> 0]
Hydrate(p, others) ==
    /\ Cardinality(others) < MaxRuns
    /\ runs' = others \cup {Run(p, others)}

Ends(r) == runs' = runs \ {r}

\* peekWallet, then, without an await, up to lookupParticipation.
Peek(r) ==
    /\ r.pc = "peek"
    /\ UNCHANGED left
    /\ \/ /\ ~Current(page, r)
          /\ Ends(r) /\ UNCHANGED page
       \/ /\ Current(page, r) /\ account = None
          /\ page' = WriteDisconnected(page)
          /\ Ends(r)
       \/ /\ Current(page, r) /\ account # None
          /\ account \in {page.hydratedFor, page.lock}
          /\ Ends(r) /\ UNCHANGED page
       \/ /\ Current(page, r) /\ account # None
          /\ account \notin {page.hydratedFor, page.lock}
          /\ ~keyStored
          /\ page' = [WriteAccount(page, account, "idle", "key-missing") EXCEPT !.hydratedFor = account]
          /\ Ends(r)
       \/ /\ Current(page, r) /\ account # None
          /\ account \notin {page.hydratedFor, page.lock}
          /\ keyStored
          /\ page' = WriteAccount(BeginFlight(page, r, account), account, Kept(page), "checking")
          /\ runs' = (runs \ {r}) \cup {[r EXCEPT !.pc = "lookup", !.account = account]}

\* lookupParticipation answers; the receipt is loaded without an await.
Lookup(r) ==
    /\ r.pc = "lookup"
    /\ UNCHANGED left
    /\ \/ /\ ~Current(page, r)
          /\ page' = EndFlight(page, r)
          /\ Ends(r)
       \/ /\ Current(page, r)
          /\ LET ready == WriteAccount(page, r.account, Kept(page), "ready")
             IN  IF stored[r.account] = 0
                 THEN page' = EndFlight(MarkHydrated(ready, r), r) /\ Ends(r)
                 ELSE /\ page' = ready
                      /\ runs' = (runs \ {r}) \cup
                             {[r EXCEPT !.pc = "receipt", !.receipt = stored[r.account]]}

\* checkReceipt answers, with whatever status.
CheckReceipt(r) ==
    /\ r.pc = "receipt"
    /\ UNCHANGED left
    /\ page' = EndFlight(IF Current(page, r)
                         THEN MarkHydrated(WriteReceipt(page, r.account, r.receipt), r)
                         ELSE page, r)
    /\ Ends(r)

\* The wallet or the chain does not answer a run.
RunFails(r) ==
    /\ r.pc \in {"peek", "lookup"}
    /\ left.troubles > 0
    /\ left' = [left EXCEPT !.troubles = @ - 1]
    /\ page' = IF r.pc = "peek"
               THEN IF Current(page, r) THEN WriteProbeError(page) ELSE page
               ELSE EndFlight(IF Current(page, r)
                              THEN WriteAccount(page, r.account, "idle", "lookup-failed")
                              ELSE page, r)
    /\ Ends(r)

Hydration ==
    \E r \in runs :
        /\ Peek(r) \/ Lookup(r) \/ CheckReceipt(r) \/ RunFails(r)
        /\ UNCHANGED <<chain, account, events, storage, flow>>

-----------------------------------------------------------------------------
(* The wallet changes, the page hears of it, the page is loaded again.     *)

Switch(a) ==
    /\ left.switches > 0
    /\ a # account
    /\ account' = a
    /\ events' = events + 1
    /\ left' = [left EXCEPT !.switches = @ - 1]
    /\ UNCHANGED <<chain, storage, page, runs, flow>>

\* reset(): accountsChanged or chainChanged.
Reset ==
    /\ events > 0
    /\ events' = events - 1
    /\ page' = [InvalidateFlight(page) EXCEPT
                   !.generation = @ + 1, !.operation = @ + 1, !.hydratedFor = None,
                   !.receipt = 0, !.receiptOf = None,
                   !.shown = None, !.status = "idle", !.participation = "checking"]
    /\ Hydrate(page', runs)
    /\ UNCHANGED <<chain, account, storage, flow, left>>

IdleFlow == [pc |-> "idle", account |-> None, leaf |-> 0, tx |-> 0]

Reload ==
    /\ left.troubles > 0
    /\ left' = [left EXCEPT !.troubles = @ - 1]
    /\ page' = InitPage
    /\ Hydrate(InitPage, {})
    /\ flow' = IdleFlow
    /\ events' = 0
    /\ UNCHANGED <<chain, account, storage>>

-----------------------------------------------------------------------------
(* The vote flow.                                                          *)

\* onProgress.
Report(p, shown, status) ==
    IF p.active = p.generation THEN [p EXCEPT !.shown = shown, !.status = status] ELSE p

\* assertCurrent.
IsCurrent == page.active = page.generation /\ account = flow.account

\* The finally of vote(): the lock is released and a fresh hydration starts.
Finish(p) ==
    /\ flow' = IdleFlow
    /\ page' = [p EXCEPT !.busy = FALSE, !.hydratedFor = None]
    /\ Hydrate(page', runs)

Fail ==
    /\ Finish(Report(page, flow.account, "idle"))
    /\ UNCHANGED chain

Goes(next) == flow' = [flow EXCEPT !.pc = next]
Stays == UNCHANGED <<page, runs>>

\* vote(), up to the first await of the flow.
Vote ==
    /\ flow.pc = "idle" /\ ~page.busy
    /\ left.votes > 0
    /\ left' = [left EXCEPT !.votes = @ - 1]
    /\ page' = [InvalidateFlight(page) EXCEPT
                   !.busy = TRUE, !.operation = @ + 1, !.active = page.generation,
                   !.shown = None, !.status = "connecting"]
    /\ flow' = [IdleFlow EXCEPT !.pc = "session"]
    /\ UNCHANGED <<chain, account, events, storage, runs>>

\* getWallet: a wallet that shows no account asks for one, and says so.
Account(next) ==
    /\ IF account = None
       THEN account' \in Accounts /\ events' = events + 1
       ELSE UNCHANGED <<account, events>>
    /\ flow' = [flow EXCEPT !.pc = next, !.account = account']
    /\ Stays
    /\ UNCHANGED <<chain, storage, left>>

Session == flow.pc = "session" /\ Account("begin")

\* getSession checks the wallet again and takes the device's key.
Begin ==
    /\ flow.pc = "begin"
    /\ \/ /\ IsCurrent
          /\ keyStored' = TRUE
          /\ page' = Report(page, flow.account, "connecting")
          /\ Goes("lookup")
          /\ UNCHANGED <<chain, stored, runs>>
       \/ ~IsCurrent /\ Fail /\ UNCHANGED storage

\* getSignedupUserData.
LookupSignUp ==
    /\ flow.pc = "lookup"
    /\ Goes(IF IndexOf("signUp", Own) = 0 THEN "signUp" ELSE "member")
    /\ Stays /\ UNCHANGED <<chain, storage>>

SignUp ==
    /\ flow.pc = "signUp"
    /\ \/ /\ IsCurrent
          /\ page' = Report(page, flow.account, "signing-up")
          /\ Send("signUp", 0, "awaitSignUp")
          /\ UNCHANGED runs
       \/ ~IsCurrent /\ Fail
    /\ UNCHANGED storage

SignedUp ==
    /\ flow.pc = "awaitSignUp"
    /\ Waited
    /\ \/ /\ Succeeded /\ IndexInBlock("signUp", outcome[flow.tx].block) > 0
          /\ Goes("member")
          /\ Stays /\ UNCHANGED chain
       \/ ~Succeeded /\ Fail
    /\ UNCHANGED storage

\* Membership is recovered from the chain before a join is tried.
LookupMember ==
    /\ flow.pc = "member"
    /\ \/ /\ IsCurrent
          /\ flow' = [flow EXCEPT !.leaf = LookupJoined,
                                  !.pc = IF LookupJoined = 0 THEN "join" ELSE "publish"]
          /\ Stays /\ UNCHANGED chain
       \/ ~IsCurrent /\ Fail
    /\ UNCHANGED storage

\* The dry run, the witness, the nullifier, and the one join transaction.
Join ==
    /\ flow.pc = "join"
    /\ \/ /\ IsCurrent
          /\ page' = Report(page, flow.account, "joining")
          /\ IF JoinedIndex = 0
             THEN Send("join", 0, "awaitJoin")
             ELSE Goes("recover") /\ UNCHANGED chain
          /\ UNCHANGED runs
       \/ ~IsCurrent /\ Fail
    /\ UNCHANGED storage

Joined ==
    /\ flow.pc = "awaitJoin"
    /\ Waited
    /\ \/ /\ Succeeded
          /\ flow' = [flow EXCEPT !.pc = "publish",
                                  !.leaf = IndexInBlock("join", outcome[flow.tx].block)]
       \/ ~Succeeded /\ Goes("recover")
    /\ Stays /\ UNCHANGED <<chain, storage>>

\* joinPoll threw: only the membership the chain knows counts.
Recover ==
    /\ flow.pc = "recover"
    /\ \/ /\ LookupJoined > 0
          /\ flow' = [flow EXCEPT !.pc = "publish", !.leaf = LookupJoined]
          /\ Stays /\ UNCHANGED chain
       \/ LookupJoined = 0 /\ Fail
    /\ UNCHANGED storage

Publish ==
    /\ flow.pc = "publish"
    /\ \/ /\ IsCurrent
          /\ page' = Report(page, flow.account, "voting")
          /\ Send("vote", flow.leaf, "awaitVote")
          /\ UNCHANGED runs
       \/ ~IsCurrent /\ Fail
    /\ UNCHANGED storage

\* Slip: the receipt is filed for the account the wallet is on when it comes.
FiledForWallet == account

\* The account of the context captured when the submission started.
FiledFor == flow.account

\* onReceipt: saved under the captured context, if the storage takes it; shown
\* if no wallet event came; then success is reported.
Published ==
    /\ flow.pc = "awaitVote"
    /\ Waited
    /\ \/ /\ stored' = IF FiledFor = None THEN stored ELSE [stored EXCEPT ![FiledFor] = flow.tx]
          /\ UNCHANGED left
       \/ /\ left.troubles > 0
          /\ left' = [left EXCEPT !.troubles = @ - 1]
          /\ UNCHANGED stored
    /\ LET live == page.active = page.generation
           receipted == IF live THEN [page EXCEPT !.receipt = flow.tx, !.receiptOf = FiledFor] ELSE page
       IN  Finish(Report(receipted, flow.account, "voted"))
    /\ UNCHANGED <<chain, keyStored>>

\* A read, the user or the confirmation of a transaction fails the step; what
\* was sent stays sent.  Inside the try around joinPoll membership is looked
\* up before the flow gives up.
FlowFails ==
    /\ flow.pc \notin {"idle", "begin", "connect", "connected"}
    /\ left.troubles > 0
    /\ left' = [left EXCEPT !.troubles = @ - 1]
    /\ IF flow.pc \in {"join", "awaitJoin"}
       THEN Goes("recover") /\ Stays /\ UNCHANGED chain
       ELSE Fail
    /\ UNCHANGED storage

Flow ==
    \/ /\ \/ Begin \/ LookupSignUp \/ SignUp \/ SignedUp \/ LookupMember
          \/ Join \/ Joined \/ Recover \/ Publish
       /\ UNCHANGED <<account, events, left>>
    \/ /\ Published \/ FlowFails
       /\ UNCHANGED <<account, events>>
    \/ Vote \/ Session

-----------------------------------------------------------------------------
(* connect().                                                              *)

Connect ==
    /\ flow.pc = "idle" /\ ~page.busy
    /\ left.troubles > 0
    /\ left' = [left EXCEPT !.troubles = @ - 1]
    /\ page' = [page EXCEPT !.busy = TRUE, !.active = page.generation,
                            !.shown = None, !.status = "connecting"]
    /\ flow' = [IdleFlow EXCEPT !.pc = "connect"]
    /\ UNCHANGED <<chain, account, events, storage, runs>>

Pick == flow.pc = "connect" /\ Account("connected")

\* The finally of connect() starts a hydration only if no wallet event came.
Connected ==
    /\ flow.pc = "connected"
    /\ IF page.active = page.generation
       THEN Finish(Report(page, flow.account, "idle"))
       ELSE /\ page' = [page EXCEPT !.busy = FALSE]
            /\ flow' = IdleFlow
            /\ UNCHANGED runs
    /\ UNCHANGED <<chain, account, events, storage, left>>

-----------------------------------------------------------------------------
Init ==
    /\ block = 1 /\ filled = 0 /\ votes = {} /\ pool = {}
    /\ log = [i \in 1..Cardinality(Others) |->
                 [what |-> "signUp", key |-> SetToSeq(Others)[i], block |-> 0]]
    /\ outcome = << >>
    /\ account \in Accounts \cup {None}
    /\ events = 0
    /\ keyStored = FALSE
    /\ stored = [a \in Accounts |-> 0]
    /\ page = InitPage
    /\ runs = {Run(InitPage, {})}
    /\ flow = IdleFlow
    /\ left = [switches |-> MaxSwitches, votes |-> MaxVotes, troubles |-> MaxTroubles]

Next ==
    \/ \E tx \in pool : MineOwn(tx)
    \/ \E key \in Others : MineOther(key)
    \/ Seal
    \/ Hydration
    \/ \E a \in Accounts \cup {None} : Switch(a)
    \/ Reset \/ Reload
    \/ Flow
    \/ Connect \/ Pick \/ Connected

Spec == Init /\ [][Next]_vars

\* The accounts are alike.
Symmetry == Permutations(Accounts)

-----------------------------------------------------------------------------
(* A vote names the leaf its key was given in the poll or, of the leaves   *)
(* given to others, one that was given in the same block before it: no     *)
(* lookup, recovery or second visit finds any other.  With another leaf    *)
(* than its own the coordinator finds the signature invalid and the vote   *)
(* is not counted, whatever its receipt says.                              *)
OwnLeafOrOneBefore ==
    \A vote \in votes : \E own, place \in Of("join") :
        /\ log[own].key = Own
        /\ log[place].block = log[own].block /\ place <= own
        /\ vote.leaf = Number("join", place)

(* browser/joinPoll.ts:47, "The poll state index of the joined user": a    *)
(* vote names its own leaf.                                                *)
OwnLeaf == \A vote \in votes : vote.leaf = IndexOf("join", Own)

(* The receipt kept or shown for an account is of a vote that account sent:*)
(* switching wallets while a vote is being submitted never files it under  *)
(* the other account.                                                      *)
ReceiptOfTheSender ==
    /\ \A a \in Accounts :
           stored[a] # 0 => \E vote \in votes : vote.id = stored[a] /\ vote.from = a
    /\ page.receipt # 0 =>
           \E vote \in votes : vote.id = page.receipt /\ vote.from = page.receiptOf

(* A hydration never puts an older receipt in the place of the one of a    *)
(* newer submission, not even one whose receipt could not be saved.        *)
NewestReceiptStays ==
    page.receipt # 0 /\ page'.receipt # 0 => page'.receipt >= page.receipt

(* Both: no step, of a hydration, a submission or the wallet, puts a       *)
(* receipt where it does not belong.                                       *)
ReceiptsStayRight == [][ReceiptOfTheSender' /\ NewestReceiptStays]_vars

(* A page with nothing left to do is not busy, says "ready" only of the     *)
(* wallet's account, shows no receipt of another, and holds no lock that a *)
(* hydration left behind.                                                  *)
AtRest == runs = {} /\ events = 0 /\ flow.pc = "idle"
RestShowsTheWallet ==
    AtRest =>
        /\ ~page.busy
        /\ page.participation = "ready" => page.shown = account
        /\ page.receiptOf \in {None, account}
        /\ page.lock = None

(* A page with nothing left to do has told the voter where they stand.     *)
RestIsSettled == AtRest => page.participation # "checking"
=============================================================================
