----------------------------- MODULE Enrolment -----------------------------
(***************************************************************************)
(* How a person becomes a voter under SelfEligibilityPolicy: the browser   *)
(* page (front-end Auth.tsx, eligibility/), the backend that checks the    *)
(* passport proof and signs a grant (backend eligibility/), and the policy *)
(* that lets an account with a grant join once.  The backend keeps its     *)
(* challenges in memory and works on several requests at a time; one       *)
(* action is what a request does between two awaits.  Time counts down:    *)
(* a challenge that has run out is refused everywhere until the next       *)
(* createChallenge removes it, so it is dropped when it runs out.          *)
(***************************************************************************)
EXTENDS Naturals, FiniteSets

CONSTANTS
    Accounts,       \* the wallet accounts of one browser
    People,         \* holders of a passport, by nullifier
    Ids,            \* challenge ids, drawn again once nothing uses them
    None,
    Capacity,       \* of the challenge store (500)
    Window,         \* life of a challenge (300 s)
    Lifetime,       \* life of a grant (900 s by default)
    MaxLifetime,    \* MAX_LIFETIME of the policy (900 s)
    MaxTroubles     \* for model checking

ASSUME EnrolmentAssumption ==
    /\ {Capacity, Window, Lifetime, MaxLifetime} \subseteq Nat \ {0}
    /\ Lifetime <= MaxLifetime
    /\ MaxTroubles \in Nat
    /\ None \notin People

VARIABLES
    sessions,   \* challenge and progress by id: entries and sessions of the backend
    tasks,      \* pages and requests under way
    record,     \* the grant in sessionStorage
    pending,    \* join transactions that are not in a block yet
    enrolled,   \* who was let in by the policy
    troubles    \* how often somebody was late, scanned again, a call failed, a page or the
                \* backend restarted

vars == <<sessions, tasks, record, pending, enrolled, troubles>>
chain == <<pending, enrolled>>

\* What may happen at any time, but only so often.
Trouble == troubles < MaxTroubles /\ troubles' = troubles + 1

-----------------------------------------------------------------------------
(* The policy on chain. *)

EnrolledAccounts == {e.account : e \in enrolled}
EnrolledPeople == {e.person : e \in enrolled}

\* usedIdentityTags and usedAccounts.  The slip: only the account is looked up.
AccountUsed(g) == g.account \in EnrolledAccounts
Used(g) == g.account \in EnrolledAccounts \/ g.person \in EnrolledPeople

\* enforce; a grant is behind a block that is not older than it.
Enforceable(g) == /\ g.behind
                  /\ g.left > 0
                  /\ ~Used(g)

Useful(g) == g # None /\ g.left > 0 /\ ~Used(g)
Behind(g) == IF g = None THEN None ELSE [g EXCEPT !.behind = TRUE]

-----------------------------------------------------------------------------
(* The backend's store. *)

NewChallenge(a) ==
    [account |-> a, left |-> Window, begun |-> FALSE, busy |-> FALSE, claims |-> None,
     authorizing |-> FALSE, issued |-> None, signed |-> 0]

Live(id) == sessions[id] # None
Size == Cardinality({id \in Ids : Live(id)})
Unused(id) == ~Live(id) /\ \A t \in tasks : t.id # id

\* A grant for the claims of a session; the tag is a keyed hash of the nullifier.
Grant(id) ==
    [account |-> sessions[id].account, person |-> sessions[id].claims, id |-> id,
     left |-> Lifetime, behind |-> FALSE]

-----------------------------------------------------------------------------
(* Pages and requests.  A task whose page was closed has client FALSE. *)

Task(id, a, at) ==
    [id |-> id, account |-> a, at |-> at, proof |-> None, scan |-> 0, client |-> TRUE, grant |-> None]

AtServer == {"verify", "owner", "signing"}
\* The code shown for a challenge.
Shown(t) == {q \in tasks : t.client /\ q.id = t.id /\ q.at = "qr"}

\* A flow goes on to its next step, unless its page is gone and waits for nothing.
Goes(t, next) ==
    tasks' = (tasks \ {t}) \cup (IF t.client \/ next.at \in AtServer THEN {next} ELSE {})
\* It ends, with an error on the page: the code is no longer shown.
Ends(t) == tasks' = tasks \ ({t} \cup Shown(t))

-----------------------------------------------------------------------------
(* The page up to the code: POST challenge, personal_sign, POST begin. *)

\* Coming back to the page starts another flow, here one for another account.
Begin(a) ==
    /\ a \notin EnrolledAccounts /\ ~Useful(record)
    /\ \A t \in tasks : t.client => t.account # a
    /\ Size < Capacity
    /\ \E id \in Ids : Unused(id)
    /\ LET id == CHOOSE i \in Ids : Unused(i) IN
       /\ sessions' = [sessions EXCEPT ![id] = NewChallenge(a)]
       /\ tasks' = tasks \cup {Task(id, a, "sign")}
    /\ UNCHANGED <<record, chain, troubles>>

\* begin: the page sends it once and before anything else of this id, so nobody waits
\* for the lock of the entry, and its await is not shown.
BeginScan(t) ==
    /\ t.at = "sign"
    /\ IF Live(t.id)
       THEN /\ sessions' = [sessions EXCEPT ![t.id].begun = TRUE]
            /\ Goes(t, [t EXCEPT !.at = "qr"])
       ELSE Ends(t) /\ UNCHANGED sessions
    /\ UNCHANGED <<record, chain, troubles>>

-----------------------------------------------------------------------------
(* POST receive. *)

\* The bridge hands the page what a phone sent, anybody's and maybe more than once;
\* the page passes it on.  Two awaits follow, under the lock of the entry.
Scan(t, p) ==
    /\ t.at = "qr" /\ p \notin EnrolledPeople
    /\ IF t.scan > 0 THEN Trouble ELSE UNCHANGED troubles
    /\ IF Live(t.id) /\ ~sessions[t.id].busy /\ sessions[t.id].begun
       THEN /\ sessions' = [sessions EXCEPT ![t.id].busy = TRUE]
            /\ tasks' = (tasks \ {t}) \cup
                            {[t EXCEPT !.scan = @ + 1],
                             [t EXCEPT !.at = "verify", !.proof = p, !.scan = @ + 1]}
       ELSE Ends(t) /\ UNCHANGED sessions
    /\ UNCHANGED <<record, chain>>

\* The first verified result stays.  The slip: the last one does.
ReplaceClaims(id, proof) == proof
Claims(id, proof) == IF sessions[id].claims = None THEN proof ELSE sessions[id].claims

Receive(t) ==
    /\ t.at = "verify"
    /\ IF Live(t.id)
       THEN /\ sessions' = [sessions EXCEPT ![t.id].busy = FALSE, ![t.id].claims = Claims(t.id, t.proof)]
            /\ IF Claims(t.id, t.proof) = t.proof
               THEN Goes(t, [t EXCEPT !.at = "received"])
               ELSE Ends(t)
       ELSE Ends(t) /\ UNCHANGED sessions
    /\ UNCHANGED <<record, chain, troubles>>

-----------------------------------------------------------------------------
(* POST authorize, under a lock of its own. *)

\* The slip: any number at a time.
AnyAuthorizes(id) == Live(id)
MayAuthorize(id) == Live(id) /\ ~sessions[id].authorizing

AskGrant(t) ==
    /\ t.at = "received"
    /\ IF MayAuthorize(t.id)
       THEN /\ sessions' = [sessions EXCEPT ![t.id].authorizing = TRUE]
            /\ Goes(t, [t EXCEPT !.at = "owner"])
       ELSE Ends(t) /\ UNCHANGED sessions
    /\ UNCHANGED <<record, chain, troubles>>

\* The page stores the answer and takes the code away.
Answered(t, g) ==
    /\ record' = IF t.client THEN g ELSE record
    /\ Ends(t)

Authorize(t) ==
    /\ t.at = "owner"
    /\ \/ /\ ~Live(t.id)
          /\ Ends(t) /\ UNCHANGED <<sessions, record>>
       \/ /\ Live(t.id) /\ sessions[t.id].issued # None
          /\ sessions' = [sessions EXCEPT ![t.id].authorizing = FALSE]
          /\ Answered(t, sessions[t.id].issued)
       \/ /\ Live(t.id) /\ sessions[t.id].issued = None
          /\ Goes(t, [t EXCEPT !.at = "signing", !.grant = Grant(t.id)])
          /\ UNCHANGED <<sessions, record>>
    /\ UNCHANGED <<chain, troubles>>

Sign(t) ==
    /\ t.at = "signing"
    /\ IF Live(t.id)
       THEN /\ sessions' = [sessions EXCEPT ![t.id].authorizing = FALSE,
                                            ![t.id].issued = t.grant, ![t.id].signed = @ + 1]
            /\ Answered(t, t.grant)
       ELSE Ends(t) /\ UNCHANGED <<sessions, record>>
    /\ UNCHANGED <<chain, troubles>>

-----------------------------------------------------------------------------
(* Joining with the stored grant. *)

\* loadEligibilityForAccount, then the dry run as of the latest block.
Join(a) ==
    /\ record # None /\ record.account = a
    /\ Enforceable(record)
    /\ \A g \in pending : g.account # a
    /\ pending' = pending \cup {record}
    /\ UNCHANGED <<sessions, tasks, record, enrolled, troubles>>

\* A block, with some of the transactions; those the policy refuses are reverted.
Block ==
    /\ \/ UNCHANGED chain
       \/ \E g \in pending :
             /\ pending' = {Behind(h) : h \in pending \ {g}}
             /\ enrolled' = IF Enforceable(Behind(g))
                            THEN enrolled \cup {[account |-> g.account, person |-> g.person]}
                            ELSE enrolled
    /\ record' = Behind(record)
    /\ UNCHANGED <<sessions, tasks>>
    /\ UNCHANGED troubles

-----------------------------------------------------------------------------
(* Time, and what goes wrong. *)

Aged(g) == IF g = None \/ g.left = 0 THEN g ELSE [g EXCEPT !.left = @ - 1]

\* createChallenge removes what ran out.  The slip: a challenge does not run out.
KeepEntry(id) == IF Live(id) THEN [sessions[id] EXCEPT !.issued = Aged(@)] ELSE None
AgedEntry(id) ==
    IF Live(id) /\ sessions[id].left > 1
    THEN [sessions[id] EXCEPT !.left = @ - 1, !.issued = Aged(@)]
    ELSE None

\* Does a person come too late, with a proof or with a join?
TooLate ==
    \/ \E t \in tasks : Live(t.id) /\ sessions[t.id].left = 1
    \/ \E g \in pending \cup {record} : Useful(g) /\ g.left = 1

Tick ==
    /\ IF TooLate THEN Trouble ELSE UNCHANGED troubles
    /\ sessions' = [id \in Ids |-> AgedEntry(id)]
    /\ tasks' = {[t EXCEPT !.grant = Aged(@)] : t \in tasks}
    /\ record' = Aged(record)
    /\ pending' = {Aged(g) : g \in pending}
    /\ UNCHANGED enrolled

\* A call of the backend to a chain node, the verifier or the signer throws: finally
\* gives the lock back.
Fail(t) ==
    /\ Trouble
    /\ t.at \in AtServer
    /\ Ends(t)
    /\ sessions' =
           IF ~Live(t.id) THEN sessions
           ELSE IF t.at \in {"owner", "signing"} THEN [sessions EXCEPT ![t.id].authorizing = FALSE]
           ELSE [sessions EXCEPT ![t.id].busy = FALSE]
    /\ UNCHANGED <<record, chain>>

\* The page is loaded again, which keeps sessionStorage, or opened in a new tab.
Reload ==
    /\ Trouble
    /\ tasks' = {[t EXCEPT !.client = FALSE] : t \in {u \in tasks : u.at \in AtServer}}
    /\ record' \in {record, None}
    /\ UNCHANGED <<sessions, chain>>

\* The backend starts anew; its issuer key and tag secret are configured.
Crash ==
    /\ Trouble
    /\ sessions' = [id \in Ids |-> None]
    /\ tasks' = {t \in tasks : t.at \notin AtServer
                              /\ ~\E u \in tasks : u.at \in AtServer /\ t \in Shown(u)}
    /\ UNCHANGED <<record, chain>>

-----------------------------------------------------------------------------
Init ==
    /\ sessions = [id \in Ids |-> None]
    /\ tasks = {}
    /\ record = None
    /\ pending = {} /\ enrolled = {}
    /\ troubles = 0

Request(t) == BeginScan(t) \/ Receive(t) \/ AskGrant(t) \/ Authorize(t) \/ Sign(t)

Next ==
    \/ \E a \in Accounts : Begin(a) \/ Join(a)
    \/ \E t \in tasks : Request(t) \/ Fail(t)
    \/ \E t \in tasks, p \in People : Scan(t, p)
    \/ Block \/ Tick \/ Reload \/ Crash

Spec == Init /\ [][Next]_vars

\* Requests go on and are sent, time and blocks pass; the users of the accounts try
\* again, and people scan the codes they are shown.
FairSpec ==
    /\ Spec
    /\ WF_vars(\E t \in tasks : Request(t))
    /\ WF_vars(\E t \in tasks, p \in People : Scan(t, p))
    /\ \A a \in Accounts : WF_vars(Begin(a)) /\ WF_vars(Join(a))
    /\ WF_vars(Block /\ pending' # pending) /\ WF_vars(Block) /\ WF_vars(Tick)

-----------------------------------------------------------------------------
Grants == [account : Accounts, person : People, id : Ids, left : 0..Lifetime, behind : BOOLEAN]
ASSUME NoneIsNoGrant == None \notin Grants
Sessions ==
    [account : Accounts, left : 1..Window, begun : BOOLEAN, busy : BOOLEAN,
     claims : People \cup {None}, authorizing : BOOLEAN, issued : Grants \cup {None}, signed : Nat]
Tasks ==
    [id : Ids, account : Accounts, at : {"sign", "qr", "received"} \cup AtServer,
     proof : People \cup {None}, scan : Nat, client : BOOLEAN, grant : Grants \cup {None}]

TypeOK ==
    /\ sessions \in [Ids -> Sessions \cup {None}]
    /\ tasks \subseteq Tasks
    /\ record \in Grants \cup {None}
    /\ pending \subseteq Grants
    /\ enrolled \subseteq [account : Accounts, person : People]
    /\ troubles \in Nat

(* A person votes with one account and an account for one person: the grants that
   two challenges have got for a passport are good for one join between them. *)
OneEnrolment ==
    \A d, e \in enrolled : (d.account = e.account \/ d.person = e.person) => d = e

(* Two grants of one challenge would share its nonce: requests that come twice are
   answered with the grant that was signed first. *)
OneGrantPerChallenge == \A id \in Ids : Live(id) => sessions[id].signed <= 1

(* The grant a page stores is the one its own scan has earned, for the account that
   signed its challenge, and has not run out, whatever other scans the same code got. *)
StoresWhatWasEarned ==
    [][record' \notin {None, record, Behind(record), Aged(record)} =>
          /\ record'.left > 0
          /\ \E t \in tasks : /\ t.id = record'.id /\ t.client
                              /\ t.account = record'.account /\ t.proof = record'.person]_vars

(* Expired challenges, lost pages, restarts and failed calls only cost another try:
   as long as there are people who are not enrolled, every account gets to be. *)
EventuallyEnrolled ==
    \A a \in Accounts : <>(a \in EnrolledAccounts \/ People \subseteq EnrolledPeople)
=============================================================================
