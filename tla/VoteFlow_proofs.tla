-------------------------- MODULE VoteFlow_proofs --------------------------
(***************************************************************************)
(* Proofs about VoteFlow, for any accounts, voters and bounds.             *)
(***************************************************************************)
EXTENDS VoteFlow, FiniteSetTheorems, WellFoundedInduction, TLAPS

-----------------------------------------------------------------------------
(* Types of the page, of its hydrations and of what is running.            *)

Someone == Accounts \cup {None}
Voting == {"session", "begin", "lookup", "signUp", "awaitSignUp", "member", "join",
           "awaitJoin", "recover", "publish", "awaitVote"}
Stages == Voting \cup {"idle", "connect", "connected"}

Statuses == {"idle", "connecting", "signing-up", "joining", "voting", "voted"}
Participations == {"checking", "disconnected", "lookup-failed", "key-missing", "ready"}

PageType ==
    [generation : Nat, operation : Nat, active : Nat, busy : BOOLEAN,
     shown : Someone, status : Statuses, participation : Participations,
     receipt : Nat, receiptOf : Someone,
     hydratedFor : Someone, lock : Someone, owner : Nat]
RunType(i) ==
    [id : {i}, pc : {"peek", "lookup", "receipt"}, generation : Nat, operation : Nat,
     account : Someone, receipt : Nat]
FlowType == [pc : Stages, account : Someone, leaf : Nat, tx : Nat]

Typed ==
    /\ account \in Someone
    /\ events \in Nat
    /\ page \in PageType
    /\ \A r \in runs : r \in RunType(r.id) /\ (r.pc # "peek" => r.account \in Accounts)
    /\ flow \in FlowType
    /\ stored \in [Accounts -> Nat]

-----------------------------------------------------------------------------
(* What the page is told.                                                  *)

(* A new run starts at its first step, in the context of the page. *)
LEMMA NewRun ==
    ASSUME NEW p \in PageType, NEW others
    PROVE  /\ Run(p, others) \in RunType(Run(p, others).id)
           /\ Run(p, others).pc = "peek"
           /\ Run(p, others).generation = p.generation
           /\ Run(p, others).operation = p.operation
<1> DEFINE i == CHOOSE i \in 1..(Cardinality(others) + 1) : \A r \in others : r.id # i
<1>1. PICK n : n = i
  OBVIOUS
<1> HIDE DEF i
<1>2. Run(p, others) = [id |-> n, pc |-> "peek", generation |-> p.generation,
                        operation |-> p.operation, account |-> None, receipt |-> 0]
  BY <1>1 DEF Run, i
<1>3. p.generation \in Nat /\ p.operation \in Nat
  BY DEF PageType
<1> QED
  BY <1>2, <1>3 DEF RunType, Someone

(* A run that goes on has its context still. *)
LEMMA RunGoes ==
    ASSUME NEW r, r \in RunType(r.id), NEW pc \in {"peek", "lookup", "receipt"},
           NEW a \in Someone, NEW n \in Nat,
           NEW s, s = [r EXCEPT !.pc = pc, !.account = a, !.receipt = n]
    PROVE  /\ s \in RunType(s.id)
           /\ s.pc = pc /\ s.account = a /\ s.receipt = n
           /\ s.generation = r.generation /\ s.operation = r.operation
  BY DEF RunType

(* Two pages that differ in what is shown only. *)
ShowsLike(p, q) ==
    /\ p.generation = q.generation /\ p.operation = q.operation /\ p.active = q.active
    /\ p.lock = q.lock /\ p.owner = q.owner

LEMMA Reported ==
    ASSUME NEW p \in PageType, NEW a \in Someone, NEW status \in Statuses
    PROVE  /\ Report(p, a, status) \in PageType
           /\ ShowsLike(Report(p, a, status), p)
           /\ Report(p, a, status).busy = p.busy
           /\ Report(p, a, status).participation = p.participation
           /\ Report(p, a, status).receipt = p.receipt
           /\ Report(p, a, status).receiptOf = p.receiptOf
           /\ Report(p, a, status).hydratedFor = p.hydratedFor
           /\ p.active = p.generation =>
                 Report(p, a, status).shown = a /\ Report(p, a, status).status = status
           /\ p.active # p.generation => Report(p, a, status) = p
  BY DEF Report, PageType, ShowsLike

(* vote() and connect() end: the page is free, and a hydration starts. *)
LEMMA Finished ==
    ASSUME NEW p \in PageType, Finish(p)
    PROVE  /\ flow' = IdleFlow
           /\ page' \in PageType
           /\ ShowsLike(page', p)
           /\ ~page'.busy
           /\ page'.hydratedFor = None
           /\ page'.shown = p.shown /\ page'.status = p.status
           /\ page'.participation = p.participation
           /\ page'.receipt = p.receipt /\ page'.receiptOf = p.receiptOf
           /\ \E r : /\ runs' = runs \cup {r}
                     /\ r \in RunType(r.id) /\ r.pc = "peek"
                     /\ r.generation = p.generation /\ r.operation = p.operation
<1>1. page' = [p EXCEPT !.busy = FALSE, !.hydratedFor = None] /\ flow' = IdleFlow
  BY DEF Finish
<1>2. /\ page' \in PageType
      /\ ShowsLike(page', p)
      /\ ~page'.busy
      /\ page'.hydratedFor = None
      /\ page'.shown = p.shown /\ page'.status = p.status
      /\ page'.participation = p.participation
      /\ page'.receipt = p.receipt /\ page'.receiptOf = p.receiptOf
  BY <1>1 DEF PageType, ShowsLike, Someone
<1>3. runs' = runs \cup {Run(page', runs)}
  BY DEF Finish, Hydrate
<1>4. /\ Run(page', runs) \in RunType(Run(page', runs).id)
      /\ Run(page', runs).pc = "peek"
      /\ Run(page', runs).generation = page'.generation
      /\ Run(page', runs).operation = page'.operation
  BY <1>2, NewRun
<1> QED
  BY <1>1, <1>2, <1>3, <1>4 DEF ShowsLike

(* The end of a run gives up the lock if it is the run's. *)
LEMMA Released ==
    ASSUME NEW p \in PageType, NEW r
    PROVE  /\ EndFlight(p, r) \in PageType
           /\ EndFlight(p, r).generation = p.generation
           /\ EndFlight(p, r).operation = p.operation
           /\ EndFlight(p, r).active = p.active
           /\ EndFlight(p, r).busy = p.busy
           /\ EndFlight(p, r).shown = p.shown
           /\ EndFlight(p, r).status = p.status
           /\ EndFlight(p, r).participation = p.participation
           /\ EndFlight(p, r).receipt = p.receipt
           /\ EndFlight(p, r).receiptOf = p.receiptOf
           /\ EndFlight(p, r).hydratedFor = p.hydratedFor
           /\ \/ EndFlight(p, r).lock = None
              \/ /\ EndFlight(p, r).lock = p.lock /\ EndFlight(p, r).owner = p.owner
                 /\ ~(p.lock = r.account /\ p.owner = r.operation)
  BY DEF EndFlight, PageType, Someone

(* What the writes of a hydration change. *)
LEMMA AccountWritten ==
    ASSUME NEW p \in PageType, NEW a \in Someone, NEW status \in Statuses, NEW participation \in Participations,
           NEW q, q = WriteAccount(p, a, status, participation)
    PROVE  /\ q \in PageType
           /\ ShowsLike(q, p)
           /\ q.busy = p.busy /\ q.receipt = p.receipt /\ q.receiptOf = p.receiptOf
           /\ q.hydratedFor = p.hydratedFor
           /\ q.shown = a /\ q.status = status /\ q.participation = participation
  BY DEF WriteAccount, PageType, ShowsLike, Statuses, Participations

LEMMA HydratedMarked ==
    ASSUME NEW p \in PageType, NEW r, r.account \in Someone, NEW q, q = MarkHydrated(p, r)
    PROVE  /\ q \in PageType
           /\ ShowsLike(q, p)
           /\ q.busy = p.busy /\ q.receipt = p.receipt /\ q.receiptOf = p.receiptOf
           /\ q.hydratedFor = r.account
           /\ q.shown = p.shown /\ q.status = p.status /\ q.participation = p.participation
  BY DEF MarkHydrated, PageType, ShowsLike

LEMMA ReceiptWritten ==
    ASSUME NEW p \in PageType, NEW a \in Someone, NEW hash \in Nat, NEW q, q = WriteReceipt(p, a, hash)
    PROVE  /\ q \in PageType
           /\ ShowsLike(q, p)
           /\ q.busy = p.busy /\ q.hydratedFor = p.hydratedFor
           /\ q.shown = p.shown /\ q.status = p.status /\ q.participation = p.participation
           /\ \/ q.receipt = p.receipt /\ q.receiptOf = p.receiptOf
              \/ p.receipt \in {0, hash} /\ q.receipt = hash /\ q.receiptOf = a
  BY DEF WriteReceipt, PageType, ShowsLike

-----------------------------------------------------------------------------
(* The page and the wallet.                                                *)

Fresh(r) == r.operation = page.operation
\* A wallet event came since the flow began.
Overtaken == page.busy /\ page.active # page.generation

BusyWhileFlowing == page.busy <=> flow.pc # "idle"

Generations ==
    /\ page.active <= page.generation
    /\ \A r \in runs : r.operation <= page.operation /\ (Fresh(r) => r.generation = page.generation)

InFlightIsLive == page.status \in InFlight => page.busy /\ ~Overtaken

\* The holder of the lock is about to give it up.
LocksAreHeld ==
    page.lock # None =>
        /\ page.owner = page.operation
        /\ \E r \in runs : r.pc # "peek" /\ r.account = page.lock /\ Fresh(r)

\* While a vote is being submitted no hydration begins.
NoneBegins == flow.pc \in Voting \/ Overtaken => \A r \in runs : Fresh(r) => r.pc = "peek"

OvertakenIsBlank == Overtaken => page.hydratedFor = None /\ page.participation = "checking"

\* Once the wallet's events are handled:
RunsOfTheWallet == \A r \in runs : Fresh(r) /\ r.pc # "peek" => r.account = account /\ account # None
FlowOfTheWallet ==
    page.busy /\ ~Overtaken /\ flow.pc \notin {"session", "connect"} => flow.account = account
HydratedIsShown ==
    page.hydratedFor # None => page.hydratedFor = account /\ (~page.busy => page.shown = account)
ReceiptOfTheWallet == page.receiptOf \in {None, account}
CheckedIsShown ==
    ~page.busy => \A r \in runs : Fresh(r) /\ r.pc = "receipt" => page.shown = account
ReadyIsShown ==
    ~page.busy /\ page.participation = "ready" =>
        page.shown = account \/ \E r \in runs : Fresh(r) /\ r.pc \in {"peek", "lookup"}

InStep ==
    /\ BusyWhileFlowing
    /\ Generations
    /\ InFlightIsLive
    /\ LocksAreHeld
    /\ NoneBegins
    /\ OvertakenIsBlank

OfTheWallet ==
    /\ RunsOfTheWallet
    /\ FlowOfTheWallet
    /\ HydratedIsShown
    /\ ReceiptOfTheWallet
    /\ CheckedIsShown
    /\ ReadyIsShown

PageInv == InStep /\ (events = 0 => OfTheWallet)

(* A run is current just if nothing is running and it is of the page's context. *)
LEMMA CurrentRuns ==
    ASSUME Typed, InStep, NEW r \in runs
    PROVE  Current(page, r) <=> ~page.busy /\ Fresh(r)
  BY DEF Typed, InStep, Current, CurrentGeneration, Fresh, Generations, InFlightIsLive, RunType, PageType

(* What a run leaves behind when it ends: the page holds no lock of its. *)
LEMMA RunEnds ==
    ASSUME Typed, InStep, NEW r \in runs, runs' = runs \ {r},
           page' \in PageType,
           page'.generation = page.generation, page'.operation = page.operation,
           page'.active = page.active, page'.busy = page.busy,
           page'.status \in InFlight => page'.status = page.status,
           \/ page'.lock = None
           \/ /\ page'.lock = page.lock /\ page'.owner = page.owner
              /\ r.pc = "peek" \/ ~(page.lock = r.account /\ page.owner = r.operation),
           Overtaken => page'.hydratedFor = page.hydratedFor /\ page'.participation = page.participation,
           UNCHANGED flow
    PROVE  InStep'
<1> USE DEF InStep
<1>1. BusyWhileFlowing'
  BY DEF BusyWhileFlowing
<1>2. Generations'
  BY DEF Generations, Fresh
<1>3. InFlightIsLive'
  BY DEF InFlightIsLive, Overtaken
<1>4. LocksAreHeld'
  BY DEF LocksAreHeld, Fresh
<1>5. NoneBegins'
  BY DEF NoneBegins, Fresh, Overtaken
<1>6. OvertakenIsBlank'
  BY DEF OvertakenIsBlank, Overtaken
<1> QED
  BY <1>1, <1>2, <1>3, <1>4, <1>5, <1>6

(* A run that is not current ends: all it may change is that its lock is free. *)
LEMMA StaleEnds ==
    ASSUME Typed, PageInv, NEW r \in runs, ~Current(page, r),
           runs' = runs \ {r}, page' = EndFlight(page, r) \/ (r.pc = "peek" /\ page' = page),
           UNCHANGED <<account, events, flow, stored>>
    PROVE  Typed' /\ PageInv'
<1>1. page \in PageType
  BY DEF Typed
<1>2. /\ page' \in PageType
      /\ page'.generation = page.generation /\ page'.operation = page.operation
      /\ page'.active = page.active /\ page'.busy = page.busy
      /\ page'.shown = page.shown /\ page'.status = page.status
      /\ page'.participation = page.participation
      /\ page'.receipt = page.receipt /\ page'.receiptOf = page.receiptOf
      /\ page'.hydratedFor = page.hydratedFor
      /\ \/ page'.lock = None
         \/ /\ page'.lock = page.lock /\ page'.owner = page.owner
            /\ r.pc = "peek" \/ ~(page.lock = r.account /\ page.owner = r.operation)
  <2>1. CASE page' = EndFlight(page, r)
    <3> DEFINE p == EndFlight(page, r)
    <3>1. /\ p \in PageType
          /\ p.generation = page.generation /\ p.operation = page.operation
          /\ p.active = page.active /\ p.busy = page.busy
          /\ p.shown = page.shown /\ p.status = page.status
          /\ p.participation = page.participation
          /\ p.receipt = page.receipt /\ p.receiptOf = page.receiptOf
          /\ p.hydratedFor = page.hydratedFor
          /\ \/ p.lock = None
             \/ /\ p.lock = page.lock /\ p.owner = page.owner
                /\ ~(page.lock = r.account /\ page.owner = r.operation)
      BY <1>1, Released
    <3> HIDE DEF p
    <3>2. page' = p
      BY <2>1 DEF p
    <3> QED
      BY <3>1, <3>2
  <2>2. CASE r.pc = "peek" /\ page' = page
    BY <2>2, <1>1
  <2> QED
    BY <2>1, <2>2
<1>3. Typed'
  BY <1>2 DEF Typed
<1>4. InStep'
  BY <1>2, RunEnds DEF PageInv
<1>5. ~page.busy => ~Fresh(r)
  BY CurrentRuns DEF PageInv
<1>6. ASSUME events = 0
      PROVE  OfTheWallet'
  <2>1. OfTheWallet
    BY <1>6 DEF PageInv
  <2>2. RunsOfTheWallet' /\ FlowOfTheWallet' /\ HydratedIsShown' /\ ReceiptOfTheWallet' /\ CheckedIsShown'
    BY <1>2, <2>1 DEF OfTheWallet, RunsOfTheWallet, FlowOfTheWallet, HydratedIsShown, ReceiptOfTheWallet,
                      CheckedIsShown, Fresh, Overtaken
  <2>3. ReadyIsShown'
    BY <1>2, <1>5, <2>1 DEF OfTheWallet, ReadyIsShown, Fresh
  <2> QED
    BY <2>2, <2>3 DEF OfTheWallet
<1> QED
  BY <1>3, <1>4, <1>6 DEF PageInv

(* A current run ends after it has written what is so of the wallet's account; ready is
   what it shows then. *)
LEMMA CurrentEnds ==
    ASSUME Typed, PageInv, NEW r \in runs, Current(page, r), runs' = runs \ {r},
           page' \in PageType,
           page'.generation = page.generation, page'.operation = page.operation,
           page'.active = page.active, page'.busy = page.busy,
           page'.status \notin InFlight,
           \/ page'.lock = None
           \/ /\ page'.lock = page.lock /\ page'.owner = page.owner
              /\ r.pc = "peek" \/ ~(page.lock = r.account /\ page.owner = r.operation),
           UNCHANGED <<account, events, flow, stored>>,
           events = 0 =>
              /\ page'.hydratedFor # None => page'.hydratedFor = account /\ page'.shown = account
              /\ page'.receiptOf \in {None, account}
              /\ (\E s \in runs \ {r} : Fresh(s) /\ s.pc = "receipt") => page'.shown = account
              /\ page'.participation = "ready" =>
                    page'.shown = account \/ \E s \in runs \ {r} : Fresh(s) /\ s.pc \in {"peek", "lookup"}
    PROVE  Typed' /\ PageInv'
<1>1. ~page.busy /\ Fresh(r)
  BY CurrentRuns DEF PageInv
<1>2. ~Overtaken
  BY <1>1 DEF Overtaken
<1>3. Typed'
  BY DEF Typed
<1>4. InStep'
  BY <1>2, RunEnds DEF PageInv
<1>5. ASSUME events = 0
      PROVE  OfTheWallet'
  <2>1. OfTheWallet
    BY <1>5 DEF PageInv
  <2>2. RunsOfTheWallet' /\ FlowOfTheWallet'
    BY <1>1, <2>1 DEF OfTheWallet, RunsOfTheWallet, FlowOfTheWallet, Fresh, Overtaken
  <2>3. HydratedIsShown' /\ ReceiptOfTheWallet' /\ CheckedIsShown' /\ ReadyIsShown'
    BY <1>5 DEF HydratedIsShown, ReceiptOfTheWallet, CheckedIsShown, ReadyIsShown, Fresh
  <2> QED
    BY <2>2, <2>3 DEF OfTheWallet
<1> QED
  BY <1>3, <1>4, <1>5 DEF PageInv

(* A current run goes on to another await. *)
LEMMA CurrentGoes ==
    ASSUME Typed, PageInv, NEW r \in runs, Current(page, r),
           NEW s, s \in RunType(s.id), s.pc \in {"lookup", "receipt"},
           s.generation = r.generation, s.operation = r.operation,
           s.account \in Accounts, s.account # None, events = 0 => s.account = account,
           runs' = (runs \ {r}) \cup {s},
           page' \in PageType,
           page'.generation = page.generation, page'.operation = page.operation,
           page'.active = page.active, page'.busy = page.busy, page'.status \notin InFlight,
           \/ page'.lock = s.account /\ page'.owner = page.operation
           \/ page'.lock = page.lock /\ page'.owner = page.owner /\ r.account = s.account,
           page'.hydratedFor = page.hydratedFor, page'.receiptOf = page.receiptOf,
           page'.shown = s.account, 
           UNCHANGED <<account, events, flow, stored>>
    PROVE  Typed' /\ PageInv'
<1>1. ~page.busy /\ Fresh(r) /\ r.generation = page.generation
  BY CurrentRuns DEF PageInv, InStep, Generations
<1>2. ~Overtaken /\ ~Overtaken' /\ flow.pc = "idle"
  BY <1>1 DEF Overtaken, PageInv, InStep, BusyWhileFlowing
<1>3. Typed'
  BY DEF Typed
<1>4. InStep'
  <2> USE DEF PageInv, InStep
  <2>1. BusyWhileFlowing' /\ InFlightIsLive'
    BY <1>2 DEF BusyWhileFlowing, InFlightIsLive
  <2>2. Generations'
    BY <1>1 DEF Generations, Fresh
  <2>3. LocksAreHeld'
    BY <1>1 DEF LocksAreHeld, Fresh, RunType
  <2>4. NoneBegins' /\ OvertakenIsBlank'
    BY <1>2 DEF NoneBegins, OvertakenIsBlank, Voting
  <2> QED
    BY <2>1, <2>2, <2>3, <2>4
<1>5. ASSUME events = 0
      PROVE  OfTheWallet'
  <2>1. OfTheWallet
    BY <1>5 DEF PageInv
  <2>2. RunsOfTheWallet' /\ FlowOfTheWallet'
    BY <1>1, <1>5, <2>1 DEF OfTheWallet, RunsOfTheWallet, FlowOfTheWallet, Fresh, Overtaken
  <2>3. HydratedIsShown' /\ ReceiptOfTheWallet' /\ CheckedIsShown' /\ ReadyIsShown'
    BY <1>5, <2>1 DEF OfTheWallet, HydratedIsShown, ReceiptOfTheWallet, CheckedIsShown, ReadyIsShown
  <2> QED
    BY <2>2, <2>3 DEF OfTheWallet
<1> QED
  BY <1>3, <1>4, <1>5 DEF PageInv

LEMMA KeptIsOld == Kept(page) \in Statuses /\ Kept(page) \notin InFlight
<1>1. Kept(page) \in {"voted", "idle"}
  BY DEF Kept
<1>2. "voted" \notin InFlight /\ "idle" \notin InFlight
  BY DEF InFlight
<1> QED
  BY <1>1, <1>2 DEF Statuses

LEMMA PeekKeeps ==
    ASSUME Typed, PageInv, NEW r \in runs, Peek(r), UNCHANGED <<account, events, flow, stored>>
    PROVE  Typed' /\ PageInv'
<1>1. page \in PageType /\ r \in RunType(r.id) /\ r.pc = "peek" /\ account \in Someone
  BY DEF Typed, Peek
<1>2. Current(page, r) => ~page.busy /\ Fresh(r) /\ page.status \notin InFlight
  BY CurrentRuns DEF PageInv, Current, CurrentGeneration
<1>3. CASE ~Current(page, r)
  <2>1. runs' = runs \ {r} /\ page' = page
    BY <1>3 DEF Peek, Ends
  <2> QED
    BY <1>1, <1>3, <2>1, StaleEnds
<1>4. CASE Current(page, r) /\ account = None
  <2>1. runs' = runs \ {r} /\ page' = WriteDisconnected(page)
    BY <1>4 DEF Peek, Ends
  <2>2. /\ page' \in PageType
        /\ page'.generation = page.generation /\ page'.operation = page.operation
        /\ page'.active = page.active /\ page'.busy = page.busy
        /\ page'.status = "idle" /\ page'.participation = "disconnected"
        /\ page'.shown = None /\ page'.hydratedFor = None /\ page'.receiptOf = None
        /\ page'.lock = page.lock /\ page'.owner = page.owner
    <3>1. PICK q : q = WriteDisconnected(page)
      OBVIOUS
    <3>2. q = [page EXCEPT !.hydratedFor = None, !.shown = None, !.status = "idle",
                           !.participation = "disconnected", !.receipt = 0, !.receiptOf = None]
      BY <3>1 DEF WriteDisconnected
    <3>3. None \in Someone
      BY DEF Someone
    <3>4. /\ q \in PageType
          /\ q.generation = page.generation /\ q.operation = page.operation
          /\ q.active = page.active /\ q.busy = page.busy
          /\ q.status = "idle" /\ q.participation = "disconnected"
          /\ q.shown = None /\ q.hydratedFor = None /\ q.receiptOf = None
          /\ q.lock = page.lock /\ q.owner = page.owner
      BY <1>1, <3>2, <3>3 DEF PageType, Statuses, Participations
    <3> QED
      BY <2>1, <3>1, <3>4
  <2>3. "idle" \notin InFlight
    BY DEF InFlight
  <2>4. events = 0 => ~ \E s \in runs \ {r} : Fresh(s) /\ s.pc = "receipt"
    BY <1>4 DEF PageInv, OfTheWallet, RunsOfTheWallet
  <2> QED
    BY <1>1, <1>4, <2>1, <2>2, <2>3, <2>4, CurrentEnds
<1>5. CASE Current(page, r) /\ account # None /\ account \in {page.hydratedFor, page.lock}
  <2>1. runs' = runs \ {r} /\ page' = page
    BY <1>5 DEF Peek, Ends
  <2>2. ASSUME events = 0
        PROVE  /\ page.hydratedFor # None => page.hydratedFor = account /\ page.shown = account
               /\ page.receiptOf \in {None, account}
               /\ (\E s \in runs \ {r} : Fresh(s) /\ s.pc = "receipt") => page.shown = account
               /\ page.participation = "ready" =>
                     page.shown = account \/ \E s \in runs \ {r} : Fresh(s) /\ s.pc \in {"peek", "lookup"}
    <3>1. OfTheWallet
      BY <2>2 DEF PageInv
    <3>2. /\ page.hydratedFor # None => page.hydratedFor = account /\ page.shown = account
          /\ page.receiptOf \in {None, account}
          /\ (\E s \in runs \ {r} : Fresh(s) /\ s.pc = "receipt") => page.shown = account
      BY <1>2, <1>5, <3>1 DEF OfTheWallet, HydratedIsShown, ReceiptOfTheWallet, CheckedIsShown
    <3>3. CASE account = page.hydratedFor
      BY <3>2, <3>3, <1>5
    <3>4. CASE account = page.lock
      <4>1. PICK s \in runs : s.pc # "peek" /\ Fresh(s)
        BY <3>4, <1>5 DEF PageInv, InStep, LocksAreHeld
      <4>2. s.pc \in {"lookup", "receipt"} /\ s # r
        BY <4>1, <1>1 DEF Typed, RunType
      <4> QED
        BY <3>2, <4>1, <4>2
    <3> QED
      BY <3>2, <3>3, <3>4, <1>5
  <2> QED
    BY <1>1, <1>2, <1>5, <2>1, <2>2, CurrentEnds
<1>6. CASE Current(page, r) /\ account # None /\ account \notin {page.hydratedFor, page.lock} /\ ~keyStored
  <2>1. /\ runs' = runs \ {r}
        /\ page' = [WriteAccount(page, account, "idle", "key-missing") EXCEPT !.hydratedFor = account]
    BY <1>6 DEF Peek, Ends
  <2>2. PICK q : q = WriteAccount(page, account, "idle", "key-missing")
    OBVIOUS
  <2>3. /\ q \in PageType
        /\ ShowsLike(q, page)
        /\ q.busy = page.busy /\ q.receipt = page.receipt /\ q.receiptOf = page.receiptOf
        /\ q.shown = account /\ q.status = "idle" /\ q.participation = "key-missing"
    BY <1>1, <2>2 DEF WriteAccount, PageType, ShowsLike, Statuses, Participations
  <2>4. page' = [q EXCEPT !.hydratedFor = account]
    BY <2>1, <2>2
  <2>5. /\ page' \in PageType
        /\ page'.generation = page.generation /\ page'.operation = page.operation
        /\ page'.active = page.active /\ page'.busy = page.busy
        /\ page'.status = "idle" /\ page'.participation = "key-missing"
        /\ page'.shown = account /\ page'.hydratedFor = account /\ page'.receiptOf = page.receiptOf
        /\ page'.lock = page.lock /\ page'.owner = page.owner
    BY <1>1, <2>3, <2>4 DEF PageType, ShowsLike
  <2>6. "idle" \notin InFlight
    BY DEF InFlight
  <2>7. events = 0 => page.receiptOf \in {None, account}
    BY DEF PageInv, OfTheWallet, ReceiptOfTheWallet
  <2> QED
    BY <1>1, <1>6, <2>1, <2>5, <2>6, <2>7, CurrentEnds
<1>7. CASE Current(page, r) /\ account # None /\ account \notin {page.hydratedFor, page.lock} /\ keyStored
  <2>1. /\ page' = WriteAccount(BeginFlight(page, r, account), account, Kept(page), "checking")
        /\ runs' = (runs \ {r}) \cup {[r EXCEPT !.pc = "lookup", !.account = account]}
    BY <1>7 DEF Peek
  <2>2. PICK q : q = BeginFlight(page, r, account)
    OBVIOUS
  <2>3. /\ q \in PageType
        /\ q.generation = page.generation /\ q.operation = page.operation /\ q.active = page.active
        /\ q.busy = page.busy /\ q.receiptOf = page.receiptOf /\ q.hydratedFor = page.hydratedFor
        /\ q.lock = account /\ q.owner = r.operation
    BY <1>1, <2>2 DEF BeginFlight, PageType, RunType
  <2>4. page' = WriteAccount(q, account, Kept(page), "checking")
    BY <2>1, <2>2
  <2>5. /\ page' \in PageType
        /\ ShowsLike(page', q)
        /\ page'.busy = q.busy /\ page'.receiptOf = q.receiptOf /\ page'.hydratedFor = q.hydratedFor
        /\ page'.shown = account /\ page'.status = Kept(page)
    BY <1>1, <2>3, <2>4, KeptIsOld DEF WriteAccount, PageType, ShowsLike, Statuses, Participations
  <2>6. PICK s : s = [r EXCEPT !.pc = "lookup", !.account = account]
    OBVIOUS
  <2>7. /\ s \in RunType(s.id) /\ s.pc = "lookup" /\ s.account = account
        /\ s.generation = r.generation /\ s.operation = r.operation
    BY <1>1, <2>6 DEF RunType
  <2>8. runs' = (runs \ {r}) \cup {s}
    BY <2>1, <2>6
  <2>9. account \in Accounts /\ page.operation = r.operation
    BY <1>1, <1>2, <1>7 DEF Someone, Fresh
  <2> QED
    BY <1>7, <2>3, <2>5, <2>7, <2>8, <2>9, KeptIsOld, CurrentGoes DEF ShowsLike
<1> QED
  BY <1>3, <1>4, <1>5, <1>6, <1>7

LEMMA LookupKeeps ==
    ASSUME Typed, PageInv, NEW r \in runs, Lookup(r), UNCHANGED <<account, events, flow, stored>>
    PROVE  Typed' /\ PageInv'
<1>1. /\ page \in PageType /\ r \in RunType(r.id) /\ r.pc = "lookup"
      /\ r.account \in Accounts /\ r.account \in Someone /\ r.account # None
  BY VoteFlowAssumption DEF Typed, Lookup, Someone, None
<1>2. Current(page, r) => ~page.busy /\ Fresh(r)
  BY CurrentRuns DEF PageInv
<1>3. CASE ~Current(page, r)
  <2>1. page' = EndFlight(page, r) /\ runs' = runs \ {r}
    BY <1>3 DEF Lookup, Ends
  <2> QED
    BY <1>3, <2>1, StaleEnds
<1>4. CASE Current(page, r)
  <2>1. PICK q : q = WriteAccount(page, r.account, Kept(page), "ready")
    OBVIOUS
  <2>2. /\ q \in PageType
        /\ ShowsLike(q, page)
        /\ q.busy = page.busy /\ q.receiptOf = page.receiptOf /\ q.hydratedFor = page.hydratedFor
        /\ q.shown = r.account /\ q.status = Kept(page) /\ q.participation = "ready"
    BY <1>1, <2>1, KeptIsOld DEF WriteAccount, PageType, ShowsLike, Participations
  <2>3. events = 0 => r.account = account /\ account # None /\ page.receiptOf \in {None, account}
    BY <1>1, <1>2, <1>4 DEF PageInv, OfTheWallet, RunsOfTheWallet, ReceiptOfTheWallet
  <2>4. CASE stored[r.account] = 0
    <3>1. page' = EndFlight(MarkHydrated(q, r), r) /\ runs' = runs \ {r}
      BY <1>4, <2>1, <2>4 DEF Lookup, Ends
    <3>2. PICK p : p = MarkHydrated(q, r)
      OBVIOUS
    <3>3. /\ p \in PageType
          /\ ShowsLike(p, q)
          /\ p.busy = q.busy /\ p.receiptOf = q.receiptOf /\ p.hydratedFor = r.account
          /\ p.shown = q.shown /\ p.status = q.status /\ p.participation = q.participation
      BY <1>1, <2>2, <3>2, HydratedMarked
    <3>4. PICK e : e = EndFlight(p, r)
      OBVIOUS
    <3>5. /\ e \in PageType
          /\ e.generation = p.generation /\ e.operation = p.operation
          /\ e.active = p.active /\ e.busy = p.busy
          /\ e.shown = p.shown /\ e.status = p.status
          /\ e.receiptOf = p.receiptOf /\ e.hydratedFor = p.hydratedFor
          /\ \/ e.lock = None
             \/ /\ e.lock = p.lock /\ e.owner = p.owner
                /\ ~(p.lock = r.account /\ p.owner = r.operation)
      BY <3>3, <3>4, Released, ZenonT(30)
    <3>6. page' = e
      BY <3>1, <3>2, <3>4
    <3>7. /\ page' \in PageType
          /\ page'.generation = page.generation /\ page'.operation = page.operation
          /\ page'.active = page.active /\ page'.busy = page.busy
          /\ page'.shown = r.account /\ page'.status = Kept(page)
          /\ page'.receiptOf = page.receiptOf /\ page'.hydratedFor = r.account
          /\ \/ page'.lock = None
             \/ /\ page'.lock = page.lock /\ page'.owner = page.owner
                /\ ~(page.lock = r.account /\ page.owner = r.operation)
      BY <2>2, <3>3, <3>5, <3>6 DEF ShowsLike
    <3> QED
      BY <1>4, <2>3, <3>1, <3>7, KeptIsOld, CurrentEnds
  <2>5. CASE stored[r.account] # 0
    <3>1. /\ page' = q
          /\ runs' = (runs \ {r}) \cup {[r EXCEPT !.pc = "receipt", !.receipt = stored[r.account]]}
      BY <1>4, <2>1, <2>5 DEF Lookup
    <3>2. PICK s : s = [r EXCEPT !.pc = "receipt", !.receipt = stored[r.account]]
      OBVIOUS
    <3>3. stored[r.account] \in Nat
      BY <1>1 DEF Typed
    <3>4. /\ s \in RunType(s.id) /\ s.pc = "receipt" /\ s.account = r.account
          /\ s.generation = r.generation /\ s.operation = r.operation
      BY <1>1, <3>2, <3>3 DEF RunType
    <3>5. runs' = (runs \ {r}) \cup {s}
      BY <3>1, <3>2
    <3> QED
      BY <1>1, <1>4, <2>2, <2>3, <3>1, <3>4, <3>5, KeptIsOld, CurrentGoes DEF ShowsLike
  <2> QED
    BY <2>4, <2>5
<1> QED
  BY <1>3, <1>4

(* The lock goes with the run, whatever was written before. *)
LEMMA WritesAndEnds ==
    ASSUME Typed, PageInv, NEW r \in runs, r.account \in Someone, Current(page, r),
           runs' = runs \ {r},
           NEW p \in PageType, page' = EndFlight(p, r),
           ShowsLike(p, page), p.busy = page.busy, p.status \notin InFlight,
           UNCHANGED <<account, events, flow, stored>>,
           events = 0 =>
              /\ p.hydratedFor # None => p.hydratedFor = account /\ p.shown = account
              /\ p.receiptOf \in {None, account}
              /\ (\E s \in runs \ {r} : Fresh(s) /\ s.pc = "receipt") => p.shown = account
              /\ p.participation = "ready" =>
                    p.shown = account \/ \E s \in runs \ {r} : Fresh(s) /\ s.pc \in {"peek", "lookup"}
    PROVE  Typed' /\ PageInv'
<1>1. PICK e : e = EndFlight(p, r)
  OBVIOUS
<1>2. /\ e \in PageType
      /\ e.generation = p.generation /\ e.operation = p.operation
      /\ e.active = p.active /\ e.busy = p.busy
      /\ e.shown = p.shown /\ e.status = p.status /\ e.participation = p.participation
      /\ e.receiptOf = p.receiptOf /\ e.hydratedFor = p.hydratedFor
      /\ \/ e.lock = None
         \/ /\ e.lock = p.lock /\ e.owner = p.owner
            /\ ~(p.lock = r.account /\ p.owner = r.operation)
  BY ZenonT(60), <1>1, Released
<1>3. page' = e
  BY <1>1
<1>4. /\ page' \in PageType
      /\ page'.generation = page.generation /\ page'.operation = page.operation
      /\ page'.active = page.active /\ page'.busy = page.busy
      /\ page'.shown = p.shown /\ page'.status = p.status /\ page'.participation = p.participation
      /\ page'.receiptOf = p.receiptOf /\ page'.hydratedFor = p.hydratedFor
      /\ \/ page'.lock = None
         \/ /\ page'.lock = page.lock /\ page'.owner = page.owner
            /\ ~(page.lock = r.account /\ page.owner = r.operation)
  BY <1>2, <1>3 DEF ShowsLike
<1> QED
  BY <1>4, CurrentEnds

LEMMA CheckReceiptKeeps ==
    ASSUME Typed, PageInv, NEW r \in runs, CheckReceipt(r), UNCHANGED <<account, events, flow, stored>>
    PROVE  Typed' /\ PageInv'
<1>1. page \in PageType /\ r \in RunType(r.id) /\ r.pc = "receipt" /\ r.account \in Someone /\ r.receipt \in Nat
  BY DEF Typed, CheckReceipt, RunType
<1>2. Current(page, r) => ~page.busy /\ Fresh(r) /\ page.status \notin InFlight
  BY CurrentRuns DEF PageInv, Current, CurrentGeneration
<1>3. CASE ~Current(page, r)
  <2>1. page' = EndFlight(page, r) /\ runs' = runs \ {r}
    BY <1>3 DEF CheckReceipt, Ends
  <2> QED
    BY <1>3, <2>1, StaleEnds
<1>4. CASE Current(page, r)
  <2>1. PICK q : q = WriteReceipt(page, r.account, r.receipt)
    OBVIOUS
  <2>2. /\ q \in PageType
        /\ ShowsLike(q, page)
        /\ q.busy = page.busy /\ q.shown = page.shown /\ q.status = page.status
        /\ q.receiptOf \in {page.receiptOf, r.account}
    BY <1>1, <2>1, ReceiptWritten
  <2>3. PICK p : p = MarkHydrated(q, r)
    OBVIOUS
  <2>4. /\ p \in PageType
        /\ ShowsLike(p, q)
        /\ p.busy = q.busy /\ p.shown = q.shown /\ p.status = q.status
        /\ p.receiptOf = q.receiptOf /\ p.hydratedFor = r.account
    BY <1>1, <2>2, <2>3, HydratedMarked
  <2>5. page' = EndFlight(p, r) /\ runs' = runs \ {r}
    BY <1>4, <2>1, <2>3 DEF CheckReceipt, Ends
  <2>6. events = 0 => r.account = account /\ page.receiptOf \in {None, account} /\ page.shown = account
    BY <1>1, <1>2, <1>4 DEF PageInv, OfTheWallet, RunsOfTheWallet, ReceiptOfTheWallet, CheckedIsShown
  <2>7. ShowsLike(p, page)
    BY <2>2, <2>4 DEF ShowsLike
  <2> QED
    BY <1>1, <1>2, <1>4, <2>2, <2>4, <2>5, <2>6, <2>7, WritesAndEnds
<1> QED
  BY <1>3, <1>4

LEMMA RunFailsKeeps ==
    ASSUME Typed, PageInv, NEW r \in runs, RunFails(r), UNCHANGED <<account, events, flow, stored>>
    PROVE  Typed' /\ PageInv'
<1>1. page \in PageType /\ r \in RunType(r.id) /\ r.pc \in {"peek", "lookup"} /\ r.account \in Someone
  BY DEF Typed, RunFails, RunType
<1>2. Current(page, r) => ~page.busy /\ Fresh(r) /\ page.status \notin InFlight
  BY CurrentRuns DEF PageInv, Current, CurrentGeneration
<1>3. runs' = runs \ {r}
  BY DEF RunFails, Ends
<1>4. CASE ~Current(page, r)
  <2>1. \/ page' = EndFlight(page, r)
        \/ r.pc = "peek" /\ page' = page
    BY <1>1, <1>4 DEF RunFails
  <2> QED
    BY <1>3, <1>4, <2>1, StaleEnds
<1>5. CASE Current(page, r) /\ r.pc = "peek"
  <2>1. page' = WriteProbeError(page)
    BY <1>5 DEF RunFails
  <2>2. /\ page' \in PageType
        /\ page'.generation = page.generation /\ page'.operation = page.operation
        /\ page'.active = page.active /\ page'.busy = page.busy
        /\ page'.shown = page.shown /\ page'.status = page.status /\ page'.participation = "lookup-failed"
        /\ page'.receiptOf = page.receiptOf /\ page'.hydratedFor = page.hydratedFor
        /\ page'.lock = page.lock /\ page'.owner = page.owner
    BY <1>1, <2>1 DEF WriteProbeError, PageType, Participations
  <2>3. events = 0 =>
          /\ page.hydratedFor # None => page.hydratedFor = account /\ page.shown = account
          /\ page.receiptOf \in {None, account}
          /\ (\E s \in runs \ {r} : Fresh(s) /\ s.pc = "receipt") => page.shown = account
    BY <1>2, <1>5 DEF PageInv, OfTheWallet, HydratedIsShown, ReceiptOfTheWallet, CheckedIsShown
  <2> QED
    BY <1>2, <1>3, <1>5, <2>2, <2>3, CurrentEnds
<1>6. CASE Current(page, r) /\ r.pc = "lookup"
  <2>1. PICK p : p = WriteAccount(page, r.account, "idle", "lookup-failed")
    OBVIOUS
  <2>2. page' = EndFlight(p, r)
    BY <1>6, <2>1 DEF RunFails
  <2>3. /\ p \in PageType
        /\ ShowsLike(p, page)
        /\ p.busy = page.busy /\ p.receiptOf = page.receiptOf /\ p.hydratedFor = page.hydratedFor
        /\ p.shown = r.account /\ p.status = "idle" /\ p.participation = "lookup-failed"
    BY <1>1, <2>1 DEF WriteAccount, PageType, ShowsLike, Statuses, Participations
  <2>4. "idle" \notin InFlight
    BY DEF InFlight
  <2>5. events = 0 =>
          /\ r.account = account
          /\ page.hydratedFor # None => page.hydratedFor = account
          /\ page.receiptOf \in {None, account}
    BY <1>2, <1>6 DEF PageInv, OfTheWallet, RunsOfTheWallet, HydratedIsShown, ReceiptOfTheWallet
  <2> QED
    BY <1>1, <1>3, <1>6, <2>2, <2>3, <2>4, <2>5, WritesAndEnds
<1> QED
  BY <1>1, <1>4, <1>5, <1>6

-----------------------------------------------------------------------------
(* The flow, and what comes from outside.                                  *)

(* A vote on its way reports where it is; no hydration writes meanwhile. *)
LEMMA VoteGoes ==
    ASSUME Typed, PageInv, flow.pc \in Voting \ {"session"},
           flow' \in FlowType, flow'.pc \in Voting \ {"session"}, flow'.account = flow.account,
           \/ page' = page
           \/ \E status \in InFlight : page' = Report(page, flow.account, status),
           UNCHANGED <<runs, account, events, stored>>
    PROVE  Typed' /\ PageInv'
<1>1. page \in PageType /\ flow.account \in Someone
  BY DEF Typed, FlowType
<1>2. page.busy
  BY DEF PageInv, InStep, BusyWhileFlowing, Voting
<1>3. /\ page' \in PageType
      /\ ShowsLike(page', page)
      /\ page'.busy
      /\ page'.participation = page.participation
      /\ page'.receiptOf = page.receiptOf
      /\ page'.hydratedFor = page.hydratedFor
      /\ page.active # page.generation => page' = page
  <2>1. CASE page' = page
    BY <2>1, <1>1, <1>2 DEF ShowsLike
  <2>2. CASE page' # page
    <3>1. PICK status \in InFlight : page' = Report(page, flow.account, status)
      BY <2>2
    <3>2. status \in Statuses
      BY DEF InFlight, Statuses
    <3>3. PICK q : q = Report(page, flow.account, status)
      OBVIOUS
    <3>4. /\ q \in PageType
          /\ ShowsLike(q, page)
          /\ q.busy = page.busy
          /\ q.participation = page.participation
          /\ q.receiptOf = page.receiptOf
          /\ q.hydratedFor = page.hydratedFor
          /\ page.active # page.generation => q = page
      BY <1>1, <3>2, <3>3, Reported
    <3>5. page' = q
      BY <3>1, <3>3
    <3> QED
      BY <1>2, <3>4, <3>5
  <2> QED
    BY <2>1, <2>2
<1>4. Typed'
  BY <1>3 DEF Typed
<1>5. Overtaken' <=> Overtaken
  BY <1>2, <1>3 DEF Overtaken, ShowsLike
<1>6. InStep'
  <2> USE <1>2, <1>3, <1>5 DEF PageInv, InStep, ShowsLike
  <2>1. BusyWhileFlowing'
    BY DEF BusyWhileFlowing, Voting
  <2>2. Generations' /\ LocksAreHeld' /\ NoneBegins'
    BY DEF Generations, LocksAreHeld, NoneBegins, Fresh
  <2>3. InFlightIsLive'
    <3>1. CASE Overtaken
      BY <3>1 DEF InFlightIsLive, Overtaken
    <3>2. CASE ~Overtaken
      BY <3>2 DEF InFlightIsLive
    <3> QED
      BY <3>1, <3>2
  <2>4. OvertakenIsBlank'
    BY DEF OvertakenIsBlank
  <2> QED
    BY <2>1, <2>2, <2>3, <2>4
<1>7. ASSUME events = 0
      PROVE  OfTheWallet'
  <2>1. OfTheWallet
    BY <1>7 DEF PageInv
  <2> USE <1>2, <1>3, <1>5, <2>1 DEF OfTheWallet, ShowsLike
  <2>2. RunsOfTheWallet' /\ ReceiptOfTheWallet' /\ CheckedIsShown' /\ ReadyIsShown'
    BY DEF RunsOfTheWallet, ReceiptOfTheWallet, CheckedIsShown, ReadyIsShown, Fresh
  <2>3. FlowOfTheWallet' /\ HydratedIsShown'
    BY DEF FlowOfTheWallet, HydratedIsShown, Voting
  <2> QED
    BY <2>2, <2>3
<1> QED
  BY <1>4, <1>6, <1>7 DEF PageInv

(* The flow is over: what it shows is the wallet's account if it shows any, and the
   hydration that starts finds the rest. *)
LEMMA FlowEnds ==
    ASSUME Typed, PageInv, NEW p \in PageType, NEW status \in {"idle", "voted"},
           \/ flow.pc \in Voting
           \/ flow.pc = "connected" /\ ~Overtaken,
           Finish(Report(p, flow.account, status)),
           ShowsLike(p, page), p.busy = page.busy, p.status = page.status,
           p.participation = page.participation,
           \/ p.receiptOf = page.receiptOf
           \/ flow.pc # "session" /\ ~Overtaken /\ p.receiptOf = flow.account,
           UNCHANGED <<account, events>>, stored' \in [Accounts -> Nat]
    PROVE  Typed' /\ PageInv'
<1>1. page \in PageType /\ flow.account \in Someone /\ status \in Statuses /\ status \notin InFlight
  BY DEF Typed, FlowType, Statuses, InFlight
<1>2. page.busy
  BY DEF PageInv, InStep, BusyWhileFlowing, Voting
<1>3. PICK q : q = Report(p, flow.account, status)
  OBVIOUS
<1>4. /\ q \in PageType
      /\ ShowsLike(q, p)
      /\ q.participation = p.participation
      /\ q.receiptOf = p.receiptOf
      /\ p.active = p.generation => q.shown = flow.account /\ q.status = status
      /\ p.active # p.generation => q = p
  BY <1>1, <1>3, Reported
<1>5. Finish(q)
  BY <1>3
<1>6. /\ flow' = IdleFlow
      /\ page' \in PageType
      /\ ShowsLike(page', q)
      /\ ~page'.busy
      /\ page'.hydratedFor = None
      /\ page'.shown = q.shown /\ page'.status = q.status
      /\ page'.participation = q.participation
      /\ page'.receiptOf = q.receiptOf
  BY <1>4, <1>5, Finished
<1>7. PICK n : /\ runs' = runs \cup {n}
               /\ n \in RunType(n.id) /\ n.pc = "peek"
               /\ n.generation = page.generation /\ n.operation = page.operation
  BY <1>4, <1>5, Finished DEF ShowsLike
<1>8. /\ ShowsLike(page', page)
      /\ page'.participation = page.participation
      /\ page'.receiptOf = p.receiptOf
      /\ ~Overtaken => page'.shown = flow.account /\ page'.status = status
      /\ Overtaken => page'.status = page.status
  BY <1>2, <1>4, <1>6 DEF ShowsLike, Overtaken
<1>9. flow'.pc = "idle" /\ flow' \in FlowType
  BY <1>6 DEF IdleFlow, FlowType, Stages, Someone
<1>10. ~Overtaken'
  BY <1>6 DEF Overtaken
<1>11. Typed'
  BY <1>6, <1>7, <1>9 DEF Typed
<1>12. InStep'
  <2> USE <1>6, <1>7, <1>8, <1>9, <1>10 DEF PageInv, InStep, ShowsLike
  <2>1. BusyWhileFlowing' /\ OvertakenIsBlank'
    BY DEF BusyWhileFlowing, OvertakenIsBlank
  <2>2. Generations'
    BY <1>1 DEF Generations, Fresh, PageType
  <2>3. LocksAreHeld' /\ NoneBegins'
    BY DEF LocksAreHeld, NoneBegins, Fresh, Voting
  <2>4. InFlightIsLive'
    BY <1>1 DEF InFlightIsLive
  <2> QED
    BY <2>1, <2>2, <2>3, <2>4
<1>13. ASSUME events = 0
       PROVE  OfTheWallet'
  <2>1. OfTheWallet
    BY <1>13 DEF PageInv
  <2>2. ~Overtaken /\ flow.pc \notin {"session", "connect"} => flow.account = account
    BY <1>2, <2>1 DEF OfTheWallet, FlowOfTheWallet
  <2> USE <1>6, <1>7, <1>8, <1>9, <1>10, <2>1, <2>2 DEF OfTheWallet, ShowsLike
  <2>3. RunsOfTheWallet' /\ FlowOfTheWallet'
    BY DEF RunsOfTheWallet, FlowOfTheWallet, Fresh
  <2>4. HydratedIsShown' /\ ReceiptOfTheWallet'
    BY DEF HydratedIsShown, ReceiptOfTheWallet, Voting
  <2>5. CheckedIsShown'
    BY DEF CheckedIsShown, Fresh, PageInv, InStep, NoneBegins
  <2>6. ReadyIsShown'
    BY DEF ReadyIsShown, Fresh
  <2> QED
    BY <2>3, <2>4, <2>5, <2>6
<1> QED
  BY <1>11, <1>12, <1>13 DEF PageInv

(* vote() and connect() begin: the page is the flow's. *)
LEMMA FlowBegins ==
    ASSUME Typed, PageInv, ~page.busy, page' \in PageType, page'.busy,
           page'.generation = page.generation, page'.active = page.generation,
           page'.hydratedFor = page.hydratedFor, page'.receiptOf = page.receiptOf,
           \/ /\ page'.operation = page.operation + 1 /\ page'.lock = None
              /\ flow'.pc = "session"
           \/ /\ page'.operation = page.operation
              /\ page'.lock = page.lock /\ page'.owner = page.owner
              /\ flow'.pc = "connect",
           flow' \in FlowType, UNCHANGED <<account, events, runs, stored>>
    PROVE  Typed' /\ PageInv'
<1>1. page.operation \in Nat /\ page.generation \in Nat
  BY DEF Typed, PageType
<1>2. ~Overtaken'
  BY DEF Overtaken
<1>3. \A r \in runs : r.operation \in Nat
  BY DEF Typed, RunType
<1>4. InStep'
  <2> USE <1>1, <1>2, <1>3 DEF PageInv, InStep
  <2>1. BusyWhileFlowing' /\ InFlightIsLive' /\ OvertakenIsBlank'
    BY DEF BusyWhileFlowing, InFlightIsLive, OvertakenIsBlank
  <2>2. Generations'
    BY DEF Generations, Fresh
  <2>3. LocksAreHeld'
    BY DEF LocksAreHeld, Fresh
  <2>4. NoneBegins'
    <3>1. CASE page'.operation = page.operation + 1
      BY <3>1 DEF NoneBegins, Fresh, Generations
    <3>2. CASE flow'.pc = "connect"
      BY <3>2 DEF NoneBegins, Voting
    <3> QED
      BY <3>1, <3>2
  <2> QED
    BY <2>1, <2>2, <2>3, <2>4
<1>5. ASSUME events = 0
      PROVE  OfTheWallet'
  <2>1. OfTheWallet
    BY <1>5 DEF PageInv
  <2>2. RunsOfTheWallet'
    <3>1. \A r \in runs : r.operation = page'.operation => Fresh(r)
      BY <1>1, <1>3 DEF PageInv, InStep, Generations, Fresh
    <3> QED
      BY <2>1, <3>1 DEF OfTheWallet, RunsOfTheWallet, Fresh
  <2>3. FlowOfTheWallet' /\ HydratedIsShown' /\ ReceiptOfTheWallet' /\ CheckedIsShown' /\ ReadyIsShown'
    BY <2>1 DEF OfTheWallet, FlowOfTheWallet, HydratedIsShown, ReceiptOfTheWallet, CheckedIsShown, ReadyIsShown
  <2> QED
    BY <2>2, <2>3 DEF OfTheWallet
<1> QED
  BY <1>4, <1>5 DEF PageInv, Typed

LEMMA VoteKeeps ==
    ASSUME Typed, PageInv, Vote
    PROVE  Typed' /\ PageInv'
<1>1. page \in PageType /\ ~page.busy
  BY DEF Typed, Vote
<1>2. page' = [InvalidateFlight(page) EXCEPT
                   !.busy = TRUE, !.operation = @ + 1, !.active = page.generation,
                   !.shown = None, !.status = "connecting"]
  BY DEF Vote
<1>3. PICK q : q = InvalidateFlight(page)
  OBVIOUS
<1>4. /\ q \in PageType
      /\ q.generation = page.generation /\ q.operation = page.operation
      /\ q.hydratedFor = page.hydratedFor /\ q.receiptOf = page.receiptOf
      /\ q.lock = None
  BY <1>1, <1>3 DEF InvalidateFlight, PageType, Someone
<1>5. page' = [q EXCEPT !.busy = TRUE, !.operation = q.operation + 1, !.active = page.generation,
                        !.shown = None, !.status = "connecting"]
  BY <1>2, <1>3
<1>6. /\ page' \in PageType /\ page'.busy
      /\ page'.generation = page.generation /\ page'.active = page.generation
      /\ page'.hydratedFor = page.hydratedFor /\ page'.receiptOf = page.receiptOf
      /\ page'.operation = page.operation + 1 /\ page'.lock = None
  <2>1. PICK o \in Nat, g \in Nat : o = q.operation + 1 /\ g = page.generation
    BY <1>1, <1>4 DEF PageType
  <2>2. PICK u : u = [q EXCEPT !.busy = TRUE, !.operation = o, !.active = g,
                               !.shown = None, !.status = "connecting"]
    OBVIOUS
  <2>3. None \in Someone /\ "connecting" \in Statuses
    BY DEF Someone, Statuses
  <2>4. u \in PageType
    BY <1>4, <2>2, <2>3 DEF PageType
  <2>5. /\ u.busy /\ u.generation = q.generation /\ u.active = g
        /\ u.hydratedFor = q.hydratedFor /\ u.receiptOf = q.receiptOf
        /\ u.operation = o /\ u.lock = q.lock
    BY <1>4, <2>2 DEF PageType
  <2>6. page' = u
    BY <1>5, <2>1, <2>2
  <2> QED
    BY <1>4, <2>1, <2>4, <2>5, <2>6
<1>7. flow' = [IdleFlow EXCEPT !.pc = "session"]
  BY DEF Vote
<1>8. flow' \in FlowType /\ flow'.pc = "session"
  BY <1>7 DEF IdleFlow, FlowType, Stages, Voting, Someone
<1>9. UNCHANGED <<account, events, runs, stored>>
  BY DEF Vote, storage
<1> QED
  BY <1>1, <1>6, <1>8, <1>9, FlowBegins

LEMMA ConnectKeeps ==
    ASSUME Typed, PageInv, Connect
    PROVE  Typed' /\ PageInv'
<1>1. page \in PageType /\ ~page.busy
  BY DEF Typed, Connect
<1>2. page' = [page EXCEPT !.busy = TRUE, !.active = page.generation,
                           !.shown = None, !.status = "connecting"]
  BY DEF Connect
<1>3. /\ page' \in PageType /\ page'.busy
      /\ page'.generation = page.generation /\ page'.active = page.generation
      /\ page'.hydratedFor = page.hydratedFor /\ page'.receiptOf = page.receiptOf
      /\ page'.operation = page.operation
      /\ page'.lock = page.lock /\ page'.owner = page.owner
  BY <1>1, <1>2 DEF PageType, Someone, Statuses
<1>4. flow' = [IdleFlow EXCEPT !.pc = "connect"]
  BY DEF Connect
<1>5. flow' \in FlowType /\ flow'.pc = "connect"
  BY <1>4 DEF IdleFlow, FlowType, Stages, Voting, Someone
<1>6. UNCHANGED <<account, events, runs, stored>>
  BY DEF Connect, storage
<1> QED
  BY <1>1, <1>3, <1>5, <1>6, FlowBegins

(* The wallet names its account; one that it shows only now is news to the page. *)
LEMMA AccountKeeps ==
    ASSUME Typed, PageInv, NEW next,
           \/ flow.pc = "session" /\ next = "begin"
           \/ flow.pc = "connect" /\ next = "connected",
           Account(next)
    PROVE  Typed' /\ PageInv'
<1>1. /\ UNCHANGED <<page, runs, stored>>
      /\ flow' = [flow EXCEPT !.pc = next, !.account = account']
      /\ \/ account' \in Accounts /\ events' = events + 1
         \/ UNCHANGED <<account, events>>
  BY DEF Account, Stays, storage
<1>2. account' \in Someone /\ events' \in Nat /\ (events' = 0 => UNCHANGED <<account, events>>)
  BY <1>1 DEF Typed, Someone
<1>3. flow' \in FlowType /\ flow'.pc = next /\ flow'.account = account'
  BY <1>1, <1>2 DEF Typed, FlowType, Stages, Voting
<1>4. Typed'
  BY <1>1, <1>2, <1>3 DEF Typed
<1>5. InStep'
  BY <1>1, <1>3 DEF PageInv, InStep, BusyWhileFlowing, Generations, InFlightIsLive, LocksAreHeld,
                    NoneBegins, OvertakenIsBlank, Overtaken, Fresh, Voting
<1>6. ASSUME events' = 0
      PROVE  OfTheWallet'
  <2>1. OfTheWallet /\ UNCHANGED <<account, events>>
    BY <1>2, <1>6 DEF PageInv
  <2> QED
    BY <1>1, <1>3, <2>1 DEF OfTheWallet, RunsOfTheWallet, FlowOfTheWallet, HydratedIsShown,
        ReceiptOfTheWallet, CheckedIsShown, ReadyIsShown, Overtaken, Fresh
<1> QED
  BY <1>4, <1>5, <1>6 DEF PageInv

(* A connection that a wallet event overtook leaves the page as the event did. *)
LEMMA ConnectedKeeps ==
    ASSUME Typed, PageInv, Connected
    PROVE  Typed' /\ PageInv'
<1>1. page \in PageType /\ flow.pc = "connected" /\ UNCHANGED <<account, events, stored>>
  BY DEF Typed, Connected, storage
<1>2. page.busy
  BY <1>1 DEF PageInv, InStep, BusyWhileFlowing
<1>3. CASE page.active = page.generation
  <2>1. Finish(Report(page, flow.account, "idle")) /\ ~Overtaken
    BY <1>3 DEF Connected, Overtaken
  <2>2. stored' \in [Accounts -> Nat] /\ ShowsLike(page, page)
    BY <1>1 DEF Typed, ShowsLike
  <2> QED
    BY <1>1, <2>1, <2>2, FlowEnds
<1>4. CASE page.active # page.generation
  <2>1. page' = [page EXCEPT !.busy = FALSE] /\ flow' = IdleFlow /\ runs' = runs
    BY <1>4 DEF Connected
  <2>2. /\ page' \in PageType /\ ~page'.busy
        /\ ShowsLike(page', page)
        /\ page'.shown = page.shown /\ page'.status = page.status
        /\ page'.participation = page.participation
        /\ page'.receiptOf = page.receiptOf /\ page'.hydratedFor = page.hydratedFor
    BY <1>1, <2>1 DEF PageType, ShowsLike
  <2>3. flow'.pc = "idle" /\ flow' \in FlowType
    BY <2>1 DEF IdleFlow, FlowType, Stages, Someone
  <2>4. Overtaken /\ ~Overtaken'
    BY <1>2, <1>4, <2>2 DEF Overtaken
  <2>5. Typed'
    BY <1>1, <2>1, <2>2, <2>3 DEF Typed
  <2>6. page.participation = "checking" /\ page.hydratedFor = None
    BY <2>4 DEF PageInv, InStep, OvertakenIsBlank
  <2>7. InStep'
    BY <2>1, <2>2, <2>3, <2>4 DEF PageInv, InStep, ShowsLike, BusyWhileFlowing, Generations, InFlightIsLive,
                                  LocksAreHeld, NoneBegins, OvertakenIsBlank, Fresh, Voting
  <2>8. ASSUME events = 0
        PROVE  OfTheWallet'
    <3>1. OfTheWallet
      BY <2>8 DEF PageInv
    <3>2. RunsOfTheWallet' /\ FlowOfTheWallet' /\ HydratedIsShown' /\ ReceiptOfTheWallet'
      BY <1>1, <2>1, <2>2, <2>4, <2>6, <3>1 DEF OfTheWallet, RunsOfTheWallet, FlowOfTheWallet, HydratedIsShown,
          ReceiptOfTheWallet, Fresh, ShowsLike
    <3>3. CheckedIsShown' /\ ReadyIsShown'
      BY <2>1, <2>2, <2>4, <2>6 DEF CheckedIsShown, ReadyIsShown, Fresh, ShowsLike, PageInv, InStep, NoneBegins
    <3> QED
      BY <3>2, <3>3 DEF OfTheWallet
  <2> QED
    BY <1>1, <2>5, <2>7, <2>8 DEF PageInv
<1> QED
  BY <1>3, <1>4

(* reset() forgets what the page shows and makes every run a stale one. *)
LEMMA ResetKeeps ==
    ASSUME Typed, PageInv, Reset
    PROVE  Typed' /\ PageInv'
<1>1. page \in PageType /\ UNCHANGED <<account, flow, stored>> /\ events' \in Nat
  BY DEF Typed, Reset, storage
<1>2. page' = [InvalidateFlight(page) EXCEPT
                   !.generation = @ + 1, !.operation = @ + 1, !.hydratedFor = None,
                   !.receipt = 0, !.receiptOf = None,
                   !.shown = None, !.status = "idle", !.participation = "checking"]
  BY DEF Reset
<1>3. PICK q : q = InvalidateFlight(page)
  OBVIOUS
<1>4. /\ q \in PageType
      /\ q.generation = page.generation /\ q.operation = page.operation
      /\ q.active = page.active /\ q.busy = page.busy
      /\ q.lock = None
  BY <1>1, <1>3 DEF InvalidateFlight, PageType, Someone
<1>5. PICK o \in Nat, g \in Nat : o = q.operation + 1 /\ g = q.generation + 1
  BY <1>4 DEF PageType
<1>6. PICK u : u = [q EXCEPT !.generation = g, !.operation = o, !.hydratedFor = None,
                   !.receipt = 0, !.receiptOf = None,
                   !.shown = None, !.status = "idle", !.participation = "checking"]
  OBVIOUS
<1>7. None \in Someone /\ "idle" \in Statuses /\ "checking" \in Participations
  BY DEF Someone, Statuses, Participations
<1>8. u \in PageType
  BY <1>4, <1>6, <1>7 DEF PageType
<1>9. /\ u.generation = g /\ u.operation = o
      /\ u.active = q.active /\ u.busy = q.busy
      /\ u.shown = None /\ u.status = "idle" /\ u.participation = "checking"
      /\ u.receiptOf = None /\ u.hydratedFor = None /\ u.lock = q.lock
  BY <1>4, <1>6 DEF PageType
<1>10. page' = u
  BY <1>2, <1>3, <1>5, <1>6
<1>11. /\ page' \in PageType
       /\ page'.generation = page.generation + 1 /\ page'.operation = page.operation + 1
       /\ page'.active = page.active /\ page'.busy = page.busy
       /\ page'.shown = None /\ page'.status = "idle" /\ page'.participation = "checking"
       /\ page'.receiptOf = None /\ page'.hydratedFor = None /\ page'.lock = None
  BY <1>4, <1>5, <1>8, <1>9, <1>10
<1>12. runs' = runs \cup {Run(page', runs)}
  BY DEF Reset, Hydrate
<1>13. PICK n : n = Run(page', runs)
  OBVIOUS
<1>14. /\ n \in RunType(n.id) /\ n.pc = "peek"
       /\ n.generation = page'.generation /\ n.operation = page'.operation
  BY <1>11, <1>13, NewRun
<1>15. runs' = runs \cup {n}
  BY <1>12, <1>13
<1>16. page.operation \in Nat /\ page.generation \in Nat /\ page.active \in Nat
       /\ \A r \in runs : r.operation \in Nat
  BY <1>1 DEF Typed, PageType, RunType
<1>17. Typed'
  BY <1>1, <1>11, <1>14, <1>15 DEF Typed
<1>18. page'.active # page'.generation
  BY <1>11, <1>16 DEF PageInv, InStep, Generations
<1>19. \A r \in runs' : r.operation = page'.operation => r.pc = "peek" /\ r.generation = page'.generation
  BY <1>11, <1>14, <1>15, <1>16 DEF PageInv, InStep, Generations
<1>20. InStep'
  <2>1. BusyWhileFlowing' /\ InFlightIsLive' /\ LocksAreHeld' /\ OvertakenIsBlank'
    BY <1>1, <1>11 DEF PageInv, InStep, BusyWhileFlowing, InFlightIsLive, LocksAreHeld, OvertakenIsBlank, InFlight
  <2>2. Generations' /\ NoneBegins'
    BY <1>11, <1>14, <1>15, <1>16, <1>19 DEF PageInv, InStep, Generations, NoneBegins, Fresh
  <2> QED
    BY <2>1, <2>2 DEF InStep
<1>21. OfTheWallet'
  <2>1. ~(page'.busy /\ ~Overtaken')
    BY <1>18 DEF Overtaken
  <2> QED
    BY <1>11, <1>19, <2>1 DEF OfTheWallet, RunsOfTheWallet, FlowOfTheWallet, HydratedIsShown,
        ReceiptOfTheWallet, CheckedIsShown, ReadyIsShown, Fresh
<1> QED
  BY <1>17, <1>20, <1>21 DEF PageInv

(* A page that has just been loaded. *)
LEMMA Loaded ==
    ASSUME NEW others
    PROVE  /\ InitPage \in PageType
           /\ InitPage.generation = 0 /\ InitPage.operation = 0 /\ InitPage.active = 0
           /\ ~InitPage.busy /\ InitPage.shown = None /\ InitPage.status = "idle"
           /\ InitPage.participation = "checking" /\ InitPage.receipt = 0
           /\ InitPage.receiptOf = None /\ InitPage.hydratedFor = None /\ InitPage.lock = None
           /\ IdleFlow \in FlowType /\ IdleFlow.pc = "idle"
           /\ Run(InitPage, others) \in RunType(Run(InitPage, others).id)
           /\ Run(InitPage, others).pc = "peek"
           /\ Run(InitPage, others).generation = 0 /\ Run(InitPage, others).operation = 0
<1>1. InitPage \in PageType
  BY DEF InitPage, PageType, Someone, Statuses, Participations
<1>2. /\ InitPage.generation = 0 /\ InitPage.operation = 0 /\ InitPage.active = 0
      /\ ~InitPage.busy /\ InitPage.shown = None /\ InitPage.status = "idle"
      /\ InitPage.participation = "checking" /\ InitPage.receipt = 0
      /\ InitPage.receiptOf = None /\ InitPage.hydratedFor = None /\ InitPage.lock = None
  BY DEF InitPage
<1>3. IdleFlow \in FlowType /\ IdleFlow.pc = "idle"
  BY DEF IdleFlow, FlowType, Stages, Someone
<1> QED
  BY <1>1, <1>2, <1>3, NewRun

LEMMA InitKeeps ==
    ASSUME Init
    PROVE  Typed /\ PageInv
<1>1. PICK n : n = Run(InitPage, {})
  OBVIOUS
<1>2. /\ page = InitPage /\ flow = IdleFlow /\ runs = {n}
      /\ account \in Someone /\ events = 0 /\ stored \in [Accounts -> Nat]
  BY <1>1 DEF Init, Someone
<1>3. /\ page \in PageType
      /\ page.generation = 0 /\ page.operation = 0 /\ page.active = 0 /\ ~page.busy
      /\ page.shown = None /\ page.status = "idle" /\ page.participation = "checking"
      /\ page.receiptOf = None /\ page.hydratedFor = None /\ page.lock = None
      /\ flow \in FlowType /\ flow.pc = "idle"
      /\ n \in RunType(n.id) /\ n.pc = "peek" /\ n.generation = 0 /\ n.operation = 0
  BY <1>1, <1>2, Loaded
<1>4. Typed
  BY <1>2, <1>3 DEF Typed
<1>5. InStep
  BY <1>2, <1>3 DEF InStep, BusyWhileFlowing, Generations, InFlightIsLive, LocksAreHeld,
                    NoneBegins, OvertakenIsBlank, Overtaken, Fresh, InFlight
<1>6. OfTheWallet
  BY <1>2, <1>3 DEF OfTheWallet, RunsOfTheWallet, FlowOfTheWallet, HydratedIsShown,
      ReceiptOfTheWallet, CheckedIsShown, ReadyIsShown, Fresh
<1> QED
  BY <1>4, <1>5, <1>6 DEF PageInv

LEMMA ReloadKeeps ==
    ASSUME Typed, Reload
    PROVE  Typed' /\ PageInv'
<1>1. PICK n : n = Run(InitPage, {})
  OBVIOUS
<1>2. /\ page' = InitPage /\ flow' = IdleFlow /\ runs' = {n}
      /\ account' \in Someone /\ events' = 0 /\ stored' \in [Accounts -> Nat]
  BY <1>1 DEF Reload, Hydrate, Typed, storage
<1>3. /\ page' \in PageType
      /\ page'.generation = 0 /\ page'.operation = 0 /\ page'.active = 0 /\ ~page'.busy
      /\ page'.shown = None /\ page'.status = "idle" /\ page'.participation = "checking"
      /\ page'.receiptOf = None /\ page'.hydratedFor = None /\ page'.lock = None
      /\ flow' \in FlowType /\ flow'.pc = "idle"
      /\ n \in RunType(n.id) /\ n.pc = "peek" /\ n.generation = 0 /\ n.operation = 0
  BY <1>1, <1>2, Loaded
<1>4. Typed'
  BY <1>2, <1>3 DEF Typed
<1>5. InStep'
  BY <1>2, <1>3 DEF InStep, BusyWhileFlowing, Generations, InFlightIsLive, LocksAreHeld,
                    NoneBegins, OvertakenIsBlank, Overtaken, Fresh, InFlight
<1>6. OfTheWallet'
  BY <1>2, <1>3 DEF OfTheWallet, RunsOfTheWallet, FlowOfTheWallet, HydratedIsShown,
      ReceiptOfTheWallet, CheckedIsShown, ReadyIsShown, Fresh
<1> QED
  BY <1>4, <1>5, <1>6 DEF PageInv

(* Nothing of the page changes: a change of the wallet is not heard of yet. *)
LEMMA NothingHeard ==
    ASSUME Typed, PageInv, UNCHANGED <<page, runs, flow, stored>>,
           \/ UNCHANGED <<account, events>>
           \/ account' \in Someone /\ events' = events + 1
    PROVE  Typed' /\ PageInv'
<1>1. Typed' /\ (events' = 0 => UNCHANGED <<account, events>>)
  BY DEF Typed
<1>2. InStep'
  BY DEF PageInv, InStep, BusyWhileFlowing, Generations, InFlightIsLive, LocksAreHeld,
         NoneBegins, OvertakenIsBlank, Overtaken, Fresh
<1>3. ASSUME events' = 0
      PROVE  OfTheWallet'
  <2>1. OfTheWallet /\ account' = account
    BY <1>1, <1>3 DEF PageInv
  <2> QED
    BY <2>1 DEF OfTheWallet, RunsOfTheWallet, FlowOfTheWallet, HydratedIsShown,
        ReceiptOfTheWallet, CheckedIsShown, ReadyIsShown, Overtaken, Fresh
<1> QED
  BY <1>1, <1>2, <1>3 DEF PageInv

LEMMA FailKeeps ==
    ASSUME Typed, PageInv, flow.pc \in Voting, Fail, UNCHANGED <<account, events, stored>>
    PROVE  Typed' /\ PageInv'
<1>1. Finish(Report(page, flow.account, "idle"))
  BY DEF Fail
<1>2. page \in PageType /\ ShowsLike(page, page) /\ stored' \in [Accounts -> Nat]
  BY DEF Typed, ShowsLike
<1> QED
  BY <1>1, <1>2, FlowEnds

-----------------------------------------------------------------------------
(* The chain: what is counted and numbered is finite.                      *)

TxType == [id : Nat, what : {"signUp", "join", "vote"}, from : Someone, leaf : Nat]
Entry ==
    [what : {"signUp", "join"},
     key : Others \cup {Own} \cup {SetToSeq(Others)[i] : i \in 1..Cardinality(Others)},
     block : Nat]

ChainTyped ==
    /\ block \in Nat /\ filled \in Nat
    /\ log \in Seq(Entry)
    /\ IsFiniteSet(pool) /\ pool \subseteq TxType
    /\ votes \subseteq TxType
    /\ IsFiniteSet(DOMAIN outcome) /\ DOMAIN outcome \subseteq Nat
    /\ \A id \in DOMAIN outcome : outcome[id] \in [ok : BOOLEAN, block : Nat]

LEMMA IndicesAreNumbers ==
    ASSUME ChainTyped, NEW what
    PROVE  /\ \A place : IsFiniteSet({i \in Of(what) : i <= place}) /\ Number(what, place) \in Nat
           /\ \A key : IndexOf(what, key) \in Nat
           /\ \A b : IndexInBlock(what, b) \in Nat
<1>1. IsFiniteSet(DOMAIN log)
  <2>1. DOMAIN log = 1..Len(log) /\ Len(log) \in Int
    BY DEF ChainTyped
  <2> QED
    BY <2>1, FS_Interval
<1>2. ASSUME NEW place
      PROVE  IsFiniteSet({i \in Of(what) : i <= place}) /\ Number(what, place) \in Nat
  <2>1. {i \in Of(what) : i <= place} \subseteq DOMAIN log
    BY DEF Of
  <2>2. IsFiniteSet({i \in Of(what) : i <= place})
    BY <1>1, <2>1, FS_Subset
  <2> QED
    BY <2>2, FS_CardinalityType DEF Number
<1> QED
  BY <1>2 DEF IndexOf, IndexInBlock


(* The number of a transaction is that of all so far. *)
Newest == Cardinality(DOMAIN outcome) + Cardinality(pool)

LEMMA NewestIsNumber ==
    ASSUME ChainTyped
    PROVE  Cardinality(DOMAIN outcome) \in Nat /\ Cardinality(pool) \in Nat /\ Newest \in Nat
  BY FS_CardinalityType DEF ChainTyped, Newest

LEMMA Sent ==
    ASSUME Typed, ChainTyped, NEW what \in {"signUp", "join", "vote"}, NEW leaf \in Nat, NEW next \in Stages,
           Send(what, leaf, next)
    PROVE  /\ ChainTyped'
           /\ flow' \in FlowType /\ flow'.pc = next /\ flow'.account = flow.account
           /\ flow'.leaf = flow.leaf /\ flow'.tx = Newest + 1
           /\ \E tx : /\ pool' = pool \cup {tx} /\ tx \in TxType
                      /\ tx.id = Newest + 1 /\ tx.what = what /\ tx.from = flow.account /\ tx.leaf = leaf
<1>1. PICK n \in Nat : n = Newest + 1
  BY NewestIsNumber
<1>2. PICK tx : tx = [id |-> n, what |-> what, from |-> flow.account, leaf |-> leaf]
  OBVIOUS
<1>3. /\ pool' = pool \cup {tx}
      /\ flow' = [flow EXCEPT !.pc = next, !.tx = n]
      /\ UNCHANGED <<block, filled, log, votes, outcome>>
  BY <1>1, <1>2 DEF Send, Newest
<1>4. flow.account \in Someone
  BY DEF Typed, FlowType
<1>5. tx \in TxType /\ tx.id = n /\ tx.what = what /\ tx.from = flow.account /\ tx.leaf = leaf
  BY <1>2, <1>4 DEF TxType
<1>6. IsFiniteSet(pool')
  BY <1>3, FS_AddElement DEF ChainTyped
<1>7. ChainTyped'
  BY <1>3, <1>5, <1>6 DEF ChainTyped
<1>8. /\ flow' \in FlowType /\ flow'.pc = next /\ flow'.account = flow.account
      /\ flow'.leaf = flow.leaf /\ flow'.tx = n
  BY <1>3 DEF Typed, FlowType
<1> QED
  BY <1>1, <1>3, <1>5, <1>7, <1>8

(* The flow goes to another stage. *)
LEMMA Gone ==
    ASSUME Typed, NEW next \in Stages, Goes(next)
    PROVE  /\ flow' \in FlowType /\ flow'.pc = next /\ flow'.account = flow.account
           /\ flow'.leaf = flow.leaf /\ flow'.tx = flow.tx
  BY DEF Goes, Typed, FlowType

LEMMA Leads ==
    ASSUME Typed, NEW next \in Stages, NEW leaf \in Nat, flow' = [flow EXCEPT !.leaf = leaf, !.pc = next]
    PROVE  /\ flow' \in FlowType /\ flow'.pc = next /\ flow'.account = flow.account
           /\ flow'.leaf = leaf /\ flow'.tx = flow.tx
  BY DEF Typed, FlowType

(* Of a transaction that is mined the chain keeps what became of it. *)
LEMMA MinedKeepsTypes ==
    ASSUME ChainTyped, NEW tx \in pool, MineOwn(tx)
    PROVE  /\ ChainTyped'
           /\ DOMAIN outcome' = DOMAIN outcome \cup {tx.id}
           /\ outcome'[tx.id].block = block
           /\ outcome'[tx.id].ok <=> (tx.what = "vote" \/ IndexOf(tx.what, Own) = 0)
           /\ \A id \in DOMAIN outcome : id # tx.id => outcome'[id] = outcome[id]
<1>1. tx \in TxType
  BY DEF ChainTyped
<1>2. \E ok \in BOOLEAN : ok <=> (tx.what = "vote" \/ IndexOf(tx.what, Own) = 0)
  OBVIOUS
<1>3. PICK ok \in BOOLEAN : ok = (tx.what = "vote" \/ IndexOf(tx.what, Own) = 0)
  BY <1>2
<1>4. PICK o : o = [ok |-> ok, block |-> block]
  OBVIOUS
<1>5. /\ filled' = filled + 1
      /\ pool' = pool \ {tx}
      /\ outcome' = [id \in DOMAIN outcome \cup {tx.id} |-> IF id = tx.id THEN o ELSE outcome[id]]
      /\ IF tx.what # "vote" /\ ok THEN Mined(tx.what, Own) ELSE UNCHANGED log
      /\ votes' = IF tx.what = "vote" THEN votes \cup {tx} ELSE votes
      /\ UNCHANGED block
  BY <1>3, <1>4 DEF MineOwn
<1>6. o \in [ok : BOOLEAN, block : Nat] /\ o.ok = ok /\ o.block = block
  BY <1>4 DEF ChainTyped
<1>7. /\ DOMAIN outcome' = DOMAIN outcome \cup {tx.id}
      /\ outcome'[tx.id] = o
      /\ \A id \in DOMAIN outcome : id # tx.id => outcome'[id] = outcome[id]
  BY <1>5
<1>8. log' \in Seq(Entry)
  <2>1. CASE tx.what # "vote" /\ ok
    <3>1. log' = Append(log, [what |-> tx.what, key |-> Own, block |-> block])
      BY <1>5, <2>1 DEF Mined
    <3>2. [what |-> tx.what, key |-> Own, block |-> block] \in Entry
      BY <1>1, <2>1 DEF ChainTyped, TxType, Entry
    <3> QED
      BY <3>1, <3>2 DEF ChainTyped
  <2>2. CASE ~(tx.what # "vote" /\ ok)
    BY <1>5, <2>2 DEF ChainTyped
  <2> QED
    BY <2>1, <2>2
<1>9. IsFiniteSet(pool') /\ IsFiniteSet(DOMAIN outcome')
  <2>1. IsFiniteSet(pool \ {tx})
    BY FS_RemoveElement DEF ChainTyped
  <2>2. IsFiniteSet(DOMAIN outcome \cup {tx.id})
    BY FS_AddElement DEF ChainTyped
  <2> QED
    BY <1>5, <1>7, <2>1, <2>2
<1>10. \A id \in DOMAIN outcome' : outcome'[id] \in [ok : BOOLEAN, block : Nat]
  BY <1>6, <1>7 DEF ChainTyped
<1>11. votes' \subseteq TxType /\ pool' \subseteq TxType /\ DOMAIN outcome' \subseteq Nat
       /\ block' \in Nat /\ filled' \in Nat
  BY <1>1, <1>5, <1>7 DEF ChainTyped, TxType
<1>12. ChainTyped'
  BY <1>8, <1>9, <1>10, <1>11 DEF ChainTyped
<1> QED
  BY <1>3, <1>6, <1>7, <1>12

-----------------------------------------------------------------------------
(* Receipts.                                                               *)

VoteOf(id, a) == \E vote \in votes : vote.id = id /\ vote.from = a

\* A transaction is in the pool or its outcome is known; the numbers are all different.
Numbered ==
    /\ \A tx \in pool : tx.id \notin DOMAIN outcome /\ tx.id <= Newest
    /\ \A tx, other \in pool : tx.id = other.id => tx = other
    /\ \A id \in DOMAIN outcome : id <= Newest

VotesAreMined == \A vote \in votes : vote.what = "vote" /\ vote.id \in DOMAIN outcome

\* The flow waits for the last transaction that was sent.
AwaitsItsVote ==
    flow.pc = "awaitVote" =>
        /\ flow.tx = Newest
        /\ \/ VoteOf(flow.tx, flow.account)
           \/ \E tx \in pool : tx.what = "vote" /\ tx.id = flow.tx /\ tx.from = flow.account

ChecksAVote == \A r \in runs : r.pc = "receipt" => VoteOf(r.receipt, r.account)

ReceiptInv ==
    /\ Numbered
    /\ VotesAreMined
    /\ AwaitsItsVote
    /\ ChecksAVote
    /\ ReceiptOfTheSender

(* A step that keeps the receipts, or forgets the one shown. *)
LEMMA ReceiptsKept ==
    ASSUME Typed, ReceiptInv, UNCHANGED <<pool, outcome, votes, stored>>,
           flow'.pc # "awaitVote" \/ flow' = flow,
           \/ page'.receipt = page.receipt /\ page'.receiptOf = page.receiptOf
           \/ page'.receipt = 0,
           \A r \in runs' : r.pc = "receipt" => r \in runs \/ (stored[r.account] # 0 /\ r.receipt = stored[r.account] /\ r.account \in Accounts)
    PROVE  ReceiptInv' /\ NewestReceiptStays
<1>1. \A id, a : VoteOf(id, a)' <=> VoteOf(id, a)
  BY DEF VoteOf
<1>2. Newest' = Newest
  BY DEF Newest
<1>3. Numbered' /\ VotesAreMined'
  BY <1>2 DEF ReceiptInv, Numbered, VotesAreMined
<1>4. AwaitsItsVote'
  BY <1>1, <1>2 DEF ReceiptInv, AwaitsItsVote
<1>5. ReceiptOfTheSender'
  BY DEF ReceiptInv, ReceiptOfTheSender
<1>6. ChecksAVote'
  <2>1. \A a \in Accounts : stored[a] # 0 => VoteOf(stored[a], a)
    BY DEF ReceiptInv, ReceiptOfTheSender, VoteOf
  <2> QED
    BY <1>1, <2>1 DEF ReceiptInv, ChecksAVote
<1>7. NewestReceiptStays
  BY DEF Typed, PageType, NewestReceiptStays
<1> QED
  BY <1>3, <1>4, <1>5, <1>6, <1>7 DEF ReceiptInv

LEMMA FinishKeepsReceipts ==
    ASSUME NEW p \in PageType, NEW status \in {"idle", "voted"}, flow.account \in Someone,
           Finish(Report(p, flow.account, status))
    PROVE  /\ page'.receipt = p.receipt /\ page'.receiptOf = p.receiptOf
           /\ flow'.pc = "idle"
           /\ \A r \in runs' : r.pc = "receipt" => r \in runs
<1>1. status \in Statuses
  BY DEF Statuses
<1>2. PICK q : q = Report(p, flow.account, status)
  OBVIOUS
<1>3. q \in PageType /\ q.receipt = p.receipt /\ q.receiptOf = p.receiptOf
  BY <1>1, <1>2, Reported
<1>4. Finish(q)
  BY <1>2
<1>5. page'.receipt = q.receipt /\ page'.receiptOf = q.receiptOf /\ flow' = IdleFlow
  BY <1>3, <1>4, Finished
<1>6. \E r : runs' = runs \cup {r} /\ r.pc = "peek"
  BY <1>3, <1>4, Finished
<1> QED
  BY <1>3, <1>5, <1>6 DEF IdleFlow

(* What a hydration does to the receipts. *)
LEMMA PeekReceipts ==
    ASSUME Typed, ReceiptInv, NEW r \in runs, Peek(r), UNCHANGED <<pool, outcome, votes, stored, flow>>
    PROVE  ReceiptInv' /\ NewestReceiptStays
<1>1. page \in PageType /\ r \in RunType(r.id) /\ account \in Someone
  BY DEF Typed
<1>2. \/ page' = page
      \/ page' = WriteDisconnected(page)
      \/ page' = [WriteAccount(page, account, "idle", "key-missing") EXCEPT !.hydratedFor = account]
      \/ page' = WriteAccount(BeginFlight(page, r, account), account, Kept(page), "checking")
  BY DEF Peek
<1>3. \A s \in runs' : s \in runs \/ s.pc = "lookup"
  <2>1. \/ runs' = runs \ {r}
        \/ runs' = (runs \ {r}) \cup {[r EXCEPT !.pc = "lookup", !.account = account]}
    BY DEF Peek, Ends
  <2>2. [r EXCEPT !.pc = "lookup", !.account = account].pc = "lookup"
    BY <1>1 DEF RunType
  <2> QED
    BY <2>1, <2>2
<1>4. \/ page'.receipt = page.receipt /\ page'.receiptOf = page.receiptOf
      \/ page'.receipt = 0
  <2>1. CASE page' = page
    BY <2>1
  <2>2. CASE page' = WriteDisconnected(page)
    BY <1>1, <2>2 DEF WriteDisconnected, PageType
  <2>3. CASE page' = [WriteAccount(page, account, "idle", "key-missing") EXCEPT !.hydratedFor = account]
    BY <1>1, <2>3 DEF WriteAccount, PageType
  <2>4. CASE page' = WriteAccount(BeginFlight(page, r, account), account, Kept(page), "checking")
    BY <1>1, <2>4 DEF WriteAccount, BeginFlight, PageType
  <2> QED
    BY <1>2, <2>1, <2>2, <2>3, <2>4
<1> QED
  BY <1>3, <1>4, ReceiptsKept

LEMMA LookupReceipts ==
    ASSUME Typed, ReceiptInv, NEW r \in runs, Lookup(r), UNCHANGED <<pool, outcome, votes, stored, flow>>
    PROVE  ReceiptInv' /\ NewestReceiptStays
<1>1. /\ page \in PageType /\ r \in RunType(r.id) /\ r.pc = "lookup" /\ r.account \in Accounts
      /\ r.account \in Someone
  BY DEF Typed, Lookup, Someone
<1>2. PICK q : q = WriteAccount(page, r.account, Kept(page), "ready")
  OBVIOUS
<1>3. q \in PageType /\ q.receipt = page.receipt /\ q.receiptOf = page.receiptOf
  BY <1>1, <1>2, KeptIsOld DEF WriteAccount, PageType, Participations
<1>4. PICK p : p = MarkHydrated(q, r)
  OBVIOUS
<1>5. p \in PageType /\ p.receipt = page.receipt /\ p.receiptOf = page.receiptOf
  BY <1>1, <1>3, <1>4, HydratedMarked
<1>6. page' = EndFlight(page, r) \/ page' = EndFlight(p, r) \/ page' = q
  BY <1>2, <1>4 DEF Lookup
<1>7. page'.receipt = page.receipt /\ page'.receiptOf = page.receiptOf
  <2>1. CASE page' = EndFlight(page, r)
    BY <1>1, <2>1, Released
  <2>2. CASE page' = EndFlight(p, r)
    BY <1>5, <2>2, Released
  <2> QED
    BY <1>3, <1>6, <2>1, <2>2
<1>8. PICK s : s = [r EXCEPT !.pc = "receipt", !.receipt = stored[r.account]]
  OBVIOUS
<1>9. s.account = r.account /\ s.receipt = stored[r.account]
  BY <1>1, <1>8 DEF RunType
<1>10. \/ runs' = runs \ {r}
       \/ stored[r.account] # 0 /\ runs' = (runs \ {r}) \cup {s}
  BY <1>8 DEF Lookup, Ends
<1>11. \A t \in runs' : t \in runs \/ (stored[t.account] # 0 /\ t.receipt = stored[t.account] /\ t.account \in Accounts)
  BY <1>1, <1>9, <1>10
<1> QED
  BY <1>7, <1>11, ReceiptsKept

LEMMA RunFailsReceipts ==
    ASSUME Typed, ReceiptInv, NEW r \in runs, RunFails(r), UNCHANGED <<pool, outcome, votes, stored, flow>>
    PROVE  ReceiptInv' /\ NewestReceiptStays
<1>1. /\ page \in PageType /\ r \in RunType(r.id) /\ r.account \in Someone
  BY DEF Typed, RunType
<1>2. PICK q : q = WriteAccount(page, r.account, "idle", "lookup-failed")
  OBVIOUS
<1>3. q \in PageType /\ q.receipt = page.receipt /\ q.receiptOf = page.receiptOf
  BY <1>1, <1>2 DEF WriteAccount, PageType, Statuses, Participations
<1>4. page' = EndFlight(page, r) \/ page' = EndFlight(q, r) \/ page' = page \/ page' = WriteProbeError(page)
  BY <1>2 DEF RunFails
<1>5. page'.receipt = page.receipt /\ page'.receiptOf = page.receiptOf
  <2>1. CASE page' = EndFlight(page, r)
    BY <1>1, <2>1, Released
  <2>2. CASE page' = EndFlight(q, r)
    BY <1>3, <2>2, Released
  <2>3. CASE page' = WriteProbeError(page)
    BY <1>1, <2>3 DEF WriteProbeError, PageType
  <2> QED
    BY <1>4, <2>1, <2>2, <2>3
<1>6. runs' = runs \ {r}
  BY DEF RunFails, Ends
<1> QED
  BY <1>5, <1>6, ReceiptsKept

(* A receipt that was stored is shown in the place of none, or of itself. *)
LEMMA CheckReceiptReceipts ==
    ASSUME Typed, ReceiptInv, NEW r \in runs, CheckReceipt(r), UNCHANGED <<pool, outcome, votes, stored, flow>>
    PROVE  ReceiptInv' /\ NewestReceiptStays
<1>1. /\ page \in PageType /\ r.account \in Someone /\ r.receipt \in Nat /\ r.pc = "receipt"
  BY DEF Typed, RunType, CheckReceipt
<1>2. PICK q : q = WriteReceipt(page, r.account, r.receipt)
  OBVIOUS
<1>3. /\ q \in PageType
      /\ \/ q.receipt = page.receipt /\ q.receiptOf = page.receiptOf
         \/ page.receipt \in {0, r.receipt} /\ q.receipt = r.receipt /\ q.receiptOf = r.account
  BY <1>1, <1>2, ReceiptWritten
<1>4. PICK p : p = MarkHydrated(q, r)
  OBVIOUS
<1>5. p \in PageType /\ p.receipt = q.receipt /\ p.receiptOf = q.receiptOf
  BY <1>1, <1>3, <1>4, HydratedMarked
<1>6. page' = EndFlight(page, r) \/ page' = EndFlight(p, r)
  BY <1>2, <1>4 DEF CheckReceipt
<1>7. \/ page'.receipt = page.receipt /\ page'.receiptOf = page.receiptOf
      \/ page.receipt \in {0, r.receipt} /\ page'.receipt = r.receipt /\ page'.receiptOf = r.account
  <2>1. CASE page' = EndFlight(page, r)
    BY <1>1, <2>1, Released
  <2>2. CASE page' = EndFlight(p, r)
    BY <1>3, <1>5, <2>2, Released
  <2> QED
    BY <1>6, <2>1, <2>2
<1>8. runs' = runs \ {r}
  BY DEF CheckReceipt, Ends
<1>9. CASE page'.receipt = page.receipt /\ page'.receiptOf = page.receiptOf
  BY <1>8, <1>9, ReceiptsKept
<1>10. CASE page.receipt \in {0, r.receipt} /\ page'.receipt = r.receipt /\ page'.receiptOf = r.account
  <2>1. VoteOf(r.receipt, r.account)
    BY <1>1 DEF ReceiptInv, ChecksAVote
  <2>2. ReceiptOfTheSender'
    BY <1>10, <2>1 DEF ReceiptInv, ReceiptOfTheSender, VoteOf
  <2>3. Numbered' /\ VotesAreMined' /\ AwaitsItsVote' /\ ChecksAVote'
    BY <1>8 DEF ReceiptInv, Numbered, VotesAreMined, AwaitsItsVote, ChecksAVote, VoteOf, Newest
  <2>4. NewestReceiptStays
    BY <1>1, <1>10 DEF NewestReceiptStays
  <2> QED
    BY <2>2, <2>3, <2>4 DEF ReceiptInv
<1> QED
  BY <1>7, <1>9, <1>10


(* Mining keeps the number of all transactions. *)
LEMMA MineOwnReceipts ==
    ASSUME Typed, ChainTyped, ReceiptInv, NEW tx \in pool, MineOwn(tx)
    PROVE  ReceiptInv' /\ NewestReceiptStays /\ ChainTyped'
<1>1. /\ pool' = pool \ {tx}
      /\ votes' = IF tx.what = "vote" THEN votes \cup {tx} ELSE votes
      /\ UNCHANGED <<stored, page, runs, flow>>
  BY DEF MineOwn, storage
<1>2. ChainTyped' /\ DOMAIN outcome' = DOMAIN outcome \cup {tx.id}
  BY MinedKeepsTypes
<1>3. tx.id \notin DOMAIN outcome
  BY DEF ReceiptInv, Numbered
<1>4. Newest' = Newest
  <2>1. Cardinality(DOMAIN outcome') = Cardinality(DOMAIN outcome) + 1
    BY <1>2, <1>3, FS_AddElement DEF ChainTyped
  <2>2. Cardinality(pool') = Cardinality(pool) - 1
    BY <1>1, FS_RemoveElement DEF ChainTyped
  <2>3. Cardinality(DOMAIN outcome) \in Nat /\ Cardinality(pool) \in Nat
    BY NewestIsNumber
  <2> QED
    BY <2>1, <2>2, <2>3 DEF Newest
<1>5. Numbered'
  BY <1>1, <1>2, <1>4 DEF ReceiptInv, Numbered
<1>6. VotesAreMined'
  BY <1>1, <1>2 DEF ReceiptInv, VotesAreMined
<1>7. \A id, a : VoteOf(id, a) => VoteOf(id, a)'
  BY <1>1 DEF VoteOf
<1>8. AwaitsItsVote'
  <2>1. CASE flow.pc = "awaitVote"
    <3>1. CASE VoteOf(flow.tx, flow.account)
      BY <1>1, <1>4, <1>7, <2>1, <3>1 DEF ReceiptInv, AwaitsItsVote
    <3>2. ASSUME NEW other \in pool, other.what = "vote", other.id = flow.tx, other.from = flow.account
          PROVE  AwaitsItsVote'
      <4>1. CASE other = tx
        BY <1>1, <1>4, <2>1, <3>2, <4>1 DEF ReceiptInv, AwaitsItsVote, VoteOf
      <4>2. CASE other # tx
        BY <1>1, <1>4, <2>1, <3>2, <4>2 DEF ReceiptInv, AwaitsItsVote
      <4> QED
        BY <4>1, <4>2
    <3> QED
      BY <2>1, <3>1, <3>2 DEF ReceiptInv, AwaitsItsVote
  <2>2. CASE flow.pc # "awaitVote"
    BY <1>1, <2>2 DEF AwaitsItsVote
  <2> QED
    BY <2>1, <2>2
<1>9. ChecksAVote' /\ ReceiptOfTheSender'
  BY <1>1, <1>7 DEF ReceiptInv, ChecksAVote, ReceiptOfTheSender, VoteOf
<1>10. NewestReceiptStays
  BY <1>1 DEF Typed, PageType, NewestReceiptStays
<1> QED
  BY <1>2, <1>5, <1>6, <1>8, <1>9, <1>10 DEF ReceiptInv

(* The number of a transaction that is sent is new. *)
LEMMA SentReceipts ==
    ASSUME Typed, ChainTyped, ReceiptInv, NEW what \in {"signUp", "join", "vote"}, NEW leaf \in Nat,
           NEW next \in Stages, next = "awaitVote" => what = "vote",
           Send(what, leaf, next), UNCHANGED <<stored, runs>>,
           page'.receipt = page.receipt, page'.receiptOf = page.receiptOf
    PROVE  ReceiptInv' /\ NewestReceiptStays
<1>1. PICK tx : /\ pool' = pool \cup {tx} /\ tx \in TxType
                /\ tx.id = Newest + 1 /\ tx.what = what /\ tx.from = flow.account
  BY Sent
<1>2. /\ flow'.pc = next /\ flow'.account = flow.account /\ flow'.tx = Newest + 1
      /\ UNCHANGED <<votes, outcome>>
  <2>1. UNCHANGED <<votes, outcome>>
    BY DEF Send
  <2> QED
    BY <2>1, Sent
<1>3. tx \notin pool /\ Newest \in Nat
  BY <1>1, NewestIsNumber DEF ReceiptInv, Numbered
<1>4. Newest' = Newest + 1
  <2>1. Cardinality(pool') = Cardinality(pool) + 1
    BY <1>1, <1>3, FS_AddElement DEF ChainTyped
  <2> QED
    BY <1>2, <2>1, NewestIsNumber DEF Newest
<1>5. Numbered'
  <2>1. \A id \in DOMAIN outcome : id \in Nat /\ id <= Newest
    BY DEF ChainTyped, ReceiptInv, Numbered
  <2>2. \A other \in pool : other.id \in Nat /\ other.id <= Newest
    BY DEF ChainTyped, TxType, ReceiptInv, Numbered
  <2> QED
    BY <1>1, <1>2, <1>3, <1>4, <2>1, <2>2 DEF ReceiptInv, Numbered
<1>6. VotesAreMined' /\ ChecksAVote' /\ ReceiptOfTheSender'
  BY <1>2 DEF ReceiptInv, VotesAreMined, ChecksAVote, ReceiptOfTheSender, VoteOf
<1>7. AwaitsItsVote'
  BY <1>1, <1>2, <1>4 DEF AwaitsItsVote
<1>8. NewestReceiptStays
  BY DEF Typed, PageType, NewestReceiptStays
<1> QED
  BY <1>5, <1>6, <1>7, <1>8 DEF ReceiptInv

(* The receipt that comes is that of the newest transaction, and of the account that
   sent it. *)
LEMMA PublishedKeeps ==
    ASSUME Typed, PageInv, ChainTyped, ReceiptInv, Published, UNCHANGED <<account, events>>
    PROVE  Typed' /\ PageInv' /\ ReceiptInv' /\ NewestReceiptStays
<1>1. /\ page \in PageType /\ flow \in FlowType /\ flow.pc = "awaitVote"
      /\ flow.account \in Someone /\ flow.tx \in Nat /\ flow.tx \in DOMAIN outcome
      /\ UNCHANGED <<pool, outcome, votes>>
  BY DEF Typed, FlowType, Published, Waited, chain
<1>2. page.busy
  BY <1>1 DEF PageInv, InStep, BusyWhileFlowing
<1>3. VoteOf(flow.tx, flow.account) /\ flow.tx = Newest
  BY <1>1 DEF ReceiptInv, Numbered, AwaitsItsVote
<1>4. stored' \in [Accounts -> Nat] /\ \A a \in Accounts : stored'[a] # 0 => VoteOf(stored'[a], a)
  <2>1. \A a \in Accounts : stored[a] # 0 => VoteOf(stored[a], a)
    BY DEF ReceiptInv, ReceiptOfTheSender, VoteOf
  <2>2. stored' = stored \/ stored' = [stored EXCEPT ![flow.account] = flow.tx]
    BY DEF Published, FiledFor
  <2> QED
    BY <1>1, <1>3, <2>1, <2>2 DEF Typed
<1>5. PICK p : p = IF page.active = page.generation
                   THEN [page EXCEPT !.receipt = flow.tx, !.receiptOf = FiledFor] ELSE page
  OBVIOUS
<1>6. Finish(Report(p, flow.account, "voted"))
  BY <1>5 DEF Published
<1>7. /\ p \in PageType /\ ShowsLike(p, page) /\ p.busy = page.busy /\ p.status = page.status
      /\ p.participation = page.participation
      /\ \/ p.receipt = page.receipt /\ p.receiptOf = page.receiptOf
         \/ page.active = page.generation /\ p.receipt = flow.tx /\ p.receiptOf = flow.account
  BY <1>1, <1>5 DEF PageType, ShowsLike, FiledFor
<1>8. Typed' /\ PageInv'
  <2>1. p.receiptOf = page.receiptOf \/ (flow.pc # "session" /\ ~Overtaken /\ p.receiptOf = flow.account)
    BY <1>1, <1>7 DEF Overtaken
  <2>2. flow.pc \in Voting
    BY <1>1 DEF Voting
  <2> QED
    BY <1>4, <1>6, <1>7, <2>1, <2>2, FlowEnds
<1>9. /\ page'.receipt = p.receipt /\ page'.receiptOf = p.receiptOf
      /\ flow'.pc = "idle" /\ \A r \in runs' : r.pc = "receipt" => r \in runs
  BY <1>1, <1>6, <1>7, FinishKeepsReceipts
<1>10. Numbered' /\ VotesAreMined' /\ AwaitsItsVote'
  BY <1>1, <1>9 DEF ReceiptInv, Numbered, VotesAreMined, AwaitsItsVote, Newest
<1>11. ChecksAVote'
  BY <1>1, <1>9 DEF ReceiptInv, ChecksAVote, VoteOf
<1>12. ReceiptOfTheSender'
  BY <1>1, <1>3, <1>4, <1>7, <1>9 DEF ReceiptInv, ReceiptOfTheSender, VoteOf
<1>13. NewestReceiptStays
  <2>1. page.receipt # 0 => page.receipt <= Newest
    <3>1. page.receipt # 0 => \E vote \in votes : vote.id = page.receipt
      BY DEF ReceiptInv, ReceiptOfTheSender
    <3> QED
      BY <3>1 DEF ReceiptInv, Numbered, VotesAreMined
  <2> QED
    BY <1>1, <1>3, <1>7, <1>9, <2>1 DEF PageType, NewestReceiptStays
<1> QED
  BY <1>8, <1>10, <1>11, <1>12, <1>13 DEF ReceiptInv


-----------------------------------------------------------------------------
(* The steps of the flow.                                                  *)

FlowInv == Typed /\ ChainTyped /\ PageInv /\ ReceiptInv

(* A step that sends nothing. *)
LEMMA QuietVoteGoes ==
    ASSUME FlowInv, flow.pc \in Voting \ {"session"},
           NEW next \in Voting \ {"session", "awaitVote"}, NEW leaf \in Nat,
           flow' = [flow EXCEPT !.leaf = leaf, !.pc = next] \/ Goes(next),
           \/ page' = page
           \/ \E status \in InFlight : page' = Report(page, flow.account, status),
           UNCHANGED <<runs, account, events, stored, chain>>
    PROVE  FlowInv' /\ NewestReceiptStays
<1>1. page \in PageType /\ flow.account \in Someone /\ next \in Stages
  BY DEF FlowInv, Typed, FlowType, Stages
<1>2. flow' \in FlowType /\ flow'.pc = next /\ flow'.account = flow.account
  <2>1. CASE flow' = [flow EXCEPT !.leaf = leaf, !.pc = next]
    BY <1>1, <2>1, Leads DEF FlowInv
  <2>2. CASE Goes(next)
    BY <1>1, <2>2, Gone DEF FlowInv
  <2> QED
    BY <2>1, <2>2
<1>3. Typed' /\ PageInv'
  BY <1>2, VoteGoes DEF FlowInv
<1>4. page'.receipt = page.receipt /\ page'.receiptOf = page.receiptOf
  <2>1. CASE page' = page
    BY <2>1
  <2>2. ASSUME NEW status \in InFlight, page' = Report(page, flow.account, status)
        PROVE  page'.receipt = page.receipt /\ page'.receiptOf = page.receiptOf
    <3>1. status \in Statuses
      BY DEF InFlight, Statuses
    <3> QED
      BY <1>1, <2>2, <3>1, Reported
  <2> QED
    BY <2>1, <2>2
<1>5. ReceiptInv' /\ NewestReceiptStays
  BY <1>2, <1>4, ReceiptsKept DEF FlowInv, chain
<1>6. ChainTyped'
  BY DEF FlowInv, ChainTyped, chain
<1> QED
  BY <1>3, <1>5, <1>6 DEF FlowInv

LEMMA SendingVoteGoes ==
    ASSUME FlowInv, flow.pc \in Voting \ {"session"},
           NEW next \in Voting \ {"session"}, NEW leaf \in Nat,
           NEW what \in {"signUp", "join", "vote"}, next = "awaitVote" => what = "vote",
           NEW status \in InFlight, page' = Report(page, flow.account, status),
           Send(what, leaf, next),
           UNCHANGED <<runs, account, events, stored>>
    PROVE  FlowInv' /\ NewestReceiptStays
<1>1. page \in PageType /\ flow.account \in Someone /\ next \in Stages /\ status \in Statuses
  BY DEF FlowInv, Typed, FlowType, Stages, InFlight, Statuses
<1>2. ChainTyped' /\ flow' \in FlowType /\ flow'.pc = next /\ flow'.account = flow.account
  BY <1>1, Sent DEF FlowInv
<1>3. Typed' /\ PageInv'
  BY <1>2, VoteGoes DEF FlowInv
<1>4. page'.receipt = page.receipt /\ page'.receiptOf = page.receiptOf
  BY <1>1, Reported
<1>5. ReceiptInv' /\ NewestReceiptStays
  BY <1>1, <1>4, SentReceipts DEF FlowInv
<1> QED
  BY <1>2, <1>3, <1>5 DEF FlowInv

LEMMA FailingVoteEnds ==
    ASSUME FlowInv, flow.pc \in Voting, Fail, UNCHANGED <<account, events, stored>>
    PROVE  FlowInv' /\ NewestReceiptStays
<1>1. Finish(Report(page, flow.account, "idle")) /\ UNCHANGED chain
  BY DEF Fail
<1>2. page \in PageType /\ flow.account \in Someone
  BY DEF FlowInv, Typed, FlowType
<1>3. Typed' /\ PageInv'
  BY FailKeeps DEF FlowInv
<1>4. /\ page'.receipt = page.receipt /\ page'.receiptOf = page.receiptOf
      /\ flow'.pc = "idle" /\ \A r \in runs' : r.pc = "receipt" => r \in runs
  BY <1>1, <1>2, FinishKeepsReceipts
<1>5. ReceiptInv' /\ NewestReceiptStays
  BY <1>1, <1>4, ReceiptsKept DEF FlowInv, chain
<1>6. ChainTyped'
  BY <1>1 DEF FlowInv, ChainTyped, chain
<1> QED
  BY <1>3, <1>5, <1>6 DEF FlowInv

LEMMA NoLeaf == ASSUME FlowInv PROVE flow.leaf \in Nat
  BY DEF FlowInv, Typed, FlowType

LEMMA FlowKeeps ==
    ASSUME FlowInv, UNCHANGED <<account, events>>,
           \/ Begin \/ LookupSignUp \/ SignUp \/ SignedUp \/ LookupMember
           \/ Join \/ Joined \/ Recover \/ Publish \/ FlowFails
    PROVE  FlowInv' /\ NewestReceiptStays
<1> USE DEF storage
<1>1. CASE Begin
  <2>1. flow.pc \in Voting \ {"session"} /\ UNCHANGED stored /\ "lookup" \in Voting \ {"session", "awaitVote"}
    BY <1>1 DEF Begin, Voting
  <2>2. CASE Fail
    BY <2>1, <2>2, FailingVoteEnds
  <2>3. CASE ~Fail
    <3>1. Goes("lookup") /\ page' = Report(page, flow.account, "connecting") /\ UNCHANGED <<chain, runs>>
      BY <1>1, <2>3 DEF Begin
    <3>2. "connecting" \in InFlight
      BY DEF InFlight
    <3> QED
      BY <2>1, <3>1, <3>2, NoLeaf, QuietVoteGoes
  <2> QED
    BY <2>2, <2>3
<1>2. CASE LookupSignUp
  <2>1. PICK next \in {"signUp", "member"} : Goes(next)
    BY <1>2 DEF LookupSignUp
  <2>2. flow.pc \in Voting \ {"session"} /\ next \in Voting \ {"session", "awaitVote"}
    BY <1>2 DEF LookupSignUp, Voting
  <2>3. UNCHANGED <<page, runs, chain, stored>>
    BY <1>2 DEF LookupSignUp, Stays
  <2> QED
    BY <2>1, <2>2, <2>3, NoLeaf, QuietVoteGoes
<1>3. CASE SignUp
  <2>1. flow.pc \in Voting \ {"session"} /\ UNCHANGED stored /\ "awaitSignUp" \in Voting \ {"session"}
    BY <1>3 DEF SignUp, Voting
  <2>2. CASE Fail
    BY <2>1, <2>2, FailingVoteEnds
  <2>3. CASE ~Fail
    <3>1. Send("signUp", 0, "awaitSignUp") /\ page' = Report(page, flow.account, "signing-up") /\ UNCHANGED runs
      BY <1>3, <2>3 DEF SignUp
    <3>2. "signing-up" \in InFlight
      BY DEF InFlight
    <3> QED
      BY <2>1, <3>1, <3>2, SendingVoteGoes
  <2> QED
    BY <2>2, <2>3
<1>4. CASE SignedUp
  <2>1. flow.pc \in Voting \ {"session"} /\ UNCHANGED stored /\ "member" \in Voting \ {"session", "awaitVote"}
    BY <1>4 DEF SignedUp, Voting
  <2>2. CASE Fail
    BY <2>1, <2>2, FailingVoteEnds
  <2>3. CASE ~Fail
    <3>1. Goes("member") /\ UNCHANGED <<page, runs, chain>>
      BY <1>4, <2>3 DEF SignedUp, Stays
    <3> QED
      BY <2>1, <3>1, NoLeaf, QuietVoteGoes
  <2> QED
    BY <2>2, <2>3
<1>5. CASE LookupMember
  <2>1. flow.pc \in Voting \ {"session"} /\ UNCHANGED stored
    BY <1>5 DEF LookupMember, Voting
  <2>2. CASE Fail
    BY <2>1, <2>2, FailingVoteEnds
  <2>3. CASE ~Fail
    <3>1. PICK next \in {"join", "publish"} : flow' = [flow EXCEPT !.leaf = LookupJoined, !.pc = next]
      BY <1>5, <2>3 DEF LookupMember
    <3>2. UNCHANGED <<page, runs, chain>>
      BY <1>5, <2>3 DEF LookupMember, Stays
    <3>3. LookupJoined \in Nat
      BY IndicesAreNumbers DEF FlowInv, LookupJoined, JoinedIndex
    <3>4. next \in Voting \ {"session", "awaitVote"}
      BY DEF Voting
    <3> QED
      BY <2>1, <3>1, <3>2, <3>3, <3>4, QuietVoteGoes
  <2> QED
    BY <2>2, <2>3
<1>6. CASE Join
  <2>1. flow.pc \in Voting \ {"session"} /\ UNCHANGED stored
    BY <1>6 DEF Join, Voting
  <2>2. CASE Fail
    BY <2>1, <2>2, FailingVoteEnds
  <2>3. CASE ~Fail
    <3>1. page' = Report(page, flow.account, "joining") /\ UNCHANGED runs
      BY <1>6, <2>3 DEF Join
    <3>2. "joining" \in InFlight /\ "awaitJoin" \in Voting \ {"session"} /\ "recover" \in Voting \ {"session", "awaitVote"}
      BY DEF InFlight, Voting
    <3>3. Send("join", 0, "awaitJoin") \/ (Goes("recover") /\ UNCHANGED chain)
      BY <1>6, <2>3 DEF Join
    <3>4. CASE Send("join", 0, "awaitJoin")
      BY <2>1, <3>1, <3>2, <3>4, SendingVoteGoes
    <3>5. CASE Goes("recover") /\ UNCHANGED chain
      BY <2>1, <3>1, <3>2, <3>5, NoLeaf, QuietVoteGoes
    <3> QED
      BY <3>3, <3>4, <3>5
  <2> QED
    BY <2>2, <2>3
<1>7. CASE Joined
  <2>1. flow.pc \in Voting \ {"session"} /\ UNCHANGED stored /\ UNCHANGED <<page, runs, chain>>
    BY <1>7 DEF Joined, Voting, Stays
  <2>2. /\ "publish" \in Voting \ {"session", "awaitVote"} /\ "recover" \in Voting \ {"session", "awaitVote"}
        /\ IndexInBlock("join", outcome[flow.tx].block) \in Nat
    BY IndicesAreNumbers DEF FlowInv, Voting
  <2>3. CASE Goes("recover")
    BY <2>1, <2>2, <2>3, NoLeaf, QuietVoteGoes
  <2>4. CASE ~Goes("recover")
    <3>1. flow' = [flow EXCEPT !.pc = "publish", !.leaf = IndexInBlock("join", outcome[flow.tx].block)]
      BY <1>7, <2>4 DEF Joined
    <3>2. flow' = [flow EXCEPT !.leaf = IndexInBlock("join", outcome[flow.tx].block), !.pc = "publish"]
      BY <3>1 DEF FlowInv, Typed, FlowType
    <3> QED
      BY <2>1, <2>2, <3>2, QuietVoteGoes
  <2> QED
    BY <2>3, <2>4
<1>8. CASE Recover
  <2>1. flow.pc \in Voting \ {"session"} /\ UNCHANGED stored /\ "publish" \in Voting \ {"session", "awaitVote"}
    BY <1>8 DEF Recover, Voting
  <2>2. CASE Fail
    BY <2>1, <2>2, FailingVoteEnds
  <2>3. CASE ~Fail
    <3>1. flow' = [flow EXCEPT !.pc = "publish", !.leaf = LookupJoined] /\ UNCHANGED <<page, runs, chain>>
      BY <1>8, <2>3 DEF Recover, Stays
    <3>2. flow' = [flow EXCEPT !.leaf = LookupJoined, !.pc = "publish"]
      BY <3>1 DEF FlowInv, Typed, FlowType
    <3>3. LookupJoined \in Nat
      BY IndicesAreNumbers DEF FlowInv, LookupJoined, JoinedIndex
    <3> QED
      BY <2>1, <3>1, <3>2, <3>3, QuietVoteGoes
  <2> QED
    BY <2>2, <2>3
<1>9. CASE Publish
  <2>1. flow.pc \in Voting \ {"session"} /\ UNCHANGED stored /\ "awaitVote" \in Voting \ {"session"}
    BY <1>9 DEF Publish, Voting
  <2>2. CASE Fail
    BY <2>1, <2>2, FailingVoteEnds
  <2>3. CASE ~Fail
    <3>1. Send("vote", flow.leaf, "awaitVote") /\ page' = Report(page, flow.account, "voting") /\ UNCHANGED runs
      BY <1>9, <2>3 DEF Publish
    <3>2. "voting" \in InFlight
      BY DEF InFlight
    <3> QED
      BY <2>1, <3>1, <3>2, NoLeaf, SendingVoteGoes
  <2> QED
    BY <2>2, <2>3
<1>10. CASE FlowFails
  <2>1. flow.pc \in Voting /\ UNCHANGED stored
    BY <1>10 DEF FlowFails, FlowInv, Typed, FlowType, Stages
  <2>2. CASE flow.pc \in {"join", "awaitJoin"}
    <3>1. Goes("recover") /\ UNCHANGED <<page, runs, chain>>
      BY <1>10, <2>2 DEF FlowFails, Stays
    <3>2. flow.pc \in Voting \ {"session"} /\ "recover" \in Voting \ {"session", "awaitVote"}
      BY <2>2 DEF Voting
    <3> QED
      BY <2>1, <3>1, <3>2, NoLeaf, QuietVoteGoes
  <2>3. CASE flow.pc \notin {"join", "awaitJoin"}
    BY <1>10, <2>1, <2>3, FailingVoteEnds DEF FlowFails
  <2> QED
    BY <2>2, <2>3
<1> QED
  BY <1>1, <1>2, <1>3, <1>4, <1>5, <1>6, <1>7, <1>8, <1>9, <1>10


-----------------------------------------------------------------------------
(* All steps.                                                              *)

LEMMA HydrationKeeps ==
    ASSUME FlowInv, Hydration
    PROVE  FlowInv' /\ NewestReceiptStays
<1>1. PICK r \in runs : Peek(r) \/ Lookup(r) \/ CheckReceipt(r) \/ RunFails(r)
  BY DEF Hydration
<1>2. UNCHANGED <<account, events, flow, stored, pool, outcome, votes>> /\ UNCHANGED chain
  BY DEF Hydration, chain, storage
<1>3. ChainTyped'
  BY <1>2 DEF FlowInv, ChainTyped, chain
<1> USE DEF FlowInv
<1>4. CASE Peek(r)
  BY <1>2, <1>3, <1>4, PeekKeeps, PeekReceipts
<1>5. CASE Lookup(r)
  BY <1>2, <1>3, <1>5, LookupKeeps, LookupReceipts
<1>6. CASE CheckReceipt(r)
  BY <1>2, <1>3, <1>6, CheckReceiptKeeps, CheckReceiptReceipts
<1>7. CASE RunFails(r)
  BY <1>2, <1>3, <1>7, RunFailsKeeps, RunFailsReceipts
<1> QED
  BY <1>1, <1>4, <1>5, <1>6, <1>7

(* Steps that leave the chain alone and begin, or end, what the page does. *)
LEMMA PageSteps ==
    ASSUME FlowInv, UNCHANGED <<chain, stored>>,
           \/ Vote \/ Connect \/ Connected \/ Reset \/ Reload \/ Session \/ Pick
    PROVE  FlowInv' /\ NewestReceiptStays
<1>1. /\ page \in PageType /\ flow \in FlowType /\ flow.account \in Someone
      /\ UNCHANGED <<pool, outcome, votes, stored>>
  BY DEF FlowInv, Typed, FlowType, chain
<1>2. ChainTyped'
  BY DEF FlowInv, ChainTyped, chain
<1>3. CASE Vote
  <2>1. page'.receipt = page.receipt /\ page'.receiptOf = page.receiptOf
    BY <1>1, <1>3 DEF Vote, InvalidateFlight, PageType
  <2>2. flow'.pc = "session" /\ runs' = runs
    BY <1>3 DEF Vote, IdleFlow
  <2>3. ReceiptInv' /\ NewestReceiptStays
    BY <1>1, <2>1, <2>2, ReceiptsKept DEF FlowInv
  <2> QED
    BY <1>2, <1>3, <2>3, VoteKeeps DEF FlowInv
<1>4. CASE Connect
  <2>1. page'.receipt = page.receipt /\ page'.receiptOf = page.receiptOf
    BY <1>1, <1>4 DEF Connect, PageType
  <2>2. flow'.pc = "connect" /\ runs' = runs
    BY <1>4 DEF Connect, IdleFlow
  <2>3. ReceiptInv' /\ NewestReceiptStays
    BY <1>1, <2>1, <2>2, ReceiptsKept DEF FlowInv
  <2> QED
    BY <1>2, <1>4, <2>3, ConnectKeeps DEF FlowInv
<1>5. CASE Connected
  <2>1. /\ page'.receipt = page.receipt /\ page'.receiptOf = page.receiptOf
        /\ flow'.pc = "idle" /\ \A r \in runs' : r.pc = "receipt" => r \in runs
    <3>1. CASE page.active = page.generation
      BY <1>1, <1>5, <3>1, FinishKeepsReceipts DEF Connected
    <3>2. CASE page.active # page.generation
      BY <1>1, <1>5, <3>2 DEF Connected, PageType, IdleFlow
    <3> QED
      BY <3>1, <3>2
  <2>2. ReceiptInv' /\ NewestReceiptStays
    BY <1>1, <2>1, ReceiptsKept DEF FlowInv
  <2> QED
    BY <1>2, <1>5, <2>2, ConnectedKeeps DEF FlowInv
<1>6. CASE Reset
  <2>1. page'.receipt = 0 /\ flow' = flow
    BY <1>1, <1>6 DEF Reset, InvalidateFlight, PageType
  <2>2. \A r \in runs' : r.pc = "receipt" => r \in runs
    BY <1>6 DEF Reset, Hydrate, Run
  <2>3. ReceiptInv' /\ NewestReceiptStays
    BY <1>1, <2>1, <2>2, ReceiptsKept DEF FlowInv
  <2> QED
    BY <1>2, <1>6, <2>3, ResetKeeps DEF FlowInv
<1>7. CASE Reload
  <2>1. page'.receipt = 0 /\ flow'.pc # "awaitVote"
    BY <1>7, Loaded DEF Reload
  <2>2. \A r \in runs' : r.pc = "receipt" => r \in runs
    BY <1>7 DEF Reload, Hydrate, Run
  <2>3. ReceiptInv' /\ NewestReceiptStays
    BY <1>1, <2>1, <2>2, ReceiptsKept DEF FlowInv
  <2> QED
    BY <1>2, <1>7, <2>3, ReloadKeeps DEF FlowInv
<1>8. CASE Session \/ Pick
  <2>1. PICK next : /\ \/ flow.pc = "session" /\ next = "begin"
                       \/ flow.pc = "connect" /\ next = "connected"
                    /\ Account(next)
    BY <1>8 DEF Session, Pick
  <2>2. Typed' /\ PageInv'
    BY <2>1, AccountKeeps DEF FlowInv
  <2>3. flow' = [flow EXCEPT !.pc = next, !.account = account'] /\ UNCHANGED <<page, runs>>
    BY <2>1 DEF Account, Stays
  <2>4. flow'.pc = next
    BY <1>1, <2>3 DEF FlowType
  <2>5. ReceiptInv' /\ NewestReceiptStays
    BY <1>1, <2>1, <2>3, <2>4, ReceiptsKept DEF FlowInv
  <2> QED
    BY <1>2, <2>2, <2>5 DEF FlowInv
<1> QED
  BY <1>3, <1>4, <1>5, <1>6, <1>7, <1>8

(* Steps of the chain and of the wallet that the page does not see. *)
LEMMA StepsElsewhere ==
    ASSUME FlowInv, UNCHANGED <<page, runs, flow, stored>>, UNCHANGED <<pool, outcome, votes>>, ChainTyped',
           \/ UNCHANGED <<account, events>>
           \/ account' \in Someone /\ events' = events + 1
    PROVE  FlowInv' /\ NewestReceiptStays
<1>1. Typed' /\ PageInv'
  BY NothingHeard DEF FlowInv
<1>2. ReceiptInv' /\ NewestReceiptStays
  BY ReceiptsKept DEF FlowInv
<1> QED
  BY <1>1, <1>2 DEF FlowInv

LEMMA NextKeeps ==
    ASSUME FlowInv, [Next]_vars
    PROVE  FlowInv' /\ [NewestReceiptStays]_vars
<1>1. ASSUME NEW tx \in pool, MineOwn(tx)
      PROVE  FlowInv' /\ NewestReceiptStays
  <2>1. UNCHANGED <<page, runs, flow, stored, account, events>>
    BY <1>1 DEF MineOwn, storage
  <2>2. Typed' /\ PageInv'
    BY <2>1, NothingHeard DEF FlowInv
  <2> QED
    BY <1>1, <2>2, MineOwnReceipts DEF FlowInv
<1>2. ASSUME NEW key \in Others, MineOther(key)
      PROVE  FlowInv' /\ NewestReceiptStays
  <2>1. UNCHANGED <<page, runs, flow, stored, account, events, pool, outcome, votes, block>> /\ filled' = filled + 1
    BY <1>2 DEF MineOther, storage
  <2>2. log' = Append(log, [what |-> "join", key |-> key, block |-> block])
    BY <1>2 DEF MineOther, Mined
  <2>3. [what |-> "join", key |-> key, block |-> block] \in Entry
    BY DEF FlowInv, ChainTyped, Entry
  <2>4. ChainTyped'
    BY <2>1, <2>2, <2>3 DEF FlowInv, ChainTyped
  <2> QED
    BY <2>1, <2>4, StepsElsewhere
<1>3. CASE Seal
  <2>1. /\ UNCHANGED <<page, runs, flow, stored, account, events, pool, outcome, votes, log>>
        /\ block' = block + 1 /\ filled' = 0
    BY <1>3 DEF Seal, storage
  <2>2. ChainTyped'
    BY <2>1 DEF FlowInv, ChainTyped
  <2> QED
    BY <2>1, <2>2, StepsElsewhere
<1>4. CASE Hydration
  BY <1>4, HydrationKeeps
<1>5. ASSUME NEW a \in Accounts \cup {None}, Switch(a)
      PROVE  FlowInv' /\ NewestReceiptStays
  <2>1. UNCHANGED <<page, runs, flow, stored>> /\ UNCHANGED chain /\ account' = a /\ events' = events + 1
    BY <1>5 DEF Switch, storage
  <2>2. ChainTyped' /\ UNCHANGED <<pool, outcome, votes>> /\ account' \in Someone
    BY <1>5, <2>1 DEF FlowInv, ChainTyped, chain, Someone
  <2> QED
    BY <2>1, <2>2, StepsElsewhere
<1>6. CASE Reset \/ Reload \/ Connect \/ Pick \/ Connected \/ Vote \/ Session
  <2>1. UNCHANGED <<chain, stored>>
    BY <1>6 DEF Reset, Reload, Connect, Pick, Connected, Vote, Session, Account, storage
  <2> QED
    BY <1>6, <2>1, PageSteps
<1>7. CASE Flow
  <2>1. CASE Published /\ UNCHANGED <<account, events>>
    <3>1. Typed' /\ PageInv' /\ ReceiptInv' /\ NewestReceiptStays
      BY <2>1, PublishedKeeps DEF FlowInv
    <3>2. ChainTyped'
      BY <2>1 DEF Published, FlowInv, ChainTyped, chain
    <3> QED
      BY <3>1, <3>2 DEF FlowInv
  <2>2. CASE Vote \/ Session
    BY <1>6, <2>2
  <2>3. CASE /\ \/ Begin \/ LookupSignUp \/ SignUp \/ SignedUp \/ LookupMember
                \/ Join \/ Joined \/ Recover \/ Publish \/ FlowFails
             /\ UNCHANGED <<account, events>>
    BY <2>3, FlowKeeps
  <2> QED
    BY <1>7, <2>1, <2>2, <2>3 DEF Flow
<1>8. CASE UNCHANGED vars
  <2>1. /\ UNCHANGED <<page, runs, flow, stored>> /\ UNCHANGED <<pool, outcome, votes>>
        /\ UNCHANGED <<account, events>> /\ UNCHANGED <<block, filled, log>>
    BY <1>8 DEF vars, chain, storage
  <2>2. ChainTyped'
    BY <2>1 DEF FlowInv, ChainTyped
  <2> QED
    BY <2>1, <2>2, StepsElsewhere
<1> QED
  BY <1>1, <1>2, <1>3, <1>4, <1>5, <1>6, <1>7, <1>8 DEF Next

LEMMA InitStarts ==
    ASSUME Init
    PROVE  FlowInv
<1>1. Typed /\ PageInv
  BY InitKeeps
<1>2. ChainTyped
  <2>1. Cardinality(Others) \in Nat
    BY VoteFlowAssumption, FS_CardinalityType
  <2>2. \A i \in 1..Cardinality(Others) :
           [what |-> "signUp", key |-> SetToSeq(Others)[i], block |-> 0] \in Entry
    BY DEF Entry
  <2>3. log \in Seq(Entry)
    BY <2>1, <2>2 DEF Init
  <2>4. IsFiniteSet({})
    BY FS_EmptySet
  <2> QED
    BY <2>3, <2>4 DEF Init, ChainTyped
<1>3. ReceiptInv
  <2>1. \A r \in runs : r.pc = "peek"
    BY DEF Init, Run
  <2>2. page.receipt = 0 /\ flow.pc = "idle"
    BY Loaded DEF Init
  <2> QED
    BY <2>1, <2>2 DEF Init, ReceiptInv, Numbered, VotesAreMined, AwaitsItsVote, ChecksAVote, ReceiptOfTheSender
<1> QED
  BY <1>1, <1>2, <1>3 DEF FlowInv


THEOREM FlowInvHolds == Spec => []FlowInv
<1>1. Init => FlowInv
  BY InitStarts
<1>2. FlowInv /\ [Next]_vars => FlowInv'
  BY NextKeeps
<1> QED
  BY <1>1, <1>2, PTL DEF Spec

LEMMA RestShows ==
    ASSUME FlowInv
    PROVE  RestShowsTheWallet
<1> SUFFICES ASSUME AtRest
             PROVE  /\ ~page.busy
                    /\ page.participation = "ready" => page.shown = account
                    /\ page.receiptOf \in {None, account}
                    /\ page.lock = None
  BY DEF RestShowsTheWallet
<1>1. InStep /\ OfTheWallet
  BY DEF FlowInv, PageInv, AtRest
<1> QED
  BY <1>1 DEF AtRest, InStep, BusyWhileFlowing, LocksAreHeld, OfTheWallet, ReceiptOfTheWallet, ReadyIsShown

(* A page at rest shows the account the wallet is on, and holds no lock, however wallet
   events, hydrations, votes and reloads fall between one another: a hydration that may
   write is of the page's own context and ends before the page rests. *)
THEOREM RestShowsTheWalletHolds == Spec => []RestShowsTheWallet
<1>1. FlowInv => RestShowsTheWallet
  BY RestShows
<1> QED
  BY <1>1, FlowInvHolds, PTL

(* No step files or shows a receipt for an account that did not send its vote, nor puts an
   older receipt in the place of a newer: what the flow waits for is the newest of all
   transactions, and what a hydration has checked it writes over none but itself. *)
THEOREM ReceiptsStayRightHolds == Spec => ReceiptsStayRight
<1>1. FlowInv /\ FlowInv' /\ [Next]_vars => [ReceiptOfTheSender' /\ NewestReceiptStays]_vars
  BY NextKeeps DEF FlowInv, ReceiptInv
<1> QED
  BY <1>1, FlowInvHolds, PTL DEF Spec, ReceiptsStayRight

-----------------------------------------------------------------------------
(* The leaf of a vote, whatever else the blocks have room for.             *)

OwnJoins == {i \in Of("join") : log[i].key = Own}

\* The leaf of a join up to the own one in its block.
MayBeNamed(n) ==
    \E own \in OwnJoins, place \in Of("join") :
        log[place].block = log[own].block /\ place <= own /\ n = Number("join", place)

\* A join that succeeded is in the block of its receipt.
AwaitsItsJoin ==
    flow.pc = "awaitJoin" =>
        /\ flow.tx \in DOMAIN outcome \/ \E tx \in pool : tx.id = flow.tx /\ tx.what = "join"
        /\ flow.tx \in DOMAIN outcome /\ outcome[flow.tx].ok =>
               \E i \in OwnJoins : log[i].block = outcome[flow.tx].block

LeavesMayBeNamed ==
    /\ flow.pc \in {"publish", "awaitVote"} => MayBeNamed(flow.leaf)
    /\ \A tx \in pool \cup votes : tx.what = "vote" => MayBeNamed(tx.leaf)

LeafInv == AwaitsItsJoin /\ LeavesMayBeNamed

LEMMA Smallest ==
    ASSUME NEW S \in SUBSET Nat, S # {}
    PROVE  \E n \in S : \A m \in S : n <= m
<1> DEFINE Less == {pair \in Nat \X Nat : pair[1] < pair[2]}
<1>1. IsWellFoundedOn(Less, Nat)
  <2>1. Less = OpToRel(<, Nat)
    BY DEF OpToRel
  <2> QED
    BY <2>1, NatLessThanWellFounded
<1> HIDE DEF Less
<1>2. PICK n \in S : \A m \in S : ~(<<m, n>> \in Less)
  BY <1>1, WFMin
<1>3. ASSUME NEW m \in S
      PROVE  n <= m
  <2>1. ~(<<m, n>> \in Nat \X Nat /\ m < n)
    BY <1>2 DEF Less
  <2> QED
    BY <2>1
<1> QED
  BY <1>3

(* What a recovery or a second visit finds is the leaf of a join of the device. *)
LEMMA LookedUp ==
    ASSUME ChainTyped, IndexOf("join", Own) # 0
    PROVE  MayBeNamed(IndexOf("join", Own))
<1>1. IndexOf("join", Own) = IF OwnJoins = {} THEN 0 ELSE Number("join", CHOOSE i \in OwnJoins : TRUE)
  BY DEF IndexOf, OwnJoins
<1>2. PICK own \in OwnJoins : own = CHOOSE i \in OwnJoins : TRUE
  BY <1>1
<1>3. own \in Of("join") /\ own \in Nat
  BY DEF OwnJoins, Of, ChainTyped
<1> QED
  BY <1>1, <1>2, <1>3 DEF MayBeNamed

(* The first of the block of a join of the device comes no later than that join. *)
LEMMA FirstOfBlock ==
    ASSUME ChainTyped, NEW own \in OwnJoins
    PROVE  MayBeNamed(IndexInBlock("join", log[own].block))
<1> DEFINE at == {i \in Of("join") : log[i].block = log[own].block}
<1>1. own \in at /\ at \subseteq Nat
  BY DEF OwnJoins, Of, ChainTyped
<1>2. \E i \in at : \A j \in at : i <= j
  BY <1>1, Smallest
<1>3. PICK place \in at : /\ place = CHOOSE i \in at : \A j \in at : i <= j
                          /\ \A j \in at : place <= j
  BY <1>2
<1>4. IndexInBlock("join", log[own].block) = Number("join", place)
  BY <1>3 DEF IndexInBlock
<1> QED
  BY <1>1, <1>3, <1>4 DEF MayBeNamed

(* What is added to the log leaves the leaves that were given as they are. *)
LEMMA AppendKeepsNamed ==
    ASSUME ChainTyped, NEW e \in Entry, log' = Append(log, e)
    PROVE  /\ \A i \in OwnJoins : i \in OwnJoins' /\ log'[i] = log[i]
           /\ \A n : MayBeNamed(n) => MayBeNamed(n)'
<1>1. /\ DOMAIN log = 1..Len(log) /\ Len(log) \in Nat
      /\ DOMAIN log' = 1..(Len(log) + 1)
      /\ log'[Len(log) + 1] = e /\ \A i \in DOMAIN log : log'[i] = log[i]
  BY DEF ChainTyped
<1>2. /\ \A i \in OwnJoins : i \in OwnJoins' /\ log'[i] = log[i]
      /\ \A i \in Of("join") : i \in Of("join")' /\ log'[i] = log[i]
  BY <1>1 DEF OwnJoins, Of
<1>3. ASSUME NEW place \in Of("join")
      PROVE  Number("join", place)' = Number("join", place)
  <2>1. {i \in Of("join") : i <= place}' = {i \in Of("join") : i <= place}
    BY <1>1 DEF Of
  <2> QED
    BY <2>1 DEF Number
<1>4. ASSUME NEW n, MayBeNamed(n)
      PROVE  MayBeNamed(n)'
  <2>1. PICK own \in OwnJoins, place \in Of("join") :
           log[place].block = log[own].block /\ place <= own /\ n = Number("join", place)
    BY <1>4 DEF MayBeNamed
  <2>2. /\ own \in OwnJoins' /\ place \in Of("join")'
        /\ log'[place].block = log'[own].block /\ n = Number("join", place)'
    BY <1>2, <1>3, <2>1
  <2> QED
    BY <2>1, <2>2 DEF MayBeNamed
<1> QED
  BY <1>2, <1>4

LEMMA NamedKept ==
    ASSUME log' = log
    PROVE  OwnJoins' = OwnJoins /\ \A n : MayBeNamed(n)' <=> MayBeNamed(n)
  BY DEF OwnJoins, MayBeNamed, Number, Of

(* Steps that do not touch the chain and do not decide on a leaf. *)
LEMMA LeafKept ==
    ASSUME LeafInv, UNCHANGED chain,
           flow'.pc \notin {"publish", "awaitVote", "awaitJoin"} \/ flow' = flow
    PROVE  LeafInv'
<1>1. UNCHANGED <<block, filled, log, votes, pool, outcome>>
  BY DEF chain
<1>2. AwaitsItsJoin'
  BY <1>1, NamedKept DEF LeafInv, AwaitsItsJoin
<1>3. LeavesMayBeNamed'
  BY <1>1, NamedKept DEF LeafInv, LeavesMayBeNamed
<1> QED
  BY <1>2, <1>3 DEF LeafInv

(* The flow goes on to publish with a leaf it may name. *)
LEMMA LeafFound ==
    ASSUME LeafInv, UNCHANGED chain, flow'.pc = "publish", MayBeNamed(flow'.leaf)
    PROVE  LeafInv'
<1>1. UNCHANGED <<block, filled, log, votes, pool, outcome>>
  BY DEF chain
<1>2. AwaitsItsJoin'
  BY DEF AwaitsItsJoin
<1>3. LeavesMayBeNamed'
  <2>1. \A n : MayBeNamed(n)' <=> MayBeNamed(n)
    BY <1>1, NamedKept
  <2>2. \A tx \in pool' \cup votes' : tx.what = "vote" => MayBeNamed(tx.leaf)'
    BY <1>1, <2>1 DEF LeafInv, LeavesMayBeNamed
  <2>3. PICK n : n = flow'.leaf
    OBVIOUS
  <2>4. MayBeNamed(n)'
    BY <2>1, <2>3
  <2>5. MayBeNamed(flow.leaf)'
    BY <2>3, <2>4 DEF MayBeNamed
  <2> QED
    BY <2>2, <2>5 DEF LeavesMayBeNamed
<1> QED
  BY <1>2, <1>3 DEF LeafInv

LEMMA LeafSent ==
    ASSUME FlowInv, LeafInv, NEW what \in {"signUp", "join", "vote"}, NEW leaf \in Nat,
           NEW next \in {"awaitSignUp", "awaitJoin", "awaitVote"}, Send(what, leaf, next),
           next = "awaitJoin" => what = "join",
           what = "vote" => MayBeNamed(leaf) /\ leaf = flow.leaf,
           next = "awaitVote" => what = "vote"
    PROVE  LeafInv'
<1>1. PICK tx : /\ pool' = pool \cup {tx}
                /\ tx.id = Newest + 1 /\ tx.what = what /\ tx.leaf = leaf
  BY Sent DEF FlowInv, Stages, Voting
<1>2. flow'.pc = next /\ flow'.leaf = flow.leaf /\ flow'.tx = Newest + 1
  BY Sent DEF FlowInv, Stages, Voting
<1>3. UNCHANGED <<block, filled, log, votes, outcome>>
  BY DEF Send
<1>4. Newest + 1 \notin DOMAIN outcome
  BY NewestIsNumber DEF FlowInv, ReceiptInv, Numbered
<1>5. AwaitsItsJoin'
  BY <1>1, <1>2, <1>3, <1>4 DEF AwaitsItsJoin
<1>6. LeavesMayBeNamed'
  BY <1>1, <1>2, <1>3, NamedKept DEF LeafInv, LeavesMayBeNamed
<1> QED
  BY <1>5, <1>6 DEF LeafInv

(* A join of the device is logged in the block its receipt tells. *)
LEMMA LeafMined ==
    ASSUME FlowInv, LeafInv, NEW tx \in pool, MineOwn(tx)
    PROVE  LeafInv'
<1>1. /\ pool' = pool \ {tx}
      /\ votes' = IF tx.what = "vote" THEN votes \cup {tx} ELSE votes
      /\ UNCHANGED <<block, flow>>
  BY DEF MineOwn
<1>2. /\ DOMAIN outcome' = DOMAIN outcome \cup {tx.id}
      /\ outcome'[tx.id].block = block
      /\ outcome'[tx.id].ok <=> (tx.what = "vote" \/ IndexOf(tx.what, Own) = 0)
      /\ \A id \in DOMAIN outcome : id # tx.id => outcome'[id] = outcome[id]
  BY MinedKeepsTypes DEF FlowInv
<1>3. ChainTyped /\ tx \in TxType /\ tx.id \notin DOMAIN outcome
      /\ \A other \in pool : other.id = tx.id => other = tx
  BY DEF FlowInv, ChainTyped, ReceiptInv, Numbered
<1>4. /\ \A i \in OwnJoins : i \in OwnJoins' /\ log'[i] = log[i]
      /\ \A n : MayBeNamed(n) => MayBeNamed(n)'
      /\ tx.what = "join" /\ IndexOf(tx.what, Own) = 0 =>
            \E i \in OwnJoins' : log'[i].block = block
  <2>1. CASE tx.what # "vote" /\ IndexOf(tx.what, Own) = 0
    <3>1. PICK e : e = [what |-> tx.what, key |-> Own, block |-> block]
      OBVIOUS
    <3>2. e \in Entry /\ e.what = tx.what /\ e.key = Own /\ e.block = block
      BY <1>3, <2>1, <3>1 DEF Entry, TxType, ChainTyped
    <3>3. log' = Append(log, e)
      BY <2>1, <3>1 DEF MineOwn, Mined
    <3>4. Len(log) + 1 \in DOMAIN log' /\ log'[Len(log) + 1] = e
      BY <1>3, <3>2, <3>3 DEF ChainTyped
    <3>5. tx.what = "join" => Len(log) + 1 \in OwnJoins' /\ log'[Len(log) + 1].block = block
      BY <3>2, <3>4 DEF OwnJoins, Of
    <3> QED
      BY <1>3, <3>2, <3>3, <3>5, AppendKeepsNamed
  <2>2. CASE ~(tx.what # "vote" /\ IndexOf(tx.what, Own) = 0)
    <3>1. log' = log
      BY <2>2 DEF MineOwn
    <3> QED
      BY <2>2, <3>1, NamedKept
  <2> QED
    BY <2>1, <2>2
<1>5. AwaitsItsJoin'
  <2>1. ASSUME flow.pc = "awaitJoin"
        PROVE  \/ flow.tx \in DOMAIN outcome'
               \/ \E other \in pool' : other.id = flow.tx /\ other.what = "join"
    BY <1>1, <1>2, <2>1 DEF LeafInv, AwaitsItsJoin
  <2>2. ASSUME flow.pc = "awaitJoin", flow.tx \in DOMAIN outcome', outcome'[flow.tx].ok
        PROVE  \E i \in OwnJoins' : log'[i].block = outcome'[flow.tx].block
    <3>1. CASE flow.tx = tx.id
      <4>1. tx.what = "join"
        BY <1>3, <2>2, <3>1 DEF LeafInv, AwaitsItsJoin
      <4> QED
        BY <1>2, <1>4, <2>2, <3>1, <4>1
    <3>2. CASE flow.tx # tx.id
      <4>1. flow.tx \in DOMAIN outcome /\ outcome'[flow.tx] = outcome[flow.tx]
        BY <1>2, <2>2, <3>2
      <4>2. PICK i \in OwnJoins : log[i].block = outcome[flow.tx].block
        BY <2>2, <4>1 DEF LeafInv, AwaitsItsJoin
      <4> QED
        BY <1>4, <4>1, <4>2
    <3> QED
      BY <3>1, <3>2
  <2> QED
    BY <1>1, <2>1, <2>2 DEF AwaitsItsJoin
<1>6. LeavesMayBeNamed'
  BY <1>1, <1>4 DEF LeafInv, LeavesMayBeNamed
<1> QED
  BY <1>5, <1>6 DEF LeafInv

(* Another voter's join, in the same block or another. *)
LEMMA LeafOther ==
    ASSUME FlowInv, LeafInv, NEW key \in Others, MineOther(key)
    PROVE  LeafInv'
<1>1. UNCHANGED <<votes, pool, outcome, flow>>
  BY DEF MineOther
<1>2. PICK e : e = [what |-> "join", key |-> key, block |-> block]
  OBVIOUS
<1>3. log' = Append(log, e)
  BY <1>2 DEF MineOther, Mined
<1>4. ChainTyped /\ e \in Entry
  BY <1>2 DEF FlowInv, ChainTyped, Entry
<1>5. /\ \A i \in OwnJoins : i \in OwnJoins' /\ log'[i] = log[i]
      /\ \A n : MayBeNamed(n) => MayBeNamed(n)'
  BY <1>3, <1>4, AppendKeepsNamed
<1>6. AwaitsItsJoin'
  BY <1>1, <1>5 DEF LeafInv, AwaitsItsJoin
<1>7. LeavesMayBeNamed'
  BY <1>1, <1>5 DEF LeafInv, LeavesMayBeNamed
<1> QED
  BY <1>6, <1>7 DEF LeafInv

LEMMA LeafSeal ==
    ASSUME LeafInv, Seal
    PROVE  LeafInv'
<1>1. UNCHANGED <<log, votes, pool, outcome, flow>>
  BY DEF Seal
<1>2. AwaitsItsJoin' /\ LeavesMayBeNamed'
  BY <1>1, NamedKept DEF LeafInv, AwaitsItsJoin, LeavesMayBeNamed
<1> QED
  BY <1>2 DEF LeafInv

LEMMA LeafGivenUp ==
    ASSUME LeafInv, UNCHANGED chain, flow' = IdleFlow
    PROVE  LeafInv'
  BY LeafKept DEF IdleFlow

(* Each step of the vote flow: what it looks up, sends or reads from a receipt. *)
LEMMA LeafFlow ==
    ASSUME FlowInv, LeafInv, Flow
    PROVE  LeafInv'
<1>1. ASSUME Fail
      PROVE  LeafInv'
  BY <1>1, LeafGivenUp DEF Fail, Finish
<1>2. ASSUME NEW next \in Stages \ {"publish", "awaitVote", "awaitJoin"}, UNCHANGED chain, Goes(next)
      PROVE  LeafInv'
  <2>1. flow'.pc = next
    BY <1>2 DEF Goes, FlowInv, Typed, FlowType
  <2> QED
    BY <1>2, <2>1, LeafKept
<1>3. CASE Begin
  BY <1>1, <1>2, <1>3 DEF Begin, Stages, Voting
<1>4. CASE LookupSignUp
  BY <1>2, <1>4 DEF LookupSignUp, Stages, Voting
<1>5. CASE SignUp
  <2>1. CASE Send("signUp", 0, "awaitSignUp")
    BY <2>1, LeafSent
  <2> QED
    BY <1>1, <1>5, <2>1 DEF SignUp
<1>6. CASE SignedUp
  BY <1>1, <1>2, <1>6 DEF SignedUp, Stages, Voting
<1>7. CASE LookupMember
  <2>1. CASE UNCHANGED chain /\ flow' = [flow EXCEPT !.leaf = LookupJoined,
                                  !.pc = IF LookupJoined = 0 THEN "join" ELSE "publish"]
    <3>1. flow'.leaf = LookupJoined /\ flow'.pc = IF LookupJoined = 0 THEN "join" ELSE "publish"
      BY <2>1 DEF FlowInv, Typed, FlowType
    <3>2. CASE LookupJoined = 0
      BY <2>1, <3>1, <3>2, LeafKept
    <3>3. CASE LookupJoined # 0
      <4>1. MayBeNamed(LookupJoined)
        BY <3>3, LookedUp DEF FlowInv, LookupJoined, JoinedIndex
      <4> QED
        BY <2>1, <3>1, <3>3, <4>1, LeafFound
    <3> QED
      BY <3>2, <3>3
  <2> QED
    BY <1>1, <1>7, <2>1 DEF LookupMember
<1>8. CASE Join
  <2>1. CASE Send("join", 0, "awaitJoin")
    BY <2>1, LeafSent
  <2>2. CASE Goes("recover") /\ UNCHANGED chain
    BY <1>2, <2>2 DEF Stages, Voting
  <2> QED
    BY <1>1, <1>8, <2>1, <2>2 DEF Join
<1>9. CASE Joined
  <2>1. flow.pc = "awaitJoin" /\ flow.tx \in DOMAIN outcome /\ UNCHANGED chain
    BY <1>9 DEF Joined, Waited
  <2>2. CASE /\ outcome[flow.tx].ok
             /\ flow' = [flow EXCEPT !.pc = "publish",
                                     !.leaf = IndexInBlock("join", outcome[flow.tx].block)]
    <3>1. flow'.leaf = IndexInBlock("join", outcome[flow.tx].block) /\ flow'.pc = "publish"
      BY <2>2 DEF FlowInv, Typed, FlowType
    <3>2. PICK i \in OwnJoins : log[i].block = outcome[flow.tx].block
      BY <2>1, <2>2 DEF LeafInv, AwaitsItsJoin
    <3>3. MayBeNamed(IndexInBlock("join", log[i].block))
      BY FirstOfBlock DEF FlowInv
    <3> QED
      BY <2>1, <3>1, <3>2, <3>3, LeafFound
  <2>3. CASE Goes("recover")
    BY <1>2, <2>1, <2>3 DEF Stages, Voting
  <2> QED
    BY <1>9, <2>2, <2>3 DEF Joined, Succeeded
<1>10. CASE Recover
  <2>1. CASE LookupJoined > 0 /\ UNCHANGED chain /\ flow' = [flow EXCEPT !.pc = "publish", !.leaf = LookupJoined]
    <3>1. flow'.leaf = LookupJoined /\ flow'.pc = "publish"
      BY <2>1 DEF FlowInv, Typed, FlowType
    <3>2. MayBeNamed(LookupJoined)
      BY <2>1, LookedUp DEF FlowInv, LookupJoined, JoinedIndex
    <3> QED
      BY <2>1, <3>1, <3>2, LeafFound
  <2> QED
    BY <1>1, <1>10, <2>1 DEF Recover
<1>11. CASE Publish
  <2>1. CASE Send("vote", flow.leaf, "awaitVote")
    <3>1. MayBeNamed(flow.leaf) /\ flow.leaf \in Nat
      BY <1>11, NoLeaf DEF Publish, LeafInv, LeavesMayBeNamed
    <3> QED
      BY <2>1, <3>1, LeafSent
  <2> QED
    BY <1>1, <1>11, <2>1 DEF Publish
<1>12. CASE Published
  BY <1>12, LeafGivenUp DEF Published, Finish
<1>13. CASE FlowFails
  BY <1>1, <1>2, <1>13 DEF FlowFails, Stages, Voting
<1>14. CASE Vote
  <2>1. UNCHANGED chain /\ flow'.pc = "session"
    BY <1>14 DEF Vote, IdleFlow
  <2> QED
    BY <2>1, LeafKept
<1>15. CASE Session
  <2>1. UNCHANGED chain /\ flow'.pc = "begin"
    BY <1>15 DEF Session, Account, FlowInv, Typed, FlowType
  <2> QED
    BY <2>1, LeafKept
<1> QED
  BY <1>3, <1>4, <1>5, <1>6, <1>7, <1>8, <1>9, <1>10, <1>11, <1>12, <1>13, <1>14, <1>15 DEF Flow

LEMMA LeafNext ==
    ASSUME FlowInv, LeafInv, [Next]_vars
    PROVE  LeafInv'
<1>1. CASE UNCHANGED <<chain, flow>>
  BY <1>1, LeafKept
<1>2. CASE Hydration
  BY <1>1, <1>2 DEF Hydration
<1>3. ASSUME NEW a \in Accounts \cup {None}, Switch(a)
      PROVE  LeafInv'
  BY <1>1, <1>3 DEF Switch
<1>4. CASE Reset
  BY <1>1, <1>4 DEF Reset
<1>5. CASE Reload
  BY <1>5, LeafGivenUp DEF Reload
<1>6. CASE Connect
  <2>1. UNCHANGED chain /\ flow'.pc = "connect"
    BY <1>6 DEF Connect, IdleFlow
  <2> QED
    BY <2>1, LeafKept
<1>7. CASE Pick
  <2>1. UNCHANGED chain /\ flow'.pc = "connected"
    BY <1>7 DEF Pick, Account, FlowInv, Typed, FlowType
  <2> QED
    BY <2>1, LeafKept
<1>8. CASE Connected
  BY <1>8, LeafGivenUp DEF Connected, Finish
<1>9. CASE UNCHANGED vars
  BY <1>1, <1>9 DEF vars
<1> QED
  BY <1>2, <1>3, <1>4, <1>5, <1>6, <1>7, <1>8, <1>9, LeafSeal, LeafFlow, LeafMined, LeafOther DEF Next

LEMMA LeafStarts ==
    ASSUME Init
    PROVE  LeafInv
  BY DEF Init, IdleFlow, LeafInv, AwaitsItsJoin, LeavesMayBeNamed

(* Every vote names the leaf of the device's own key, or that of a join mined before its own
   in the same block: a receipt of the join leads to its block and not to its event, and
   what a recovery or a second visit finds on the chain is the own join. *)
THEOREM OwnLeafOrOneBeforeHolds == Spec => []OwnLeafOrOneBefore
<1>1. Init => LeafInv
  BY LeafStarts
<1>2. FlowInv /\ LeafInv /\ [Next]_vars => LeafInv'
  BY LeafNext
<1>3. FlowInv /\ LeafInv => OwnLeafOrOneBefore
  <2> SUFFICES ASSUME FlowInv, LeafInv, NEW vote \in votes
               PROVE  \E own, place \in Of("join") :
                         /\ log[own].key = Own
                         /\ log[place].block = log[own].block /\ place <= own
                         /\ vote.leaf = Number("join", place)
    BY DEF OwnLeafOrOneBefore
  <2>1. MayBeNamed(vote.leaf)
    BY DEF FlowInv, ReceiptInv, VotesAreMined, LeafInv, LeavesMayBeNamed
  <2> QED
    BY <2>1 DEF MayBeNamed, OwnJoins
<1> QED
  BY <1>1, <1>2, <1>3, FlowInvHolds, PTL DEF Spec
=============================================================================
