---------------------------- MODULE Names_proofs ----------------------------
(***************************************************************************)
(* Proofs about Names, for any accounts, labels, dates and bounds.         *)
(***************************************************************************)
EXTENDS Names, TLAPS

Kinds == {"load", "claim", "namePoll", "hook", "lookup"}

(* Only submissions send, and they do it after they have checked the account; the last
   await of a route is a check. *)
LEMMA Routes ==
    /\ \A kind \in Submits :
          /\ Route[kind][6] = "assert"
          /\ \A i \in 1..6 : Route[kind][i] # "send"
          /\ \A i \in 1..Len(Route[kind]) : Route[kind][i] = "peek" => i = 1
    /\ \A kind \in Kinds :
          /\ Len(Route[kind]) \in Nat \ {0}
          /\ Route[kind][Len(Route[kind])] \in {"assert", "check"}
          /\ \A i \in 1..Len(Route[kind]) : Route[kind][i] = "send" => kind \in Submits
<1>2. /\ Len(Route["claim"]) = 14 /\ Route["claim"][6] = "assert" /\ Route["claim"][14] = "assert"
      /\ \A i \in 1..6 : Route["claim"][i] # "send"
      /\ \A i \in 1..14 : Route["claim"][i] = "peek" => i = 1
  BY DEF Route
<1>3. /\ Len(Route["namePoll"]) = 13 /\ Route["namePoll"][6] = "assert" /\ Route["namePoll"][13] = "assert"
      /\ \A i \in 1..6 : Route["namePoll"][i] # "send"
      /\ \A i \in 1..13 : Route["namePoll"][i] = "peek" => i = 1
  BY DEF Route
<1>4. /\ Len(Route["load"]) = 7 /\ Route["load"][7] = "check"
      /\ \A i \in 1..7 : Route["load"][i] # "send"
  BY DEF Route
<1>5. /\ Len(Route["hook"]) = 6 /\ Route["hook"][6] = "check"
      /\ \A i \in 1..6 : Route["hook"][i] # "send"
  BY DEF Route
<1>6. /\ Len(Route["lookup"]) = 3 /\ Route["lookup"][3] = "check"
      /\ \A i \in 1..3 : Route["lookup"][i] # "send"
  BY DEF Route
<1>7. ASSUME NEW kind \in Submits
      PROVE  /\ Route[kind][6] = "assert"
             /\ \A i \in 1..6 : Route[kind][i] # "send"
             /\ \A i \in 1..Len(Route[kind]) : Route[kind][i] = "peek" => i = 1
  <2>1. CASE kind = "claim"
    BY <2>1, <1>2
  <2>2. CASE kind = "namePoll"
    BY <2>2, <1>3
  <2> QED
    BY <2>1, <2>2 DEF Submits
<1>8. ASSUME NEW kind \in Kinds
      PROVE  /\ Len(Route[kind]) \in Nat \ {0}
             /\ Route[kind][Len(Route[kind])] \in {"assert", "check"}
             /\ \A i \in 1..Len(Route[kind]) : Route[kind][i] = "send" => kind \in Submits
  <2>1. CASE kind = "claim"
    BY <2>1, <1>2 DEF Submits
  <2>5. CASE kind = "namePoll"
    BY <2>5, <1>3 DEF Submits
  <2>2. CASE kind = "load"
    BY <2>2, <1>4
  <2>3. CASE kind = "hook"
    BY <2>3, <1>5
  <2>4. CASE kind = "lookup"
    BY <2>4, <1>6
  <2> QED
    BY <2>1, <2>2, <2>3, <2>4, <2>5 DEF Kinds
<1> QED
  BY <1>7, <1>8

-----------------------------------------------------------------------------
(* A state of the contract: what is registered for a node has the resource of the
   registration, and a name that was taken back has an earlier one than its node. *)
Registered == [owner : Accounts \cup {None}, resource : Nat, here : BOOLEAN]
Entries == UNION {[known -> [owner : Accounts, resource : Nat]] : known \in SUBSET Nodes}
States == [entries : Entries, expired : BOOLEAN, ended : SUBSET Nodes, registry : [Nodes -> Registered]]
EntryOK(st, node) ==
    /\ node \in DOMAIN st.entries => st.entries[node].resource <= st.registry[node].resource
    /\ node \in st.ended => /\ node \in DOMAIN st.entries
                            /\ st.entries[node].resource < st.registry[node].resource
GoodStates == {st \in States : \A node \in Nodes : EntryOK(st, node)}
Blocks == [state : GoodStates, fork : Nat]
Transactions ==
    [from : Accounts, isPoll : BOOLEAN, label : Labels, shown : Accounts \cup {None},
     consent : Accounts \cup {None}, block : Nat, ok : BOOLEAN]

ChainInv == chain \in Seq(Blocks) /\ chain # <<>> /\ reorgs \in Nat /\ txs \subseteq Transactions

(* The last block, the one before it, and a chain that is extended or cut. *)
LEMMA LastOf ==
    ASSUME NEW S, NEW s \in Seq(S), s # <<>>
    PROVE  /\ Len(s) \in Nat \ {0} /\ s[Len(s)] \in S
           /\ \A x \in S : Append(s, x) \in Seq(S) /\ Append(s, x) # <<>>
           /\ Len(s) > 1 => Front(s) \in Seq(S) /\ s[Len(s) - 1] \in S
BY DEF Front

(* What an administrator changes at one node keeps the state good, as long as resources
   only grow. *)
LEMMA RegistryChanged ==
    ASSUME NEW st \in GoodStates, NEW node \in Nodes, NEW to \in Registered,
           to.resource >= st.registry[node].resource
    PROVE  Rewritten(st, node, to) \in GoodStates
<1> DEFINE new == Rewritten(st, node, to)
<1>1. /\ new \in States /\ new.entries = st.entries /\ new.ended = st.ended
      /\ new.registry = [st.registry EXCEPT ![node] = to]
  BY DEF GoodStates, States, Rewritten
<1>2. /\ st.registry \in [Nodes -> Registered]
      /\ \A n \in DOMAIN st.entries : n \in Nodes /\ st.entries[n].resource \in Nat
  BY DEF GoodStates, States, Entries
<1>3. \A n \in Nodes : EntryOK(new, n)
  <2> TAKE n \in Nodes
  <2>1. EntryOK(st, n)
    BY DEF GoodStates
  <2>2. new.registry[n] = (IF n = node THEN to ELSE st.registry[n])
    BY <1>1, <1>2
  <2>3. st.registry[n].resource \in Nat /\ to.resource \in Nat
    BY <1>2 DEF Registered
  <2> QED
    BY <1>1, <1>2, <2>1, <2>2, <2>3 DEF EntryOK
<1> QED
  BY <1>1, <1>3 DEF GoodStates

LEMMA Administration ==
    ASSUME NEW name \in Registered, NEW to \in Administered(name)
    PROVE  to \in Registered /\ to.resource >= name.resource
<1> DEFINE other == [name EXCEPT !.here = ~@]
<1>1. name = [owner |-> name.owner, resource |-> name.resource, here |-> name.here]
  BY DEF Registered
<1>2. ASSUME NEW a \in Accounts
      PROVE  \A new \in {[name EXCEPT !.owner = a, !.here = TRUE], [name EXCEPT !.owner = a]} :
                new \in Registered /\ new.resource = name.resource
  BY <1>1 DEF Registered
<1>3. other \in Registered /\ other.resource = name.resource /\ name.resource \in Nat
  BY <1>1 DEF Registered
<1>4. \/ \E a \in Accounts : to \in {[name EXCEPT !.owner = a, !.here = TRUE], [name EXCEPT !.owner = a]}
      \/ to = other
  <2>1. CASE name.owner = None
    BY <2>1 DEF Administered
  <2>2. CASE name.owner # None
    BY <2>2 DEF Administered
  <2> QED
    BY <2>1, <2>2
<1>5. CASE \E a \in Accounts : to \in {[name EXCEPT !.owner = a, !.here = TRUE], [name EXCEPT !.owner = a]}
  <2>1. PICK a \in Accounts : to \in {[name EXCEPT !.owner = a, !.here = TRUE], [name EXCEPT !.owner = a]}
    BY <1>5
  <2>2. to \in Registered /\ to.resource = name.resource
    BY <2>1, <1>2
  <2>3. name.resource \in Nat
    BY DEF Registered
  <2> HIDE DEF other
  <2> QED
    BY <2>2, <2>3
<1>6. CASE to = other
  <2> HIDE DEF other
  <2> QED
    BY <1>6, <1>3
<1> QED
  BY <1>4, <1>5, <1>6

LEMMA RegisterIsGood ==
    ASSUME NEW st \in GoodStates, NEW from \in Accounts, NEW isPoll \in BOOLEAN, NEW label \in Labels,
           MayRegister(st, from, isPoll, label)
    PROVE  Register(st, from, isPoll, label) \in GoodStates
<1> DEFINE node == <<isPoll, label>>
           entry == [owner |-> from, resource |-> st.registry[node].resource]
           new == Register(st, from, isPoll, label)
           entries == [n \in DOMAIN st.entries \cup {node} |-> IF n = node THEN entry ELSE st.entries[n]]
           to == [st.registry[node] EXCEPT !.owner = from, !.here = TRUE]
<1>1. node \in Nodes /\ node \notin DOMAIN st.entries
  BY DEF Nodes, MayRegister, Available
<1>2. /\ st \in States /\ st.registry \in [Nodes -> Registered] /\ st.ended \subseteq Nodes
      /\ st.entries \in Entries /\ DOMAIN st.entries \subseteq Nodes
      /\ \A n \in DOMAIN st.entries : st.entries[n] \in [owner : Accounts, resource : Nat]
  BY DEF GoodStates, States, Entries
<1>3. /\ st.registry[node] \in Registered /\ to \in Registered
      /\ to.resource = st.registry[node].resource /\ st.registry[node].resource \in Nat
  BY <1>1, <1>2 DEF Registered
<1>4. /\ new.registry = [st.registry EXCEPT ![node] = to] /\ new.entries = entries
      /\ new.ended = st.ended /\ new.expired = st.expired
      /\ new = [entries |-> entries, expired |-> st.expired, ended |-> st.ended,
                registry |-> [st.registry EXCEPT ![node] = to]]
  <2> DEFINE mid == [st EXCEPT !.registry[node] = to]
  <2>1. mid = [entries |-> st.entries, expired |-> st.expired, ended |-> st.ended,
               registry |-> [st.registry EXCEPT ![node] = to]]
    BY <1>2 DEF States
  <2>2. new = [mid EXCEPT !.entries =
                  [n \in DOMAIN mid.entries \cup {node} |-> IF n = node THEN entry ELSE mid.entries[n]]]
    BY DEF Register
  <2>3. new = [mid EXCEPT !.entries = entries]
    BY <2>1, <2>2
  <2> HIDE DEF mid, entries, to, new
  <2> QED
    BY <2>1, <2>3
<1>5. entries \in Entries
  <2>1. entries \in [DOMAIN st.entries \cup {node} -> [owner : Accounts, resource : Nat]]
    BY <1>2, <1>3
  <2>2. DOMAIN st.entries \cup {node} \in SUBSET Nodes
    BY <1>1, <1>2
  <2> QED
    BY <2>1, <2>2 DEF Entries
<1>6. new \in States
  BY <1>1, <1>2, <1>3, <1>4, <1>5 DEF States
<1>7. \A n \in Nodes : EntryOK(new, n)
  <2> TAKE n \in Nodes
  <2>1. EntryOK(st, n)
    BY DEF GoodStates
  <2>2. CASE n = node
    BY <1>1, <1>2, <1>3, <1>4, <2>1, <2>2 DEF EntryOK
  <2>3. CASE n # node
    BY <1>1, <1>2, <1>3, <1>4, <2>1, <2>3 DEF EntryOK
  <2> QED
    BY <2>2, <2>3
<1> QED
  BY <1>6, <1>7 DEF GoodStates

LEMMA TakenBackIsGood ==
    ASSUME NEW st \in GoodStates, NEW node \in Nodes
    PROVE  TakenBack(st, node) \in GoodStates
<1> DEFINE next == TakenBack(st, node)
           to == [owner |-> None, resource |-> st.registry[node].resource + 1, here |-> FALSE]
           back == Rewritten(st, node, to)
<1>1. /\ st \in States /\ st.registry \in [Nodes -> Registered] /\ st.ended \subseteq Nodes
  BY DEF GoodStates, States
<1>2. /\ to \in Registered /\ to.resource >= st.registry[node].resource
      /\ st.registry[node].resource \in Nat /\ to.resource > st.registry[node].resource
  BY <1>1 DEF Registered
<1>3. back \in GoodStates /\ back \in States
  <2> HIDE DEF to
  <2>1. back \in GoodStates
    BY <1>2, RegistryChanged
  <2> QED
    BY <2>1 DEF GoodStates
<1>4. /\ back.entries = st.entries /\ back.ended = st.ended /\ back.registry[node] = to
  BY <1>1 DEF Rewritten, States
<1>5. next = [back EXCEPT !.ended = IF node \in DOMAIN st.entries THEN st.ended \cup {node} ELSE st.ended]
  BY <1>4 DEF TakenBack
<1> HIDE DEF back, to, next
<1>6. /\ next \in States /\ next.entries = back.entries /\ next.registry = back.registry
      /\ next.ended = (IF node \in DOMAIN st.entries THEN st.ended \cup {node} ELSE st.ended)
  BY <1>1, <1>3, <1>5 DEF States
<1>7. node \in DOMAIN st.entries => st.entries[node].resource < back.registry[node].resource
  <2>1. EntryOK(st, node)
    BY DEF GoodStates
  <2>2. node \in DOMAIN st.entries => st.entries[node].resource \in Nat
    BY <1>1 DEF GoodStates, States, Entries
  <2>3. to.resource \in Nat
    BY <1>2 DEF Registered
  <2> QED
    BY <1>2, <1>4, <2>1, <2>2, <2>3 DEF EntryOK
<1>8. \A n \in Nodes : EntryOK(back, n)
  BY <1>3 DEF GoodStates
<1>9. \A n \in Nodes : EntryOK(next, n)
  BY <1>4, <1>6, <1>7, <1>8 DEF EntryOK
<1>10. next \in GoodStates
  BY <1>6, <1>9 DEF GoodStates
<1> QED
  BY <1>10 DEF next

LEMMA ExpiredIsGood ==
    ASSUME NEW st \in GoodStates
    PROVE  [st EXCEPT !.expired = TRUE] \in GoodStates
<1> DEFINE next == [st EXCEPT !.expired = TRUE]
<1>1. /\ next \in States /\ next.entries = st.entries /\ next.ended = st.ended
      /\ next.registry = st.registry
  BY DEF GoodStates, States
<1> QED
  BY <1>1 DEF GoodStates, EntryOK

-----------------------------------------------------------------------------
(* The tasks and the page: what a task holds, and how it stands to the wallet.  With no
   event of the wallet under way, what the names page shows is the wallet's, as is what a
   load of its generation has found and what a submission that nothing aborted was asked
   under; a submission past its first comparison acts for the account it was asked under. *)
Someone == Accounts \cup {None}
Texts == Labels \cup {None, "INVALID_WINDOW", "UPCOMING", "CLOSED", "OPEN"}
Tasks ==
    [kind : Kinds, at : Nat, current : BOOLEAN, changed : BOOLEAN, shown : Someone, consent : Someone,
     account : Someone, label : Labels \cup {None}, name : Texts, n : Nat, fork : Nat]
Pages ==
    [account : Someone, profile : Texts, config : BOOLEAN, loading : BOOLEAN, busy : BOOLEAN,
     consent : Someone, published : Texts, refresh : BOOLEAN, connecting : BOOLEAN,
     url : Labels \cup {None}, phase : {"idle", "loading", "ready", "error"},
     result : Texts, status : Texts]

TaskType(t) ==
    /\ t \in Tasks /\ t.at \in 1..Len(Route[t.kind])
    /\ t.kind \in Submits => t.label \in Labels
LoadOK(t) ==
    t.kind = "load" /\ t.current =>
        /\ visit = "names"
        /\ events = 0 /\ t.account # None => t.account = wallet
SubmitOK(t) ==
    /\ t.kind \in Submits /\ ~t.changed =>
        /\ visit = "names"
        /\ events = 0 => t.shown = wallet /\ (t.kind = "claim" => t.consent = wallet)
    /\ t.kind \in Submits /\ t.at > 6 =>
        t.account = t.shown /\ (t.kind = "claim" => t.consent = t.account)
TaskOK(t) == TaskType(t) /\ LoadOK(t) /\ SubmitOK(t)
TasksInv == \A t \in tasks : TaskOK(t)

PageInv ==
    /\ page \in Pages /\ wallet \in Someone /\ events \in Nat
    /\ visit = "names" /\ events = 0 =>
        page.account \in {None, wallet} /\ page.consent \in {None, wallet}

Inv == ChainInv /\ TasksInv /\ PageInv /\ SentByTheShown

(* A task that goes on, and one that ends. *)
LEMMA GoesKeeps ==
    ASSUME TasksInv, PageInv, NEW t \in tasks, NEW u \in Tasks, Goes(t, u),
           UNCHANGED <<wallet, events, visit>>,
           u.kind = t.kind, u.current = t.current, u.changed = t.changed, u.shown = t.shown,
           u.consent = t.consent, u.label = t.label, ~IsLast(t),
           u.account # t.account => Pc(t) = "peek" /\ events = 0 /\ u.account = wallet,
           Pc(t) = "assert" => events = 0 /\ StillCurrent(t)
    PROVE  TasksInv' /\ PageInv'
<1> DEFINE new == [u EXCEPT !.at = t.at + 1]
<1>1. TaskOK(t) /\ t \in Tasks /\ t.kind \in Kinds /\ t.at \in 1..Len(Route[t.kind])
  BY DEF TasksInv, TaskOK, TaskType, Tasks
<1>2. Len(Route[t.kind]) \in Nat \ {0} /\ t.at \in Nat /\ t.at + 1 \in 1..Len(Route[t.kind])
  BY <1>1, Routes DEF IsLast
<1>3. /\ new \in Tasks /\ new.kind = t.kind /\ new.current = t.current /\ new.changed = t.changed
      /\ new.shown = t.shown /\ new.consent = t.consent /\ new.label = t.label
      /\ new.account = u.account /\ new.at = t.at + 1
  BY <1>2 DEF Tasks
<1> HIDE DEF new
<1>4. TaskType(new)
  BY <1>1, <1>2, <1>3 DEF TaskOK, TaskType
<1>5. LoadOK(new)
  BY <1>1, <1>3 DEF TaskOK, LoadOK
<1>6. SubmitOK(new)
  <2>1. new.kind \in Submits /\ ~new.changed =>
          /\ visit = "names"
          /\ events = 0 => new.shown = wallet /\ (new.kind = "claim" => new.consent = wallet)
    BY <1>1, <1>3 DEF TaskOK, SubmitOK
  <2>2. ASSUME new.kind \in Submits, new.at > 6
        PROVE  new.account = new.shown /\ (new.kind = "claim" => new.consent = new.account)
    <3>1. Pc(t) = "peek" => t.at = 1
      BY <1>1, <1>3, <2>2, Routes DEF Pc
    <3>2. new.account = t.account
      BY <1>2, <1>3, <2>2, <3>1
    <3>3. CASE t.at > 6
      BY <1>1, <1>3, <2>2, <3>2, <3>3 DEF TaskOK, SubmitOK
    <3>4. CASE t.at = 6
      <4>1. events = 0 /\ wallet = t.account /\ ~t.changed
        BY <1>3, <2>2, <3>4, Routes DEF Pc, StillCurrent
      <4> QED
        BY <1>1, <1>3, <2>2, <3>2, <4>1 DEF TaskOK, SubmitOK
    <3> QED
      BY <1>2, <1>3, <2>2, <3>3, <3>4
  <2> QED
    BY <2>1, <2>2 DEF SubmitOK
<1>7. tasks' = (tasks \ {t}) \cup {new} /\ page' = page
  BY DEF Goes, new
<1>8. \A s : TaskOK(s)' <=> TaskOK(s)
  BY DEF TaskOK, TaskType, LoadOK, SubmitOK
<1>9. TasksInv'
  BY <1>4, <1>5, <1>6, <1>7, <1>8 DEF TasksInv, TaskOK
<1> QED
  BY <1>7, <1>9 DEF PageInv

LEMMA EndsKeeps ==
    ASSUME TasksInv, PageInv, NEW t \in tasks, NEW shown \in Pages, Ends(t, shown),
           UNCHANGED <<wallet, events, visit>>,
           shown.consent = page.consent,
           shown.account \in {page.account, None} \/ (t.kind = "load" /\ shown.account = t.account)
    PROVE  TasksInv' /\ PageInv'
<1>1. TaskOK(t) /\ t \in Tasks
  BY DEF TasksInv, TaskOK, TaskType
<1>2. \A s : TaskOK(s)' <=> TaskOK(s)
  BY DEF TaskOK, TaskType, LoadOK, SubmitOK
<1>3. tasks' = tasks \ {t}
  BY DEF Ends
<1>4. TasksInv'
  BY <1>2, <1>3 DEF TasksInv
<1> DEFINE base == IF t.current THEN shown ELSE page
<1>5. base \in Pages /\ page' = [base EXCEPT !.busy = base.busy /\ t.kind \notin Submits]
  BY DEF Ends, PageInv
<1>6. /\ page' \in Pages /\ page'.account = base.account /\ page'.consent = base.consent
  <2> HIDE DEF base
  <2> QED
    BY <1>5 DEF Pages
<1>7. visit = "names" /\ events = 0 => base.account \in {None, wallet} /\ base.consent \in {None, wallet}
  BY <1>1 DEF PageInv, TaskOK, LoadOK
<1> QED
  BY <1>4, <1>6, <1>7 DEF PageInv

(* What a task shows at its end leaves the consent alone, and of the account only a load
   makes anything else. *)
LEMMA ShownIsPage ==
    ASSUME page \in Pages, NEW u \in Tasks
    PROVE  /\ Shown(u) \in Pages /\ Shown(u).consent = page.consent
           /\ IF u.kind = "load" THEN Shown(u).account = u.account ELSE Shown(u).account = page.account
<1>1. /\ u.kind \in Kinds /\ u.account \in Someone /\ u.name \in Texts
      /\ u.label \in Labels \cup {None} /\ u.label \in Texts
  BY DEF Tasks, Texts
<1>2. CASE u.kind = "load"
  BY <1>1, <1>2 DEF Shown, Pages
<1>3. CASE u.kind = "claim"
  BY <1>1, <1>3 DEF Shown, Pages
<1>4. CASE u.kind = "namePoll"
  BY <1>1, <1>4 DEF Shown, Pages
<1>5. CASE u.kind = "hook"
  BY <1>1, <1>5 DEF Shown, Pages
<1>6. CASE u.kind = "lookup"
  <2>1. Shown(u) = [page EXCEPT !.phase = "ready", !.result = u.label, !.status = u.name]
    BY <1>6 DEF Shown
  <2> QED
    BY <1>1, <1>6, <2>1 DEF Pages
<1> QED
  BY <1>1, <1>2, <1>3, <1>4, <1>5, <1>6 DEF Kinds

LEMMA FailsKeeps ==
    ASSUME TasksInv, PageInv, NEW t \in tasks, Fails(t), UNCHANGED <<wallet, events, visit>>
    PROVE  TasksInv' /\ PageInv'
<1> DEFINE shown == CASE t.kind = "lookup" -> [page EXCEPT !.phase = "error"]
                      [] t.kind = "hook" -> [page EXCEPT !.profile = None]
                      [] OTHER -> [page EXCEPT !.loading = @ /\ t.kind # "load"]
<1>1. page \in Pages
  BY DEF PageInv
<1>2. shown \in Pages /\ shown.consent = page.consent /\ shown.account = page.account
  <2>1. CASE t.kind = "lookup"
    BY <1>1, <2>1 DEF Pages
  <2>2. CASE t.kind = "hook"
    BY <1>1, <2>2 DEF Pages, Texts
  <2>3. CASE t.kind \notin {"lookup", "hook"}
    <3>1. shown = [page EXCEPT !.loading = page.loading /\ t.kind # "load"]
      BY <2>3
    <3>2. [page EXCEPT !.loading = page.loading /\ t.kind # "load"] \in Pages
      BY <1>1 DEF Pages
    <3> QED
      BY <1>1, <3>1, <3>2 DEF Pages
  <2> QED
    BY <2>1, <2>2, <2>3
<1>3. Ends(t, shown)
  BY DEF Fails
<1>4. PICK new \in Pages : new = shown
  BY <1>2
<1>5. Ends(t, new) /\ new.consent = page.consent /\ new.account = page.account
  BY <1>2, <1>3, <1>4
<1> HIDE DEF shown
<1> QED
  BY <1>5, EndsKeeps

LEMMA NotLast ==
    ASSUME NEW t, TaskType(t), Pc(t) \notin {"assert", "check"}
    PROVE  ~IsLast(t)
BY Routes DEF TaskType, Tasks, Pc, IsLast

LEMMA PassesKeeps ==
    ASSUME TasksInv, PageInv, NEW t \in tasks, NEW u \in Tasks, Passes(t, u),
           UNCHANGED <<wallet, events, visit>>,
           u.kind = t.kind, u.current = t.current, u.changed = t.changed, u.shown = t.shown,
           u.consent = t.consent, u.label = t.label, u.account = t.account,
           Pc(t) = "assert" => events = 0 /\ StillCurrent(t)
    PROVE  TasksInv' /\ PageInv'
<1>1. CASE IsLast(t)
  <2>1. Ends(t, Shown(u))
    BY <1>1 DEF Passes
  <2>2. /\ Shown(u) \in Pages /\ Shown(u).consent = page.consent
        /\ IF u.kind = "load" THEN Shown(u).account = u.account ELSE Shown(u).account = page.account
    BY ShownIsPage DEF PageInv
  <2>3. PICK new \in Pages : new = Shown(u)
    BY <2>2
  <2>4. /\ Ends(t, new) /\ new.consent = page.consent
        /\ new.account \in {page.account, None} \/ (t.kind = "load" /\ new.account = t.account)
    BY <2>1, <2>2, <2>3
  <2> QED
    BY <2>4, EndsKeeps
<1>2. CASE ~IsLast(t)
  <2>1. Goes(t, u)
    BY <1>2 DEF Passes
  <2> QED
    BY <1>2, <2>1, GoesKeeps
<1> QED
  BY <1>1, <1>2

-----------------------------------------------------------------------------
(* The steps of the tasks. *)
LEMMA StepKeeps ==
    ASSUME Inv, NEW t \in tasks, Step(t)
    PROVE  Inv'
<1>1. TasksInv /\ PageInv /\ ChainInv /\ TaskOK(t) /\ TaskType(t) /\ t \in Tasks
  BY DEF Inv, TasksInv, TaskOK, TaskType
<1>2. UNCHANGED <<wallet, events, visit>> /\ chain' = chain /\ reorgs' = reorgs
  BY DEF Step, outside
<1>3. /\ t.kind \in Kinds /\ t.account \in Someone /\ t.n \in Nat /\ t.fork \in Nat
      /\ t.shown \in Someone /\ t.consent \in Someone /\ wallet \in Someone
  BY <1>1 DEF Tasks, PageInv
<1>4. Height \in Nat /\ chain[Height].fork \in Nat
  <2>1. Height \in Nat \ {0} /\ chain[Height] \in Blocks
    BY <1>1, LastOf DEF ChainInv, Height
  <2> QED
    BY <2>1 DEF Blocks
<1>5. CASE Fails(t) /\ UNCHANGED txs
  BY <1>1, <1>2, <1>5, FailsKeeps DEF Inv, ChainInv, SentByTheShown
<1>6. ASSUME NEW u \in Tasks, u = [t EXCEPT !.n = u.n, !.fork = u.fork, !.name = u.name],
             Passes(t, u) \/ (Pc(t) \notin {"assert", "check"} /\ Goes(t, u)),
             Pc(t) = "assert" => events = 0 /\ StillCurrent(t)
      PROVE  TasksInv' /\ PageInv'
  <2>1. /\ u.kind = t.kind /\ u.current = t.current /\ u.changed = t.changed /\ u.shown = t.shown
        /\ u.consent = t.consent /\ u.label = t.label /\ u.account = t.account
    BY <1>1, <1>6 DEF Tasks
  <2>2. CASE Passes(t, u)
    BY <1>1, <1>2, <1>6, <2>1, <2>2, PassesKeeps
  <2>3. CASE Pc(t) \notin {"assert", "check"} /\ Goes(t, u)
    <3>1. ~IsLast(t)
      BY <1>1, <2>3, NotLast
    <3> QED
      BY <1>1, <1>2, <1>6, <2>1, <2>3, <3>1, GoesKeeps
  <2> QED
    BY <1>6, <2>2, <2>3
<1>7. ASSUME TasksInv', PageInv', UNCHANGED txs
      PROVE  Inv'
  BY <1>1, <1>2, <1>7 DEF Inv, ChainInv, SentByTheShown
<1>8. t = [t EXCEPT !.n = t.n, !.fork = t.fork, !.name = t.name]
  BY <1>1 DEF Tasks
<1>9. CASE Block(t)
  <2>1. PICK u : u = [t EXCEPT !.n = Height, !.fork = chain[Height].fork]
    OBVIOUS
  <2>2. u \in Tasks /\ u = [t EXCEPT !.n = u.n, !.fork = u.fork, !.name = u.name]
    BY <1>1, <1>4, <2>1 DEF Tasks
  <2>3. Goes(t, u) /\ Pc(t) = "block" /\ UNCHANGED txs
    BY <1>9, <2>1 DEF Block
  <2> QED
    BY <1>6, <1>7, <2>2, <2>3
<1>10. CASE ReadConfig(t)
  <2>1. PICK u : u = [t EXCEPT !.n = 0, !.fork = 0]
    OBVIOUS
  <2>2. u \in Tasks /\ u = [t EXCEPT !.n = u.n, !.fork = u.fork, !.name = u.name]
    BY <1>1, <2>1 DEF Tasks
  <2>3. (Goes(t, u) \/ Fails(t)) /\ Pc(t) = "config" /\ UNCHANGED txs
    BY <1>10, <2>1 DEF ReadConfig
  <2> QED
    BY <1>5, <1>6, <1>7, <2>2, <2>3
<1>11. CASE Peek(t)
  <2>1. Pc(t) = "peek" /\ events = 0 /\ UNCHANGED txs
    BY <1>11 DEF Peek
  <2>2. CASE t.kind = "load" /\ wallet = None
    <3>1. PICK u : u = [t EXCEPT !.account = None]
      OBVIOUS
    <3>2. u \in Tasks /\ u.kind = "load" /\ u.account = None
      BY <1>1, <2>2, <3>1 DEF Tasks, Someone
    <3>3. Ends(t, Shown(u))
      BY <1>11, <2>2, <3>1 DEF Peek
    <3>4. Shown(u) \in Pages /\ Shown(u).consent = page.consent /\ Shown(u).account = None
      BY <1>1, <3>2, ShownIsPage DEF PageInv
    <3>5. PICK new \in Pages : new = Shown(u)
      BY <3>4
    <3>6. Ends(t, new) /\ new.consent = page.consent /\ new.account = None
      BY <3>3, <3>4, <3>5
    <3>7. TasksInv' /\ PageInv'
      BY <1>1, <1>2, <3>6, EndsKeeps
    <3> QED
      BY <1>7, <2>1, <3>7
  <2>3. CASE t.kind # "load" /\ wallet = None
    BY <1>5, <1>11, <2>3 DEF Peek
  <2>4. CASE wallet # None
    <3>1. PICK u : u = [t EXCEPT !.account = wallet]
      OBVIOUS
    <3>2. /\ u \in Tasks /\ u.kind = t.kind /\ u.current = t.current /\ u.changed = t.changed
          /\ u.shown = t.shown /\ u.consent = t.consent /\ u.label = t.label /\ u.account = wallet
      BY <1>1, <1>3, <3>1 DEF Tasks
    <3>3. Goes(t, u)
      BY <1>11, <2>4, <3>1 DEF Peek
    <3>4. ~IsLast(t)
      BY <1>1, <2>1, NotLast
    <3>5. TasksInv' /\ PageInv'
      BY <1>1, <1>2, <2>1, <3>2, <3>3, <3>4, GoesKeeps
    <3> QED
      BY <1>7, <2>1, <3>5
  <2> QED
    BY <2>2, <2>3, <2>4
<1>12. CASE CheckAvailable(t) \/ Rehearse(t) \/ Wait(t) \/ Resolve(t)
  <2>1. (Goes(t, t) \/ Fails(t)) /\ Pc(t) \notin {"assert", "check"} /\ UNCHANGED txs
    BY <1>12 DEF CheckAvailable, Rehearse, Wait, Resolve
  <2> QED
    BY <1>1, <1>5, <1>6, <1>7, <1>8, <2>1
<1>13. CASE AssertCurrent(t)
  <2>1. /\ UNCHANGED txs /\ Pc(t) = "assert" /\ events = 0
        /\ (StillCurrent(t) /\ Passes(t, t)) \/ Fails(t)
    BY <1>13 DEF AssertCurrent
  <2> QED
    BY <1>1, <1>5, <1>6, <1>7, <1>8, <2>1
<1>14. CASE Send(t)
  <2>1. CASE Fails(t) /\ UNCHANGED txs
    BY <1>5, <2>1
  <2> DEFINE x == [from |-> t.account, isPoll |-> t.kind = "namePoll", label |-> t.label,
                   shown |-> t.shown, consent |-> t.consent, block |-> 0, ok |-> FALSE]
  <2>2. CASE wallet = t.account /\ wallet # None /\ txs' = txs \cup {x} /\ Goes(t, t)
    <3>1. Pc(t) = "send"
      BY <1>14 DEF Send
    <3>2. TasksInv' /\ PageInv'
      BY <1>1, <1>6, <1>8, <2>2, <3>1
    <3>3. t.kind \in Submits /\ t.at > 6
      BY <1>1, <3>1, Routes DEF TaskType, Tasks, Pc
    <3>4. t.account = t.shown /\ (t.kind = "claim" => t.consent = t.account) /\ t.label \in Labels
      BY <1>1, <3>3 DEF TaskOK, SubmitOK, TaskType
    <3>5. x \in Transactions
      BY <1>3, <2>2, <3>4 DEF Transactions, Someone
    <3>6. x.from = x.shown /\ (~x.isPoll => x.consent = x.from)
      BY <3>3, <3>4 DEF Submits
    <3>7. ChainInv'
      BY <1>1, <1>2, <2>2, <3>5 DEF ChainInv
    <3>8. SentByTheShown'
      BY <2>2, <3>6 DEF Inv, SentByTheShown
    <3> QED
      BY <3>2, <3>7, <3>8 DEF Inv
  <2> QED
    BY <1>14, <2>1, <2>2 DEF Send
<1>15. CASE ReadName(t)
  <2>1. Pc(t) = "name" /\ UNCHANGED txs
    BY <1>15 DEF ReadName
  <2> DEFINE name == ProfileName(At(t), t.account)
  <2>2. name \in Labels \cup {None}
    BY DEF ProfileName
  <2> HIDE DEF name
  <2>3. CASE Fails(t)
    BY <1>5, <2>1, <2>3
  <2>4. CASE Goes(t, [t EXCEPT !.name = name])
    <3>1. PICK u : u = [t EXCEPT !.name = name]
      OBVIOUS
    <3>2. u \in Tasks /\ u = [t EXCEPT !.n = u.n, !.fork = u.fork, !.name = u.name]
      BY <1>1, <2>2, <3>1 DEF Tasks, Texts
    <3>3. Goes(t, u)
      BY <2>4, <3>1
    <3> QED
      BY <1>6, <1>7, <2>1, <3>2, <3>3
  <2>5. CASE Ends(t, Shown(t))
    <3>1. /\ Shown(t) \in Pages /\ Shown(t).consent = page.consent
          /\ IF t.kind = "load" THEN Shown(t).account = t.account ELSE Shown(t).account = page.account
      BY <1>1, ShownIsPage DEF PageInv
    <3>2. PICK new \in Pages : new = Shown(t)
      BY <3>1
    <3>3. /\ Ends(t, new) /\ new.consent = page.consent
          /\ new.account \in {page.account, None} \/ (t.kind = "load" /\ new.account = t.account)
      BY <2>5, <3>1, <3>2
    <3>4. TasksInv' /\ PageInv'
      BY <1>1, <1>2, <3>3, EndsKeeps
    <3> QED
      BY <1>7, <2>1, <3>4
  <2> QED
    BY <1>15, <2>3, <2>4, <2>5 DEF ReadName, name
<1>16. CASE Check(t)
  <2>1. PICK u : u = [t EXCEPT !.n = 0, !.fork = 0]
    OBVIOUS
  <2>2. u \in Tasks /\ u = [t EXCEPT !.n = u.n, !.fork = u.fork, !.name = u.name]
    BY <1>1, <2>1 DEF Tasks
  <2>3. (Passes(t, u) \/ Fails(t)) /\ Pc(t) = "check" /\ UNCHANGED txs
    BY <1>16, <2>1 DEF Check
  <2> QED
    BY <1>5, <1>6, <1>7, <2>2, <2>3
<1>17. CASE ReadText(t)
  <2>1. PICK u : u = [t EXCEPT !.name = VotingWindow(VoteStart, VoteEnd, t.n)]
    OBVIOUS
  <2>2. VotingWindow(VoteStart, VoteEnd, t.n) \in Texts
    BY DEF VotingWindow, Texts
  <2>3. u \in Tasks /\ u = [t EXCEPT !.n = u.n, !.fork = u.fork, !.name = u.name]
    BY <1>1, <2>1, <2>2 DEF Tasks
  <2>4. (Goes(t, u) \/ Fails(t)) /\ Pc(t) = "text" /\ UNCHANGED txs
    BY <1>17, <2>1 DEF ReadText
  <2> QED
    BY <1>5, <1>6, <1>7, <2>3, <2>4
<1> QED
  BY <1>9, <1>10, <1>11, <1>12, <1>13, <1>14, <1>15, <1>16, <1>17 DEF Step

-----------------------------------------------------------------------------
(* The first state, and the chain. *)
LEMMA NoNamesIsGood == NoNames \in GoodStates /\ NoNames.expired = FALSE
<1>1. <<>> \in Entries
  <2>1. <<>> \in [{} -> [owner : Accounts, resource : Nat]]
    OBVIOUS
  <2>2. {} \in SUBSET Nodes
    OBVIOUS
  <2> QED
    BY <2>1, <2>2 DEF Entries
<1>2. /\ NoNames.registry \in [Nodes -> Registered] /\ NoNames.ended = {}
      /\ NoNames.expired = FALSE /\ NoNames.entries = <<>>
  BY DEF NoNames, Registered
<1>3. NoNames \in States
  BY <1>1, <1>2 DEF States, NoNames
<1> QED
  BY <1>2, <1>3 DEF GoodStates, EntryOK

LEMMA FirstIsGood == \A st \in FirstStates : st \in GoodStates
<1>1. ASSUME NEW account \in Accounts, NEW label \in Labels
      PROVE  Register(NoNames, account, FALSE, label) \in GoodStates
  <2>1. <<FALSE, label>> \in Nodes
    BY DEF Nodes
  <2>2. ~Named(NoNames, account) /\ Available(NoNames, FALSE, label)
    BY <2>1 DEF Named, Available, NoNames
  <2>3. MayRegister(NoNames, account, FALSE, label)
    BY <2>2 DEF MayRegister
  <2> QED
    BY <2>3, NoNamesIsGood, RegisterIsGood
<1>2. ASSUME NEW st \in FirstStates, st # NoNames
      PROVE  st \in GoodStates
  <2>1. PICK x \in Accounts \X Labels : st = Register(NoNames, x[1], FALSE, x[2])
    BY <1>2 DEF FirstStates
  <2> QED
    BY <2>1, <1>1
<1> QED
  BY <1>2, NoNamesIsGood

LEMMA InitHolds == Init => Inv
<1> SUFFICES ASSUME Init
             PROVE  Inv
  OBVIOUS
<1>1. PICK st \in FirstStates : chain = <<[state |-> st, fork |-> 0]>>
  BY DEF Init
<1>2. [state |-> st, fork |-> 0] \in Blocks
  BY FirstIsGood DEF Blocks
<1>3. ChainInv
  <2> DEFINE block == [state |-> st, fork |-> 0]
  <2>1. chain = <<block>> /\ block \in Blocks /\ reorgs = 0 /\ txs = {}
    BY <1>1, <1>2 DEF Init
  <2> HIDE DEF block
  <2> QED
    BY <2>1 DEF ChainInv
<1>4. PageInv
  BY DEF Init, PageInv, Blank, Pages, Someone, Texts
<1> QED
  BY <1>3, <1>4 DEF Init, Inv, TasksInv, SentByTheShown

LEMMA Added ==
    ASSUME NEW blocks \in Seq(Blocks), NEW st \in GoodStates, reorgs' \in Nat, Add(blocks, st),
           txs' \subseteq Transactions
    PROVE  ChainInv'
<1> DEFINE block == [state |-> st, fork |-> reorgs']
<1>1. block \in Blocks /\ chain' = Append(blocks, block)
  BY DEF Blocks, Add
<1> HIDE DEF block
<1> QED
  BY <1>1 DEF ChainInv

LEMMA StillTasks ==
    ASSUME Inv, UNCHANGED <<outside, visit, page, tasks>>
    PROVE  TasksInv' /\ PageInv'
BY DEF Inv, TasksInv, PageInv, TaskOK, TaskType, LoadOK, SubmitOK, outside

LEMMA MineKeeps ==
    ASSUME Inv, Mine
    PROVE  Inv'
<1>1. TasksInv' /\ PageInv'
  BY StillTasks DEF Mine
<1>2. /\ chain \in Seq(Blocks) /\ chain # <<>> /\ reorgs \in Nat /\ reorgs' = reorgs
      /\ txs \subseteq Transactions /\ SentByTheShown
  BY DEF Mine, Inv, ChainInv
<1>3. Latest \in GoodStates /\ Height \in Nat
  <2>1. Height \in Nat \ {0} /\ chain[Height] \in Blocks
    BY <1>2, LastOf DEF Height
  <2> QED
    BY <2>1 DEF Blocks, Latest
<1>4. ASSUME NEW st \in GoodStates, Add(chain, st), UNCHANGED txs
      PROVE  Inv'
  BY <1>1, <1>2, <1>4, Added DEF Inv, SentByTheShown
<1>5. ASSUME NEW node \in Nodes, ByParent(node), UNCHANGED txs
      PROVE  Inv'
  <2>1. CASE Add(chain, TakenBack(Latest, node))
    BY <1>3, <1>4, <1>5, <2>1, TakenBackIsGood
  <2>2. ASSUME NEW name \in Administered(Latest.registry[node]), Add(chain, Rewritten(Latest, node, name))
        PROVE  Inv'
    <3>1. Latest.registry[node] \in Registered
      BY <1>3 DEF GoodStates, States
    <3>2. name \in Registered /\ name.resource >= Latest.registry[node].resource
      BY <3>1, Administration
    <3> QED
      BY <1>3, <1>4, <1>5, <2>2, <3>2, RegistryChanged
  <2> QED
    BY <1>5, <2>1, <2>2 DEF ByParent
<1>6. ASSUME NEW from \in Accounts, NEW isPoll \in BOOLEAN, NEW label \in Labels,
             ByOthers(from, isPoll, label), UNCHANGED txs
      PROVE  Inv'
  BY <1>3, <1>4, <1>6, RegisterIsGood DEF ByOthers
<1>7. CASE Expire /\ UNCHANGED txs
  BY <1>3, <1>4, <1>7, ExpiredIsGood DEF Expire
<1>8. ASSUME NEW x \in txs, NEW ok \in BOOLEAN, ok = MayRegister(Latest, x.from, x.isPoll, x.label),
             Add(chain, IF ok THEN Register(Latest, x.from, x.isPoll, x.label) ELSE Latest),
             txs' = (txs \ {x}) \cup {[x EXCEPT !.block = Height + 1, !.ok = ok]}
      PROVE  Inv'
  <2> DEFINE new == [x EXCEPT !.block = Height + 1, !.ok = ok]
  <2>1. x \in Transactions /\ x.from \in Accounts /\ x.isPoll \in BOOLEAN /\ x.label \in Labels
    BY <1>2 DEF Transactions
  <2>2. /\ new \in Transactions /\ new.from = x.from /\ new.isPoll = x.isPoll
        /\ new.shown = x.shown /\ new.consent = x.consent
    <3>1. PICK block \in Nat : block = Height + 1
      BY <1>3
    <3>2. PICK mid : mid = [x EXCEPT !.block = block]
      OBVIOUS
    <3>3. /\ mid \in Transactions /\ mid.from = x.from /\ mid.isPoll = x.isPoll
          /\ mid.shown = x.shown /\ mid.consent = x.consent
      BY <2>1, <3>2 DEF Transactions
    <3>4. new = [mid EXCEPT !.ok = ok]
      BY <3>1, <3>2
    <3> HIDE DEF new
    <3> QED
      BY <3>3, <3>4 DEF Transactions
  <2>3. (IF ok THEN Register(Latest, x.from, x.isPoll, x.label) ELSE Latest) \in GoodStates
    BY <1>3, <1>8, <2>1, RegisterIsGood
  <2> HIDE DEF new
  <2>4. txs' \subseteq Transactions
    BY <1>2, <1>8, <2>2 DEF new
  <2>5. SentByTheShown'
    BY <1>2, <1>8, <2>2 DEF new, SentByTheShown
  <2>6. ChainInv'
    BY <1>2, <1>8, <2>3, <2>4, Added
  <2> QED
    BY <1>1, <2>5, <2>6 DEF Inv
<1> QED
  BY <1>5, <1>6, <1>7, <1>8 DEF Mine, MayRegister

LEMMA ReorgKeeps ==
    ASSUME Inv, Reorg
    PROVE  Inv'
<1>1. TasksInv' /\ PageInv'
  BY StillTasks DEF Reorg
<1>2. /\ chain \in Seq(Blocks) /\ chain # <<>> /\ reorgs' \in Nat
      /\ txs \subseteq Transactions /\ SentByTheShown
  BY DEF Reorg, Inv, ChainInv
<1>3. Front(chain) \in Seq(Blocks) /\ chain[Height - 1].state \in GoodStates
  <2>1. Front(chain) \in Seq(Blocks) /\ chain[Height - 1] \in Blocks
    BY <1>2, LastOf DEF Reorg, Height
  <2> QED
    BY <2>1 DEF Blocks
<1>4. ASSUME NEW y \in txs'
      PROVE  \E x \in txs : /\ y \in Transactions /\ y.from = x.from /\ y.isPoll = x.isPoll
                            /\ y.shown = x.shown /\ y.consent = x.consent
  <2>1. PICK x \in txs : y = IF x.block = Height THEN [x EXCEPT !.block = 0] ELSE x
    BY <1>4 DEF Reorg
  <2>2. x \in Transactions
    BY <1>2
  <2> QED
    BY <2>1, <2>2 DEF Transactions
<1>5. SentByTheShown' /\ txs' \subseteq Transactions
  BY <1>2, <1>4 DEF SentByTheShown
<1>6. ChainInv'
  BY <1>2, <1>3, <1>5, Added DEF Reorg
<1> QED
  BY <1>1, <1>5, <1>6 DEF Inv

-----------------------------------------------------------------------------
(* A task that is outdated or aborted keeps what it holds and may be asked no more. *)
LEMMA Dropped ==
    ASSUME NEW t, TaskOK(t)
    PROVE  /\ \A u \in {[t EXCEPT !.current = FALSE]} :
                TaskType(u) /\ ~u.current /\ SubmitOK(u)
           /\ \A u \in {[t EXCEPT !.current = FALSE, !.changed = t.kind \in Submits]} :
                TaskType(u) /\ ~u.current /\ (u.kind \in Submits => u.changed)
                /\ (u.kind \in Submits /\ u.at > 6 =>
                       u.account = u.shown /\ (u.kind = "claim" => u.consent = u.account))
<1>1. t \in Tasks /\ TaskType(t) /\ SubmitOK(t)
  BY DEF TaskOK, TaskType
<1>2. PICK u : u = [t EXCEPT !.current = FALSE]
  OBVIOUS
<1>3. /\ u \in Tasks /\ u.kind = t.kind /\ u.at = t.at /\ u.changed = t.changed /\ ~u.current
      /\ u.shown = t.shown /\ u.consent = t.consent /\ u.label = t.label /\ u.account = t.account
  BY <1>1, <1>2 DEF Tasks
<1>4. TaskType(u) /\ SubmitOK(u)
  BY <1>1, <1>3 DEF TaskType, SubmitOK
<1>5. \E changed \in BOOLEAN : changed <=> t.kind \in Submits
  OBVIOUS
<1>6. PICK changed \in BOOLEAN : changed = (t.kind \in Submits)
  BY <1>5
<1>7. PICK v : v = [u EXCEPT !.changed = changed]
  OBVIOUS
<1>8. /\ v \in Tasks /\ v.kind = u.kind /\ v.at = u.at /\ v.changed = changed /\ ~v.current
      /\ v.shown = u.shown /\ v.consent = u.consent /\ v.label = u.label /\ v.account = u.account
  BY <1>3, <1>7 DEF Tasks
<1>9. TaskType(v) /\ (v.kind \in Submits => v.changed)
  BY <1>3, <1>4, <1>6, <1>8 DEF TaskType
<1>10. v.kind \in Submits /\ v.at > 6 =>
         v.account = v.shown /\ (v.kind = "claim" => v.consent = v.account)
  BY <1>4, <1>8 DEF SubmitOK
<1>11. v = [t EXCEPT !.current = FALSE, !.changed = t.kind \in Submits]
  BY <1>2, <1>6, <1>7
<1> QED
  BY <1>2, <1>3, <1>4, <1>8, <1>9, <1>10, <1>11

LEMMA OutdatedKeeps ==
    ASSUME TasksInv, UNCHANGED <<outside, visit>>
    PROVE  \A u \in Outdated(tasks) : TaskOK(u)'
<1> SUFFICES ASSUME NEW u \in Outdated(tasks)
             PROVE  TaskOK(u)'
  OBVIOUS
<1>1. PICK t \in tasks : u = [t EXCEPT !.current = FALSE]
  BY DEF Outdated
<1>2. TaskType(u) /\ ~u.current /\ SubmitOK(u)
  BY <1>1, Dropped DEF TasksInv
<1> QED
  BY <1>2 DEF TaskOK, TaskType, LoadOK, SubmitOK, outside

LEMMA AbortedKeeps ==
    ASSUME TasksInv
    PROVE  \A u \in Aborted(tasks) : TaskOK(u)'
<1> SUFFICES ASSUME NEW u \in Aborted(tasks)
             PROVE  TaskOK(u)'
  OBVIOUS
<1>1. PICK t \in tasks : u = [t EXCEPT !.current = FALSE, !.changed = t.kind \in Submits]
  BY DEF Aborted
<1>2. /\ TaskType(u) /\ ~u.current /\ (u.kind \in Submits => u.changed)
      /\ (u.kind \in Submits /\ u.at > 6 =>
             u.account = u.shown /\ (u.kind = "claim" => u.consent = u.account))
  BY <1>1, Dropped DEF TasksInv
<1> QED
  BY <1>2 DEF TaskOK, TaskType, LoadOK, SubmitOK

LEMMA OnlyThePage ==
    ASSUME Inv, NEW p \in Pages, Touch(p),
           visit = "names" => p.account \in {page.account, None} /\ p.consent \in {page.consent, page.account, None}
    PROVE  Inv'
<1>1. UNCHANGED <<world, outside, visit, tasks, faults>> /\ page' = p
  BY DEF Touch
<1>2. ChainInv' /\ SentByTheShown'
  BY <1>1 DEF Inv, ChainInv, SentByTheShown, world
<1>3. TasksInv'
  BY <1>1 DEF Inv, TasksInv, TaskOK, TaskType, LoadOK, SubmitOK, outside
<1>4. PageInv'
  BY <1>1 DEF Inv, PageInv, outside
<1> QED
  BY <1>2, <1>3, <1>4 DEF Inv

LEMMA NewTask ==
    ASSUME NEW kind \in Kinds \ Submits, NEW account \in Someone, NEW label \in Labels \cup {None}
    PROVE  /\ TaskType(Task(kind, account, label)) /\ Task(kind, account, label).kind = kind
           /\ Task(kind, account, label).account = account
<1>1. Len(Route[kind]) \in Nat \ {0}
  BY Routes
<1> QED
  BY <1>1 DEF Task, TaskType, Tasks, Someone, Texts

-----------------------------------------------------------------------------
(* The actions of the pages and of the wallet. *)
LEMMA ActionKeeps ==
    ASSUME Inv,
           \/ Event \/ Load \/ Leave \/ LookUpAccount \/ LookUpPoll \/ SearchNoName
           \/ \E account \in Accounts \cup {None} : Switch(account)
           \/ \E label \in Labels \cup {None} : Search(label)
    PROVE  Inv'
<1>1. /\ TasksInv /\ PageInv /\ ChainInv /\ SentByTheShown /\ page \in Pages
      /\ page.account \in Someone /\ page.url \in Labels \cup {None}
  BY DEF Inv, PageInv, Pages
<1>2. ASSUME UNCHANGED world
      PROVE  ChainInv' /\ SentByTheShown'
  BY <1>1, <1>2 DEF ChainInv, SentByTheShown, world
<1>3. CASE Event
  <2>1. UNCHANGED world /\ events > 0 /\ events' = events - 1 /\ UNCHANGED <<wallet, visit>>
    BY <1>3 DEF Event
  <2>2. CASE visit = "names"
    <3>1. /\ tasks' = Aborted(tasks)
          /\ page' = [page EXCEPT !.account = None, !.profile = None, !.consent = None,
                                  !.published = None, !.refresh = TRUE]
      BY <1>3, <2>2 DEF Event
    <3>2. page' \in Pages /\ page'.account = None /\ page'.consent = None
      BY <1>1, <3>1 DEF Pages, Someone, Texts
    <3>3. PageInv'
      BY <1>1, <2>1, <3>2 DEF PageInv
    <3>4. TasksInv'
      BY <1>1, <3>1, AbortedKeeps DEF TasksInv
    <3> QED
      BY <1>2, <2>1, <3>3, <3>4 DEF Inv
  <2>3. CASE visit # "names"
    <3>1. UNCHANGED <<page, tasks>>
      BY <1>3, <2>3 DEF Event
    <3>2. TasksInv'
      BY <1>1, <2>1, <2>3, <3>1 DEF TasksInv, TaskOK, TaskType, LoadOK, SubmitOK
    <3>3. PageInv'
      BY <1>1, <2>1, <2>3, <3>1 DEF PageInv
    <3> QED
      BY <1>2, <2>1, <3>2, <3>3 DEF Inv
  <2> QED
    BY <2>2, <2>3
<1>4. CASE Load
  <2>1. /\ UNCHANGED <<world, outside, visit>> /\ visit = "names"
        /\ tasks' = Outdated(tasks) \cup {Task("load", None, None)}
        /\ page' = [page EXCEPT !.config = FALSE, !.account = None, !.profile = None,
                                !.loading = TRUE, !.refresh = FALSE]
    BY <1>4 DEF Load
  <2>2. page' \in Pages /\ page'.account = None /\ page'.consent = page.consent
    BY <1>1, <2>1 DEF Pages, Someone, Texts
  <2>3. PageInv'
    BY <1>1, <2>1, <2>2 DEF PageInv, outside
  <2>4. TaskOK(Task("load", None, None))'
    <3>1. "load" \in Kinds \ Submits
      BY DEF Kinds, Submits
    <3>2. /\ TaskType(Task("load", None, None)) /\ Task("load", None, None).kind = "load"
          /\ Task("load", None, None).account = None
      BY <3>1, NewTask DEF Someone
    <3> QED
      BY <2>1, <3>1, <3>2 DEF TaskOK, TaskType, LoadOK, SubmitOK
  <2>5. TasksInv'
    BY <1>1, <2>1, <2>4, OutdatedKeeps DEF TasksInv
  <2> QED
    BY <1>2, <2>1, <2>3, <2>5 DEF Inv
<1>5. CASE Leave
  <2>1. UNCHANGED <<world, outside, page>> /\ visit' = "left" /\ tasks' = Aborted(tasks)
    BY <1>5 DEF Leave
  <2> QED
    BY <1>1, <1>2, <2>1, AbortedKeeps DEF Inv, TasksInv, PageInv, outside
<1>6. ASSUME UNCHANGED <<world, outside, visit>>, visit # "names", page' \in Pages,
             NEW new, TaskType(new), new.kind \in {"hook", "lookup"},
             tasks' \in {Outdated(tasks), Outdated(tasks) \cup {new}}
      PROVE  Inv'
  <2>1. TaskOK(new)'
    BY <1>6 DEF TaskOK, TaskType, LoadOK, SubmitOK, Submits
  <2>2. TasksInv'
    BY <1>1, <1>6, <2>1, OutdatedKeeps DEF TasksInv
  <2>3. PageInv'
    BY <1>1, <1>6 DEF PageInv, outside
  <2> QED
    BY <1>2, <1>6, <2>2, <2>3 DEF Inv
<1>7. ASSUME NEW account \in Someone, NEW label \in Labels \cup {None}
      PROVE  /\ TaskType(Task("hook", account, label)) /\ Task("hook", account, label).kind = "hook"
             /\ TaskType(Task("lookup", account, label)) /\ Task("lookup", account, label).kind = "lookup"
  <2>1. {"hook", "lookup"} \subseteq Kinds \ Submits
    BY DEF Kinds, Submits
  <2> QED
    BY <2>1, NewTask
<1>8. CASE LookUpAccount
  <2>1. PICK new : new = Task("hook", page.account, None)
    OBVIOUS
  <2>2. TaskType(new) /\ new.kind = "hook"
    BY <1>1, <1>7, <2>1
  <2>3. /\ UNCHANGED <<world, outside, visit>> /\ visit # "names"
        /\ tasks' \in {Outdated(tasks), Outdated(tasks) \cup {new}}
        /\ page' = [page EXCEPT !.profile = None, !.refresh = FALSE]
    BY <1>8, <2>1 DEF LookUpAccount
  <2>4. page' \in Pages
    BY <1>1, <2>3 DEF Pages, Texts
  <2> QED
    BY <1>6, <2>2, <2>3, <2>4
<1>9. CASE LookUpPoll
  <2>1. PICK new : new = Task("lookup", None, page.url)
    OBVIOUS
  <2>2. TaskType(new) /\ new.kind = "lookup"
    BY <1>1, <1>7, <2>1 DEF Someone
  <2>3. /\ UNCHANGED <<world, outside, visit>> /\ visit # "names"
        /\ tasks' \in {Outdated(tasks), Outdated(tasks) \cup {new}}
        /\ page' \in {[page EXCEPT !.refresh = FALSE, !.phase = "idle"],
                      [page EXCEPT !.refresh = FALSE, !.phase = "loading"]}
    BY <1>9, <2>1 DEF LookUpPoll
  <2>4. page' \in Pages
    BY <1>1, <2>3, ZenonT(30) DEF Pages
  <2> QED
    BY <1>6, <2>2, <2>3, <2>4
<1>10. CASE SearchNoName \/ \E label \in Labels \cup {None} : Search(label)
  <2>1. PICK new : new = Task("lookup", None, None)
    OBVIOUS
  <2>2. TaskType(new) /\ new.kind = "lookup"
    BY <1>1, <1>7, <2>1 DEF Someone
  <2>3. UNCHANGED <<world, outside, visit>> /\ visit # "names" /\ tasks' = Outdated(tasks)
    BY <1>10 DEF Search, SearchNoName
  <2>4. page' \in Pages
    BY <1>1, <1>10 DEF Search, SearchNoName, Pages
  <2> QED
    BY <1>6, <2>2, <2>3, <2>4
<1>11. ASSUME NEW account \in Accounts \cup {None}, Switch(account)
       PROVE  Inv'
  <2>1. UNCHANGED <<world, visit, page, tasks>> /\ wallet' = account /\ events' = events + 1
    BY <1>11 DEF Switch
  <2>2. events' \in Nat /\ events' # 0 /\ wallet' \in Someone
    BY <1>1, <2>1 DEF PageInv, Someone
  <2>3. TasksInv'
    BY <1>1, <2>1, <2>2 DEF TasksInv, TaskOK, TaskType, LoadOK, SubmitOK
  <2>4. PageInv'
    BY <1>1, <2>1, <2>2 DEF PageInv
  <2> QED
    BY <1>2, <2>1, <2>3, <2>4 DEF Inv
<1> QED
  BY <1>3, <1>4, <1>5, <1>8, <1>9, <1>10, <1>11

LEMMA TouchesKeep ==
    ASSUME Inv,
           \/ CheckAgain \/ Consent \/ Connect \/ Connected \/ ConnectRefused
           \/ \E account \in Accounts \cup {None} : Given(account)
           \/ \E label \in Labels \cup {None} : Follow(label)
    PROVE  Inv'
<1>1. page \in Pages /\ page.account \in Someone
  BY DEF Inv, PageInv, Pages
<1>2. ASSUME NEW p \in Pages, Touch(p), p.account = page.account,
             p.consent \in {page.consent, page.account}
      PROVE  Inv'
  BY <1>2, OnlyThePage
<1>3. CASE CheckAgain
  <2>1. PICK p : p = [page EXCEPT !.refresh = TRUE]
    OBVIOUS
  <2>2. p \in Pages /\ p.account = page.account /\ p.consent = page.consent
    BY <1>1, <2>1 DEF Pages
  <2> QED
    BY <1>2, <1>3, <2>1, <2>2 DEF CheckAgain
<1>4. CASE Consent
  <2>1. PICK p : p = [page EXCEPT !.consent = page.account]
    OBVIOUS
  <2>2. p \in Pages /\ p.account = page.account /\ p.consent = page.account
    BY <1>1, <2>1 DEF Pages
  <2> QED
    BY <1>2, <1>4, <2>1, <2>2 DEF Consent
<1>5. CASE Connect
  <2>1. PICK p : p = [page EXCEPT !.connecting = TRUE]
    OBVIOUS
  <2>2. p \in Pages /\ p.account = page.account /\ p.consent = page.consent
    BY <1>1, <2>1 DEF Pages
  <2> QED
    BY <1>2, <1>5, <2>1, <2>2 DEF Connect
<1>6. CASE Connected
  <2>1. PICK p : p = [page EXCEPT !.connecting = FALSE, !.refresh = TRUE]
    OBVIOUS
  <2>2. p \in Pages /\ p.account = page.account /\ p.consent = page.consent
    BY <1>1, <2>1 DEF Pages
  <2> QED
    BY <1>2, <1>6, <2>1, <2>2 DEF Connected
<1>7. CASE ConnectRefused
  <2>1. PICK p : p = [page EXCEPT !.connecting = FALSE]
    OBVIOUS
  <2>2. p \in Pages /\ p.account = page.account /\ p.consent = page.consent
    BY <1>1, <2>1 DEF Pages
  <2> QED
    BY <1>2, <1>7, <2>1, <2>2 DEF ConnectRefused
<1>8. ASSUME NEW account \in Accounts \cup {None}, Given(account)
      PROVE  Inv'
  <2>1. PICK p : p = [page EXCEPT !.account = account, !.refresh = TRUE]
    OBVIOUS
  <2>2. p \in Pages
    BY <1>1, <2>1 DEF Pages, Someone
  <2> QED
    BY <1>8, <2>1, <2>2, OnlyThePage DEF Given
<1>9. ASSUME NEW label \in Labels \cup {None}, Follow(label)
      PROVE  Inv'
  <2>1. PICK p : p = [page EXCEPT !.url = label, !.refresh = TRUE]
    OBVIOUS
  <2>2. p \in Pages /\ p.account = page.account /\ p.consent = page.consent
    BY <1>1, <2>1 DEF Pages
  <2> QED
    BY <1>2, <1>9, <2>1, <2>2 DEF Follow
<1> QED
  BY <1>3, <1>4, <1>5, <1>6, <1>7, <1>8, <1>9

(* A submission is asked under what the page shows, and the page shows the wallet's. *)
LEMMA SubmitKeeps ==
    ASSUME Inv, NEW kind \in Submits, NEW label \in Labels, Submit(kind, label)
    PROVE  Inv'
<1>1. /\ UNCHANGED <<world, outside, visit, faults>> /\ Form /\ page.account # None
      /\ kind = "claim" => page.consent # None
      /\ tasks' = tasks \cup {Submission(kind, label)}
      /\ page' = [page EXCEPT !.busy = TRUE, !.published = None]
  BY DEF Submit, Form
<1>2. TasksInv /\ PageInv /\ ChainInv /\ SentByTheShown /\ page \in Pages /\ visit = "names"
  BY <1>1 DEF Inv, PageInv, Form
<1>3. page' \in Pages /\ page'.account = page.account /\ page'.consent = page.consent
  BY <1>1, <1>2 DEF Pages, Texts
<1>4. PageInv'
  BY <1>1, <1>2, <1>3 DEF PageInv, outside
<1>5. PICK new : new = Submission(kind, label)
  OBVIOUS
<1>6. /\ new \in Tasks /\ new.kind = kind /\ new.at = 1 /\ ~new.changed /\ new.label = label
      /\ new.shown = page.account /\ new.consent = page.consent
  <2>1. PICK plain : plain = Task(kind, None, label)
    OBVIOUS
  <2>2. /\ plain \in Tasks /\ plain.kind = kind /\ plain.at = 1 /\ ~plain.changed
        /\ plain.label = label
    BY <2>1 DEF Task, Tasks, Someone, Texts, Submits, Kinds
  <2>3. new = [plain EXCEPT !.shown = page.account, !.consent = page.consent]
    BY <1>5, <2>1 DEF Submission
  <2>4. page.account \in Someone /\ page.consent \in Someone
    BY <1>2 DEF Pages
  <2> QED
    BY <2>2, <2>3, <2>4 DEF Tasks
<1>7. TaskOK(new)'
  <2>1. Len(Route[kind]) \in Nat \ {0} /\ kind # "load"
    BY Routes DEF Submits, Kinds
  <2>2. TaskType(new)
    BY <1>6, <2>1 DEF TaskType
  <2>3. events = 0 => new.shown = wallet /\ (new.kind = "claim" => new.consent = wallet)
    BY <1>1, <1>2, <1>6 DEF PageInv
  <2> QED
    BY <1>1, <1>2, <1>6, <2>1, <2>2, <2>3 DEF TaskOK, TaskType, LoadOK, SubmitOK, outside
<1>8. \A t \in tasks : TaskOK(t)'
  BY <1>1, <1>2 DEF TasksInv, TaskOK, TaskType, LoadOK, SubmitOK, outside
<1>9. TasksInv'
  BY <1>1, <1>5, <1>7, <1>8 DEF TasksInv
<1> QED
  BY <1>1, <1>2, <1>4, <1>9 DEF Inv, ChainInv, SentByTheShown, world

LEMMA FaultKeeps ==
    ASSUME Inv, NEW t \in tasks, Fault(t)
    PROVE  Inv'
<1>1. /\ UNCHANGED <<world, outside, visit, clicks>> /\ Fails(t) /\ TasksInv /\ PageInv
  BY DEF Fault, Inv
<1>2. TasksInv' /\ PageInv'
  BY <1>1, FailsKeeps DEF outside
<1> QED
  BY <1>1, <1>2 DEF Inv, ChainInv, SentByTheShown, world

LEMMA NextKeeps == Inv /\ [Next]_vars => Inv'
<1> SUFFICES ASSUME Inv, [Next]_vars
             PROVE  Inv'
  OBVIOUS
<1>1. CASE UNCHANGED vars
  <2>1. UNCHANGED <<world, outside, visit, page, tasks>>
    BY <1>1 DEF vars
  <2>2. TasksInv' /\ PageInv'
    BY <2>1, StillTasks
  <2> QED
    BY <2>1, <2>2 DEF Inv, ChainInv, SentByTheShown, world
<1>2. CASE Next
  BY <1>2, MineKeeps, ReorgKeeps, StepKeeps, FaultKeeps, SubmitKeeps, TouchesKeep, ActionKeeps DEF Next
<1> QED
  BY <1>1, <1>2

-----------------------------------------------------------------------------
(* What the tasks find and the page shows.  Every block's names have been served, and served
   is what a task has found.  A task that may still show something is of the open page; a
   load is under way only before the page shows an account, a submission only with the
   account it was asked under.  A page that waits is waited for by a task or by an effect. *)
ServedOK(t) ==
    /\ t.kind \in {"load", "claim", "hook"} /\ t.name # None => <<t.account, t.name>> \in served
    /\ t.kind \in Submits \cup {"load"} /\ t.at <= 3 => t.name = None
    /\ t.kind = "load" /\ t.at > 3 => t.account # None
    /\ (t.kind = "namePoll" /\ t.at > 11) \/ (t.kind = "lookup" /\ t.at > 2) =>
         <<"poll", t.label>> \in served
    /\ t.kind = "claim" /\ t.at > 13 => t.name = t.label
    /\ Pc(t) \in {"name", "text"} => t.n \in DOMAIN chain
OnPage(t) ==
    t.current =>
        /\ t.kind \in Submits \cup {"load"} => visit = "names"
        /\ t.kind = "load" => ~page.config
        /\ t.kind \in Submits => page.config /\ page.account = t.shown
        /\ t.kind = "hook" => visit = "ballot" /\ (~page.refresh => t.account = page.account)
        /\ t.kind = "lookup" => visit = "poll" /\ (~page.refresh => t.label = page.url)

BlocksServed == \A i \in DOMAIN chain : PairsOf(chain[i].state) \subseteq served
FoundServed == \A t \in tasks : ServedOK(t)
TasksOnPage == \A t \in tasks : OnPage(t)
OneLoad == \A t, u \in tasks : t.kind = "load" /\ t.current /\ u.kind = "load" /\ u.current => t = u
Awaited(kind) == page.refresh \/ \E t \in tasks : t.kind = kind /\ t.current
Settled ==
    /\ page.busy => \E t \in tasks : t.kind \in Submits
    /\ visit = "names" =>
        /\ page.loading => Awaited("load")
        /\ ~page.config => page.account = None
        /\ page.config /\ events = 0 /\ ~page.refresh => page.account = wallet
    /\ visit = "poll" =>
        /\ page.profile = None
        /\ page.phase = "loading" => Awaited("lookup")
        /\ page.phase = "ready" /\ ~page.refresh => page.result = page.url

ShownInv == BlocksServed /\ FoundServed /\ TasksOnPage /\ OneLoad /\ Settled /\ ShownWasServed

(* Where in its route a task reads, compares and ends. *)
LEMMA Places ==
    ASSUME NEW kind \in Kinds, NEW i \in 1..Len(Route[kind])
    PROVE  /\ Route[kind][i] = "name" =>
                \/ kind = "load" /\ i = 5
                \/ kind = "claim" /\ i = 11
                \/ kind = "hook" /\ i = 4
           /\ Route[kind][i] = "text" => (kind = "namePoll" /\ i = 11) \/ (kind = "lookup" /\ i = 2)
           /\ Route[kind][i] = "peek" => (kind = "load" /\ i = 3) \/ (kind \in Submits /\ i = 1)
           /\ Route[kind][i] = "assert" => kind \in Submits
           /\ kind = "load" => Len(Route[kind]) = 7 /\ (i = 3 => Route[kind][i] = "peek")
           /\ kind = "claim" => Len(Route[kind]) = 14 /\ (i = 13 => Route[kind][i] = "check")
           /\ kind = "namePoll" => Len(Route[kind]) = 13 /\ (i = 11 => Route[kind][i] = "text")
           /\ kind = "hook" => Len(Route[kind]) = 6
           /\ kind = "lookup" => Len(Route[kind]) = 3 /\ (i = 2 => Route[kind][i] = "text")
           /\ i < Len(Route[kind]) /\ Route[kind][i + 1] \in {"name", "text"} => Route[kind][i] = "block"
           /\ Route[kind][1] \notin {"name", "text"}
<1>1. CASE kind = "claim"
  <2>1. Route["claim"] = <<"peek", "block", "config", "available", "rehearse", "assert", "send", "wait",
                           "assert", "block", "name", "resolve", "check", "assert">>
    BY DEF Route
  <2> QED
    BY <1>1, <2>1 DEF Submits
<1>2. CASE kind = "namePoll"
  <2>1. Route["namePoll"] = <<"peek", "block", "config", "available", "rehearse", "assert", "send",
                              "wait", "assert", "block", "text", "check", "assert">>
    BY DEF Route
  <2> QED
    BY <1>2, <2>1 DEF Submits
<1>3. CASE kind = "load"
  <2>1. Route["load"] = <<"block", "config", "peek", "block", "name", "resolve", "check">>
    BY DEF Route
  <2> QED
    BY <1>3, <2>1
<1>4. CASE kind = "hook"
  <2>1. Route["hook"] = <<"block", "config", "block", "name", "resolve", "check">>
    BY DEF Route
  <2> QED
    BY <1>4, <2>1
<1>5. CASE kind = "lookup"
  <2>1. Route["lookup"] = <<"block", "text", "check">>
    BY DEF Route
  <2> QED
    BY <1>5, <2>1
<1> QED
  BY <1>1, <1>2, <1>3, <1>4, <1>5 DEF Kinds

(* A task that goes on with what it has read. *)
LEMMA GoesShows ==
    ASSUME TasksInv, ShownInv, NEW t \in tasks, NEW u \in Tasks, Goes(t, u),
           UNCHANGED <<chain, served, wallet, events, visit>>,
           u.kind = t.kind, u.current = t.current, u.shown = t.shown, u.label = t.label, ~IsLast(t),
           \/ Pc(t) = "peek" /\ u.account # None /\ u.name = t.name
           \/ Pc(t) # "peek" /\ u.account = t.account,
           u.name # t.name => \/ Pc(t) = "name" /\ <<t.account, u.name>> \in served
                              \/ Pc(t) = "text",
           Pc(t) = "text" => <<"poll", t.label>> \in served,
           Pc(t) = "check" /\ t.kind = "claim" => u.name = t.label,
           IF Pc(t) = "block" THEN u.n \in DOMAIN chain ELSE TRUE
    PROVE  ShownInv'
<1> DEFINE new == [u EXCEPT !.at = t.at + 1]
<1>1. /\ t \in Tasks /\ t.kind \in Kinds /\ t.at \in 1..Len(Route[t.kind]) /\ t.at \in Nat
      /\ ServedOK(t) /\ OnPage(t)
  BY DEF TasksInv, TaskOK, TaskType, Tasks, ShownInv, FoundServed, TasksOnPage
<1>2. Len(Route[t.kind]) \in Nat /\ t.at < Len(Route[t.kind])
  BY <1>1, Routes DEF IsLast
<1>3. /\ new \in Tasks /\ new.kind = t.kind /\ new.current = t.current /\ new.shown = t.shown
      /\ new.label = t.label /\ new.account = u.account /\ new.name = u.name /\ new.n = u.n
      /\ new.at = t.at + 1
  BY <1>1 DEF Tasks
<1>4. tasks' = (tasks \ {t}) \cup {new} /\ page' = page
  BY DEF Goes, new
<1> HIDE DEF new
<1>5. ServedOK(new)
  <2>1. ASSUME new.kind \in {"load", "claim", "hook"}, new.name # None
        PROVE  <<new.account, new.name>> \in served
    <3>1. CASE Pc(t) = "peek"
      BY <1>1, <1>3, <2>1, <3>1, Places DEF Pc, ServedOK
    <3>2. CASE Pc(t) = "text"
      BY <1>1, <1>3, <2>1, <3>2, Places DEF Pc
    <3>3. CASE Pc(t) \notin {"peek", "text"}
      BY <1>1, <1>3, <2>1, <3>3 DEF ServedOK
    <3> QED
      BY <3>1, <3>2, <3>3
  <2>2. ASSUME new.kind \in Submits \cup {"load"}, new.at <= 3
        PROVE  new.name = None
    <3>1. t.at <= 3 /\ t.name = None
      BY <1>1, <1>3, <2>2 DEF ServedOK
    <3>2. Pc(t) \notin {"name", "text"}
      BY <1>1, <1>3, <2>2, <3>1, Places DEF Pc, Submits
    <3> QED
      BY <1>3, <3>1, <3>2
  <2>3. ASSUME new.kind = "load", new.at > 3
        PROVE  new.account # None
    <3>1. CASE t.at = 3
      BY <1>1, <1>3, <2>3, <3>1, Places DEF Pc
    <3>2. CASE t.at > 3
      BY <1>1, <1>3, <2>3, <3>2 DEF ServedOK
    <3> QED
      BY <1>1, <1>3, <2>3, <3>1, <3>2
  <2>4. ASSUME (new.kind = "namePoll" /\ new.at > 11) \/ (new.kind = "lookup" /\ new.at > 2)
        PROVE  <<"poll", new.label>> \in served
    <3>1. CASE (new.kind = "namePoll" /\ t.at = 11) \/ (new.kind = "lookup" /\ t.at = 2)
      BY <1>1, <1>3, <3>1, Places DEF Pc
    <3>2. CASE (new.kind = "namePoll" /\ t.at > 11) \/ (new.kind = "lookup" /\ t.at > 2)
      BY <1>1, <1>3, <3>2 DEF ServedOK
    <3> QED
      BY <1>1, <1>3, <2>4, <3>1, <3>2
  <2>5. ASSUME new.kind = "claim", new.at > 13
        PROVE  new.name = new.label
    <3>1. t.at = 13
      <4>1. Len(Route[t.kind]) = 14
        BY <1>1, <1>3, <2>5, Places
      <4>2. t.at < 14 /\ t.at \in Nat
        BY <1>1, <1>2, <4>1
      <4>3. t.at + 1 > 13
        BY <1>3, <2>5
      <4> QED
        BY <4>2, <4>3
    <3> QED
      BY <1>1, <1>3, <2>5, <3>1, Places DEF Pc
  <2>6. ASSUME Pc(new) \in {"name", "text"}
        PROVE  new.n \in DOMAIN chain
    <3>1. Pc(t) = "block"
      BY <1>1, <1>2, <1>3, <2>6, Places DEF Pc
    <3> QED
      BY <1>3, <3>1
  <2> QED
    BY <2>1, <2>2, <2>3, <2>4, <2>5, <2>6 DEF ServedOK
<1>6. OnPage(new)
  <2>1. t.kind \in {"hook", "lookup"} => u.account = t.account
    BY <1>1, Places DEF Pc, Submits
  <2> QED
    BY <1>1, <1>3, <2>1 DEF OnPage
<1>7. \A s : (ServedOK(s)' <=> ServedOK(s)) /\ (OnPage(s)' <=> OnPage(s))
  BY <1>4 DEF ServedOK, OnPage, Pc
<1>8. FoundServed' /\ TasksOnPage'
  BY <1>4, <1>5, <1>6, <1>7 DEF ShownInv, FoundServed, TasksOnPage
<1>9. OneLoad'
  BY <1>3, <1>4 DEF ShownInv, OneLoad
<1>10. Settled'
  BY <1>3, <1>4 DEF ShownInv, Settled, Awaited
<1>11. BlocksServed' /\ ShownWasServed'
  BY <1>4 DEF ShownInv, BlocksServed, ShownWasServed
<1> QED
  BY <1>8, <1>9, <1>10, <1>11 DEF ShownInv

(* A task that ends, with something shown that it may show. *)
LEMMA EndsShows ==
    ASSUME TasksInv, PageInv, ShownInv, NEW t \in tasks, NEW shown \in Pages, Ends(t, shown),
           UNCHANGED <<chain, served, wallet, events, visit>>,
           shown.busy = page.busy, shown.refresh = page.refresh, shown.url = page.url,
           t.current =>
             /\ IF t.kind = "load"
                THEN /\ ~shown.loading
                     /\ ~shown.config => shown.account = None
                     /\ shown.config /\ events = 0 => shown.account = wallet
                ELSE /\ shown.loading = page.loading
                     /\ shown.config = page.config /\ shown.account = page.account
             /\ IF t.kind = "lookup"
                THEN /\ shown.phase # "loading" /\ shown.profile = page.profile
                     /\ shown.phase = "ready" =>
                          shown.result = t.label /\ <<"poll", t.label>> \in served
                ELSE shown.phase = page.phase /\ shown.result = page.result
             /\ shown.profile # None /\ ~page.refresh => <<shown.account, shown.profile>> \in served
             /\ shown.published # None => <<"poll", shown.published>> \in served
    PROVE  ShownInv'
<1> DEFINE base == IF t.current THEN shown ELSE page
<1>1. /\ t \in Tasks /\ t.kind \in Kinds /\ t.current \in BOOLEAN /\ OnPage(t) /\ page \in Pages
  BY DEF TasksInv, TaskOK, TaskType, Tasks, ShownInv, TasksOnPage, PageInv
<1>2. tasks' = tasks \ {t} /\ base \in Pages
      /\ page' = [base EXCEPT !.busy = base.busy /\ t.kind \notin Submits]
  BY <1>1 DEF Ends
<1>3. /\ page'.account = base.account /\ page'.profile = base.profile /\ page'.config = base.config
      /\ page'.loading = base.loading /\ page'.published = base.published
      /\ page'.refresh = base.refresh /\ page'.url = base.url /\ page'.phase = base.phase
      /\ page'.result = base.result /\ (page'.busy => base.busy /\ t.kind \notin Submits)
  <2> HIDE DEF base
  <2> QED
    BY <1>2 DEF Pages
<1>4. page'.refresh = page.refresh /\ page'.url = page.url
  BY <1>3
<1>5. \A s : ServedOK(s)' <=> ServedOK(s)
  BY DEF ServedOK, Pc
<1>6. FoundServed' /\ BlocksServed'
  BY <1>2, <1>5 DEF ShownInv, FoundServed, BlocksServed
<1>7. ASSUME NEW s \in tasks'
      PROVE  OnPage(s)'
  <2>1. s \in tasks /\ s # t /\ OnPage(s)
    BY <1>2 DEF ShownInv, TasksOnPage
  <2>2. CASE t.current /\ t.kind = "load"
    <3>1. s.current => s.kind # "load" /\ s.kind \notin Submits /\ s.kind # "hook"
      BY <1>1, <2>1, <2>2 DEF ShownInv, OneLoad, OnPage
    <3> QED
      BY <1>4, <2>1, <3>1 DEF OnPage
  <2>3. CASE ~(t.current /\ t.kind = "load")
    <3>1. page'.config = page.config /\ page'.account = page.account
      BY <1>3, <2>3
    <3> QED
      BY <1>4, <2>1, <3>1 DEF OnPage
  <2> QED
    BY <2>2, <2>3
<1>8. TasksOnPage' /\ OneLoad'
  BY <1>2, <1>7 DEF ShownInv, TasksOnPage, OneLoad
<1>9. Settled'
  <2>1. page'.busy => \E s \in tasks' : s.kind \in Submits
    <3> SUFFICES ASSUME page'.busy
                 PROVE  \E s \in tasks' : s.kind \in Submits
      OBVIOUS
    <3>1. page.busy /\ t.kind \notin Submits
      BY <1>3
    <3>2. PICK s \in tasks : s.kind \in Submits
      BY <3>1 DEF ShownInv, Settled
    <3> QED
      BY <1>2, <3>1, <3>2
  <2>2. ASSUME visit = "names"
        PROVE  /\ page'.loading => Awaited("load")'
               /\ ~page'.config => page'.account = None
               /\ page'.config /\ events = 0 /\ ~page'.refresh => page'.account = wallet
    <3>1. CASE t.current /\ t.kind = "load"
      BY <1>3, <3>1
    <3>2. CASE ~(t.current /\ t.kind = "load")
      <4>1. page'.config = page.config /\ page'.account = page.account /\ page'.loading = page.loading
        BY <1>3, <3>2
      <4>2. Awaited("load") => Awaited("load")'
        BY <1>2, <1>4, <3>2 DEF Awaited
      <4> QED
        BY <1>4, <2>2, <4>1, <4>2 DEF ShownInv, Settled
    <3> QED
      BY <3>1, <3>2
  <2>3. ASSUME visit = "poll"
        PROVE  /\ page'.profile = None
               /\ page'.phase = "loading" => Awaited("lookup")'
               /\ page'.phase = "ready" /\ ~page'.refresh => page'.result = page'.url
    <3>1. CASE t.current /\ t.kind = "lookup"
      BY <1>1, <1>3, <2>3, <3>1 DEF OnPage, ShownInv, Settled
    <3>2. CASE ~(t.current /\ t.kind = "lookup")
      <4>1. page'.phase = page.phase /\ page'.result = page.result
        BY <1>3, <3>2
      <4>3. page'.profile = page.profile
        BY <1>1, <1>3, <2>3, <3>2 DEF OnPage, Kinds, Submits
      <4>2. Awaited("lookup") => Awaited("lookup")'
        BY <1>2, <1>4, <3>2 DEF Awaited
      <4> QED
        BY <1>4, <2>3, <4>1, <4>2, <4>3 DEF ShownInv, Settled
    <3> QED
      BY <3>1, <3>2
  <2> QED
    BY <2>1, <2>2, <2>3 DEF Settled
<1>10. ShownWasServed'
  <2>1. CASE t.current
    <3>1. page'.phase = "ready" => <<"poll", page'.result>> \in served
      BY <1>3, <2>1 DEF ShownInv, ShownWasServed
    <3> QED
      BY <1>3, <1>4, <2>1, <3>1 DEF ShownWasServed
  <2>2. CASE ~t.current
    BY <1>3, <1>4, <2>2 DEF ShownInv, ShownWasServed
  <2> QED
    BY <2>1, <2>2
<1> QED
  BY <1>6, <1>8, <1>9, <1>10 DEF ShownInv

LEMMA FailsShows ==
    ASSUME TasksInv, PageInv, ShownInv, NEW t \in tasks, Fails(t),
           UNCHANGED <<chain, served, wallet, events, visit>>
    PROVE  ShownInv'
<1> DEFINE shown == CASE t.kind = "lookup" -> [page EXCEPT !.phase = "error"]
                      [] t.kind = "hook" -> [page EXCEPT !.profile = None]
                      [] OTHER -> [page EXCEPT !.loading = @ /\ t.kind # "load"]
<1>1. page \in Pages /\ t.current \in BOOLEAN /\ OnPage(t)
  BY DEF PageInv, TasksInv, TaskOK, TaskType, Tasks, ShownInv, TasksOnPage
<1>2. PICK new \in Pages :
        /\ Ends(t, new) /\ new.busy = page.busy /\ new.refresh = page.refresh /\ new.url = page.url
        /\ new.config = page.config /\ new.account = page.account /\ new.result = page.result
        /\ new.published = page.published
        /\ new.phase = (IF t.kind = "lookup" THEN "error" ELSE page.phase)
        /\ new.profile = (IF t.kind = "hook" THEN None ELSE page.profile)
        /\ IF t.kind = "load" THEN ~new.loading ELSE new.loading = page.loading
  <2>1. Ends(t, shown)
    BY DEF Fails
  <2>2. CASE t.kind = "lookup"
    <3>1. shown = [page EXCEPT !.phase = "error"]
      BY <2>2
    <3>2. [page EXCEPT !.phase = "error"] \in Pages
      BY <1>1 DEF Pages
    <3> QED
      BY <1>1, <2>1, <2>2, <3>1, <3>2 DEF Pages
  <2>3. CASE t.kind = "hook"
    <3>1. shown = [page EXCEPT !.profile = None]
      BY <2>3
    <3>2. [page EXCEPT !.profile = None] \in Pages
      BY <1>1 DEF Pages, Texts
    <3> QED
      BY <1>1, <2>1, <2>3, <3>1, <3>2 DEF Pages
  <2>4. CASE t.kind \notin {"lookup", "hook"}
    <3>1. PICK loading \in BOOLEAN : loading = (page.loading /\ t.kind # "load")
      OBVIOUS
    <3>2. shown = [page EXCEPT !.loading = loading]
      BY <2>4, <3>1
    <3>3. [page EXCEPT !.loading = loading] \in Pages
      BY <1>1, <3>1 DEF Pages
    <3>4. IF t.kind = "load" THEN ~loading ELSE loading = page.loading
      BY <1>1, <3>1 DEF Pages
    <3> HIDE DEF shown
    <3> QED
      BY <1>1, <2>1, <2>4, <3>2, <3>3, <3>4 DEF Pages
  <2> QED
    BY <2>2, <2>3, <2>4
<1>3. t.current /\ t.kind = "load" => (~new.config /\ new.account = None)
  BY <1>1, <1>2 DEF OnPage, ShownInv, Settled
<1> QED
  BY <1>2, <1>3, EndsShows DEF ShownInv, ShownWasServed

(* What a task has found is shown. *)
LEMMA ResultShows ==
    ASSUME TasksInv, PageInv, ShownInv, NEW t \in tasks, NEW u \in Tasks, Ends(t, Shown(u)),
           UNCHANGED <<chain, served, wallet, events, visit>>,
           u.kind = t.kind, u.label = t.label,
           t.kind = "load" => /\ t.current /\ events = 0 => u.account = wallet
                              /\ u.name # None => <<u.account, u.name>> \in served,
           t.kind = "claim" => <<t.shown, t.label>> \in served,
           t.kind = "hook" => (u.name # None => <<t.account, u.name>> \in served),
           t.kind \in {"namePoll", "lookup"} => <<"poll", t.label>> \in served
    PROVE  ShownInv'
<1>1. /\ page \in Pages /\ OnPage(t) /\ t.kind \in Kinds /\ u.name \in Texts /\ u.account \in Someone
      /\ u.label \in Labels \cup {None} /\ u.label \in Texts
  BY DEF PageInv, TasksInv, TaskOK, TaskType, Tasks, ShownInv, TasksOnPage, Texts
<1>2. PICK new \in Pages : new = Shown(u)
  BY <1>1, ShownIsPage
<1>3. Ends(t, new)
  BY <1>2
<1>4. CASE t.kind = "load"
  <2>1. /\ new.busy = page.busy /\ new.refresh = page.refresh /\ new.url = page.url
        /\ new.config /\ ~new.loading /\ new.account = u.account /\ new.profile = u.name
        /\ new.phase = page.phase /\ new.result = page.result /\ new.published = page.published
    BY <1>1, <1>2, <1>4 DEF Shown, Pages
  <2> QED
    BY <1>3, <1>4, <2>1, EndsShows DEF ShownInv, ShownWasServed
<1>5. CASE t.kind = "claim"
  <2>1. /\ new.busy = page.busy /\ new.refresh = page.refresh /\ new.url = page.url
        /\ new.config = page.config /\ new.loading = page.loading /\ new.account = page.account
        /\ new.profile = t.label
        /\ new.phase = page.phase /\ new.result = page.result /\ new.published = page.published
    BY <1>1, <1>2, <1>5 DEF Shown, Pages
  <2>2. t.current => page.account = t.shown
    BY <1>1, <1>5 DEF OnPage, Submits
  <2> QED
    BY <1>3, <1>5, <2>1, <2>2, EndsShows DEF ShownInv, ShownWasServed
<1>6. CASE t.kind = "namePoll"
  <2>1. /\ new.busy = page.busy /\ new.refresh = page.refresh /\ new.url = page.url
        /\ new.config = page.config /\ new.loading = page.loading /\ new.account = page.account
        /\ new.profile = page.profile
        /\ new.phase = page.phase /\ new.result = page.result /\ new.published = t.label
    BY <1>1, <1>2, <1>6 DEF Shown, Pages
  <2> QED
    BY <1>3, <1>6, <2>1, EndsShows DEF ShownInv, ShownWasServed
<1>7. CASE t.kind = "hook"
  <2>1. /\ new.busy = page.busy /\ new.refresh = page.refresh /\ new.url = page.url
        /\ new.config = page.config /\ new.loading = page.loading /\ new.account = page.account
        /\ new.profile = u.name
        /\ new.phase = page.phase /\ new.result = page.result /\ new.published = page.published
    BY <1>1, <1>2, <1>7 DEF Shown, Pages
  <2>2. t.current /\ ~page.refresh => page.account = t.account
    BY <1>1, <1>7 DEF OnPage
  <2> QED
    BY <1>3, <1>7, <2>1, <2>2, EndsShows DEF ShownInv, ShownWasServed
<1>8. CASE t.kind = "lookup"
  <2>1. new = [page EXCEPT !.phase = "ready", !.result = u.label, !.status = u.name]
    BY <1>2, <1>8 DEF Shown
  <2>2. /\ new.busy = page.busy /\ new.refresh = page.refresh /\ new.url = page.url
        /\ new.config = page.config /\ new.loading = page.loading /\ new.account = page.account
        /\ new.profile = page.profile
        /\ new.phase = "ready" /\ new.result = t.label /\ new.published = page.published
    BY <1>1, <2>1 DEF Pages
  <2> QED
    BY <1>3, <1>8, <2>2, EndsShows DEF ShownInv, ShownWasServed
<1> QED
  BY <1>1, <1>4, <1>5, <1>6, <1>7, <1>8 DEF Kinds

LEMMA PassesShows ==
    ASSUME TasksInv, PageInv, ShownInv, NEW t \in tasks, NEW u \in Tasks, Passes(t, u),
           UNCHANGED <<chain, served, wallet, events, visit>>, Pc(t) \in {"assert", "check"},
           u.kind = t.kind, u.current = t.current, u.shown = t.shown, u.label = t.label,
           u.account = t.account, u.name = t.name,
           Pc(t) = "check" /\ t.kind = "claim" => t.name = t.label
    PROVE  ShownInv'
<1>1. /\ t.kind \in Kinds /\ t.at \in 1..Len(Route[t.kind]) /\ ServedOK(t) /\ LoadOK(t) /\ SubmitOK(t)
      /\ t.kind \in Submits => t.label \in Labels
  BY DEF TasksInv, TaskOK, TaskType, Tasks, ShownInv, FoundServed
<1>2. CASE ~IsLast(t)
  <2>1. Goes(t, u)
    BY <1>2 DEF Passes
  <2> QED
    BY <1>2, <2>1, GoesShows
<1>3. CASE IsLast(t)
  <2>1. Ends(t, Shown(u)) /\ t.at = Len(Route[t.kind])
    BY <1>3 DEF Passes, IsLast
  <2>2. t.kind = "load" => /\ t.current /\ events = 0 => u.account = wallet
                           /\ u.name # None => <<u.account, u.name>> \in served
    <3> SUFFICES ASSUME t.kind = "load"
                 PROVE  /\ t.current /\ events = 0 => u.account = wallet
                        /\ u.name # None => <<u.account, u.name>> \in served
      OBVIOUS
    <3>1. t.at = 7
      BY <1>1, <2>1, Places
    <3> QED
      BY <1>1, <3>1 DEF ServedOK, LoadOK
  <2>3. t.kind = "claim" => <<t.shown, t.label>> \in served
    <3> SUFFICES ASSUME t.kind = "claim"
                 PROVE  <<t.shown, t.label>> \in served
      OBVIOUS
    <3>1. t.at = 14
      BY <1>1, <2>1, Places
    <3>2. t.account = t.shown /\ t.name = t.label /\ t.label # None
      BY <1>1, <3>1, NamesAssumption DEF ServedOK, SubmitOK, Submits
    <3> QED
      BY <1>1, <3>2 DEF ServedOK
  <2>4. t.kind = "hook" => (u.name # None => <<t.account, u.name>> \in served)
    BY <1>1 DEF ServedOK
  <2>5. t.kind \in {"namePoll", "lookup"} => <<"poll", t.label>> \in served
    <3>1. CASE t.kind = "namePoll"
      <4>1. t.at = 13
        BY <1>1, <2>1, <3>1, Places
      <4> QED
        BY <1>1, <3>1, <4>1 DEF ServedOK
    <3>2. CASE t.kind = "lookup"
      <4>1. t.at = 3
        BY <1>1, <2>1, <3>2, Places
      <4> QED
        BY <1>1, <3>2, <4>1 DEF ServedOK
    <3> QED
      BY <3>1, <3>2
  <2> QED
    BY <2>1, <2>2, <2>3, <2>4, <2>5, ResultShows
<1> QED
  BY <1>2, <1>3

(* A name that a block has for an account, or for the poll, is among what it serves. *)
LEMMA BlockServes ==
    ASSUME NEW st \in GoodStates
    PROVE  /\ \A a : ProfileName(st, a) # None => <<a, ProfileName(st, a)>> \in PairsOf(st)
           /\ \A label : HasRecord(st, label) => <<"poll", label>> \in PairsOf(st)
<1>1. \A n \in DOMAIN st.entries : n \in Nodes /\ st.entries[n].owner \in Accounts
  BY DEF GoodStates, States, Entries
<1>2. ASSUME NEW a, ProfileName(st, a) # None
      PROVE  <<a, ProfileName(st, a)>> \in PairsOf(st)
  <2>1. PICK label \in Labels : /\ Active(st, <<FALSE, label>>)
                               /\ st.entries[<<FALSE, label>>].owner = a
    BY <1>2 DEF ProfileName
  <2>2. a \in Accounts
    BY <1>1, <2>1 DEF Active
  <2> QED
    BY <1>2, <2>2 DEF PairsOf
<1>3. ASSUME NEW label, HasRecord(st, label)
      PROVE  <<"poll", label>> \in PairsOf(st)
  <2>1. <<TRUE, label>> \in Nodes
    BY <1>1, <1>3 DEF HasRecord, Active
  <2>2. label \in Labels
    BY <2>1 DEF Nodes
  <2> QED
    BY <1>3, <2>2 DEF PairsOf
<1> QED
  BY <1>2, <1>3

LEMMA StepShows ==
    ASSUME Inv, ShownInv, NEW t \in tasks, Step(t)
    PROVE  ShownInv'
<1>1. /\ TasksInv /\ PageInv /\ ChainInv /\ TaskType(t) /\ t \in Tasks /\ t.kind \in Kinds
      /\ t.at \in 1..Len(Route[t.kind]) /\ ServedOK(t) /\ wallet \in Someone
  BY DEF Inv, PageInv, TasksInv, TaskOK, TaskType, Tasks, ShownInv, FoundServed
<1>2. UNCHANGED <<chain, served, wallet, events, visit>>
  BY DEF Step, outside
<1>3. Height \in DOMAIN chain /\ Height \in Nat /\ chain[Height].fork \in Nat
  <2>1. Height \in Nat \ {0} /\ chain[Height] \in Blocks
    BY <1>1, LastOf DEF ChainInv, Height
  <2>2. Height \in DOMAIN chain
    BY <1>1, <2>1 DEF ChainInv, Height
  <2> QED
    BY <2>1, <2>2 DEF Blocks
<1>4. CASE Fails(t)
  BY <1>1, <1>2, <1>4, FailsShows
<1>5. ASSUME NEW u \in Tasks, u = [t EXCEPT !.n = u.n, !.fork = u.fork], Goes(t, u),
             Pc(t) \notin {"peek", "name", "text", "assert", "check"},
             IF Pc(t) = "block" THEN u.n \in DOMAIN chain ELSE TRUE
      PROVE  ShownInv'
  <2>1. /\ u.kind = t.kind /\ u.current = t.current /\ u.shown = t.shown
        /\ u.label = t.label /\ u.account = t.account /\ u.name = t.name
    BY <1>1, <1>5 DEF Tasks
  <2>2. ~IsLast(t)
    BY <1>1, <1>5, NotLast
  <2> QED
    BY <1>1, <1>2, <1>5, <2>1, <2>2, GoesShows
<1>6. t = [t EXCEPT !.n = t.n, !.fork = t.fork]
  BY <1>1 DEF Tasks
<1>7. ASSUME Pc(t) \in {"name", "text"}
      PROVE  At(t) \in GoodStates /\ PairsOf(At(t)) \subseteq served
  <2>1. t.n \in DOMAIN chain
    BY <1>1, <1>7 DEF ServedOK
  <2>2. chain[t.n] \in Blocks /\ PairsOf(chain[t.n].state) \subseteq served
    BY <1>1, <2>1 DEF ChainInv, ShownInv, BlocksServed
  <2> QED
    BY <2>2 DEF At, Blocks
<1>8. CASE Block(t)
  <2>1. PICK u : u = [t EXCEPT !.n = Height, !.fork = chain[Height].fork]
    OBVIOUS
  <2>2. u \in Tasks /\ u = [t EXCEPT !.n = u.n, !.fork = u.fork] /\ u.n = Height
    BY <1>1, <1>3, <2>1 DEF Tasks
  <2>3. Goes(t, u) /\ Pc(t) = "block"
    BY <1>8, <2>1 DEF Block
  <2> QED
    BY <1>3, <1>5, <2>2, <2>3
<1>9. CASE ReadConfig(t)
  <2>1. PICK u : u = [t EXCEPT !.n = 0, !.fork = 0]
    OBVIOUS
  <2>2. u \in Tasks /\ u = [t EXCEPT !.n = u.n, !.fork = u.fork]
    BY <1>1, <2>1 DEF Tasks
  <2>3. (Goes(t, u) \/ Fails(t)) /\ Pc(t) = "config"
    BY <1>9, <2>1 DEF ReadConfig
  <2> QED
    BY <1>4, <1>5, <2>2, <2>3
<1>10. CASE Peek(t)
  <2>1. Pc(t) = "peek" /\ events = 0
    BY <1>10 DEF Peek
  <2>2. CASE t.kind = "load" /\ wallet = None
    <3>1. PICK u : u = [t EXCEPT !.account = None]
      OBVIOUS
    <3>2. /\ u \in Tasks /\ u.kind = t.kind /\ u.label = t.label /\ u.account = None
          /\ u.name = t.name
      BY <1>1, <3>1 DEF Tasks, Someone
    <3>3. Ends(t, Shown(u))
      BY <1>10, <2>2, <3>1 DEF Peek
    <3>4. u.name = None
      BY <1>1, <2>1, <2>2, <3>2, Places DEF Pc, ServedOK
    <3> QED
      BY <1>1, <1>2, <2>2, <3>2, <3>3, <3>4, ResultShows
  <2>3. CASE t.kind # "load" /\ wallet = None
    BY <1>4, <1>10, <2>3 DEF Peek
  <2>4. CASE wallet # None
    <3>1. PICK u : u = [t EXCEPT !.account = wallet]
      OBVIOUS
    <3>2. /\ u \in Tasks /\ u.kind = t.kind /\ u.current = t.current /\ u.shown = t.shown
          /\ u.label = t.label /\ u.account # None /\ u.name = t.name
      BY <1>1, <2>4, <3>1 DEF Tasks
    <3>3. Goes(t, u)
      BY <1>10, <2>4, <3>1 DEF Peek
    <3>4. ~IsLast(t)
      BY <1>1, <2>1, NotLast
    <3> QED
      BY <1>1, <1>2, <2>1, <3>2, <3>3, <3>4, GoesShows
  <2> QED
    BY <2>2, <2>3, <2>4
<1>11. CASE CheckAvailable(t) \/ Rehearse(t) \/ Wait(t) \/ Resolve(t) \/ Send(t)
  <2>1. /\ Goes(t, t) \/ Fails(t)
        /\ Pc(t) \in {"available", "rehearse", "wait", "resolve", "send"}
    BY <1>11 DEF CheckAvailable, Rehearse, Wait, Resolve, Send
  <2> QED
    BY <1>1, <1>4, <1>5, <1>6, <2>1
<1>12. CASE AssertCurrent(t)
  BY <1>1, <1>2, <1>4, <1>12, PassesShows DEF AssertCurrent
<1>13. CASE ReadName(t)
  <2> DEFINE name == ProfileName(At(t), t.account)
  <2>1. Pc(t) = "name" /\ name \in Labels \cup {None}
    BY <1>13 DEF ReadName, ProfileName
  <2>2. name # None => <<t.account, name>> \in served
    BY <1>7, <2>1, BlockServes
  <2> HIDE DEF name
  <2>3. CASE name # None /\ Goes(t, [t EXCEPT !.name = name])
    <3>1. PICK u : u = [t EXCEPT !.name = name]
      OBVIOUS
    <3>2. /\ u \in Tasks /\ u.kind = t.kind /\ u.current = t.current /\ u.shown = t.shown
          /\ u.label = t.label /\ u.account = t.account /\ u.name = name
      BY <1>1, <2>1, <3>1 DEF Tasks, Texts
    <3>3. Goes(t, u) /\ ~IsLast(t)
      BY <1>1, <2>1, <2>3, <3>1, NotLast
    <3> QED
      BY <1>1, <1>2, <2>1, <2>2, <2>3, <3>2, <3>3, GoesShows
  <2>4. CASE t.kind # "claim" /\ Ends(t, Shown(t))
    <3>1. t.kind = "load" => /\ t.current /\ events = 0 => t.account = wallet
                             /\ t.name # None => <<t.account, t.name>> \in served
      <4> SUFFICES ASSUME t.kind = "load"
                   PROVE  t.current /\ events = 0 => t.account = wallet
        BY <1>1 DEF ServedOK
      <4>1. t.at = 5
        BY <1>1, <2>1, Places DEF Pc
      <4>2. LoadOK(t)
        BY <1>1 DEF TasksInv, TaskOK
      <4> QED
        BY <1>1, <4>1, <4>2 DEF ServedOK, LoadOK
    <3>2. t.kind \notin {"namePoll", "lookup"}
      BY <1>1, <2>1, Places DEF Pc
    <3>3. t.kind = "hook" => (t.name # None => <<t.account, t.name>> \in served)
      BY <1>1 DEF ServedOK
    <3> QED
      BY <1>1, <1>2, <2>4, <3>1, <3>2, <3>3, ResultShows
  <2> QED
    BY <1>4, <1>13, <2>3, <2>4 DEF ReadName, name
<1>14. CASE Check(t)
  <2>1. PICK u : u = [t EXCEPT !.n = 0, !.fork = 0]
    OBVIOUS
  <2>2. /\ u \in Tasks /\ u.kind = t.kind /\ u.current = t.current /\ u.shown = t.shown
        /\ u.label = t.label /\ u.account = t.account /\ u.name = t.name
    BY <1>1, <2>1 DEF Tasks
  <2>3. /\ Pc(t) = "check"
        /\ Fails(t) \/ (Passes(t, u) /\ (t.kind = "claim" => t.name = t.label))
    BY <1>14, <2>1 DEF Check
  <2> QED
    BY <1>1, <1>2, <1>4, <2>2, <2>3, PassesShows
<1>15. CASE ReadText(t)
  <2>1. PICK u : u = [t EXCEPT !.name = VotingWindow(VoteStart, VoteEnd, t.n)]
    OBVIOUS
  <2>2. VotingWindow(VoteStart, VoteEnd, t.n) \in Texts
    BY DEF VotingWindow, Texts
  <2>3. /\ u \in Tasks /\ u.kind = t.kind /\ u.current = t.current /\ u.shown = t.shown
        /\ u.label = t.label /\ u.account = t.account
    BY <1>1, <2>1, <2>2 DEF Tasks
  <2>4. /\ Pc(t) = "text" /\ ~IsLast(t)
        /\ Fails(t) \/ (Goes(t, u) /\ <<"poll", t.label>> \in served)
    <3>1. Pc(t) = "text"
      BY <1>15 DEF ReadText
    <3> QED
      BY <1>1, <1>7, <1>15, <2>1, <3>1, NotLast, BlockServes DEF ReadText
  <2> QED
    BY <1>1, <1>2, <1>4, <2>3, <2>4, GoesShows
<1> QED
  BY <1>8, <1>9, <1>10, <1>11, <1>12, <1>13, <1>14, <1>15 DEF Step

-----------------------------------------------------------------------------
(* The chain: what is served only grows. *)
LEMMA ServesMore ==
    ASSUME ShownInv, served \subseteq served', DOMAIN chain \subseteq DOMAIN chain', BlocksServed',
           UNCHANGED <<outside, visit, page, tasks>>
    PROVE  ShownInv'
<1>1. \A t \in tasks : ServedOK(t) => ServedOK(t)'
  BY DEF ServedOK, Pc
<1>2. FoundServed' /\ TasksOnPage' /\ OneLoad'
  BY <1>1 DEF ShownInv, FoundServed, TasksOnPage, OneLoad, OnPage
<1>3. Settled'
  BY DEF ShownInv, Settled, Awaited, outside
<1>4. ShownWasServed'
  BY DEF ShownInv, ShownWasServed
<1> QED
  BY <1>2, <1>3, <1>4 DEF ShownInv

LEMMA ChainShows ==
    ASSUME Inv, ShownInv, Mine \/ Reorg
    PROVE  ShownInv'
<1>1. chain \in Seq(Blocks) /\ chain # <<>> /\ UNCHANGED <<outside, visit, page, tasks>>
  BY DEF Inv, ChainInv, Mine, Reorg
<1>2. ASSUME NEW blocks \in Seq(Blocks), NEW st, Add(blocks, st), Len(chain) <= Len(blocks) + 1,
             \A i \in DOMAIN blocks : blocks[i] = chain[i] /\ i \in DOMAIN chain
      PROVE  ShownInv'
  <2>1. PICK block : block = [state |-> st, fork |-> reorgs']
    OBVIOUS
  <2>2. chain' = Append(blocks, block) /\ served' = served \cup PairsOf(st)
    BY <1>2, <2>1 DEF Add
  <2>3. /\ DOMAIN chain' = 1..Len(blocks) + 1 /\ DOMAIN blocks = 1..Len(blocks)
        /\ \A i \in DOMAIN chain' : chain'[i] = IF i \in DOMAIN blocks THEN blocks[i] ELSE block
    BY <2>2
  <2>4. DOMAIN chain \subseteq DOMAIN chain'
    BY <1>1, <1>2, <2>3
  <2>5. BlocksServed'
    <3>1. block.state = st
      BY <2>1
    <3> QED
      BY <1>2, <2>2, <2>3, <3>1 DEF ShownInv, BlocksServed
  <2> QED
    BY <1>1, <2>2, <2>4, <2>5, ServesMore
<1>3. CASE Mine
  <2>1. \E st : Add(chain, st)
    BY <1>3 DEF Mine, ByParent, ByOthers, Expire
  <2>2. Len(chain) \in Nat
    BY <1>1
  <2> QED
    BY <1>1, <1>2, <2>1, <2>2
<1>4. CASE Reorg
  <2>1. Front(chain) \in Seq(Blocks) /\ \E st : Add(Front(chain), st)
    BY <1>1, <1>4, LastOf DEF Reorg, Height
  <2>2. /\ Len(Front(chain)) = Len(chain) - 1 /\ Len(chain) \in Nat
        /\ \A i \in DOMAIN Front(chain) : Front(chain)[i] = chain[i] /\ i \in DOMAIN chain
    BY <1>1, <1>4 DEF Front, Reorg, Height
  <2> QED
    BY <1>2, <2>1, <2>2
<1> QED
  BY <1>3, <1>4

-----------------------------------------------------------------------------
(* The pages: tasks that are outdated or aborted show nothing more. *)
LEMMA DroppedShows ==
    ASSUME TasksInv, ShownInv, NEW us, us = Outdated(tasks) \/ us = Aborted(tasks)
    PROVE  /\ \A u \in us : ServedOK(u) /\ ~u.current
           /\ (\E t \in tasks : t.kind \in Submits) => \E u \in us : u.kind \in Submits
<1>1. ASSUME NEW t \in tasks, NEW changed \in BOOLEAN
      PROVE  \A u \in {[t EXCEPT !.current = FALSE], [t EXCEPT !.current = FALSE, !.changed = changed]} :
                ServedOK(u) /\ ~u.current /\ u.kind = t.kind
  <2> TAKE u \in {[t EXCEPT !.current = FALSE], [t EXCEPT !.current = FALSE, !.changed = changed]}
  <2>1. t \in Tasks /\ ServedOK(t)
    BY DEF TasksInv, TaskOK, TaskType, ShownInv, FoundServed
  <2>2. /\ u.kind = t.kind /\ u.at = t.at /\ u.name = t.name /\ u.account = t.account
        /\ u.label = t.label /\ u.n = t.n /\ ~u.current
    BY <2>1 DEF Tasks
  <2> QED
    BY <2>1, <2>2 DEF ServedOK, Pc
<1>2. CASE us = Outdated(tasks)
  BY <1>1, <1>2 DEF Outdated
<1>3. CASE us = Aborted(tasks)
  <2>1. ASSUME NEW t \in tasks
        PROVE  \A u \in {[t EXCEPT !.current = FALSE, !.changed = t.kind \in Submits]} :
                  ServedOK(u) /\ ~u.current /\ u.kind = t.kind
    <3>1. \E changed \in BOOLEAN : changed <=> t.kind \in Submits
      OBVIOUS
    <3>2. PICK changed \in BOOLEAN : changed = (t.kind \in Submits)
      BY <3>1
    <3> QED
      BY <1>1, <3>2
  <2> QED
    BY <1>3, <2>1 DEF Aborted
<1> QED
  BY <1>2, <1>3

(* The page after something that leaves no task that may show anything, but a new one. *)
LEMMA AnewShows ==
    ASSUME TasksInv, ShownInv, NEW us, us = Outdated(tasks) \/ us = Aborted(tasks),
           \A u \in tasks' \ us : ServedOK(u) /\ OnPage(u)', \A u, v \in tasks' \ us : u = v,
           UNCHANGED <<chain, served>>, Settled', ShownWasServed'
    PROVE  ShownInv'
<1>1. \A u \in us : ServedOK(u) /\ ~u.current
  BY DroppedShows
<1>2. \A u : ServedOK(u)' <=> ServedOK(u)
  BY DEF ServedOK, Pc
<1>3. FoundServed'
  BY <1>1, <1>2 DEF FoundServed
<1>4. TasksOnPage'
  BY <1>1 DEF TasksOnPage, OnPage
<1>5. OneLoad'
  BY <1>1 DEF OneLoad
<1> QED
  BY <1>3, <1>4, <1>5 DEF ShownInv, BlocksServed

LEMMA NewTaskShows ==
    ASSUME NEW kind \in Kinds \ Submits, NEW account \in Someone, NEW label \in Labels \cup {None}
    PROVE  /\ ServedOK(Task(kind, account, label)) /\ Task(kind, account, label).current
           /\ Task(kind, account, label).kind = kind
           /\ Task(kind, account, label).account = account /\ Task(kind, account, label).label = label
<1>1. 1 \in 1..Len(Route[kind])
  BY Routes
<1>2. Route[kind][1] \notin {"name", "text"}
  BY <1>1, Places
<1> QED
  BY <1>2 DEF Task, ServedOK, Pc, Submits, Kinds

LEMMA ActionShows ==
    ASSUME Inv, ShownInv,
           Event \/ Load \/ Leave \/ LookUpAccount \/ LookUpPoll \/ SearchNoName
           \/ (\E account \in Accounts \cup {None} : Switch(account))
           \/ \E label \in Labels \cup {None} : Search(label)
    PROVE  ShownInv'
<1>1. /\ TasksInv /\ page \in Pages /\ page.account \in Someone /\ page.url \in Labels \cup {None}
      /\ events \in Nat /\ Settled /\ ShownWasServed
  BY DEF Inv, PageInv, Pages, ShownInv
<1>2. ASSUME NEW us, us = Outdated(tasks) \/ us = Aborted(tasks)
      PROVE  page.busy => \E u \in us : u.kind \in Submits
  BY <1>1, <1>2, DroppedShows DEF Settled
<1>3. {"load", "hook", "lookup"} \subseteq Kinds \ Submits /\ None \in Someone
  BY DEF Kinds, Submits, Someone
<1>4. CASE Event /\ visit = "names"
  <2>1. /\ UNCHANGED <<chain, served, visit>> /\ tasks' = Aborted(tasks)
        /\ page' = [page EXCEPT !.account = None, !.profile = None, !.consent = None,
                                !.published = None, !.refresh = TRUE]
    BY <1>4 DEF Event, world
  <2>2. /\ page'.account = None /\ page'.profile = None /\ page'.published = None /\ page'.refresh
        /\ page'.busy = page.busy /\ page'.phase = page.phase /\ page'.result = page.result
    BY <1>1, <2>1 DEF Pages
  <2>3. Settled'
    BY <1>2, <1>4, <2>1, <2>2 DEF Settled, Awaited
  <2>4. ShownWasServed'
    BY <1>1, <2>1, <2>2 DEF ShownWasServed
  <2> QED
    BY <1>1, <2>1, <2>2, <2>3, <2>4, AnewShows
<1>5. CASE (Event /\ visit # "names") \/ \E account \in Accounts \cup {None} : Switch(account)
  <2>1. /\ UNCHANGED <<chain, served, visit, page, tasks>>
        /\ visit = "names" => events' # 0
    BY <1>1, <1>5 DEF Event, Switch, world
  <2>2. Settled'
    BY <1>1, <2>1 DEF Settled, Awaited
  <2>3. \A t : (ServedOK(t)' <=> ServedOK(t)) /\ (OnPage(t)' <=> OnPage(t))
    BY <2>1 DEF ServedOK, OnPage, Pc
  <2> QED
    BY <2>1, <2>2, <2>3 DEF ShownInv, BlocksServed, FoundServed, TasksOnPage, OneLoad, ShownWasServed
<1>6. CASE Load
  <2>1. PICK new : new = Task("load", None, None)
    OBVIOUS
  <2>2. /\ UNCHANGED <<chain, served, visit, wallet, events>> /\ visit = "names"
        /\ tasks' = Outdated(tasks) \cup {new}
        /\ page' = [page EXCEPT !.config = FALSE, !.account = None, !.profile = None,
                                !.loading = TRUE, !.refresh = FALSE]
    BY <1>6, <2>1 DEF Load, world, outside
  <2>3. ServedOK(new) /\ new.current /\ new.kind = "load"
    BY <1>3, <2>1, NewTaskShows
  <2>4. /\ page'.account = None /\ page'.profile = None /\ ~page'.config
        /\ page'.published = page.published
        /\ page'.busy = page.busy /\ page'.phase = page.phase /\ page'.result = page.result
    BY <1>1, <2>2 DEF Pages
  <2>5. Settled'
    BY <1>2, <2>2, <2>3, <2>4 DEF Settled, Awaited
  <2>6. ShownWasServed'
    BY <1>1, <2>2, <2>4 DEF ShownWasServed
  <2>7. OnPage(new)'
    BY <2>2, <2>3, <2>4 DEF OnPage, Submits
  <2> QED
    BY <1>1, <2>2, <2>3, <2>4, <2>5, <2>6, <2>7, AnewShows
<1>7. CASE Leave
  <2>1. UNCHANGED <<chain, served, page>> /\ visit' = "left" /\ tasks' = Aborted(tasks)
    BY <1>7 DEF Leave, world
  <2>2. Settled'
    BY <1>2, <2>1 DEF Settled
  <2>3. ShownWasServed'
    BY <1>1, <2>1 DEF ShownWasServed
  <2> QED
    BY <1>1, <2>1, <2>2, <2>3, AnewShows
<1>8. CASE LookUpAccount
  <2>1. PICK new : new = Task("hook", page.account, None)
    OBVIOUS
  <2>2. /\ UNCHANGED <<chain, served, visit>> /\ visit = "ballot"
        /\ tasks' \in {Outdated(tasks), Outdated(tasks) \cup {new}}
        /\ page' = [page EXCEPT !.profile = None, !.refresh = FALSE]
    BY <1>8, <2>1 DEF LookUpAccount, world
  <2>3. ServedOK(new) /\ new.current /\ new.kind = "hook" /\ new.account = page.account
    BY <1>1, <1>3, <2>1, NewTaskShows
  <2>4. /\ page'.account = page.account /\ page'.profile = None /\ page'.published = page.published
        /\ page'.busy = page.busy /\ page'.phase = page.phase /\ page'.result = page.result
    BY <1>1, <2>2 DEF Pages
  <2>5. Settled'
    BY <1>2, <2>2, <2>4 DEF Settled
  <2>6. ShownWasServed'
    BY <1>1, <2>2, <2>4 DEF ShownWasServed
  <2>7. OnPage(new)'
    BY <2>2, <2>3, <2>4 DEF OnPage, Submits
  <2> QED
    BY <1>1, <2>2, <2>3, <2>4, <2>5, <2>6, <2>7, AnewShows
<1>9. CASE LookUpPoll
  <2>1. PICK new : new = Task("lookup", None, page.url)
    OBVIOUS
  <2>2. /\ UNCHANGED <<chain, served, visit>> /\ visit = "poll"
        /\ \/ /\ tasks' = Outdated(tasks)
              /\ page' = [page EXCEPT !.refresh = FALSE, !.phase = "idle"]
           \/ /\ tasks' = Outdated(tasks) \cup {new}
              /\ page' = [page EXCEPT !.refresh = FALSE, !.phase = "loading"]
    BY <1>9, <2>1 DEF LookUpPoll, world
  <2>3. ServedOK(new) /\ new.current /\ new.kind = "lookup" /\ new.label = page.url
    BY <1>1, <1>3, <2>1, NewTaskShows
  <2>4. /\ page'.url = page.url /\ page'.published = page.published /\ page'.busy = page.busy
        /\ page'.profile = page.profile /\ page'.account = page.account
        /\ \/ tasks' = Outdated(tasks) /\ page'.phase = "idle"
           \/ tasks' = Outdated(tasks) \cup {new} /\ page'.phase = "loading"
    BY <1>1, <2>2 DEF Pages
  <2>5. Settled'
    BY <1>1, <1>2, <2>2, <2>3, <2>4 DEF Settled, Awaited
  <2>6. ShownWasServed'
    BY <1>1, <2>2, <2>4 DEF Settled, ShownWasServed
  <2>7. new \in tasks' => OnPage(new)' \/ tasks' = Outdated(tasks)
    BY <2>2, <2>3, <2>4 DEF OnPage, Submits
  <2>8. CASE tasks' = Outdated(tasks)
    BY <1>1, <2>2, <2>4, <2>5, <2>6, <2>8, AnewShows
  <2>9. CASE OnPage(new)'
    BY <1>1, <2>2, <2>3, <2>4, <2>5, <2>6, <2>9, AnewShows
  <2> QED
    BY <2>4, <2>7, <2>8, <2>9
<1>10. CASE SearchNoName \/ \E label \in Labels \cup {None} : Search(label)
  <2>1. /\ UNCHANGED <<chain, served, visit>> /\ visit = "poll" /\ tasks' = Outdated(tasks)
        /\ \/ page' = [page EXCEPT !.phase = "error"]
           \/ \E label : page' = [page EXCEPT !.url = label, !.refresh = TRUE]
    BY <1>10 DEF Search, SearchNoName, world
  <2>2. /\ page'.published = page.published /\ page'.busy = page.busy
        /\ page'.profile = page.profile /\ page'.result = page.result
        /\ page'.phase = "error" \/ (page'.phase = page.phase /\ page'.refresh)
    BY <1>1, <2>1 DEF Pages
  <2>3. Settled'
    BY <1>1, <1>2, <2>1, <2>2 DEF Settled, Awaited
  <2>4. ShownWasServed'
    BY <1>1, <2>1, <2>2 DEF Settled, ShownWasServed
  <2> QED
    BY <1>1, <2>1, <2>2, <2>3, <2>4, AnewShows
<1> QED
  BY <1>4, <1>5, <1>6, <1>7, <1>8, <1>9, <1>10

LEMMA TouchesShow ==
    ASSUME Inv, ShownInv,
           \/ CheckAgain \/ Consent \/ Connect \/ Connected \/ ConnectRefused
           \/ \E account \in Accounts \cup {None} : Given(account)
           \/ \E label \in Labels \cup {None} : Follow(label)
    PROVE  ShownInv'
<1>1. page \in Pages /\ page.refresh \in BOOLEAN /\ Settled /\ ShownWasServed
  BY DEF Inv, PageInv, Pages, ShownInv
<1>2. /\ UNCHANGED <<chain, served, wallet, events, visit, tasks>>
      /\ \/ \E p : page' \in {[page EXCEPT !.refresh = TRUE], [page EXCEPT !.consent = p],
                              [page EXCEPT !.connecting = p],
                              [page EXCEPT !.connecting = FALSE, !.refresh = TRUE],
                              [page EXCEPT !.url = p, !.refresh = TRUE]}
         \/ \E account : visit = "ballot" /\ page' = [page EXCEPT !.account = account, !.refresh = TRUE]
  <2>1. CASE CheckAgain \/ Consent \/ Connect \/ Connected \/ ConnectRefused
    BY <2>1 DEF CheckAgain, Consent, Connect, Connected, ConnectRefused, Touch, world, outside
  <2>2. CASE \E account \in Accounts \cup {None} : Given(account)
    BY <2>2 DEF Given, Touch, world, outside
  <2>3. CASE \E label \in Labels \cup {None} : Follow(label)
    BY <2>3 DEF Follow, Touch, world, outside
  <2> QED
    BY <2>1, <2>2, <2>3
<1>3. /\ page'.busy = page.busy /\ page'.loading = page.loading /\ page'.config = page.config
      /\ page'.profile = page.profile /\ page'.published = page.published
      /\ page'.phase = page.phase /\ page'.result = page.result
      /\ page.refresh => page'.refresh
      /\ page'.account = page.account \/ (visit = "ballot" /\ page'.refresh)
      /\ page'.url = page.url \/ page'.refresh
  BY <1>1, <1>2 DEF Pages
<1>4. \A t \in tasks : (ServedOK(t) => ServedOK(t)') /\ (OnPage(t) => OnPage(t)')
  BY <1>2, <1>3 DEF ServedOK, OnPage, Pc
<1>5. FoundServed' /\ TasksOnPage' /\ OneLoad' /\ BlocksServed'
  BY <1>2, <1>4 DEF ShownInv, FoundServed, TasksOnPage, OneLoad, BlocksServed
<1>6. Settled'
  BY <1>1, <1>2, <1>3 DEF Settled, Awaited
<1>7. ShownWasServed'
  BY <1>1, <1>2, <1>3 DEF ShownWasServed
<1> QED
  BY <1>5, <1>6, <1>7 DEF ShownInv

LEMMA SubmitShows ==
    ASSUME Inv, ShownInv, NEW kind \in Submits, NEW label \in Labels, Submit(kind, label)
    PROVE  ShownInv'
<1>1. /\ UNCHANGED <<chain, served, wallet, events, visit>> /\ visit = "names" /\ page.config
      /\ tasks' = tasks \cup {Submission(kind, label)}
      /\ page' = [page EXCEPT !.busy = TRUE, !.published = None]
  BY DEF Submit, Form, world, outside
<1>2. page \in Pages /\ Settled /\ ShownWasServed
  BY DEF Inv, PageInv, ShownInv
<1>3. /\ page'.loading = page.loading /\ page'.config = page.config /\ page'.published = None
      /\ page'.profile = page.profile /\ page'.account = page.account
      /\ page'.phase = page.phase /\ page'.result = page.result
      /\ page'.refresh = page.refresh /\ page'.url = page.url
  BY <1>1, <1>2 DEF Pages
<1>4. PICK new : new = Submission(kind, label)
  OBVIOUS
<1>5. /\ new.kind = kind /\ new.at = 1 /\ new.name = None /\ new.current
      /\ new.shown = page.account
  BY <1>4 DEF Submission, Task
<1>6. ServedOK(new)
  <2>1. kind \in Kinds /\ 1 \in 1..Len(Route[kind])
    BY Routes DEF Kinds, Submits
  <2>2. Pc(new) \notin {"name", "text"}
    BY <1>4, <1>5, <2>1, Places DEF Pc
  <2> QED
    BY <1>4, <1>5, <2>2 DEF ServedOK, Submits
<1>7. OnPage(new)'
  BY <1>1, <1>3, <1>4, <1>5 DEF OnPage, Submits
<1>8. \A t : (ServedOK(t)' <=> ServedOK(t)) /\ (OnPage(t)' <=> OnPage(t))
  BY <1>1, <1>3 DEF ServedOK, OnPage, Pc
<1>9. FoundServed' /\ TasksOnPage' /\ BlocksServed'
  BY <1>1, <1>4, <1>5, <1>6, <1>7, <1>8 DEF ShownInv, FoundServed, TasksOnPage, BlocksServed
<1>10. OneLoad'
  BY <1>1, <1>4, <1>5 DEF ShownInv, OneLoad, Submits
<1>11. Settled'
  BY <1>1, <1>2, <1>3, <1>4, <1>5 DEF Settled, Awaited
<1>12. ShownWasServed'
  BY <1>1, <1>2, <1>3 DEF ShownWasServed
<1> QED
  BY <1>9, <1>10, <1>11, <1>12 DEF ShownInv

LEMMA FaultShows ==
    ASSUME Inv, ShownInv, NEW t \in tasks, Fault(t)
    PROVE  ShownInv'
BY FailsShows DEF Inv, Fault, world, outside

LEMMA InitShows == Init => ShownInv
<1> SUFFICES ASSUME Init
             PROVE  ShownInv
  OBVIOUS
<1>1. PICK st : chain = <<[state |-> st, fork |-> 0]>> /\ served = PairsOf(st)
  BY DEF Init
<1>2. BlocksServed
  BY <1>1 DEF BlocksServed
<1>3. tasks = {} /\ page = Blank
  BY DEF Init
<1>4. Settled /\ ShownWasServed
  BY <1>3 DEF Settled, ShownWasServed, Blank, Awaited
<1> QED
  BY <1>2, <1>3, <1>4 DEF ShownInv, FoundServed, TasksOnPage, OneLoad

LEMMA NextShows == Inv /\ ShownInv /\ [Next]_vars => ShownInv'
<1> SUFFICES ASSUME Inv, ShownInv, [Next]_vars
             PROVE  ShownInv'
  OBVIOUS
<1>1. CASE UNCHANGED vars
  <2>1. UNCHANGED <<chain, served, outside, visit, page, tasks>>
    BY <1>1 DEF vars, world
  <2>2. BlocksServed'
    BY <2>1 DEF ShownInv, BlocksServed
  <2> QED
    BY <2>1, <2>2, ServesMore
<1>2. CASE Next
  BY <1>2, ChainShows, StepShows, FaultShows, SubmitShows, TouchesShow, ActionShows DEF Next
<1> QED
  BY <1>1, <1>2

-----------------------------------------------------------------------------
(* Whatever the administrators, the accounts, the wallet, the provider and the user do,
   the contract serves no name that a parent has taken back: its registration is of an
   earlier resource than the node's, and stays so. *)
THEOREM NeverRevivedHolds == Spec => []NeverRevived
<1>1. Inv => NeverRevived
  <2> SUFFICES ASSUME Inv, NEW i \in DOMAIN chain, NEW node \in chain[i].state.ended
               PROVE  ~Active(chain[i].state, node)
    BY DEF NeverRevived
  <2>1. chain[i] \in Blocks
    BY DEF Inv, ChainInv
  <2>2. PICK st \in GoodStates : st = chain[i].state
    BY <2>1 DEF Blocks
  <2>3. node \in Nodes /\ EntryOK(st, node)
    BY <2>2 DEF GoodStates, States
  <2>4. node \in DOMAIN st.entries /\ st.entries[node].resource \in Nat
    BY <2>2, <2>3 DEF EntryOK, GoodStates, States, Entries
  <2>5. st.registry[node].resource \in Nat
    BY <2>2, <2>3 DEF GoodStates, States, Registered
  <2>6. st.registry[node].resource # st.entries[node].resource
    BY <2>2, <2>3, <2>4, <2>5 DEF EntryOK
  <2> QED
    BY <2>2, <2>6 DEF Active
<1> QED
  BY <1>1, InitHolds, NextKeeps, PTL DEF Spec

(* A transaction of the page is of the account it showed, and consented, when it was asked
   for, however the wallet's events and the awaits of the submission interleave. *)
THEOREM SentByTheShownHolds == Spec => []SentByTheShown
<1>1. Inv => SentByTheShown
  BY DEF Inv
<1> QED
  BY <1>1, InitHolds, NextKeeps, PTL DEF Spec

(* The names page never shows an account that is not the wallet's, but while an event of
   the wallet is on its way. *)
THEOREM ShowsTheWallet ==
    Spec => [](visit = "names" /\ events = 0 => page.account \in {None, wallet})
<1>1. Inv => (visit = "names" /\ events = 0 => page.account \in {None, wallet})
  BY DEF Inv, PageInv
<1> QED
  BY <1>1, InitHolds, NextKeeps, PTL DEF Spec

(* What the pages show: a name that is shown as an account's, or as the poll's, was one that a
   block had for it, whatever reorganizations there were and however the reads of old and new
   generations interleave; and with nothing under way a page is settled on the wallet's account,
   or on the name of its address. *)
THEOREM NamesAreRightHolds == Spec => []NamesAreRight
<1>1. ShownInv => RestIsSettled
  <2> SUFFICES ASSUME ShownInv, AtRest, visit # "left"
               PROVE  /\ ~page.busy
                      /\ visit = "names" =>
                           ~page.loading /\ page.account = (IF page.config THEN wallet ELSE None)
                      /\ visit = "poll" =>
                           page.phase # "loading" /\ (page.phase = "ready" => page.result = page.url)
    BY DEF RestIsSettled
  <2> QED
    BY DEF AtRest, ShownInv, Settled, Awaited
<1>2. Inv /\ ShownInv => NamesAreRight
  BY <1>1 DEF Inv, ShownInv, NamesAreRight
<1> QED
  BY <1>2, InitHolds, InitShows, NextKeeps, NextShows, PTL DEF Spec
=============================================================================
