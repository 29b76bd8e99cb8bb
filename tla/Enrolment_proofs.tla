-------------------------- MODULE Enrolment_proofs --------------------------
(***************************************************************************)
(* Proofs about Enrolment, for any accounts, people, ids and lifetimes.    *)
(***************************************************************************)
EXTENDS Enrolment, TLAPS

\* The steps of a request that come after the proof was accepted, and under the lock.
Claimed == {"received", "owner", "signing"}
Locked == {"owner", "signing"}

\* A task knows what its challenge knows.
TaskOK(t) ==
    /\ t.at \in {"verify"} \cup Claimed => t.proof \in People
    /\ t.at = "signing" => /\ t.grant \in Grants
                           /\ t.grant.account = t.account
                           /\ t.grant.person = t.proof
                           /\ t.grant.id = t.id
    /\ Live(t.id) => /\ t.account = sessions[t.id].account
                     /\ t.at \in Claimed => sessions[t.id].claims = t.proof
                     /\ t.at \in Locked => sessions[t.id].authorizing
                     /\ t.at = "signing" => sessions[t.id].issued = None

\* What was signed for a challenge is for its account and its first proof.
SessionOK(id) ==
    Live(id) => /\ sessions[id].issued # None => /\ sessions[id].claims \in People
                                                 /\ sessions[id].issued.account = sessions[id].account
                                                 /\ sessions[id].issued.person = sessions[id].claims
                                                 /\ sessions[id].issued.id = id
                /\ sessions[id].issued = None => sessions[id].signed = 0
                /\ sessions[id].signed <= 1

OneAuthorizer ==
    \A t, u \in tasks :
        (t.id = u.id /\ Live(t.id) /\ t.at \in Locked /\ u.at \in Locked) => t = u

Inv ==
    /\ TypeOK
    /\ \A t \in tasks : TaskOK(t)
    /\ \A id \in Ids : SessionOK(id)
    /\ OneAuthorizer

-----------------------------------------------------------------------------
(* A flow that goes on or ends leaves the other tasks as they are, or removes some. *)
LEMMA GoesTasks ==
    ASSUME NEW t, NEW next, Goes(t, next)
    PROVE  tasks' \subseteq (tasks \ {t}) \cup {next}
BY DEF Goes

LEMMA EndsTasks ==
    ASSUME NEW t, Ends(t)
    PROVE  tasks' \subseteq tasks \ {t}
BY DEF Ends

(* Removing tasks keeps what is said of tasks, if the challenges stay as they are. *)
LEMMA FewerTasks ==
    ASSUME Inv, tasks' \subseteq tasks, UNCHANGED <<sessions, record, chain>>, troubles' \in Nat
    PROVE  Inv'
BY DEF Inv, TypeOK, TaskOK, SessionOK, OneAuthorizer, Live, chain

(* A grant that gets older, or behind a block, stays the same otherwise. *)
LEMMA AgedGrant ==
    ASSUME NEW g \in Grants \cup {None}
    PROVE  /\ Aged(g) \in Grants \cup {None}
           /\ g = None => Aged(g) = None
           /\ g \in Grants => /\ Aged(g) \in Grants
                              /\ Aged(g).account = g.account
                              /\ Aged(g).person = g.person
                              /\ Aged(g).id = g.id
<1>1. CASE g = None \/ g.left = 0
  BY <1>1 DEF Aged
<1>2. CASE g # None /\ g.left # 0
  <2>1. g \in Grants /\ g.left \in 1..Lifetime
    BY <1>2, EnrolmentAssumption DEF Grants
  <2>2. Aged(g) = [g EXCEPT !.left = @ - 1]
    BY <1>2 DEF Aged
  <2>3. g.left - 1 \in 0..Lifetime
    BY <2>1, EnrolmentAssumption
  <2>4. /\ [g EXCEPT !.left = @ - 1] \in Grants
        /\ [g EXCEPT !.left = @ - 1].account = g.account
        /\ [g EXCEPT !.left = @ - 1].person = g.person
        /\ [g EXCEPT !.left = @ - 1].id = g.id
    BY <2>1, <2>3 DEF Grants
  <2> QED
    BY <1>2, <2>1, <2>2, <2>4
<1> QED
  BY <1>1, <1>2

LEMMA BehindGrant ==
    ASSUME NEW g \in Grants \cup {None}
    PROVE  /\ Behind(g) \in Grants \cup {None}
           /\ g = None => Behind(g) = None
           /\ g # None => /\ Behind(g) \in Grants
                          /\ Behind(g).account = g.account
                          /\ Behind(g).person = g.person
                          /\ Behind(g).id = g.id
                          /\ Behind(g).left = g.left
BY DEF Behind, Grants

-----------------------------------------------------------------------------
LEMMA InvInit == Init => Inv
BY DEF Init, Inv, TypeOK, TaskOK, SessionOK, OneAuthorizer, Live

-----------------------------------------------------------------------------
(* What a step of the task t has to respect: the challenge becomes s, the task n. *)
Respects(t, s, n) ==
    /\ s.account = sessions[t.id].account
    /\ sessions[t.id].claims # None => s.claims = sessions[t.id].claims
    /\ \A u \in tasks \ {t} : (u.id = t.id /\ u.at \in Locked) => s.authorizing
    /\ \A u \in tasks \ {t} : (u.id = t.id /\ u.at = "signing") => s.issued = None
    /\ s.issued # None => /\ s.claims \in People
                          /\ s.issued.account = s.account
                          /\ s.issued.person = s.claims
                          /\ s.issued.id = t.id
    /\ s.issued = None => s.signed = 0
    /\ s.signed <= 1
    /\ n.account = t.account /\ n.id = t.id
    /\ n.at \in {"verify"} \cup Claimed => n.proof \in People
    /\ n.at \in Claimed => s.claims = n.proof
    /\ n.at \in Locked => s.authorizing
    /\ n.at \in Locked => \A u \in tasks \ {t} : u.id = t.id => u.at \notin Locked
    /\ n.at = "signing" => /\ n.grant \in Grants
                           /\ n.grant.account = n.account
                           /\ n.grant.person = n.proof
                           /\ n.grant.id = n.id
                           /\ s.issued = None

LEMMA StepKeepsInv ==
    ASSUME Inv, NEW t \in tasks, Live(t.id),
           NEW s \in Sessions, sessions' = [sessions EXCEPT ![t.id] = s],
           NEW n \in Tasks, tasks' \subseteq (tasks \ {t}) \cup {n},
           Respects(t, s, n),
           record' \in Grants \cup {None}, UNCHANGED chain, troubles' \in Nat
    PROVE  Inv'
<1>1. t \in Tasks /\ t.id \in Ids /\ sessions[t.id] \in Sessions
  BY DEF Inv, TypeOK, Tasks, Live
<1>2. /\ sessions'[t.id] = s
      /\ \A id \in Ids \ {t.id} : sessions'[id] = sessions[id]
  BY <1>1 DEF Inv, TypeOK
<1>3. TypeOK'
  BY <1>1 DEF Inv, TypeOK, chain
<1>4. ASSUME NEW u \in tasks'
      PROVE  TaskOK(u)'
  <2>1. CASE u = n
    BY <2>1, <1>1, <1>2 DEF Inv, TaskOK, Respects, Live, Claimed, Locked
  <2>2. CASE u \in tasks \ {t} /\ u.id = t.id
    <3>1. TaskOK(u)
      BY <2>2 DEF Inv
    <3>2. u.at \in Claimed => sessions[t.id].claims # None
      BY <2>2, <3>1, EnrolmentAssumption DEF TaskOK, Claimed
    <3> QED
      BY <2>2, <3>1, <3>2, <1>2 DEF TaskOK, Respects, Live, Claimed, Locked
  <2>3. CASE u \in tasks \ {t} /\ u.id # t.id
    <3>1. TaskOK(u) /\ u.id \in Ids
      BY <2>3 DEF Inv, TypeOK, Tasks
    <3> QED
      BY <2>3, <3>1, <1>2 DEF TaskOK, Live
  <2> QED
    BY <2>1, <2>2, <2>3
<1>5. ASSUME NEW id \in Ids
      PROVE  SessionOK(id)'
  BY <1>2 DEF Inv, SessionOK, Respects, Live
<1>6. OneAuthorizer'
  <2> SUFFICES ASSUME NEW u \in tasks', NEW v \in tasks', u.id = v.id, Live(u.id)',
                      u.at \in Locked, v.at \in Locked
               PROVE  u = v
    BY DEF OneAuthorizer
  <2>1. CASE u = n \/ v = n
    BY <2>1 DEF Respects
  <2>2. CASE u \in tasks /\ v \in tasks
    <3>1. Live(u.id)
      BY <2>2, <1>2 DEF Inv, TypeOK, Tasks, Live
    <3> QED
      BY <2>2, <3>1 DEF Inv, OneAuthorizer
  <2> QED
    BY <2>1, <2>2
<1> QED
  BY <1>3, <1>4, <1>5, <1>6 DEF Inv

-----------------------------------------------------------------------------
(* One lemma for each operation. *)
LEMMA BeginKeepsInv ==
    ASSUME Inv, NEW a \in Accounts, Begin(a)
    PROVE  Inv'
<1> DEFINE id == CHOOSE i \in Ids : Unused(i)
<1>1. id \in Ids /\ Unused(id)
  BY DEF Begin
<1>2. /\ sessions' = [sessions EXCEPT ![id] = NewChallenge(a)]
      /\ tasks' = tasks \cup {Task(id, a, "sign")}
      /\ UNCHANGED <<record, pending, enrolled, troubles>>
  BY DEF Begin, chain
<1> HIDE DEF id
<1>3. NewChallenge(a) \in Sessions /\ Task(id, a, "sign") \in Tasks
  BY <1>1, EnrolmentAssumption DEF NewChallenge, Sessions, Task, Tasks
<1>4. TypeOK'
  BY <1>1, <1>2, <1>3 DEF Inv, TypeOK
<1>5. /\ sessions'[id] = NewChallenge(a)
      /\ \A i \in Ids \ {id} : sessions'[i] = sessions[i]
      /\ \A u \in tasks : u.id \in Ids \ {id}
  BY <1>1, <1>2 DEF Inv, TypeOK, Unused, Tasks
<1>6. ASSUME NEW u \in tasks'
      PROVE  TaskOK(u)'
  <2>1. CASE u \in tasks
    BY <2>1, <1>5 DEF Inv, TaskOK, Live
  <2>2. CASE u = Task(id, a, "sign")
    BY <2>2, <1>5 DEF TaskOK, Live, Task, NewChallenge, Claimed, Locked
  <2> QED
    BY <2>1, <2>2, <1>2
<1>7. ASSUME NEW i \in Ids
      PROVE  SessionOK(i)'
  BY <1>5 DEF Inv, SessionOK, Live, NewChallenge
<1>8. OneAuthorizer'
  <2>1. Task(id, a, "sign").at \notin Locked
    BY DEF Task, Locked
  <2> QED
    BY <2>1, <1>2, <1>5 DEF Inv, OneAuthorizer, Live
<1> QED
  BY <1>4, <1>6, <1>7, <1>8 DEF Inv

LEMMA BeginScanKeepsInv ==
    ASSUME Inv, NEW t \in tasks, BeginScan(t)
    PROVE  Inv'
<1>1. CASE Live(t.id)
  <2> DEFINE s == [sessions[t.id] EXCEPT !.begun = TRUE]
             n == [t EXCEPT !.at = "qr"]
  <2>1. t \in Tasks /\ sessions[t.id] \in Sessions /\ TaskOK(t) /\ SessionOK(t.id)
    BY <1>1 DEF Inv, TypeOK, Tasks, Live
  <2>2. s \in Sessions /\ n \in Tasks
    BY <2>1 DEF Sessions, Tasks
  <2>3. sessions' = [sessions EXCEPT ![t.id] = s]
    BY <1>1 DEF BeginScan
  <2>4. tasks' \subseteq (tasks \ {t}) \cup {n}
    BY <1>1, GoesTasks DEF BeginScan
  <2>5. Respects(t, s, n)
    BY <1>1, <2>1 DEF Respects, Inv, TaskOK, SessionOK, Sessions, Tasks, Claimed, Locked
  <2> QED
    BY <1>1, <2>2, <2>3, <2>4, <2>5, StepKeepsInv DEF BeginScan, Inv, TypeOK
<1>2. CASE ~Live(t.id)
  BY <1>2, EndsTasks, FewerTasks DEF BeginScan, Inv, TypeOK
<1> QED
  BY <1>1, <1>2

LEMMA ScanKeepsInv ==
    ASSUME Inv, NEW t \in tasks, NEW p \in People, Scan(t, p)
    PROVE  Inv'
<1>0. troubles' \in Nat
  BY DEF Scan, Trouble, Inv, TypeOK
<1>1. CASE Live(t.id) /\ ~sessions[t.id].busy /\ sessions[t.id].begun
  <2> DEFINE s == [sessions[t.id] EXCEPT !.busy = TRUE]
             q == [t EXCEPT !.scan = @ + 1]
             n == [t EXCEPT !.at = "verify", !.proof = p, !.scan = @ + 1]
  <2>1. t \in Tasks /\ sessions[t.id] \in Sessions /\ TaskOK(t) /\ SessionOK(t.id) /\ t.at = "qr"
    BY <1>1 DEF Inv, TypeOK, Tasks, Live, Scan
  <2>2. s \in Sessions /\ n \in Tasks /\ q \in Tasks
    <3>1. s \in Sessions
      BY <2>1 DEF Sessions
    <3>2. t.scan \in Nat /\ "verify" \in {"sign", "qr", "received"} \cup AtServer
      BY <2>1 DEF Tasks, AtServer
    <3>3. t.scan + 1 \in Nat
      BY <3>2
    <3>4. q \in Tasks
      BY <2>1, <3>3 DEF Tasks
    <3>5. n \in Tasks
      BY <2>1, <3>2, <3>3 DEF Tasks
    <3> QED
      BY <3>1, <3>4, <3>5
  <2>3. /\ s.account = sessions[t.id].account /\ s.claims = sessions[t.id].claims
        /\ s.issued = sessions[t.id].issued /\ s.authorizing = sessions[t.id].authorizing
        /\ s.signed = sessions[t.id].signed
        /\ q.account = t.account /\ q.at = "qr" /\ q.id = t.id
        /\ n.account = t.account /\ n.at = "verify" /\ n.id = t.id /\ n.proof = p
    BY <2>1 DEF Sessions, Tasks
  <2>4. /\ sessions' = [sessions EXCEPT ![t.id] = s]
        /\ tasks' = (tasks \ {t}) \cup {q, n}
        /\ UNCHANGED <<record, pending, enrolled>>
    BY <1>1 DEF Scan, chain
  <2> HIDE DEF s, q, n
  <2>5. TypeOK'
    BY <1>0, <2>1, <2>2, <2>4 DEF Inv, TypeOK, Tasks
  <2>6. /\ sessions'[t.id] = s
        /\ \A id \in Ids \ {t.id} : sessions'[id] = sessions[id]
    BY <2>1, <2>4 DEF Inv, TypeOK, Tasks
  <2>7. ASSUME NEW u \in tasks'
        PROVE  TaskOK(u)'
    <3>1. CASE u \in tasks
      <4>1. TaskOK(u) /\ u.id \in Ids
        BY <3>1 DEF Inv, TypeOK, Tasks
      <4> QED
        BY <1>1, <2>3, <2>6, <4>1 DEF TaskOK, Live
    <3>2. CASE u = q \/ u = n
      BY <1>1, <2>1, <2>3, <2>6, <3>2 DEF TaskOK, Live, Claimed, Locked
    <3> QED
      BY <2>4, <3>1, <3>2
  <2>8. ASSUME NEW id \in Ids
        PROVE  SessionOK(id)'
    BY <1>1, <2>1, <2>3, <2>6 DEF Inv, SessionOK, Live
  <2>9. OneAuthorizer'
    <3>1. q.at \notin Locked /\ n.at \notin Locked
      BY <2>3 DEF Locked
    <3>2. \A u \in tasks : Live(u.id)' => Live(u.id)
      BY <1>1, <2>6 DEF Inv, TypeOK, Tasks, Live
    <3> QED
      BY <2>4, <3>1, <3>2 DEF Inv, OneAuthorizer
  <2> QED
    BY <2>5, <2>7, <2>8, <2>9 DEF Inv
<1>2. CASE ~(Live(t.id) /\ ~sessions[t.id].busy /\ sessions[t.id].begun)
  BY <1>0, <1>2, EndsTasks, FewerTasks DEF Scan
<1> QED
  BY <1>1, <1>2

LEMMA ReceiveKeepsInv ==
    ASSUME Inv, NEW t \in tasks, Receive(t)
    PROVE  Inv'
<1>1. CASE Live(t.id)
  <2> DEFINE s == [sessions[t.id] EXCEPT !.busy = FALSE, !.claims = Claims(t.id, t.proof)]
             n == [t EXCEPT !.at = "received"]
  <2>1. /\ t \in Tasks /\ sessions[t.id] \in Sessions /\ TaskOK(t) /\ SessionOK(t.id)
        /\ t.at = "verify" /\ t.proof \in People
    BY <1>1 DEF Inv, TypeOK, Tasks, Live, Receive, TaskOK
  <2>2. Claims(t.id, t.proof) \in People
    BY <2>1 DEF Claims, Sessions
  <2>3. s \in Sessions /\ n \in Tasks
    BY <2>1, <2>2 DEF Sessions, Tasks
  <2>4. sessions' = [sessions EXCEPT ![t.id] = s]
    BY <1>1 DEF Receive
  <2>5. /\ sessions[t.id].claims # None => s.claims = sessions[t.id].claims
        /\ s.claims = Claims(t.id, t.proof)
        /\ s.account = sessions[t.id].account /\ s.authorizing = sessions[t.id].authorizing
        /\ s.issued = sessions[t.id].issued /\ s.signed = sessions[t.id].signed
        /\ n.at = "received" /\ n.account = t.account /\ n.id = t.id /\ n.proof = t.proof
    BY <2>1 DEF Claims, Sessions, Tasks
  <2>6. /\ \A u \in tasks : u.id = t.id /\ u.at \in Locked => sessions[t.id].authorizing
        /\ \A u \in tasks : u.id = t.id /\ u.at = "signing" => sessions[t.id].issued = None
        /\ sessions[t.id].issued # None => sessions[t.id].claims # None
    BY <1>1, <2>1, EnrolmentAssumption DEF Inv, TaskOK, SessionOK
  <2>7. CASE Claims(t.id, t.proof) = t.proof
    <3>1. tasks' \subseteq (tasks \ {t}) \cup {n}
      BY <1>1, <2>7, GoesTasks DEF Receive
    <3>2. Respects(t, s, n)
      BY <1>1, <2>1, <2>2, <2>5, <2>6, <2>7 DEF Respects, SessionOK, Claimed, Locked
    <3> QED
      BY <1>1, <2>3, <2>4, <3>1, <3>2, StepKeepsInv DEF Receive, Inv, TypeOK
  <2>8. CASE Claims(t.id, t.proof) # t.proof
    <3> DEFINE m == [t EXCEPT !.at = "qr"]
    <3>1. tasks' \subseteq (tasks \ {t}) \cup {m}
      BY <1>1, <2>8, EndsTasks DEF Receive
    <3>2. m \in Tasks /\ m.at = "qr" /\ m.account = t.account /\ m.id = t.id
      BY <2>1 DEF Tasks
    <3>3. Respects(t, s, m)
      BY <1>1, <2>1, <2>2, <2>5, <2>6, <3>2 DEF Respects, SessionOK, Claimed, Locked
    <3> QED
      BY <1>1, <2>3, <2>4, <3>1, <3>2, <3>3, StepKeepsInv DEF Receive, Inv, TypeOK
  <2> QED
    BY <2>7, <2>8
<1>2. CASE ~Live(t.id)
  BY <1>2, EndsTasks, FewerTasks DEF Receive, Inv, TypeOK
<1> QED
  BY <1>1, <1>2

LEMMA AskGrantKeepsInv ==
    ASSUME Inv, NEW t \in tasks, AskGrant(t)
    PROVE  Inv'
<1>1. CASE MayAuthorize(t.id)
  <2> DEFINE s == [sessions[t.id] EXCEPT !.authorizing = TRUE]
             n == [t EXCEPT !.at = "owner"]
  <2>1. /\ t \in Tasks /\ sessions[t.id] \in Sessions /\ TaskOK(t) /\ SessionOK(t.id)
        /\ Live(t.id) /\ t.at = "received"
    BY <1>1 DEF Inv, TypeOK, Tasks, Live, AskGrant, MayAuthorize
  <2>2. s \in Sessions /\ n \in Tasks
    BY <2>1 DEF Sessions, Tasks, AtServer
  <2>3. sessions' = [sessions EXCEPT ![t.id] = s]
    BY <1>1 DEF AskGrant
  <2>4. tasks' \subseteq (tasks \ {t}) \cup {n}
    BY <1>1, GoesTasks DEF AskGrant
  <2>5. /\ s.claims = sessions[t.id].claims /\ s.authorizing
        /\ s.account = sessions[t.id].account
        /\ s.issued = sessions[t.id].issued /\ s.signed = sessions[t.id].signed
        /\ n.at = "owner" /\ n.account = t.account /\ n.id = t.id /\ n.proof = t.proof
    BY <2>1 DEF Sessions, Tasks
  <2>6. \A u \in tasks : u.id = t.id => u.at \notin Locked
    BY <1>1, <2>1 DEF Inv, TaskOK, MayAuthorize
  <2>7. Respects(t, s, n)
    BY <2>1, <2>5, <2>6 DEF Respects, SessionOK, TaskOK, Claimed, Locked
  <2> QED
    BY <2>1, <2>2, <2>3, <2>4, <2>7, StepKeepsInv DEF AskGrant, Inv, TypeOK
<1>2. CASE ~MayAuthorize(t.id)
  BY <1>2, EndsTasks, FewerTasks DEF AskGrant, Inv, TypeOK
<1> QED
  BY <1>1, <1>2

(* The end of an authorization: nobody else is at it. *)
LEMMA Alone ==
    ASSUME Inv, NEW t \in tasks, Live(t.id), t.at \in Locked
    PROVE  \A u \in tasks \ {t} : u.id = t.id => u.at \notin Locked
BY DEF Inv, OneAuthorizer, Live

LEMMA AuthorizeKeepsInv ==
    ASSUME Inv, NEW t \in tasks, Authorize(t)
    PROVE  Inv'
<1>1. CASE ~Live(t.id)
  BY <1>1, EndsTasks, FewerTasks DEF Authorize, Inv, TypeOK
<1>2. CASE Live(t.id) /\ sessions[t.id].issued # None
  <2> DEFINE s == [sessions[t.id] EXCEPT !.authorizing = FALSE]
             m == [t EXCEPT !.at = "qr"]
  <2>1. /\ t \in Tasks /\ sessions[t.id] \in Sessions /\ TaskOK(t) /\ SessionOK(t.id)
        /\ t.at = "owner"
    BY <1>2 DEF Inv, TypeOK, Tasks, Live, Authorize
  <2>2. s \in Sessions /\ m \in Tasks
    BY <2>1 DEF Sessions, Tasks
  <2>3. /\ sessions' = [sessions EXCEPT ![t.id] = s]
        /\ record' \in Grants \cup {None}
    BY <1>2, <2>1 DEF Authorize, Answered, Sessions, Inv, TypeOK
  <2>4. tasks' \subseteq (tasks \ {t}) \cup {m}
    BY <1>2, EndsTasks DEF Authorize, Answered
  <2>5. /\ s.claims = sessions[t.id].claims
        /\ s.account = sessions[t.id].account
        /\ s.issued = sessions[t.id].issued /\ s.signed = sessions[t.id].signed
        /\ m.at = "qr" /\ m.account = t.account /\ m.id = t.id
    BY <2>1 DEF Sessions, Tasks
  <2>6. \A u \in tasks \ {t} : u.id = t.id => u.at \notin Locked
    BY <1>2, <2>1, Alone DEF Locked
  <2>7. Respects(t, s, m)
    BY <1>2, <2>1, <2>5, <2>6 DEF Respects, SessionOK, Claimed, Locked
  <2> QED
    BY <1>2, <2>2, <2>3, <2>4, <2>7, StepKeepsInv DEF Authorize, Inv, TypeOK
<1>3. CASE Live(t.id) /\ sessions[t.id].issued = None
  <2> DEFINE s == sessions[t.id]
             n == [t EXCEPT !.at = "signing", !.grant = Grant(t.id)]
  <2>1. /\ t \in Tasks /\ s \in Sessions /\ TaskOK(t) /\ SessionOK(t.id)
        /\ t.at = "owner" /\ s.claims = t.proof /\ t.proof \in People /\ s.authorizing
        /\ s.account = t.account
    BY <1>3 DEF Inv, TypeOK, Tasks, Live, Authorize, TaskOK, Claimed, Locked
  <2>2. /\ Grant(t.id) \in Grants
        /\ Grant(t.id).account = t.account
        /\ Grant(t.id).person = t.proof
        /\ Grant(t.id).id = t.id
    BY <2>1, EnrolmentAssumption DEF Grant, Grants, Tasks
  <2>3. n \in Tasks
    BY <2>1, <2>2 DEF Tasks, AtServer
  <2>4. sessions' = [sessions EXCEPT ![t.id] = s] /\ UNCHANGED record
    BY <1>3, <2>1 DEF Authorize, Inv, TypeOK
  <2>5. tasks' \subseteq (tasks \ {t}) \cup {n}
    BY <1>3, GoesTasks DEF Authorize
  <2>6. /\ n.at = "signing" /\ n.account = t.account /\ n.id = t.id /\ n.proof = t.proof
        /\ n.grant = Grant(t.id)
    BY <2>1 DEF Tasks
  <2>7. \A u \in tasks \ {t} : u.id = t.id => u.at \notin Locked
    BY <1>3, <2>1, Alone DEF Locked
  <2>8. Respects(t, s, n)
    BY <1>3, <2>1, <2>2, <2>6, <2>7 DEF Respects, SessionOK, Claimed, Locked
  <2> QED
    BY <1>3, <2>1, <2>3, <2>4, <2>5, <2>8, StepKeepsInv DEF Authorize, Inv, TypeOK
<1> QED
  BY <1>1, <1>2, <1>3

LEMMA SignKeepsInv ==
    ASSUME Inv, NEW t \in tasks, Sign(t)
    PROVE  Inv'
<1>1. CASE Live(t.id)
  <2> DEFINE s == [sessions[t.id] EXCEPT !.authorizing = FALSE, !.issued = t.grant, !.signed = @ + 1]
             m == [t EXCEPT !.at = "qr"]
  <2>1. /\ t \in Tasks /\ sessions[t.id] \in Sessions /\ TaskOK(t) /\ SessionOK(t.id)
        /\ t.at = "signing"
    BY <1>1 DEF Inv, TypeOK, Tasks, Live, Sign
  <2>2. /\ sessions[t.id].signed = 0 /\ sessions[t.id].issued = None
        /\ sessions[t.id].claims = t.proof /\ t.proof \in People
        /\ t.account = sessions[t.id].account
        /\ t.grant \in Grants /\ t.grant.account = t.account
        /\ t.grant.person = t.proof /\ t.grant.id = t.id
    BY <1>1, <2>1 DEF TaskOK, SessionOK, Claimed
  <2>3. s \in Sessions /\ m \in Tasks
    <3> DEFINE n == sessions[t.id].signed + 1
    <3>1. n \in Nat
      BY <2>2
    <3>2. s = [sessions[t.id] EXCEPT !.authorizing = FALSE, !.issued = t.grant, !.signed = n]
      OBVIOUS
    <3> HIDE DEF n
    <3>3. s \in Sessions
      BY <2>1, <2>2, <3>1, <3>2 DEF Sessions
    <3>4. m \in Tasks
      BY <2>1 DEF Tasks
    <3> QED
      BY <3>3, <3>4
  <2>4. /\ sessions' = [sessions EXCEPT ![t.id] = s]
        /\ record' \in Grants \cup {None}
    BY <1>1, <2>2 DEF Sign, Answered, Inv, TypeOK
  <2>5. tasks' \subseteq (tasks \ {t}) \cup {m}
    BY <1>1, EndsTasks DEF Sign, Answered
  <2>6. /\ s.claims = sessions[t.id].claims
        /\ s.account = sessions[t.id].account
        /\ s.issued = t.grant /\ s.signed = 1
        /\ m.at = "qr" /\ m.account = t.account /\ m.id = t.id
    BY <2>1, <2>2 DEF Sessions, Tasks
  <2>7. \A u \in tasks \ {t} : u.id = t.id => u.at \notin Locked
    BY <1>1, <2>1, Alone DEF Locked
  <2>8. s.issued # None
    BY <2>2, <2>6, NoneIsNoGrant
  <2>9. Respects(t, s, m)
    BY <1>1, <2>1, <2>2, <2>6, <2>7, <2>8 DEF Respects, Claimed, Locked
  <2> QED
    BY <1>1, <2>3, <2>4, <2>5, <2>9, StepKeepsInv DEF Sign, Inv, TypeOK
<1>2. CASE ~Live(t.id)
  BY <1>2, EndsTasks, FewerTasks DEF Sign, Inv, TypeOK
<1> QED
  BY <1>1, <1>2

LEMMA FailKeepsInv ==
    ASSUME Inv, NEW t \in tasks, Fail(t)
    PROVE  Inv'
<1>0. troubles' \in Nat
  BY DEF Fail, Trouble, Inv, TypeOK
<1>1. CASE Live(t.id)
  <2> DEFINE s == IF t.at \in {"owner", "signing"}
                  THEN [sessions[t.id] EXCEPT !.authorizing = FALSE]
                  ELSE [sessions[t.id] EXCEPT !.busy = FALSE]
             m == [t EXCEPT !.at = "qr"]
  <2>1. /\ t \in Tasks /\ sessions[t.id] \in Sessions /\ TaskOK(t) /\ SessionOK(t.id)
    BY <1>1 DEF Inv, TypeOK, Tasks, Live
  <2>2. s \in Sessions /\ m \in Tasks
    BY <2>1 DEF Sessions, Tasks
  <2>3. sessions' = [sessions EXCEPT ![t.id] = s]
    BY <1>1 DEF Fail
  <2>4. tasks' \subseteq (tasks \ {t}) \cup {m}
    BY EndsTasks DEF Fail
  <2>5. /\ s.claims = sessions[t.id].claims
        /\ s.account = sessions[t.id].account
        /\ s.issued = sessions[t.id].issued /\ s.signed = sessions[t.id].signed
        /\ t.at \notin Locked => s.authorizing = sessions[t.id].authorizing
        /\ m.at = "qr" /\ m.account = t.account /\ m.id = t.id
    BY <2>1 DEF Sessions, Tasks, Locked
  <2>6. \A u \in tasks \ {t} : (u.id = t.id /\ u.at \in Locked) => s.authorizing
    BY <1>1, <2>5, Alone DEF Inv, TaskOK
  <2>7. \A u \in tasks \ {t} : (u.id = t.id /\ u.at = "signing") => s.issued = None
    BY <1>1, <2>5 DEF Inv, TaskOK
  <2>8. Respects(t, s, m)
    BY <1>1, <2>1, <2>5, <2>6, <2>7 DEF Respects, SessionOK, Claimed, Locked
  <2> QED
    BY <1>0, <1>1, <2>2, <2>3, <2>4, <2>8, StepKeepsInv DEF Fail, Inv, TypeOK
<1>2. CASE ~Live(t.id)
  BY <1>0, <1>2, EndsTasks, FewerTasks DEF Fail
<1> QED
  BY <1>1, <1>2

LEMMA ChainKeepsInv ==
    ASSUME Inv, Block \/ \E a \in Accounts : Join(a)
    PROVE  Inv'
<1>1. UNCHANGED <<sessions, tasks, troubles>>
  BY DEF Block, Join
<1>2. record' \in Grants \cup {None}
  BY BehindGrant DEF Block, Join, Inv, TypeOK
<1>3. pending' \subseteq Grants /\ enrolled' \subseteq [account : Accounts, person : People]
  <2>1. CASE \E a \in Accounts : Join(a)
    BY <2>1 DEF Join, Inv, TypeOK
  <2>2. CASE Block
    <3>1. \A g \in pending : Behind(g) \in Grants
      BY BehindGrant, NoneIsNoGrant DEF Inv, TypeOK
    <3>2. \A g \in pending : g.account \in Accounts /\ g.person \in People
      BY DEF Inv, TypeOK, Grants
    <3> QED
      BY <2>2, <3>1, <3>2 DEF Block, chain, Inv, TypeOK
  <2> QED
    BY <2>1, <2>2
<1> QED
  BY <1>1, <1>2, <1>3 DEF Inv, TypeOK, TaskOK, SessionOK, OneAuthorizer, Live

LEMMA TickKeepsInv ==
    ASSUME Inv, Tick
    PROVE  Inv'
<1>1. \A id \in Ids :
        /\ sessions'[id] \in Sessions \cup {None}
        /\ Live(id)' =>
              /\ Live(id)
              /\ sessions'[id].account = sessions[id].account
              /\ sessions'[id].claims = sessions[id].claims
              /\ sessions'[id].authorizing = sessions[id].authorizing
              /\ sessions'[id].signed = sessions[id].signed
              /\ sessions'[id].issued = Aged(sessions[id].issued)
  <2> TAKE id \in Ids
  <2>1. sessions'[id] = AgedEntry(id)
    BY DEF Tick
  <2>2. CASE Live(id) /\ sessions[id].left > 1
    <3> DEFINE h == Aged(sessions[id].issued)
               n == sessions[id].left - 1
    <3>1. sessions[id] \in Sessions
      BY <2>2 DEF Inv, TypeOK, Live
    <3>2. h \in Grants \cup {None}
      BY <3>1, AgedGrant DEF Sessions
    <3>3. n \in 1..Window
      BY <2>2, <3>1, EnrolmentAssumption DEF Sessions
    <3>4. sessions'[id] = [sessions[id] EXCEPT !.left = n, !.issued = h]
      BY <2>1, <2>2 DEF AgedEntry
    <3> HIDE DEF h, n
    <3>5. /\ sessions'[id] \in Sessions
          /\ sessions'[id].account = sessions[id].account
          /\ sessions'[id].claims = sessions[id].claims
          /\ sessions'[id].authorizing = sessions[id].authorizing
          /\ sessions'[id].signed = sessions[id].signed
          /\ sessions'[id].issued = h
      BY <3>1, <3>2, <3>3, <3>4 DEF Sessions
    <3> QED
      BY <2>2, <3>5 DEF h
  <2>3. CASE ~(Live(id) /\ sessions[id].left > 1)
    BY <2>1, <2>3 DEF AgedEntry, Live
  <2> QED
    BY <2>2, <2>3
<1>2. ASSUME NEW u \in tasks'
      PROVE  \E t \in tasks : /\ u = [t EXCEPT !.grant = Aged(@)]
                              /\ u \in Tasks /\ t \in Tasks
                              /\ u.id = t.id /\ u.account = t.account /\ u.at = t.at
                              /\ u.proof = t.proof /\ u.grant = Aged(t.grant)
  <2>1. PICK t \in tasks : u = [t EXCEPT !.grant = Aged(@)]
    BY <1>2 DEF Tick
  <2>2. t \in Tasks /\ Aged(t.grant) \in Grants \cup {None}
    BY AgedGrant DEF Inv, TypeOK, Tasks
  <2> QED
    BY <2>1, <2>2 DEF Tasks
<1>3. TypeOK'
  <2>1. sessions' \in [Ids -> Sessions \cup {None}]
    BY <1>1 DEF Tick
  <2>2. tasks' \subseteq Tasks
    BY <1>2
  <2>3. record' \in Grants \cup {None} /\ pending' \subseteq Grants
    BY AgedGrant DEF Tick, Inv, TypeOK
  <2>4. troubles' \in Nat
    BY DEF Tick, Trouble, Inv, TypeOK
  <2> QED
    BY <2>1, <2>2, <2>3, <2>4 DEF TypeOK, Tick, Inv
<1>4. ASSUME NEW u \in tasks'
      PROVE  TaskOK(u)'
  <2>1. PICK t \in tasks : /\ t \in Tasks
                           /\ u.id = t.id /\ u.account = t.account /\ u.at = t.at
                           /\ u.proof = t.proof /\ u.grant = Aged(t.grant)
    BY <1>2
  <2>2. TaskOK(t) /\ t.id \in Ids
    BY <2>1 DEF Inv, Tasks
  <2>3. t.at = "signing" => /\ Aged(t.grant) \in Grants
                            /\ Aged(t.grant).account = t.grant.account
                            /\ Aged(t.grant).person = t.grant.person
                            /\ Aged(t.grant).id = t.grant.id
    BY <2>2, AgedGrant DEF TaskOK
  <2>4. Live(u.id)' => (sessions[t.id].issued = None => sessions'[t.id].issued = None)
    BY <1>1, <2>1, <2>2, AgedGrant
  <2> QED
    BY <1>1, <2>1, <2>2, <2>3, <2>4 DEF TaskOK, Live
<1>5. ASSUME NEW id \in Ids
      PROVE  SessionOK(id)'
  <2>1. SUFFICES ASSUME Live(id)'
                 PROVE  SessionOK(id)'
    BY DEF SessionOK
  <2>2. sessions[id].issued \in Grants \cup {None} /\ SessionOK(id)
    BY <1>1, <2>1 DEF Inv, TypeOK, Sessions, Live
  <2>3. /\ sessions[id].issued = None => Aged(sessions[id].issued) = None
        /\ sessions[id].issued # None =>
              /\ Aged(sessions[id].issued) # None
              /\ Aged(sessions[id].issued).account = sessions[id].issued.account
              /\ Aged(sessions[id].issued).person = sessions[id].issued.person
              /\ Aged(sessions[id].issued).id = sessions[id].issued.id
    BY <2>2, AgedGrant, NoneIsNoGrant
  <2> QED
    BY <1>1, <2>1, <2>2, <2>3 DEF SessionOK, Live
<1>6. OneAuthorizer'
  <2> SUFFICES ASSUME NEW u \in tasks', NEW v \in tasks', u.id = v.id, Live(u.id)',
                      u.at \in Locked, v.at \in Locked
               PROVE  u = v
    BY DEF OneAuthorizer
  <2>1. PICK t \in tasks : /\ u = [t EXCEPT !.grant = Aged(@)]
                           /\ t \in Tasks /\ u.id = t.id /\ u.at = t.at
    BY <1>2
  <2>2. PICK w \in tasks : /\ v = [w EXCEPT !.grant = Aged(@)]
                           /\ v.id = w.id /\ v.at = w.at
    BY <1>2
  <2>3. Live(t.id)
    BY <1>1, <2>1 DEF Tasks
  <2>4. t = w
    BY <2>1, <2>2, <2>3 DEF Inv, OneAuthorizer
  <2> QED
    BY <2>1, <2>2, <2>4
<1> QED
  BY <1>3, <1>4, <1>5, <1>6 DEF Inv

LEMMA TroubleKeepsInv ==
    ASSUME Inv, Reload \/ Crash
    PROVE  Inv'
<1>0. troubles' \in Nat
  BY DEF Reload, Crash, Trouble, Inv, TypeOK
<1>1. CASE Crash
  <2>1. /\ tasks' \subseteq tasks
        /\ \A id \in Ids : ~Live(id)'
        /\ \A t \in tasks' : t.id \in Ids
    BY <1>1 DEF Crash, Live, Inv, TypeOK, Tasks
  <2>2. TypeOK'
    BY <1>0, <1>1, <2>1 DEF Crash, chain, Inv, TypeOK
  <2> QED
    BY <2>1, <2>2 DEF Inv, TaskOK, SessionOK, OneAuthorizer
<1>2. CASE Reload
  <2>1. ASSUME NEW u \in tasks'
        PROVE  \E t \in tasks : /\ u = [t EXCEPT !.client = FALSE]
                                /\ u \in Tasks /\ t \in Tasks
                                /\ u.id = t.id /\ u.account = t.account /\ u.at = t.at
                                /\ u.proof = t.proof /\ u.grant = t.grant
    <3>1. PICK t \in tasks : u = [t EXCEPT !.client = FALSE]
      BY <1>2, <2>1 DEF Reload
    <3>2. t \in Tasks
      BY DEF Inv, TypeOK
    <3> QED
      BY <3>1, <3>2 DEF Tasks
  <2>2. UNCHANGED <<sessions, pending, enrolled>>
    BY <1>2 DEF Reload, chain
  <2>3. TypeOK'
    <3>1. tasks' \subseteq Tasks
      BY <2>1
    <3>2. record' \in Grants \cup {None}
      BY <1>2 DEF Reload, Inv, TypeOK
    <3> QED
      BY <1>0, <2>2, <3>1, <3>2 DEF Inv, TypeOK
  <2>4. ASSUME NEW u \in tasks'
        PROVE  TaskOK(u)'
    BY <2>1, <2>2, <2>4 DEF Inv, TaskOK, Live
  <2>5. \A id \in Ids : SessionOK(id)'
    BY <2>2 DEF Inv, SessionOK, Live
  <2>6. OneAuthorizer'
    <3> SUFFICES ASSUME NEW u \in tasks', NEW v \in tasks', u.id = v.id, Live(u.id)',
                        u.at \in Locked, v.at \in Locked
                 PROVE  u = v
      BY DEF OneAuthorizer
    <3>1. PICK t \in tasks : /\ u = [t EXCEPT !.client = FALSE]
                             /\ u.id = t.id /\ u.at = t.at
      BY <2>1
    <3>2. PICK w \in tasks : /\ v = [w EXCEPT !.client = FALSE]
                             /\ v.id = w.id /\ v.at = w.at
      BY <2>1
    <3> QED
      BY <2>2, <3>1, <3>2 DEF Inv, OneAuthorizer, Live
  <2> QED
    BY <2>3, <2>4, <2>5, <2>6 DEF Inv
<1> QED
  BY <1>1, <1>2

LEMMA InvNext == Inv /\ [Next]_vars => Inv'
<1> SUFFICES ASSUME Inv, [Next]_vars
             PROVE  Inv'
  OBVIOUS
<1>1. CASE \E a \in Accounts : Begin(a)
  BY <1>1, BeginKeepsInv
<1>2. CASE \E t \in tasks : Request(t)
  BY <1>2, BeginScanKeepsInv, ReceiveKeepsInv, AskGrantKeepsInv, AuthorizeKeepsInv, SignKeepsInv
     DEF Request
<1>3. CASE \E t \in tasks : Fail(t)
  BY <1>3, FailKeepsInv
<1>4. CASE \E t \in tasks, p \in People : Scan(t, p)
  BY <1>4, ScanKeepsInv
<1>5. CASE Block \/ \E a \in Accounts : Join(a)
  BY <1>5, ChainKeepsInv
<1>6. CASE Tick
  BY <1>6, TickKeepsInv
<1>7. CASE Reload \/ Crash
  BY <1>7, TroubleKeepsInv
<1>8. CASE UNCHANGED vars
  BY <1>8, FewerTasks DEF vars, chain, Inv, TypeOK
<1> QED
  BY <1>1, <1>2, <1>3, <1>4, <1>5, <1>6, <1>7, <1>8 DEF Next

(* The types of the backend's store, the pages and the chain. *)
THEOREM TypeCorrect == Spec => []TypeOK
<1>1. Inv => TypeOK
  BY DEF Inv
<1> QED
  BY InvInit, InvNext, <1>1, PTL DEF Spec

(* However many requests for one challenge overlap, fail or come again, at most one
   grant is signed for it. *)
THEOREM OneGrantPerChallengeHolds == Spec => []OneGrantPerChallenge
<1>1. Inv => OneGrantPerChallenge
  BY DEF Inv, SessionOK, OneGrantPerChallenge
<1> QED
  BY InvInit, InvNext, <1>1, PTL DEF Spec

-----------------------------------------------------------------------------
(* Whatever grants there are, the policy lets a person in with one account only. *)
THEOREM OneEnrolmentHolds == Spec => []OneEnrolment
<1>1. Init => OneEnrolment
  BY DEF Init, OneEnrolment
<1>2. Inv /\ OneEnrolment /\ [Next]_vars => OneEnrolment'
  <2> SUFFICES ASSUME Inv, OneEnrolment, [Next]_vars, enrolled' # enrolled
               PROVE  OneEnrolment'
    BY DEF OneEnrolment
  <2>1. Block
    BY DEF Next, Begin, Join, Request, BeginScan, Receive, AskGrant, Authorize, Sign, Fail,
           Scan, Tick, Reload, Crash, chain, vars
  <2>2. PICK g \in pending :
           /\ Enforceable(Behind(g))
           /\ enrolled' = enrolled \cup {[account |-> g.account, person |-> g.person]}
    BY <2>1 DEF Block, chain
  <2>3. g.account \notin EnrolledAccounts /\ g.person \notin EnrolledPeople
    BY <2>2, BehindGrant, NoneIsNoGrant DEF Inv, TypeOK, Enforceable, Used
  <2> QED
    BY <2>2, <2>3 DEF OneEnrolment, EnrolledAccounts, EnrolledPeople
<1> QED
  BY InvInit, InvNext, <1>1, <1>2, PTL DEF Spec

-----------------------------------------------------------------------------
(* A grant that outlives the challenge it is signed for has not run out while the
   challenge has not. *)
Lasts ==
    /\ \A id \in Ids : Live(id) /\ sessions[id].issued # None
                          => sessions[id].issued.left >= sessions[id].left
    /\ \A t \in tasks : t.at = "signing" /\ Live(t.id) => t.grant.left >= sessions[t.id].left

LEMMA LastsKept ==
    ASSUME Inv, Lasts,
           \A id \in Ids : Live(id)' =>
              \/ sessions'[id].issued = None
              \/ /\ Live(id) /\ sessions'[id].issued = sessions[id].issued
                 /\ sessions'[id].left = sessions[id].left,
           \A u \in tasks' : u.at = "signing" =>
              \E t \in tasks : /\ t.at = "signing" /\ t.id = u.id /\ t.grant = u.grant
                               /\ Live(t.id)' => /\ Live(t.id)
                                                 /\ sessions'[t.id].left = sessions[t.id].left
    PROVE  Lasts'
BY DEF Lasts, Live

LEMMA LastsNext ==
    ASSUME Window <= Lifetime, Inv, Lasts, [Next]_vars
    PROVE  Lasts'
<1>0. /\ \A t \in tasks : t \in Tasks /\ t.id \in Ids
      /\ \A id \in Ids : Live(id) => sessions[id] \in Sessions
      /\ sessions \in [Ids -> Sessions \cup {None}]
  BY DEF Inv, TypeOK, Tasks, Live
<1>1. ASSUME NEW a \in Accounts, Begin(a)
      PROVE  Lasts'
  <2> DEFINE id == CHOOSE i \in Ids : Unused(i)
  <2>1. id \in Ids /\ Unused(id)
    BY <1>1 DEF Begin
  <2>2. /\ sessions' = [sessions EXCEPT ![id] = NewChallenge(a)]
        /\ tasks' = tasks \cup {Task(id, a, "sign")}
    BY <1>1 DEF Begin
  <2> HIDE DEF id
  <2>3. /\ sessions'[id].issued = None
        /\ \A i \in Ids \ {id} : sessions'[i] = sessions[i]
        /\ \A t \in tasks : t.id # id
        /\ Task(id, a, "sign").at # "signing"
    BY <1>0, <2>1, <2>2 DEF NewChallenge, Unused, Task
  <2> QED
    BY <1>0, <2>2, <2>3, LastsKept DEF Live
<1>2. ASSUME NEW t \in tasks, BeginScan(t) \/ Receive(t) \/ AskGrant(t) \/ Fail(t)
      PROVE  Lasts'
  <2>1. \A id \in Ids : Live(id)' => /\ Live(id)
                                     /\ sessions'[id].issued = sessions[id].issued
                                     /\ sessions'[id].left = sessions[id].left
    <3>1. CASE BeginScan(t)
      BY <1>0, <3>1 DEF BeginScan, Live, Sessions
    <3>2. CASE Receive(t)
      BY <1>0, <3>2 DEF Receive, Live, Sessions
    <3>3. CASE AskGrant(t)
      BY <1>0, <3>3 DEF AskGrant, MayAuthorize, Live, Sessions
    <3>4. CASE Fail(t)
      BY <1>0, <3>4 DEF Fail, Live, Sessions
    <3> QED
      BY <1>2, <3>1, <3>2, <3>3, <3>4
  <2>2. \A u \in tasks' : u.at = "signing" => u \in tasks
    <3>1. PICK m : m.at # "signing" /\ tasks' \subseteq (tasks \ {t}) \cup {m}
      <4>1. CASE BeginScan(t)
        <5>1. [t EXCEPT !.at = "qr"].at # "signing"
          BY <1>0 DEF Tasks
        <5>2. tasks' \subseteq (tasks \ {t}) \cup {[t EXCEPT !.at = "qr"]}
          BY <4>1, GoesTasks, EndsTasks DEF BeginScan
        <5> QED
          BY <5>1, <5>2
      <4>2. CASE Receive(t)
        <5>1. [t EXCEPT !.at = "received"].at # "signing"
          BY <1>0 DEF Tasks
        <5>2. tasks' \subseteq (tasks \ {t}) \cup {[t EXCEPT !.at = "received"]}
          BY <4>2, GoesTasks, EndsTasks DEF Receive
        <5> QED
          BY <5>1, <5>2
      <4>3. CASE AskGrant(t)
        <5>1. [t EXCEPT !.at = "owner"].at # "signing"
          BY <1>0 DEF Tasks
        <5>2. tasks' \subseteq (tasks \ {t}) \cup {[t EXCEPT !.at = "owner"]}
          BY <4>3, GoesTasks, EndsTasks DEF AskGrant
        <5> QED
          BY <5>1, <5>2
      <4>4. CASE Fail(t)
        <5>1. [t EXCEPT !.at = "qr"].at # "signing"
          BY <1>0 DEF Tasks
        <5>2. tasks' \subseteq (tasks \ {t}) \cup {[t EXCEPT !.at = "qr"]}
          BY <4>4, EndsTasks DEF Fail
        <5> QED
          BY <5>1, <5>2
      <4> QED
        BY <1>2, <4>1, <4>2, <4>3, <4>4
    <3> QED
      BY <3>1
  <2> QED
    BY <1>0, <2>1, <2>2, LastsKept
<1>3. ASSUME NEW t \in tasks, Authorize(t)
      PROVE  Lasts'
  <2>1. \A id \in Ids : Live(id)' => /\ Live(id)
                                     /\ sessions'[id].issued = sessions[id].issued
                                     /\ sessions'[id].left = sessions[id].left
    BY <1>0, <1>3 DEF Authorize, Live, Sessions
  <2>2. CASE ~Live(t.id) \/ sessions[t.id].issued # None
    <3>1. tasks' \subseteq tasks
      BY <1>3, <2>2, EndsTasks DEF Authorize, Answered
    <3> QED
      BY <1>0, <2>1, <3>1, LastsKept
  <2>3. CASE Live(t.id) /\ sessions[t.id].issued = None
    <3> DEFINE n == [t EXCEPT !.at = "signing", !.grant = Grant(t.id)]
    <3>1. tasks' \subseteq tasks \cup {n} /\ UNCHANGED sessions
      BY <1>3, <2>3, GoesTasks DEF Authorize
    <3>2. n.id = t.id /\ n.grant.left = Lifetime
      BY <1>0 DEF Tasks, Grant
    <3>3. sessions[t.id].left \in 1..Window
      BY <1>0, <2>3 DEF Sessions
    <3>4. Lifetime >= sessions[t.id].left
      BY <3>3, EnrolmentAssumption
    <3> HIDE DEF n
    <3> QED
      BY <3>1, <3>2, <3>4 DEF Lasts, Live
  <2> QED
    BY <2>2, <2>3
<1>4. ASSUME NEW t \in tasks, Sign(t)
      PROVE  Lasts'
  <2>1. tasks' \subseteq tasks
    BY <1>4, EndsTasks DEF Sign, Answered
  <2>2. CASE Live(t.id)
    <3>1. /\ \A id \in Ids \ {t.id} : sessions'[id] = sessions[id]
          /\ sessions'[t.id].issued = t.grant /\ sessions'[t.id].left = sessions[t.id].left
      BY <1>0, <1>4, <2>2 DEF Sign, Sessions
    <3>2. t.grant.left >= sessions[t.id].left
      BY <1>4, <2>2 DEF Sign, Lasts
    <3> QED
      BY <1>0, <2>1, <2>2, <3>1, <3>2 DEF Lasts, Live
  <2>3. CASE ~Live(t.id)
    BY <1>0, <1>4, <2>1, <2>3, LastsKept DEF Sign, Live
  <2> QED
    BY <2>2, <2>3
<1>5. ASSUME NEW t \in tasks, NEW p \in People, Scan(t, p)
      PROVE  Lasts'
  <2>1. \A id \in Ids : Live(id)' => /\ Live(id)
                                     /\ sessions'[id].issued = sessions[id].issued
                                     /\ sessions'[id].left = sessions[id].left
    BY <1>0, <1>5 DEF Scan, Live, Sessions
  <2>2. \A u \in tasks' : u.at = "signing" => u \in tasks
    <3>1. /\ [t EXCEPT !.scan = @ + 1].at = "qr"
          /\ [t EXCEPT !.at = "verify", !.proof = p, !.scan = @ + 1].at = "verify"
      BY <1>0, <1>5 DEF Tasks, Scan
    <3>2. tasks' \subseteq tasks \cup {[t EXCEPT !.scan = @ + 1],
                                       [t EXCEPT !.at = "verify", !.proof = p, !.scan = @ + 1]}
      BY <1>5, EndsTasks DEF Scan
    <3> QED
      BY <3>1, <3>2
  <2> QED
    BY <1>0, <2>1, <2>2, LastsKept
<1>6. ASSUME Tick
      PROVE  Lasts'
  <2>1. ASSUME NEW g \in Grants \cup {None}, NEW n \in Nat, g # None, g.left >= n, n > 1
        PROVE  Aged(g).left >= n - 1
    <3>1. g \in Grants /\ g.left \in Nat
      BY <2>1, EnrolmentAssumption DEF Grants
    <3>2. [g EXCEPT !.left = @ - 1].left = g.left - 1
      BY <3>1 DEF Grants
    <3> QED
      BY <2>1, <3>1, <3>2 DEF Aged
  <2>2. ASSUME NEW id \in Ids, Live(id)'
        PROVE  /\ Live(id) /\ sessions[id].left \in Nat /\ sessions[id].left > 1
               /\ sessions'[id].left = sessions[id].left - 1
               /\ sessions'[id].issued = Aged(sessions[id].issued)
    <3>1. sessions'[id] = [sessions[id] EXCEPT !.left = @ - 1, !.issued = Aged(@)]
          /\ Live(id) /\ sessions[id].left > 1
      BY <1>6, <2>2 DEF Tick, AgedEntry, Live
    <3>2. sessions[id] \in Sessions
      BY <1>0, <3>1
    <3> QED
      BY <3>1, <3>2, EnrolmentAssumption DEF Sessions
  <2>3. \A id \in Ids : Live(id)' /\ sessions'[id].issued # None
                           => sessions'[id].issued.left >= sessions'[id].left
    <3> TAKE id \in Ids
    <3> HAVE Live(id)' /\ sessions'[id].issued # None
    <3>1. sessions[id].issued \in Grants \cup {None} /\ sessions[id].issued # None
      BY <1>0, <2>2, AgedGrant DEF Sessions
    <3> QED
      BY <2>1, <2>2, <3>1 DEF Lasts
  <2>4. ASSUME NEW u \in tasks', u.at = "signing", Live(u.id)'
        PROVE  u.grant.left >= sessions'[u.id].left
    <3>1. PICK t \in tasks : u = [t EXCEPT !.grant = Aged(@)]
      BY <1>6, <2>4 DEF Tick
    <3>2. t.id = u.id /\ t.at = u.at /\ u.grant = Aged(t.grant)
      BY <1>0, <3>1 DEF Tasks
    <3>3. t.grant \in Grants /\ t.grant # None
      BY <2>4, <3>2, NoneIsNoGrant DEF Inv, TaskOK
    <3>4. t.grant.left >= sessions[t.id].left
      BY <1>0, <2>2, <2>4, <3>2 DEF Lasts
    <3> QED
      BY <1>0, <2>1, <2>2, <2>4, <3>2, <3>3, <3>4
  <2> QED
    BY <2>3, <2>4 DEF Lasts, Live
<1>7. ASSUME Block \/ (\E a \in Accounts : Join(a)) \/ UNCHANGED vars
      PROVE  Lasts'
  BY <1>7 DEF Block, Join, vars, Lasts, Live
<1>8. ASSUME Reload
      PROVE  Lasts'
  <2>1. \A u \in tasks' : \E t \in tasks : u.id = t.id /\ u.at = t.at /\ u.grant = t.grant
    BY <1>0, <1>8 DEF Reload, Tasks
  <2> QED
    BY <1>8, <2>1 DEF Reload, Lasts, Live
<1>9. ASSUME Crash
      PROVE  Lasts'
  BY <1>0, <1>9 DEF Crash, Lasts, Live
<1> QED
  BY <1>1, <1>2, <1>3, <1>4, <1>5, <1>6, <1>7, <1>8, <1>9 DEF Next, Request

(* Whatever overlaps, a page stores a grant that its own scan has earned and that has
   not run out, if grants outlive challenges as they do by default. *)
THEOREM StoresWhatWasEarnedHolds ==
    ASSUME Window <= Lifetime
    PROVE  Spec => StoresWhatWasEarned
<1> DEFINE Earned ==
        record' \notin {None, record, Behind(record), Aged(record)} =>
            /\ record'.left > 0
            /\ \E t \in tasks : /\ t.id = record'.id /\ t.client
                                /\ t.account = record'.account /\ t.proof = record'.person
<1>1. Init => Lasts
  BY DEF Init, Lasts, Live
<1>2. Inv /\ Lasts /\ [Next]_vars => Lasts'
  BY LastsNext
<1>3. Inv /\ Lasts /\ [Next]_vars => [Earned]_vars
  <2> SUFFICES ASSUME Inv, Lasts, [Next]_vars,
                      record' \notin {None, record, Behind(record), Aged(record)}
               PROVE  /\ record'.left > 0
                      /\ \E t \in tasks : /\ t.id = record'.id /\ t.client
                                          /\ t.account = record'.account /\ t.proof = record'.person
    OBVIOUS
  <2>1. PICK t \in tasks : Authorize(t) \/ Sign(t)
    BY DEF Next, Begin, Join, Request, BeginScan, Receive, AskGrant, Fail, Scan, Tick, Reload,
           Crash, Block, vars
  <2>2. t \in Tasks /\ TaskOK(t) /\ t.id \in Ids
    BY DEF Inv, TypeOK, Tasks
  <2>3. /\ Live(t.id) /\ t.client
        /\ \/ t.at = "owner" /\ record' = sessions[t.id].issued /\ record' # None
           \/ t.at = "signing" /\ record' = t.grant
    BY <2>1 DEF Authorize, Sign, Answered
  <2>4. sessions[t.id] \in Sessions /\ SessionOK(t.id)
    BY <2>2, <2>3 DEF Inv, TypeOK, Live
  <2>5. record'.left >= sessions[t.id].left
    BY <2>2, <2>3 DEF Lasts
  <2>6. record' \in Grants
    BY <2>2, <2>3, <2>4 DEF TaskOK, Sessions
  <2>7. record'.left > 0
    BY <2>4, <2>5, <2>6, EnrolmentAssumption DEF Sessions, Grants
  <2>8. record'.id = t.id /\ record'.account = t.account /\ record'.person = t.proof
    BY <2>2, <2>3, <2>4 DEF TaskOK, SessionOK, Claimed
  <2> QED
    BY <2>3, <2>7, <2>8
<1> QED
  BY InvInit, InvNext, <1>1, <1>2, <1>3, PTL DEF Spec, StoresWhatWasEarned

=============================================================================
