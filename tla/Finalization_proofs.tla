------------------------ MODULE Finalization_proofs ------------------------
(***************************************************************************)
(* Proofs about Finalization, for any stages to start from and any number  *)
(* of tasks, requests, failing calls and crashes, wherever they happen.    *)
(***************************************************************************)
EXTENDS MCFinalization, FiniteSetTheorems, TLAPS

(* The stages from the merge on. *)
Late == {"merged", "processing", "tallied", "finalized"}

LEMMA AtMerged ==
    ASSUME NEW s \in StageSet
    PROVE  (CHOOSE i \in DOMAIN Stages : Stages[i] = s)
              >= (CHOOSE i \in DOMAIN Stages : Stages[i] = "merged")
           <=> s \in Late
<1> DEFINE place(x) == CHOOSE i \in DOMAIN Stages : Stages[i] = x
<1>1. /\ DOMAIN Stages = 1..7
      /\ Stages[1] = "far" /\ Stages[2] = "near" /\ Stages[3] = "ended" /\ Stages[4] = "merged"
      /\ Stages[5] = "processing" /\ Stages[6] = "tallied" /\ Stages[7] = "finalized"
  BY DEF Stages
<1>2. ASSUME NEW i \in 1..7
      PROVE  place(Stages[i]) = i
  <2>1. \A j \in 1..7 : Stages[j] = Stages[i] => j = i
    BY <1>1
  <2>2. place(Stages[i]) \in 1..7 /\ Stages[place(Stages[i])] = Stages[i]
    BY <1>1
  <2> HIDE DEF place
  <2> QED
    BY <2>1, <2>2
<1>3. PICK i \in 1..7 : s = Stages[i]
  BY <1>1 DEF StageSet
<1>4. place(s) >= place("merged") <=> s \in Late
  <2> HIDE DEF place
  <2>1. place("merged") = 4 /\ place(s) = i
    BY <1>1, <1>2, <1>3
  <2> QED
    BY <1>1, <1>3, <2>1 DEF Late
<1> QED
  BY <1>4

-----------------------------------------------------------------------------
(* The invariant.  A poll that is waiting to be restored has its record and nothing else
   of the service; a task that is past the merge, or past the generation, has that to show
   for it on chain, or in the files. *)
TaskRecs == [id : 1..MaxTasks, poll : Polls, kind : Kinds, pc : Pcs, rec : Rec]
Timers == [poll : Polls, rec : Rec, listed : BOOLEAN]

Quiet ==
    \A p \in restoring : /\ p \in Stored
                         /\ \A t \in tasks : t.poll # p
                         /\ \A x \in pending : x.poll # p

AfterGeneration == {"saveGenerated", "submit", "process", "tally", "results"}
AfterMerge == AfterGeneration \cup {"saveMerged", "generate"}
Knows(t) ==
    /\ t.pc \in AfterMerge => Reached(t.poll, "merged")
    /\ t.pc \in AfterGeneration => proofFiles = t.poll

Inv == TypeOK /\ Quiet
Claims == RecordNeverAhead /\ \A t \in tasks : Knows(t)

OnePoll == \A p, q \in Polls : p = q

(* What a step may do to the chain and the files without making anything untrue. *)
Grows ==
    /\ stage' \in [Polls -> StageSet]
    /\ \A p \in Polls : stage[p] \in Late => stage'[p] \in Late
    /\ \A p \in Polls : proofFiles = p => proofFiles' = p

LEMMA Kept ==
    ASSUME Inv, Grows
    PROVE  /\ \A p \in Polls, rec \in Rec : Truthful(p, rec) => Truthful(p, rec)'
           /\ \A t \in TaskRecs : Knows(t) => Knows(t)'
<1>1. \A p \in Polls : Reached(p, "merged") => Reached(p, "merged")'
  <2> TAKE p \in Polls
  <2>1. stage[p] \in StageSet /\ stage'[p] \in StageSet
    BY DEF Inv, TypeOK, Grows
  <2>2. Reached(p, "merged") <=> stage[p] \in Late
    BY <2>1, AtMerged DEF Reached
  <2>3. Reached(p, "merged")' <=> stage'[p] \in Late
    BY <2>1, AtMerged DEF Reached
  <2> QED
    BY <2>2, <2>3 DEF Grows
<1>2. \A p \in Polls, rec \in Rec : Truthful(p, rec) => Truthful(p, rec)'
  BY <1>1 DEF Truthful, Grows
<1>3. \A t \in TaskRecs : Knows(t) => Knows(t)'
  BY <1>1 DEF Knows, Grows, TaskRecs
<1> QED
  BY <1>2, <1>3

-----------------------------------------------------------------------------
(* The store, after a write or an erasure of poll p. *)
LEMMA SetIs ==
    ASSUME Inv, NEW p \in Polls, NEW r \in Rec
    PROVE  /\ DOMAIN Set(p, r) = DOMAIN redis \cup {p}
           /\ Set(p, r) \in [DOMAIN redis \cup {p} -> Rec]
           /\ \A q \in DOMAIN redis \cup {p} : Set(p, r)[q] = IF q = p THEN r ELSE redis[q]
<1>1. \A q \in DOMAIN redis : redis[q] \in Rec
  BY DEF Inv, TypeOK, Stored
<1>2. Set(p, r) = [q \in DOMAIN redis \cup {p} |-> IF q = p THEN r ELSE redis[q]]
  BY DEF Set, Stored
<1> QED
  BY <1>1, <1>2

LEMMA ErasedIs ==
    ASSUME Inv, NEW p \in Polls
    PROVE  /\ DOMAIN Erased(p) = DOMAIN redis \ {p}
           /\ Erased(p) \in [DOMAIN redis \ {p} -> Rec]
           /\ \A q \in DOMAIN redis \ {p} : Erased(p)[q] = redis[q]
<1>1. \A q \in DOMAIN redis : redis[q] \in Rec
  BY DEF Inv, TypeOK, Stored
<1>2. Erased(p) = [q \in DOMAIN redis \ {p} |-> redis[q]]
  BY DEF Erased, Restrict, Stored
<1> QED
  BY <1>1, <1>2

LEMMA Written ==
    ASSUME Inv, NEW p \in Polls, NEW r \in Rec, redis' = Set(p, r)
    PROVE  /\ DOMAIN redis' = DOMAIN redis \cup {p}
           /\ redis' \in [DOMAIN redis' -> Rec]
           /\ redis'[p] = r
           /\ \A q \in DOMAIN redis : q # p => redis'[q] = redis[q]
<1> DEFINE new == Set(p, r)
<1>1. /\ DOMAIN new = DOMAIN redis \cup {p}
      /\ new \in [DOMAIN redis \cup {p} -> Rec]
      /\ \A q \in DOMAIN redis \cup {p} : new[q] = IF q = p THEN r ELSE redis[q]
  BY SetIs
<1> HIDE DEF new
<1>2. redis' = new
  BY DEF new
<1> QED
  BY <1>1, <1>2

(* A task of poll p moves: it becomes one of us, or ends when that is empty; it writes one
   of rs to the store, erases the record or leaves it; the timers it starts are among xs. *)
Moves(t, us, rs, xs) ==
    /\ tasks' = (tasks \ {t}) \cup us
    /\ \/ redis' = redis
       \/ redis' = Erased(t.poll)
       \/ \E r \in rs : redis' = Set(t.poll, r)
    /\ pending' \subseteq pending \cup xs
    /\ listed' \subseteq listed \cup {t.poll}
    /\ restoring' = restoring

(* The rest of the state keeps its type. *)
OthersOK ==
    /\ stage' \in [Polls -> StageSet]
    /\ {proofFiles', tallyFile'} \subseteq Polls \cup {None}
    /\ asked' \subseteq Polls
    /\ {requests', faults', crashes'} \subseteq Nat

LEMMA TaskMoves ==
    ASSUME Inv, OthersOK, NEW t \in tasks, NEW us \in SUBSET TaskRecs,
           NEW rs \in SUBSET Rec, NEW xs \in SUBSET Timers,
           \A u \in us : u.id = t.id /\ u.poll = t.poll,
           \A u, v \in us : u = v,
           \A x \in xs : x.poll = t.poll,
           Moves(t, us, rs, xs)
    PROVE  Inv'
<1>1. t \in TaskRecs /\ t.poll \in Polls /\ tasks \subseteq TaskRecs
  BY DEF Inv, TypeOK, TaskRecs
<1>2. DOMAIN redis' \subseteq Polls /\ redis' \in [DOMAIN redis' -> Rec]
  <2>0. DOMAIN redis \subseteq Polls
    BY DEF Inv, TypeOK, Stored
  <2>1. CASE redis' = redis
    BY <2>1 DEF Inv, TypeOK, Stored
  <2>2. CASE redis' = Erased(t.poll)
    BY <1>1, <2>0, <2>2, ErasedIs
  <2>3. ASSUME NEW r \in rs, redis' = Set(t.poll, r)
        PROVE  DOMAIN redis' \subseteq Polls /\ redis' \in [DOMAIN redis' -> Rec]
    <3>1. r \in Rec
      OBVIOUS
    <3> QED
      <4>1. DOMAIN redis' = DOMAIN redis \cup {t.poll} /\ redis' \in [DOMAIN redis' -> Rec]
        BY <1>1, <2>3, <3>1, Written
      <4> QED
        BY <1>1, <2>0, <4>1
  <2> QED
    BY <2>1, <2>2, <2>3 DEF Moves
<1>3. t.poll \notin restoring
  BY DEF Inv, Quiet
<1>4. \A q \in restoring : q \in DOMAIN redis'
  <2> TAKE q \in restoring
  <2>1. q \in DOMAIN redis /\ q # t.poll
    BY <1>3 DEF Inv, Quiet, Stored
  <2>2. q \in DOMAIN Erased(t.poll)
    BY <1>1, <2>1, ErasedIs
  <2>3. ASSUME NEW r \in rs, redis' = Set(t.poll, r)
        PROVE  q \in DOMAIN redis'
    <3>1. r \in Rec
      OBVIOUS
    <3> QED
      BY <1>1, <2>1, <2>3, <3>1, Written
  <2> QED
    BY <2>1, <2>2, <2>3 DEF Moves
<1>5. tasks' \subseteq TaskRecs
  BY <1>1 DEF Moves
<1>6. \A u, v \in tasks' : u.id = v.id => u = v
  BY DEF Moves, Inv, TypeOK
<1>7. pending' \subseteq Timers /\ listed' \subseteq Polls /\ restoring' \subseteq Polls
  BY <1>1 DEF Moves, Inv, TypeOK, Timers
<1>8. TypeOK'
  BY <1>2, <1>5, <1>6, <1>7 DEF TypeOK, OthersOK, TaskRecs, Timers, Stored
<1>9. Quiet'
  <2>1. \A q \in restoring : /\ \A u \in tasks : u.poll # q
                             /\ \A x \in pending : x.poll # q
    BY DEF Inv, Quiet
  <2>2. \A q \in restoring : /\ \A u \in tasks' : u.poll # q
                             /\ \A x \in pending' : x.poll # q
    BY <1>3, <2>1 DEF Moves
  <2> QED
    BY <1>4, <2>2 DEF Quiet, Moves, Stored
<1> QED
  BY <1>8, <1>9 DEF Inv

LEMMA TaskClaims ==
    ASSUME Inv, Claims, Grows, NEW t \in tasks, NEW us \in SUBSET TaskRecs,
           NEW rs \in SUBSET Rec, NEW xs \in SUBSET Timers,
           \A x \in xs : x.poll = t.poll,
           Moves(t, us, rs, xs),
           \A u \in us : Truthful(u.poll, u.rec)' /\ Knows(u)',
           \A r \in rs : Truthful(t.poll, r)',
           \A x \in xs : Truthful(x.poll, x.rec)'
    PROVE  Claims'
<1>1. t.poll \in Polls /\ tasks \subseteq TaskRecs /\ pending \subseteq Timers
  BY DEF Inv, TypeOK, TaskRecs, Timers
<1>2. Stored \subseteq Polls /\ \A p \in Stored : redis[p] \in Rec
  BY DEF Inv, TypeOK
<1>3. (\A p \in Stored : Truthful(p, redis[p]))'
  <2>1. \A p \in Stored : Truthful(p, redis[p])
    BY DEF Claims, RecordNeverAhead
  <2> SUFFICES ASSUME NEW p \in DOMAIN redis'
               PROVE  Truthful(p, redis[p])'
    BY DEF Stored
  <2>2. CASE p \in Stored /\ redis'[p] = redis[p]
    <3>1. PICK r \in Rec : r = redis[p]
      BY <1>2, <2>2
    <3>2. Truthful(p, r)'
      BY <1>2, <2>1, <2>2, <3>1, Kept
    <3> QED
      BY <2>2, <3>1, <3>2 DEF Truthful
  <2>3. CASE ~(p \in Stored /\ redis'[p] = redis[p])
    <3>1. redis' # redis /\ redis' # Erased(t.poll)
      BY <1>1, <2>3, ErasedIs DEF Stored
    <3>2. PICK r \in rs : redis' = Set(t.poll, r)
      BY <3>1 DEF Moves
    <3>3. p = t.poll /\ redis'[p] = r
      <4>1. r \in Rec
        OBVIOUS
      <4> QED
        <5>1. /\ DOMAIN redis' = DOMAIN redis \cup {t.poll}
              /\ redis'[t.poll] = r
              /\ \A q \in DOMAIN redis : q # t.poll => redis'[q] = redis[q]
          BY <1>1, <3>2, <4>1, Written
        <5> QED
          BY <2>3, <5>1 DEF Stored
    <3>4. Truthful(p, r)'
      BY <3>3
    <3> QED
      BY <3>3, <3>4 DEF Truthful
  <2> QED
    BY <2>2, <2>3
<1>4. \A x \in pending' : Truthful(x.poll, x.rec)'
  <2>1. \A x \in pending : Truthful(x.poll, x.rec)
    BY DEF Claims, RecordNeverAhead
  <2>2. \A x \in pending : Truthful(x.poll, x.rec)'
    BY <1>1, <2>1, Kept DEF Timers
  <2> QED
    BY <2>2 DEF Moves
<1>5. \A u \in tasks' : Truthful(u.poll, u.rec)' /\ Knows(u)'
  <2>1. \A u \in tasks : Truthful(u.poll, u.rec) /\ Knows(u)
    BY DEF Claims, RecordNeverAhead
  <2>2. \A u \in tasks : Truthful(u.poll, u.rec)' /\ Knows(u)'
    BY <1>1, <2>1, Kept DEF TaskRecs
  <2> QED
    BY <2>2 DEF Moves
<1> QED
  BY <1>3, <1>4, <1>5 DEF Claims, RecordNeverAhead

-----------------------------------------------------------------------------
(* What a task is, and what becomes of it by an assignment to its fields. *)
LEMMA TaskFacts ==
    ASSUME Inv, NEW t \in tasks
    PROVE  /\ t \in TaskRecs /\ t.id \in 1..MaxTasks /\ t.poll \in Polls
           /\ t.kind \in Kinds /\ t.pc \in Pcs /\ t.rec \in Rec
           /\ t.rec.merged \in BOOLEAN /\ t.rec.proofsGenerated \in BOOLEAN
           /\ stage[t.poll] \in StageSet
<1>1. t \in TaskRecs /\ stage \in [Polls -> StageSet]
  BY DEF Inv, TypeOK, TaskRecs
<1>2. /\ t.id \in 1..MaxTasks /\ t.poll \in Polls
      /\ t.kind \in Kinds /\ t.pc \in Pcs /\ t.rec \in Rec
  BY <1>1 DEF TaskRecs
<1> QED
  BY <1>1, <1>2 DEF Rec

Becomes(t, kind, pc, rec) == [t EXCEPT !.kind = kind, !.pc = pc, !.rec = rec]

LEMMA TaskBecomes ==
    ASSUME NEW t \in TaskRecs, NEW kind \in Kinds, NEW pc \in Pcs, NEW rec \in Rec
    PROVE  \E u \in TaskRecs : /\ u = Becomes(t, kind, pc, rec)
                              /\ u.id = t.id /\ u.poll = t.poll
                              /\ u.kind = kind /\ u.pc = pc /\ u.rec = rec
<1> DEFINE u == [t EXCEPT !.kind = kind, !.pc = pc, !.rec = rec]
<1>1. u \in TaskRecs /\ u.id = t.id /\ u.poll = t.poll /\ u.kind = kind /\ u.pc = pc /\ u.rec = rec
  BY DEF TaskRecs
<1>2. u = Becomes(t, kind, pc, rec)
  BY DEF Becomes
<1> HIDE DEF u
<1> QED
  BY <1>1, <1>2

LEMMA TaskGoes ==
    ASSUME NEW t \in TaskRecs, NEW pc \in Pcs
    PROVE  \E u \in TaskRecs : /\ u = [t EXCEPT !.pc = pc]
                              /\ u.id = t.id /\ u.poll = t.poll
                              /\ u.kind = t.kind /\ u.pc = pc /\ u.rec = t.rec
<1> DEFINE u == [t EXCEPT !.pc = pc]
<1>1. /\ u \in TaskRecs /\ u.id = t.id /\ u.poll = t.poll
      /\ u.kind = t.kind /\ u.pc = pc /\ u.rec = t.rec
  BY DEF TaskRecs
<1> HIDE DEF u
<1>2. \E v \in TaskRecs : /\ v = u
                         /\ v.id = t.id /\ v.poll = t.poll
                         /\ v.kind = t.kind /\ v.pc = pc /\ v.rec = t.rec
  BY <1>1
<1> QED
  BY <1>2 DEF u

LEMMA ReachedIs ==
    ASSUME Inv, NEW p \in Polls
    PROVE  /\ Reached(p, "merged") <=> stage[p] \in Late
           /\ Reached(p, "merged") \in BOOLEAN
<1>1. stage[p] \in StageSet
  BY DEF Inv, TypeOK
<1>2. Reached(p, "merged") <=> stage[p] \in Late
  BY <1>1, AtMerged DEF Reached
<1>3. Reached(p, "merged") \in BOOLEAN
  BY DEF Reached
<1> QED
  BY <1>2, <1>3

LEMMA ReachedAfter ==
    ASSUME NEW p \in Polls, stage'[p] \in Late
    PROVE  Reached(p, "merged")'
<1>1. stage'[p] \in StageSet
  BY DEF Late, StageSet, Stages
<1> QED
  BY <1>1, AtMerged DEF Reached

(* The chain, the files and the counters stay as they are. *)
LEMMA OthersSame ==
    ASSUME Inv, UNCHANGED <<stage, disk, asked>>, {requests', faults', crashes'} \subseteq Nat
    PROVE  OthersOK /\ Grows
  BY DEF Inv, TypeOK, OthersOK, Grows, disk

LEMMA CountersSame ==
    ASSUME Inv
    PROVE  /\ UNCHANGED counters => {requests', faults', crashes'} \subseteq Nat
           /\ {requests, faults, crashes} \subseteq Nat
           /\ {requests + 1, faults + 1, crashes + 1} \subseteq Nat
  BY DEF Inv, TypeOK, counters

-----------------------------------------------------------------------------
(* Steps that move no task, and those that start one. *)
LEMMA ServiceSame ==
    ASSUME Inv, OthersOK, UNCHANGED <<redis, service>>
    PROVE  Inv' /\ (Claims /\ Grows => Claims')
<1>1. TypeOK'
  BY DEF Inv, TypeOK, OthersOK, service, Stored
<1>2. Quiet'
  BY DEF Inv, Quiet, service, Stored
<1>3. ASSUME Claims, Grows
      PROVE  Claims'
  <2>1. /\ Stored \subseteq Polls /\ \A p \in Stored : redis[p] \in Rec
        /\ tasks \subseteq TaskRecs /\ pending \subseteq Timers
    BY DEF Inv, TypeOK, TaskRecs, Timers
  <2>2. /\ \A p \in Stored : Truthful(p, redis[p])
        /\ \A x \in pending : Truthful(x.poll, x.rec)
        /\ \A t \in tasks : Truthful(t.poll, t.rec) /\ Knows(t)
    BY <1>3 DEF Claims, RecordNeverAhead
  <2>3. (\A p \in Stored : Truthful(p, redis[p]))'
    <3> SUFFICES ASSUME NEW p \in Stored
                 PROVE  Truthful(p, redis[p])'
      BY DEF Stored
    <3>1. PICK r \in Rec : r = redis[p]
      BY <2>1
    <3>2. Truthful(p, r)'
      BY <1>3, <2>1, <2>2, <3>1, Kept
    <3> QED
      BY <3>1, <3>2 DEF Truthful
  <2>4. /\ \A x \in pending : Truthful(x.poll, x.rec)'
        /\ \A t \in tasks : Truthful(t.poll, t.rec)' /\ Knows(t)'
    BY <1>3, <2>1, <2>2, Kept DEF TaskRecs, Timers
  <2> QED
    BY <2>3, <2>4 DEF Claims, RecordNeverAhead, service
<1> QED
  BY <1>1, <1>2, <1>3 DEF Inv

LEMMA RestartKeeps ==
    ASSUME Inv, Restarted, UNCHANGED <<stage, redis, disk, asked>>,
           {requests', faults', crashes'} \subseteq Nat
    PROVE  Inv' /\ (Claims => Claims')
<1>1. OthersOK /\ Grows
  BY OthersSame
<1>2. TypeOK'
  BY <1>1 DEF Inv, TypeOK, OthersOK, Restarted, Stored
<1>3. Quiet'
  BY DEF Quiet, Restarted, Stored
<1>4. ASSUME Claims
      PROVE  Claims'
  <2>1. \A p \in Stored : Truthful(p, redis[p])
    BY <1>4 DEF Claims, RecordNeverAhead
  <2>2. (\A p \in Stored : Truthful(p, redis[p]))'
    BY <2>1 DEF Truthful, Reached, Stored, disk
  <2> QED
    BY <2>2 DEF Claims, RecordNeverAhead, Restarted
<1> QED
  BY <1>2, <1>3, <1>4 DEF Inv

LEMMA SpawnKeeps ==
    ASSUME Inv, OthersOK, NEW p \in Polls, NEW kind \in Kinds, NEW pc \in Pcs, NEW rec \in Rec,
           FreeIds # {}, tasks' = Spawned(p, kind, pc, rec),
           redis' = redis, pending' \subseteq pending, listed' \subseteq listed,
           restoring' \subseteq restoring \ {p}
    PROVE  /\ Inv'
           /\ Claims /\ Grows /\ Truthful(p, rec) /\ pc \notin AfterMerge => Claims'
<1>1. PICK i \in FreeIds : i = CHOOSE j \in FreeIds : TRUE
  OBVIOUS
<1>2. PICK u \in TaskRecs : u = [id |-> i, poll |-> p, kind |-> kind, pc |-> pc, rec |-> rec]
  BY <1>1 DEF FreeIds, TaskRecs
<1>3. /\ tasks' = tasks \cup {u}
      /\ u.id = i /\ u.poll = p /\ u.kind = kind /\ u.pc = pc /\ u.rec = rec
  BY <1>1, <1>2 DEF Spawned
<1>4. \A t \in tasks : t.id # u.id
  BY <1>1, <1>3 DEF FreeIds
<1>5. TypeOK'
  <2>1. tasks' \subseteq TaskRecs /\ \A t, v \in tasks' : t.id = v.id => t = v
    BY <1>3, <1>4 DEF Inv, TypeOK, TaskRecs
  <2>2. /\ pending' \subseteq [poll : Polls, rec : Rec, listed : BOOLEAN]
        /\ listed' \subseteq Polls /\ restoring' \subseteq Polls
        /\ DOMAIN redis' \subseteq Polls /\ redis' \in [DOMAIN redis' -> Rec]
    BY DEF Inv, TypeOK, Stored
  <2> QED
    BY <2>1, <2>2 DEF TypeOK, OthersOK, TaskRecs, Stored
<1>6. Quiet'
  BY <1>3 DEF Inv, Quiet, Stored
<1>7. ASSUME Claims, Grows, Truthful(p, rec), pc \notin AfterMerge
      PROVE  Claims'
  <2>1. /\ Stored \subseteq Polls /\ \A q \in Stored : redis[q] \in Rec
        /\ tasks \subseteq TaskRecs /\ pending \subseteq Timers
    BY DEF Inv, TypeOK, TaskRecs, Timers
  <2>2. /\ \A q \in Stored : Truthful(q, redis[q])
        /\ \A x \in pending : Truthful(x.poll, x.rec)
        /\ \A t \in tasks : Truthful(t.poll, t.rec) /\ Knows(t)
    BY <1>7 DEF Claims, RecordNeverAhead
  <2>3. (\A q \in Stored : Truthful(q, redis[q]))'
    <3> SUFFICES ASSUME NEW q \in Stored
                 PROVE  Truthful(q, redis[q])'
      BY DEF Stored
    <3>1. PICK r \in Rec : r = redis[q]
      BY <2>1
    <3>2. Truthful(q, r)'
      BY <1>7, <2>1, <2>2, <3>1, Kept
    <3> QED
      BY <3>1, <3>2 DEF Truthful
  <2>4. /\ \A x \in pending : Truthful(x.poll, x.rec)'
        /\ \A t \in tasks : Truthful(t.poll, t.rec)' /\ Knows(t)'
    BY <1>7, <2>1, <2>2, Kept DEF TaskRecs, Timers
  <2>5. Truthful(u.poll, u.rec)' /\ Knows(u)'
    <3>1. Truthful(p, rec)'
      BY <1>7, Kept
    <3> QED
      BY <1>3, <1>7, <3>1 DEF Knows, Truthful, AfterMerge
  <2> QED
    BY <1>3, <2>3, <2>4, <2>5 DEF Claims, RecordNeverAhead
<1> QED
  BY <1>5, <1>6, <1>7 DEF Inv

-----------------------------------------------------------------------------
(* A task goes on, ends, or starts to reschedule its poll, and nothing is written. *)
LEMMA BecomesKeeps ==
    ASSUME Inv, OthersOK, NEW t \in tasks, NEW u \in TaskRecs, u.id = t.id, u.poll = t.poll,
           tasks' = Moved(t, u), UNCHANGED <<redis, pending, listed, restoring>>
    PROVE  /\ Inv'
           /\ Claims /\ Grows /\ Truthful(u.poll, u.rec)' /\ Knows(u)' => Claims'
<1>1. Moves(t, {u}, {}, {})
  BY DEF Moves, Moved
<1>2. /\ {u} \in SUBSET TaskRecs /\ {} \in SUBSET Rec /\ {} \in SUBSET Timers
      /\ \A v \in {u} : v.id = t.id /\ v.poll = t.poll
      /\ \A v, w \in {u} : v = w
      /\ \A x \in {} : x.poll = t.poll
  OBVIOUS
<1>3. Inv'
  BY <1>1, <1>2, TaskMoves
<1>4. ASSUME Claims, Grows, Truthful(u.poll, u.rec)', Knows(u)'
      PROVE  Claims'
  <2>1. /\ \A v \in {u} : Truthful(v.poll, v.rec)' /\ Knows(v)'
        /\ \A r \in {} : Truthful(t.poll, r)'
        /\ \A x \in {} : Truthful(x.poll, x.rec)'
    BY <1>4
  <2> QED
    BY <1>1, <1>2, <1>4, <2>1, TaskClaims
<1> QED
  BY <1>3, <1>4

LEMMA EndsKeeps ==
    ASSUME Inv, OthersOK, Grows, NEW t \in tasks,
           tasks' = Ended(t), UNCHANGED <<redis, pending, listed, restoring>>
    PROVE  Inv' /\ (Claims => Claims')
<1>1. Moves(t, {}, {}, {})
  BY DEF Moves, Ended
<1>2. /\ {} \in SUBSET TaskRecs /\ {} \in SUBSET Rec /\ {} \in SUBSET Timers
      /\ \A v \in {} : v.id = t.id /\ v.poll = t.poll
      /\ \A v, w \in {} : v = w
      /\ \A x \in {} : x.poll = t.poll
  OBVIOUS
<1>3. Inv'
  BY <1>1, <1>2, TaskMoves
<1>4. ASSUME Claims
      PROVE  Claims'
  <2>1. /\ \A v \in {} : Truthful(v.poll, v.rec)' /\ Knows(v)'
        /\ \A r \in {} : Truthful(t.poll, r)'
        /\ \A x \in {} : Truthful(x.poll, x.rec)'
    OBVIOUS
  <2> QED
    BY <1>1, <1>2, <1>4, <2>1, TaskClaims
<1> QED
  BY <1>3, <1>4

LEMMA RescheduleKeeps ==
    ASSUME Inv, OthersOK, NEW t \in tasks, NEW kind \in Kinds, NEW rec \in Rec,
           Reschedule(t, kind, rec), UNCHANGED <<redis, restoring>>
    PROVE  /\ Inv'
           /\ Claims /\ Grows /\ Truthful(t.poll, rec)' => Claims'
<1>1. t \in TaskRecs /\ \E pc \in Pcs : pc = "del"
  BY TaskFacts DEF Pcs
<1>2. PICK pc \in Pcs : pc = "del"
  BY <1>1
<1>3. PICK u \in TaskRecs : /\ u = Becomes(t, kind, pc, rec)
                           /\ u.id = t.id /\ u.poll = t.poll /\ u.pc = pc /\ u.rec = rec
  BY <1>1, TaskBecomes
<1>4. Moves(t, {u}, {}, {})
  <2>1. tasks' = (tasks \ {t}) \cup {u}
    BY <1>2, <1>3, Zenon DEF Becomes, Moved, Reschedule
  <2> QED
    BY <2>1 DEF Moves, Reschedule, Unlist
<1>5. /\ {u} \in SUBSET TaskRecs /\ {} \in SUBSET Rec /\ {} \in SUBSET Timers
      /\ \A v \in {u} : v.id = t.id /\ v.poll = t.poll
      /\ \A v, w \in {u} : v = w
      /\ \A x \in {} : x.poll = t.poll
  BY <1>3
<1>6. Inv'
  BY <1>4, <1>5, TaskMoves
<1>7. ASSUME Claims, Grows, Truthful(t.poll, rec)'
      PROVE  Claims'
  <2>1. /\ \A v \in {u} : Truthful(v.poll, v.rec)' /\ Knows(v)'
        /\ \A r \in {} : Truthful(t.poll, r)'
        /\ \A x \in {} : Truthful(x.poll, x.rec)'
    BY <1>2, <1>3, <1>7 DEF Knows, Truthful, AfterMerge, AfterGeneration
  <2> QED
    BY <1>4, <1>5, <1>7, <2>1, TaskClaims
<1> QED
  BY <1>6, <1>7

(* Going on with the same record needs no more than what the next step relies on. *)
LEMMA GotoKeeps ==
    ASSUME Inv, OthersOK, NEW t \in tasks, NEW pc \in Pcs,
           tasks' = Goto(t, pc), UNCHANGED <<redis, pending, listed, restoring>>
    PROVE  /\ Inv'
           /\ /\ Claims /\ Grows
              /\ pc \in AfterMerge => Reached(t.poll, "merged")'
              /\ pc \in AfterGeneration => proofFiles' = t.poll
              => Claims'
<1>1. t \in TaskRecs /\ t.poll \in Polls /\ t.rec \in Rec
  BY TaskFacts
<1>2. PICK u \in TaskRecs : /\ u = [t EXCEPT !.pc = pc]
                           /\ u.id = t.id /\ u.poll = t.poll /\ u.pc = pc /\ u.rec = t.rec
  BY <1>1, TaskGoes
<1>3. tasks' = Moved(t, u)
  BY <1>2 DEF Goto
<1>4. Inv'
  BY <1>2, <1>3, BecomesKeeps
<1>5. ASSUME Claims, Grows,
             pc \in AfterMerge => Reached(t.poll, "merged")',
             pc \in AfterGeneration => proofFiles' = t.poll
      PROVE  Claims'
  <2>1. Truthful(t.poll, t.rec)
    BY <1>5 DEF Claims, RecordNeverAhead
  <2>2. Truthful(t.poll, t.rec)'
    BY <1>1, <1>5, <2>1, Kept
  <2>3. Truthful(u.poll, u.rec)'
    BY <1>2, <2>2 DEF Truthful
  <2>4. Knows(u)'
    BY <1>2, <1>5 DEF Knows, Reached
  <2> QED
    BY <1>2, <1>3, <1>5, <2>3, <2>4, BecomesKeeps
<1> QED
  BY <1>4, <1>5

-----------------------------------------------------------------------------
(* The actions, one by one. *)
LEMMA ReadKeeps ==
    ASSUME Inv, NEW t \in tasks, Read(t)
    PROVE  Inv' /\ (Claims => Claims')
<1>1. /\ OthersOK /\ Grows /\ UNCHANGED <<redis, restoring>>
      /\ t.poll \in Polls /\ t.rec \in Rec
      /\ t.rec.merged \in BOOLEAN /\ t.rec.proofsGenerated \in BOOLEAN
  BY OthersSame, CountersSame, TaskFacts DEF Read
<1>2. Claims => Truthful(t.poll, t.rec)
  BY DEF Claims, RecordNeverAhead
<1>3. "finalize" \in Kinds /\ {"merge", "generate", "submit"} \subseteq Pcs
  BY DEF Kinds, Pcs, Finalizing
<1>4. CASE Reschedule(t, "finalize", t.rec)
  <2>1. Claims => Truthful(t.poll, t.rec)'
    BY <1>1, <1>2, Kept
  <2> QED
    BY <1>1, <1>3, <1>4, <2>1, RescheduleKeeps
<1>5. CASE Reschedule(t, "finalize", RecFromChain(t))
  <2>1. PICK b \in BOOLEAN : b = Reached(t.poll, "merged")
    BY <1>1, ReachedIs
  <2>2. [t.rec EXCEPT !.merged = b] \in Rec
    BY <1>1 DEF Rec
  <2>3. PICK rec \in Rec : rec = [t.rec EXCEPT !.merged = b]
    BY <2>2
  <2>4. rec.merged = b /\ rec.proofsGenerated = t.rec.proofsGenerated
    BY <1>1, <2>3 DEF Rec
  <2>5. Reschedule(t, "finalize", rec)
    BY <1>5, <2>1, <2>3 DEF RecFromChain
  <2>6. Claims => Truthful(t.poll, rec)
    BY <1>2, <2>1, <2>4 DEF Truthful
  <2>7. Claims => Truthful(t.poll, rec)'
    BY <1>1, <2>6, Kept
  <2> QED
    BY <1>1, <1>3, <2>5, <2>7, RescheduleKeeps
<1>6. ASSUME ~Reschedule(t, "finalize", t.rec), ~Reschedule(t, "finalize", RecFromChain(t))
      PROVE  Inv' /\ (Claims => Claims')
  <2>1. /\ tasks' = Goto(t, CASE ~t.rec.merged -> "merge"
                               [] t.rec.merged /\ ~t.rec.proofsGenerated -> "generate"
                               [] OTHER -> "submit")
        /\ UNCHANGED <<listed, pending>>
    BY <1>6 DEF Read
  <2>2. PICK pc \in {"merge", "generate", "submit"} :
           /\ tasks' = Goto(t, pc)
           /\ pc \in {"generate", "submit"} => t.rec.merged
           /\ pc = "submit" => t.rec.proofsGenerated
    <3>1. CASE ~t.rec.merged
      BY <1>1, <2>1, <3>1
    <3>2. CASE t.rec.merged /\ ~t.rec.proofsGenerated
      BY <1>1, <2>1, <3>2
    <3>3. CASE t.rec.merged /\ t.rec.proofsGenerated
      BY <1>1, <2>1, <3>3
    <3> QED
      BY <1>1, <3>1, <3>2, <3>3
  <2>3. pc \in Pcs
    BY <1>3, <2>2
  <2>4. ASSUME Claims
        PROVE  /\ pc \in AfterMerge => Reached(t.poll, "merged")'
               /\ pc \in AfterGeneration => proofFiles' = t.poll
    <3>1. Truthful(t.poll, t.rec)'
      BY <1>1, <1>2, <2>4, Kept
    <3> QED
      BY <2>2, <3>1 DEF Truthful, AfterMerge, AfterGeneration
  <2> QED
    BY <1>1, <2>1, <2>2, <2>3, <2>4, GotoKeeps
<1> QED
  BY <1>4, <1>5, <1>6

LEMMA ReadFailsKeeps ==
    ASSUME Inv, NEW t \in tasks, ReadFails(t)
    PROVE  Inv' /\ (Claims => Claims')
  BY CountersSame, RestartKeeps DEF ReadFails

(* On chain a poll goes from one late stage to the next. *)
LEMMA StageGrows ==
    ASSUME Inv, NEW p \in Polls, NEW s \in Late, stage' = [stage EXCEPT ![p] = s],
           UNCHANGED <<disk, asked>>, {requests', faults', crashes'} \subseteq Nat
    PROVE  OthersOK /\ Grows /\ Reached(p, "merged")'
<1>1. s \in StageSet
  BY DEF Late, StageSet, Stages
<1>2. stage' \in [Polls -> StageSet] /\ stage'[p] = s
  BY <1>1 DEF Inv, TypeOK
<1>3. OthersOK /\ Grows
  BY <1>2 DEF Inv, TypeOK, OthersOK, Grows, disk
<1> QED
  BY <1>2, <1>3, ReachedAfter

LEMMA MergeDoneKeeps ==
    ASSUME Inv, NEW t \in tasks, MergeDone(t)
    PROVE  Inv' /\ (Claims => Claims')
<1>1. /\ t.poll \in Polls /\ "merged" \in Late /\ "saveMerged" \in Pcs
      /\ "saveMerged" \notin AfterGeneration
  BY TaskFacts DEF Late, Pcs, Finalizing, AfterGeneration
<1>2. OthersOK /\ Grows /\ Reached(t.poll, "merged")'
  BY <1>1, StageGrows, CountersSame DEF MergeDone
<1> QED
  BY <1>1, <1>2, GotoKeeps DEF MergeDone

LEMMA MergeUnconfirmedKeeps ==
    ASSUME Inv, NEW t \in tasks, MergeUnconfirmed(t)
    PROVE  Inv' /\ (Claims => Claims')
<1>1. /\ t.poll \in Polls /\ t.rec \in Rec /\ "merged" \in Late /\ "retry" \in Kinds
  BY TaskFacts DEF Late, Kinds
<1>2. {requests', faults', crashes'} \subseteq Nat
  BY CountersSame DEF MergeUnconfirmed
<1>3. OthersOK /\ Grows
  BY <1>1, <1>2, StageGrows DEF MergeUnconfirmed
<1>4. Claims => Truthful(t.poll, t.rec)
  BY DEF Claims, RecordNeverAhead
<1>5. Claims => Truthful(t.poll, t.rec)'
  BY <1>1, <1>3, <1>4, Kept
<1> QED
  BY <1>1, <1>3, <1>5, RescheduleKeeps DEF MergeUnconfirmed

(* A task writes a record to the store, or erases it, and goes on or ends. *)
LEMMA WritesKeeps ==
    ASSUME Inv, OthersOK, NEW t \in tasks, NEW u \in TaskRecs, u.id = t.id, u.poll = t.poll,
           NEW rec \in Rec, redis' = Set(t.poll, rec),
           tasks' = Moved(t, u), UNCHANGED <<pending, listed, restoring>>
    PROVE  /\ Inv'
           /\ /\ Claims /\ Grows /\ Truthful(t.poll, rec)'
              /\ Truthful(u.poll, u.rec)' /\ Knows(u)'
              => Claims'
<1>1. Moves(t, {u}, {rec}, {})
  BY DEF Moves, Moved
<1>2. /\ {u} \in SUBSET TaskRecs /\ {rec} \in SUBSET Rec /\ {} \in SUBSET Timers
      /\ \A v \in {u} : v.id = t.id /\ v.poll = t.poll
      /\ \A v, w \in {u} : v = w
      /\ \A x \in {} : x.poll = t.poll
  OBVIOUS
<1>3. Inv'
  BY <1>1, <1>2, TaskMoves
<1>4. ASSUME Claims, Grows, Truthful(t.poll, rec)', Truthful(u.poll, u.rec)', Knows(u)'
      PROVE  Claims'
  <2>1. /\ \A v \in {u} : Truthful(v.poll, v.rec)' /\ Knows(v)'
        /\ \A r \in {rec} : Truthful(t.poll, r)'
        /\ \A x \in {} : Truthful(x.poll, x.rec)'
    BY <1>4
  <2> QED
    BY <1>1, <1>2, <1>4, <2>1, TaskClaims
<1> QED
  BY <1>3, <1>4

LEMMA ErasesKeeps ==
    ASSUME Inv, OthersOK, Grows, NEW t \in tasks, redis' = Erased(t.poll),
           NEW pc \in Pcs \ AfterMerge, tasks' = Goto(t, pc) \/ tasks' = Ended(t),
           UNCHANGED <<pending, listed, restoring>>
    PROVE  Inv' /\ (Claims => Claims')
<1>1. t \in TaskRecs /\ t.poll \in Polls /\ t.rec \in Rec
  BY TaskFacts
<1>2. PICK u \in TaskRecs : /\ u = [t EXCEPT !.pc = pc]
                           /\ u.id = t.id /\ u.poll = t.poll /\ u.pc = pc /\ u.rec = t.rec
  BY <1>1, TaskGoes
<1>3. PICK us \in SUBSET TaskRecs : us \subseteq {u} /\ Moves(t, us, {}, {})
  <2>1. CASE tasks' = Goto(t, pc)
    <3>1. {u} \in SUBSET TaskRecs /\ Moves(t, {u}, {}, {})
      BY <1>2, <2>1 DEF Moves, Goto, Moved
    <3> QED
      BY <3>1
  <2>2. CASE tasks' = Ended(t)
    <3>1. {} \in SUBSET TaskRecs /\ {} \subseteq {u} /\ Moves(t, {}, {}, {})
      BY <2>2 DEF Moves, Ended
    <3> QED
      BY <3>1
  <2> QED
    BY <2>1, <2>2
<1>4. /\ {} \in SUBSET Rec /\ {} \in SUBSET Timers
      /\ \A v \in us : v.id = t.id /\ v.poll = t.poll
      /\ \A v, w \in us : v = w
      /\ \A x \in {} : x.poll = t.poll
  BY <1>2, <1>3
<1>5. Inv'
  BY <1>3, <1>4, TaskMoves
<1>6. ASSUME Claims
      PROVE  Claims'
  <2>1. Truthful(t.poll, t.rec)
    BY <1>6 DEF Claims, RecordNeverAhead
  <2>2. Truthful(t.poll, t.rec)'
    BY <1>1, <2>1, Kept
  <2>3. Truthful(u.poll, u.rec)' /\ Knows(u)'
    BY <1>2, <2>2 DEF Truthful, Knows, AfterMerge
  <2>4. /\ \A v \in us : Truthful(v.poll, v.rec)' /\ Knows(v)'
        /\ \A r \in {} : Truthful(t.poll, r)'
        /\ \A x \in {} : Truthful(x.poll, x.rec)'
    BY <1>3, <2>3
  <2> QED
    BY <1>3, <1>4, <1>6, <2>4, TaskClaims
<1> QED
  BY <1>5, <1>6

LEMMA SaveMergedKeeps ==
    ASSUME Inv, NEW t \in tasks, SaveMerged(t)
    PROVE  Inv' /\ (Claims => Claims')
<1>1. /\ OthersOK /\ Grows /\ t \in TaskRecs /\ t.poll \in Polls /\ t.rec \in Rec
      /\ t.rec.proofsGenerated \in BOOLEAN /\ t.kind \in Kinds
  BY OthersSame, CountersSame, TaskFacts DEF SaveMerged
<1>2. PICK rec \in Rec : /\ rec = [t.rec EXCEPT !.merged = TRUE]
                        /\ rec.merged /\ rec.proofsGenerated = t.rec.proofsGenerated
  <2>1. [t.rec EXCEPT !.merged = TRUE] \in Rec
    BY <1>1 DEF Rec
  <2>2. PICK rec \in Rec : rec = [t.rec EXCEPT !.merged = TRUE]
    BY <2>1
  <2>3. rec.merged /\ rec.proofsGenerated = t.rec.proofsGenerated
    BY <1>1, <2>2 DEF Rec
  <2> QED
    BY <2>2, <2>3
<1>3. PICK pc \in {"generate", "submit"} :
         /\ pc = (IF t.rec.proofsGenerated THEN "submit" ELSE "generate")
         /\ pc = "submit" => t.rec.proofsGenerated
  BY <1>1
<1>4. pc \in Pcs
  BY <1>3 DEF Pcs, Finalizing
<1>5. PICK u \in TaskRecs : /\ u = [t EXCEPT !.rec = rec, !.pc = pc]
                           /\ u.id = t.id /\ u.poll = t.poll /\ u.pc = pc /\ u.rec = rec
  <2> DEFINE v == [t EXCEPT !.rec = rec, !.pc = pc]
  <2>1. v \in TaskRecs /\ v.id = t.id /\ v.poll = t.poll /\ v.pc = pc /\ v.rec = rec
    BY <1>1, <1>4 DEF TaskRecs
  <2>2. v = [t EXCEPT !.rec = rec, !.pc = pc]
    OBVIOUS
  <2> HIDE DEF v
  <2> QED
    BY <2>1, <2>2
<1>6. tasks' = Moved(t, u)
  <2>1. u = [t EXCEPT !.rec.merged = TRUE, !.pc = pc]
    BY <1>2, <1>5
  <2> QED
    BY <1>3, <2>1 DEF SaveMerged
<1>7. redis' = Set(t.poll, rec) /\ UNCHANGED <<pending, listed, restoring>>
  BY <1>2 DEF SaveMerged
<1>8. ASSUME Claims
      PROVE  Truthful(t.poll, rec)' /\ Truthful(u.poll, u.rec)' /\ Knows(u)'
  <2>1. Truthful(t.poll, t.rec) /\ Reached(t.poll, "merged")
    BY <1>8 DEF Claims, RecordNeverAhead, Knows, SaveMerged, AfterMerge
  <2>2. Truthful(t.poll, rec)
    BY <1>2, <2>1 DEF Truthful
  <2>3. Truthful(t.poll, rec)'
    BY <1>1, <1>8, <2>2, Kept
  <2>4. pc = "submit" => proofFiles' = t.poll
    BY <1>2, <1>3, <2>3 DEF Truthful
  <2>5. Truthful(u.poll, u.rec)' /\ Knows(u)'
    BY <1>2, <1>3, <1>5, <2>3, <2>4 DEF Truthful, Knows, AfterGeneration
  <2> QED
    BY <2>3, <2>5
<1> QED
  BY <1>1, <1>5, <1>6, <1>7, <1>8, WritesKeeps

LEMMA GenerateKeeps ==
    ASSUME Inv, NEW t \in tasks, Generate(t)
    PROVE  Inv' /\ (OnePoll /\ Claims => Claims')
<1>1. t \in TaskRecs /\ t.poll \in Polls /\ "saveGenerated" \in Pcs
  BY TaskFacts DEF Pcs, Finalizing
<1>2. OthersOK
  BY <1>1, CountersSame DEF Generate, Inv, TypeOK, OthersOK
<1>3. OnePoll => Grows
  BY <1>1 DEF Generate, Inv, TypeOK, Grows, OnePoll
<1>4. Claims /\ Grows => Reached(t.poll, "merged")'
  <2> SUFFICES ASSUME Claims, Grows
               PROVE  Reached(t.poll, "merged")'
    OBVIOUS
  <2>1. Knows(t) /\ t.pc = "generate"
    BY DEF Claims, Generate
  <2>2. Reached(t.poll, "merged") /\ UNCHANGED stage
    BY <2>1 DEF Knows, AfterMerge, Generate
  <2> QED
    BY <2>2 DEF Reached
<1>5. /\ tasks' = Goto(t, "saveGenerated") /\ proofFiles' = t.poll
      /\ UNCHANGED <<redis, pending, listed, restoring>>
  BY DEF Generate
<1> QED
  BY <1>1, <1>2, <1>3, <1>4, <1>5, GotoKeeps

LEMMA SaveGeneratedKeeps ==
    ASSUME Inv, NEW t \in tasks, SaveGenerated(t)
    PROVE  Inv' /\ (Claims => Claims')
<1>1. /\ OthersOK /\ Grows /\ t \in TaskRecs /\ t.poll \in Polls /\ "submit" \in Pcs
  BY OthersSame, CountersSame, TaskFacts DEF SaveGenerated, Pcs, Finalizing
<1>2. PICK rec \in Rec : /\ rec = [merged |-> TRUE, proofsGenerated |-> TRUE]
                        /\ rec.merged /\ rec.proofsGenerated
  <2>1. [merged |-> TRUE, proofsGenerated |-> TRUE] \in Rec
    BY DEF Rec
  <2>2. PICK rec \in Rec : rec = [merged |-> TRUE, proofsGenerated |-> TRUE]
    BY <2>1
  <2> QED
    BY <2>2
<1>3. PICK u \in TaskRecs : /\ u = [t EXCEPT !.rec = rec, !.pc = "submit"]
                           /\ u.id = t.id /\ u.poll = t.poll /\ u.pc = "submit" /\ u.rec = rec
  <2> DEFINE v == [t EXCEPT !.rec = rec, !.pc = "submit"]
  <2>1. v \in TaskRecs /\ v.id = t.id /\ v.poll = t.poll /\ v.pc = "submit" /\ v.rec = rec
    BY <1>1 DEF TaskRecs
  <2>2. v = [t EXCEPT !.rec = rec, !.pc = "submit"]
    OBVIOUS
  <2> HIDE DEF v
  <2> QED
    BY <2>1, <2>2
<1>4. /\ tasks' = Moved(t, u) /\ redis' = Set(t.poll, rec)
      /\ UNCHANGED <<pending, listed, restoring>>
  BY <1>2, <1>3 DEF SaveGenerated
<1>5. ASSUME Claims
      PROVE  Truthful(t.poll, rec)' /\ Truthful(u.poll, u.rec)' /\ Knows(u)'
  <2>1. Reached(t.poll, "merged") /\ proofFiles = t.poll
    BY <1>5 DEF Claims, Knows, SaveGenerated, AfterMerge, AfterGeneration
  <2>2. Reached(t.poll, "merged")' /\ proofFiles' = t.poll
    BY <2>1 DEF SaveGenerated, Reached, disk
  <2> QED
    BY <1>2, <1>3, <2>2 DEF Truthful, Knows
<1> QED
  BY <1>1, <1>2, <1>3, <1>4, <1>5, WritesKeeps

LEMMA OpenProofsKeeps ==
    ASSUME Inv, NEW t \in tasks, OpenProofs(t)
    PROVE  Inv' /\ (Claims => Claims')
<1>1. OthersOK /\ Grows /\ "process" \in Pcs
  BY OthersSame, CountersSame DEF OpenProofs, Pcs, Finalizing
<1>2. ASSUME Claims
      PROVE  Reached(t.poll, "merged")' /\ proofFiles' = t.poll
  <2>1. Reached(t.poll, "merged") /\ proofFiles = t.poll
    BY <1>2 DEF Claims, Knows, OpenProofs, AfterMerge, AfterGeneration
  <2> QED
    BY <2>1 DEF OpenProofs, Reached, disk
<1> QED
  BY <1>1, <1>2, GotoKeeps DEF OpenProofs

LEMMA SubmitKeeps ==
    ASSUME Inv, NEW t \in tasks, Submit(t)
    PROVE  Inv' /\ (Claims => Claims')
<1>1. /\ t.poll \in Polls /\ t.rec \in Rec
      /\ {"processing", "tallied", "finalized"} \subseteq Late
      /\ {"tally", "results"} \subseteq Pcs /\ "done" \in Kinds
  BY TaskFacts DEF Late, Pcs, Finalizing, Kinds
<1>2. /\ {requests', faults', crashes'} \subseteq Nat
      /\ UNCHANGED <<redis, restoring, disk, asked>>
  BY CountersSame DEF Submit
<1>3. ASSUME NEW s \in Late, NEW pc \in {"tally", "results"}, t.pc \in {"process", "tally"},
             stage' = [stage EXCEPT ![t.poll] = s], tasks' = Goto(t, pc),
             UNCHANGED <<listed, pending>>
      PROVE  Inv' /\ (Claims => Claims')
  <2>1. OthersOK /\ Grows /\ Reached(t.poll, "merged")'
    BY <1>1, <1>2, <1>3, StageGrows
  <2>2. Claims => proofFiles' = t.poll
    BY <1>2, <1>3 DEF Claims, Knows, AfterGeneration, disk
  <2> QED
    BY <1>1, <1>2, <1>3, <2>1, <2>2, GotoKeeps
<1>4. ASSUME stage' = [stage EXCEPT ![t.poll] = "finalized"], Reschedule(t, "done", t.rec)
      PROVE  Inv' /\ (Claims => Claims')
  <2>1. OthersOK /\ Grows
    BY <1>1, <1>2, <1>4, StageGrows
  <2>2. Claims => Truthful(t.poll, t.rec)
    BY DEF Claims, RecordNeverAhead
  <2>3. Claims => Truthful(t.poll, t.rec)'
    BY <1>1, <2>1, <2>2, Kept
  <2> QED
    BY <1>1, <1>2, <1>4, <2>1, <2>3, RescheduleKeeps
<1> QED
  BY <1>1, <1>3, <1>4 DEF Submit

(* What a failure leaves in the record is what the step that failed relied on. *)
LEMMA StepFailsKeeps ==
    ASSUME Inv, NEW t \in tasks, StepFails(t)
    PROVE  Inv' /\ (Claims => Claims')
<1>1. {requests', faults', crashes'} \subseteq Nat
  BY CountersSame DEF StepFails
<1>2. /\ OthersOK /\ Grows /\ "retry" \in Kinds /\ t.poll \in Polls /\ t.rec \in Rec
      /\ t.rec.proofsGenerated \in BOOLEAN
  BY <1>1, OthersSame, TaskFacts DEF StepFails, Kinds
<1>3. t.pc \in {"merge", "generate", "submit", "process", "tally", "results"}
  BY DEF StepFails
<1>4. ASSUME Claims
      PROVE  Truthful(t.poll, t.rec) /\ Knows(t)
  BY <1>4 DEF Claims, RecordNeverAhead
<1>5. PICK rec \in Rec : rec = RecAfterFailure(t) /\ (Claims => Truthful(t.poll, rec))
  <2>1. CASE t.pc = "merge"
    <3>1. RecAfterFailure(t) = t.rec
      BY <2>1 DEF RecAfterFailure
    <3> QED
      BY <1>2, <1>4, <3>1
  <2>2. CASE t.pc = "generate"
    <3>1. RecAfterFailure(t) = [t.rec EXCEPT !.merged = TRUE]
      BY <2>2 DEF RecAfterFailure
    <3>2. [t.rec EXCEPT !.merged = TRUE] \in Rec
      BY <1>2 DEF Rec
    <3>3. PICK rec \in Rec : rec = [t.rec EXCEPT !.merged = TRUE]
      BY <3>2
    <3>4. rec.merged /\ rec.proofsGenerated = t.rec.proofsGenerated
      BY <1>2, <3>3 DEF Rec
    <3>5. Claims => Truthful(t.poll, rec)
      BY <1>4, <2>2, <3>4 DEF Truthful, Knows, AfterMerge
    <3> QED
      BY <3>1, <3>3, <3>5
  <2>3. CASE t.pc \in {"submit", "process", "tally", "results"}
    <3>1. RecAfterFailure(t) = [merged |-> TRUE, proofsGenerated |-> TRUE]
      BY <2>3 DEF RecAfterFailure
    <3>2. [merged |-> TRUE, proofsGenerated |-> TRUE] \in Rec
      BY DEF Rec
    <3>3. PICK rec \in Rec : rec = [merged |-> TRUE, proofsGenerated |-> TRUE]
      BY <3>2
    <3>4. rec.merged /\ rec.proofsGenerated
      BY <3>3
    <3>5. Claims => Truthful(t.poll, rec)
      BY <1>4, <2>3, <3>4 DEF Truthful, Knows, AfterMerge, AfterGeneration
    <3> QED
      BY <3>1, <3>3, <3>5
  <2> QED
    BY <1>3, <2>1, <2>2, <2>3
<1>6. Claims => Truthful(t.poll, rec)'
  BY <1>2, <1>5, Kept
<1>7. Reschedule(t, "retry", rec) /\ UNCHANGED <<redis, restoring>>
  BY <1>5 DEF StepFails
<1> QED
  BY <1>2, <1>6, <1>7, RescheduleKeeps

LEMMA DelKeeps ==
    ASSUME Inv, NEW t \in tasks, Del(t)
    PROVE  Inv' /\ (Claims => Claims')
<1>1. OthersOK /\ Grows /\ "put" \in Pcs \ AfterMerge
  BY OthersSame, CountersSame DEF Del, Pcs, AfterMerge, AfterGeneration
<1>2. /\ tasks' = Goto(t, "put") \/ tasks' = Ended(t)
      /\ redis' = Erased(t.poll) /\ UNCHANGED <<pending, listed, restoring>>
  BY DEF Del
<1> QED
  BY <1>1, <1>2, ErasesKeeps

LEMMA PutKeeps ==
    ASSUME Inv, NEW t \in tasks, Put(t)
    PROVE  Inv' /\ (Claims => Claims')
<1>1. /\ OthersOK /\ Grows /\ "arm" \in Pcs /\ "arm" \notin AfterMerge
      /\ t \in TaskRecs /\ t.poll \in Polls /\ t.rec \in Rec
  BY OthersSame, CountersSame, TaskFacts DEF Put, Pcs, AfterMerge, AfterGeneration
<1>2. PICK u \in TaskRecs : /\ u = [t EXCEPT !.pc = "arm"]
                           /\ u.id = t.id /\ u.poll = t.poll /\ u.pc = "arm" /\ u.rec = t.rec
  BY <1>1, TaskGoes
<1>3. PICK rec \in Rec : rec = t.rec
  BY <1>1
<1>4. /\ tasks' = Moved(t, u) /\ redis' = Set(t.poll, rec)
      /\ UNCHANGED <<pending, listed, restoring>>
  BY <1>2, <1>3 DEF Put, Goto
<1>5. ASSUME Claims
      PROVE  Truthful(t.poll, rec)' /\ Truthful(u.poll, u.rec)' /\ Knows(u)'
  <2>1. Truthful(t.poll, rec)
    BY <1>3, <1>5 DEF Claims, RecordNeverAhead
  <2>2. Truthful(t.poll, rec)'
    BY <1>1, <1>5, <2>1, Kept
  <2> QED
    BY <1>1, <1>2, <1>3, <2>2 DEF Truthful, Knows, AfterMerge
<1> QED
  BY <1>1, <1>2, <1>4, <1>5, WritesKeeps

LEMMA ArmKeeps ==
    ASSUME Inv, NEW t \in tasks, Arm(t)
    PROVE  Inv' /\ (Claims => Claims')
<1>1. /\ t \in TaskRecs /\ t.poll \in Polls /\ t.rec \in Rec
      /\ {requests', faults', crashes'} \subseteq Nat
      /\ UNCHANGED <<stage, redis, disk>>
  BY TaskFacts, CountersSame DEF Arm
<1>2. CASE t.poll \in listed /\ t.kind = "finalize"
  BY <1>1, <1>2, RestartKeeps DEF Arm
<1>3. CASE ~(t.poll \in listed /\ t.kind = "finalize")
  <2> DEFINE timer == [poll |-> t.poll, rec |-> t.rec, listed |-> t.poll \notin listed]
  <2>1. PICK x \in Timers : x = timer /\ x.poll = t.poll /\ x.rec = t.rec
    <3>1. timer \in Timers /\ timer.poll = t.poll /\ timer.rec = t.rec
      BY <1>1 DEF Timers
    <3> HIDE DEF timer
    <3> QED
      BY <3>1
  <2>2. /\ pending' = pending \cup {x} /\ listed' = listed \cup {t.poll}
        /\ tasks' = Ended(t) /\ asked' \subseteq asked \cup {t.poll}
        /\ UNCHANGED restoring
    BY <1>3, <2>1 DEF Arm
  <2>3. OthersOK /\ Grows
    BY <1>1, <2>2 DEF Inv, TypeOK, OthersOK, Grows, disk
  <2>4. Moves(t, {}, {}, {x})
    BY <1>1, <2>2 DEF Moves, Ended
  <2>5. /\ {} \in SUBSET TaskRecs /\ {} \in SUBSET Rec /\ {x} \in SUBSET Timers
        /\ \A v \in {} : v.id = t.id /\ v.poll = t.poll
        /\ \A v, w \in {} : v = w
        /\ \A y \in {x} : y.poll = t.poll
    BY <2>1
  <2>6. Inv'
    BY <2>3, <2>4, <2>5, TaskMoves
  <2>7. ASSUME Claims
        PROVE  Claims'
    <3>1. Truthful(t.poll, t.rec)
      BY <2>7 DEF Claims, RecordNeverAhead
    <3>2. Truthful(t.poll, t.rec)'
      BY <1>1, <2>3, <3>1, Kept
    <3>3. Truthful(x.poll, x.rec)'
      BY <2>1, <3>2 DEF Truthful
    <3>4. /\ \A v \in {} : Truthful(v.poll, v.rec)' /\ Knows(v)'
          /\ \A r \in {} : Truthful(t.poll, r)'
          /\ \A y \in {x} : Truthful(y.poll, y.rec)'
      BY <3>3
    <3> QED
      BY <2>3, <2>4, <2>5, <2>7, <3>4, TaskClaims
  <2> QED
    BY <2>6, <2>7
<1> QED
  BY <1>2, <1>3

(* The steps of a request and of a restoration before they write. *)
LEMMA AskKeeps ==
    ASSUME Inv, NEW t \in tasks, Ask(t)
    PROVE  Inv' /\ (Claims => Claims')
<1>1. OthersOK /\ Grows /\ "check" \in Pcs /\ "check" \notin AfterMerge /\ "check" \notin AfterGeneration
  BY OthersSame, CountersSame DEF Ask, Pcs, AfterMerge, AfterGeneration
<1>2. tasks' = Goto(t, "check") \/ tasks' = Ended(t)
  BY DEF Ask
<1> QED
  BY <1>1, <1>2, GotoKeeps, EndsKeeps DEF Ask

LEMMA CheckKeeps ==
    ASSUME Inv, NEW t \in tasks, Check(t)
    PROVE  Inv' /\ (Claims => Claims')
<1>1. /\ OthersOK /\ Grows /\ "delete" \in Kinds /\ t.poll \in Polls /\ t.rec \in Rec
      /\ "lookup" \in Pcs /\ "lookup" \notin AfterMerge /\ "lookup" \notin AfterGeneration
  BY OthersSame, CountersSame, TaskFacts DEF Check, Kinds, Pcs, AfterMerge, AfterGeneration
<1>2. Claims => Truthful(t.poll, t.rec)
  BY DEF Claims, RecordNeverAhead
<1>3. Claims => Truthful(t.poll, t.rec)'
  BY <1>1, <1>2, Kept
<1> QED
  BY <1>1, <1>3, GotoKeeps, RescheduleKeeps DEF Check

LEMMA LookupKeeps ==
    ASSUME Inv, NEW t \in tasks, Lookup(t)
    PROVE  Inv' /\ (Claims => Claims')
<1>1. /\ OthersOK /\ Grows /\ {"put", "forget"} \subseteq Pcs
      /\ \A pc \in {"put", "forget"} : pc \notin AfterMerge /\ pc \notin AfterGeneration
  BY OthersSame, CountersSame DEF Lookup, Pcs, AfterMerge, AfterGeneration
<1>2. (\E pc \in {"put", "forget"} : tasks' = Goto(t, pc)) \/ tasks' = Ended(t)
  <2>1. CASE t.poll \notin Stored
    BY <2>1 DEF Lookup, AfterLookup
  <2>2. CASE t.poll \in Stored \ listed
    BY <2>2 DEF Lookup
  <2>3. CASE t.poll \in Stored /\ t.poll \in listed
    BY <2>3 DEF Lookup
  <2> QED
    BY <2>1, <2>2, <2>3
<1>3. UNCHANGED <<redis, pending, listed, restoring>>
  BY DEF Lookup
<1>4. ASSUME NEW pc \in {"put", "forget"}, tasks' = Goto(t, pc)
      PROVE  Inv' /\ (Claims => Claims')
  <2>1. pc \in Pcs /\ pc \notin AfterMerge /\ pc \notin AfterGeneration
    BY <1>1
  <2> QED
    BY <1>1, <1>3, <1>4, <2>1, GotoKeeps
<1> QED
  BY <1>1, <1>2, <1>3, <1>4, EndsKeeps

LEMMA ForgetKeeps ==
    ASSUME Inv, NEW t \in tasks, Forget(t)
    PROVE  Inv' /\ (Claims => Claims')
<1>1. OthersOK /\ Grows /\ "put" \in Pcs \ AfterMerge
  BY OthersSame, CountersSame DEF Forget, Pcs, AfterMerge, AfterGeneration
<1>2. /\ tasks' = Goto(t, "put") \/ tasks' = Ended(t)
      /\ redis' = Erased(t.poll) /\ UNCHANGED <<pending, listed, restoring>>
  BY DEF Forget, AfterLookup
<1> QED
  BY <1>1, <1>2, ErasesKeeps

LEMMA RestoreCheckKeeps ==
    ASSUME Inv, NEW t \in tasks, RestoreCheck(t)
    PROVE  Inv' /\ (Claims => Claims')
<1>1. {requests', faults', crashes'} \subseteq Nat
  BY CountersSame DEF RestoreCheck
<1>2. /\ OthersOK /\ Grows /\ "delete" \in Kinds /\ t.poll \in Polls /\ t.rec \in Rec
      /\ "put" \in Pcs /\ "put" \notin AfterMerge /\ "put" \notin AfterGeneration
  BY <1>1, OthersSame, TaskFacts DEF RestoreCheck, Kinds, Pcs, AfterMerge, AfterGeneration
<1>3. Claims => Truthful(t.poll, t.rec)
  BY DEF Claims, RecordNeverAhead
<1>4. Claims => Truthful(t.poll, t.rec)'
  BY <1>2, <1>3, Kept
<1> QED
  BY <1>2, <1>4, GotoKeeps, EndsKeeps, RescheduleKeeps DEF RestoreCheck

(* The chain's clock, the timers, the start of the process, the requests and the crashes. *)
LEMMA PassKeeps ==
    ASSUME Inv, NEW p \in Polls, Pass(p)
    PROVE  Inv' /\ (Claims => Claims')
<1>1. /\ stage' \in [Polls -> StageSet]
      /\ stage[p] \notin Late /\ \A q \in Polls : q # p => stage'[q] = stage[q]
  <2>1. {"near", "ended"} \subseteq StageSet /\ {"far", "near"} \cap Late = {}
    BY DEF StageSet, Stages, Late
  <2> QED
    BY <2>1 DEF Pass, Inv, TypeOK
<1>2. OthersOK /\ Grows
  BY <1>1 DEF Pass, Inv, TypeOK, OthersOK, Grows, disk, counters
<1> QED
  BY <1>2, ServiceSame DEF Pass

LEMMA FireKeeps ==
    ASSUME Inv, NEW x \in pending, Fire(x)
    PROVE  Inv' /\ (Claims => Claims')
<1>1. /\ OthersOK /\ Grows /\ x.poll \in Polls /\ x.rec \in Rec
      /\ "finalize" \in Kinds /\ "read" \in Pcs /\ "read" \notin AfterMerge
  BY OthersSame, CountersSame
     DEF Fire, Inv, TypeOK, Kinds, Pcs, Finalizing, AfterMerge, AfterGeneration
<1>2. x.poll \notin restoring
  BY DEF Inv, Quiet
<1>3. Claims => Truthful(x.poll, x.rec)
  BY DEF Claims, RecordNeverAhead
<1>4. /\ FreeIds # {} /\ tasks' = Spawned(x.poll, "finalize", "read", x.rec)
      /\ redis' = redis /\ pending' \subseteq pending /\ listed' \subseteq listed
      /\ restoring' \subseteq restoring \ {x.poll}
  BY <1>2 DEF Fire
<1> QED
  BY <1>1, <1>3, <1>4, SpawnKeeps

LEMMA RestoreKeeps ==
    ASSUME Inv, NEW p \in restoring, Restore(p)
    PROVE  Inv' /\ (Claims => Claims')
<1>1. /\ OthersOK /\ Grows /\ p \in Polls /\ p \in Stored /\ redis[p] \in Rec
      /\ "restore" \in Kinds /\ "restore" \in Pcs /\ "restore" \notin AfterMerge
  BY OthersSame, CountersSame
     DEF Restore, Inv, TypeOK, Quiet, Kinds, Pcs, AfterMerge, AfterGeneration
<1>2. PICK rec \in Rec : rec = redis[p]
  BY <1>1
<1>3. Claims => Truthful(p, rec)
  BY <1>1, <1>2 DEF Claims, RecordNeverAhead
<1>4. /\ FreeIds # {} /\ tasks' = Spawned(p, "restore", "restore", rec)
      /\ redis' = redis /\ pending' \subseteq pending /\ listed' \subseteq listed
      /\ restoring' \subseteq restoring \ {p}
  BY <1>2 DEF Restore
<1> QED
  BY <1>1, <1>3, <1>4, SpawnKeeps

LEMMA RequestKeeps ==
    ASSUME Inv, NEW p \in Polls, NEW kind \in {"register", "status", "delete"}, Request(p, kind)
    PROVE  Inv' /\ (Claims => Claims')
<1>1. PICK pc \in {"ask", "check", "del"} : tasks' = Spawned(p, kind, pc, NewRec)
  BY DEF Request
<1>2. kind \in Kinds /\ pc \in Pcs /\ pc \notin AfterMerge
  BY <1>1 DEF Kinds, Pcs, AfterMerge, AfterGeneration
<1>3. NewRec \in Rec /\ Truthful(p, NewRec)
  BY DEF NewRec, Rec, Truthful
<1>4. OthersOK /\ Grows
  <2>1. {requests', faults', crashes'} \subseteq Nat /\ asked' \subseteq asked
    BY CountersSame DEF Request
  <2> QED
    BY <2>1 DEF Request, Inv, TypeOK, OthersOK, Grows, disk
<1>5. /\ FreeIds # {} /\ redis' = redis
      /\ pending' \subseteq pending /\ listed' \subseteq listed
      /\ restoring' \subseteq restoring \ {p}
  BY DEF Request, Unlist
<1> QED
  BY <1>1, <1>2, <1>3, <1>4, <1>5, SpawnKeeps

LEMMA CrashKeeps ==
    ASSUME Inv, Crash
    PROVE  Inv' /\ (Claims => Claims')
  BY CountersSame, RestartKeeps DEF Crash

-----------------------------------------------------------------------------
(* Every step of the service keeps the invariant and, of one poll, the claims. *)
LEMMA StepKeeps ==
    ASSUME Inv, [Next]_vars
    PROVE  Inv' /\ (OnePoll /\ Claims => Claims')
<1>1. ASSUME NEW t \in tasks, Step(t)
      PROVE  Inv' /\ (OnePoll /\ Claims => Claims')
  BY <1>1, ReadKeeps, MergeDoneKeeps, SaveMergedKeeps, GenerateKeeps, SaveGeneratedKeeps,
     OpenProofsKeeps, SubmitKeeps, StepFailsKeeps, DelKeeps, PutKeeps, ArmKeeps,
     AskKeeps, CheckKeeps, LookupKeeps, ForgetKeeps, RestoreCheckKeeps DEF Step
<1>2. ASSUME NEW t \in tasks, Fault(t)
      PROVE  Inv' /\ (OnePoll /\ Claims => Claims')
  BY <1>2, ReadFailsKeeps, MergeUnconfirmedKeeps DEF Fault
<1>3. CASE UNCHANGED vars
  <2>1. OthersOK /\ Grows /\ UNCHANGED <<redis, service>>
    BY <1>3, OthersSame, CountersSame DEF vars
  <2> QED
    BY <2>1, ServiceSame
<1> QED
  BY <1>1, <1>2, <1>3, PassKeeps, FireKeeps, RestoreKeeps, RequestKeeps, CrashKeeps DEF Next

LEMMA Start ==
    ASSUME Init
    PROVE  Inv /\ Claims
<1>1. FirstStages \subseteq StageSet
  BY FinalizationAssumption DEF StageSet, Stages
<1>2. redis = <<>> /\ DOMAIN redis = {} /\ redis \in [{} -> Rec]
  BY DEF Init
<1>3. TypeOK
  BY <1>1, <1>2 DEF Init, TypeOK, Stored
<1>4. Quiet
  BY DEF Init, Quiet
<1>5. Claims
  BY <1>2 DEF Init, Claims, RecordNeverAhead, Stored
<1> QED
  BY <1>3, <1>4, <1>5 DEF Inv

(* Type correctness: every record, timer and task the scheduler ever has is of a poll of the
   contract, and no two calls in flight share an identity, whatever fails or crashes. *)
THEOREM TypeCorrect == Spec => []TypeOK
<1>1. Init => Inv
  BY Start
<1>2. Inv /\ [Next]_vars => Inv'
  BY StepKeeps
<1>3. Inv => TypeOK
  BY DEF Inv
<1> QED
  BY <1>1, <1>2, <1>3, PTL DEF Spec

(* With one poll a restart, a retry or a second finalization never finds a record that says
   more was done than was, with any number of calls in flight, requests that overlap them,
   failing calls and crashes at any point. *)
THEOREM RecordNeverAheadHolds ==
    ASSUME OnePoll
    PROVE  Spec => []RecordNeverAhead
<1>1. Init => Inv /\ Claims
  BY Start
<1>2. (Inv /\ Claims) /\ [Next]_vars => (Inv /\ Claims)'
  BY OnePoll, StepKeeps
<1>3. Inv /\ Claims => RecordNeverAhead
  BY DEF Claims
<1> QED
  BY <1>1, <1>2, <1>3, PTL DEF Spec
-----------------------------------------------------------------------------
(* One pursuer.  With requests that do not overlap the service's own work the parts of the
   service that are about one poll keep to this: one task at most, and one timer at most,
   which the registry knows and whose record is stored; while the timer waits, the task is
   a request that has not begun to write; a task about to set the poll up finds it out of
   the registry, and its record stored once it comes to the timer. *)
Asking == {"ask", "check", "lookup"}
Setting == {"restore", "forget", "del", "put", "arm"}

TaskApart(p, t) ==
    /\ t.pc \in Asking => t.kind \in {"register", "status"}
    /\ t.pc \notin Asking => \A x \in pending : x.poll # p
    /\ t.pc \in Setting => p \notin listed
    /\ t.pc = "arm" => p \in Stored /\ redis[p] = t.rec

TimerApart(p, x) == x.listed /\ p \in listed /\ redis[p] = x.rec

ApartOf(p) ==
    /\ \A t, u \in tasks : t.poll = p /\ u.poll = p => t = u
    /\ \A x, y \in pending : x.poll = p /\ y.poll = p => x = y
    /\ p \in listed => p \in Stored /\ p \notin restoring
    /\ \A x \in pending : x.poll = p => TimerApart(p, x)
    /\ \A t \in tasks : t.poll = p => TaskApart(p, t)

Apart == \A p \in Polls : ApartOf(p)

(* What a step about poll p leaves alone. *)
Elsewhere(p) ==
    /\ \A t \in tasks' : t.poll # p => t \in tasks
    /\ \A x \in pending' : x.poll # p => x \in pending
    /\ \A q \in Polls \ {p} : /\ q \in listed' <=> q \in listed
                              /\ q \in restoring' => q \in restoring
                              /\ q \in DOMAIN redis' <=> q \in DOMAIN redis
                              /\ q \in DOMAIN redis => redis'[q] = redis[q]

LEMMA OfOnePoll ==
    ASSUME Apart, NEW p \in Polls, Elsewhere(p), ApartOf(p)'
    PROVE  Apart'
<1> SUFFICES ASSUME NEW q \in Polls, q # p
             PROVE  ApartOf(q)'
  BY DEF Apart
<1>1. ApartOf(q)
  BY DEF Apart
<1>2. /\ q \in listed' <=> q \in listed
      /\ q \in restoring' => q \in restoring
      /\ q \in DOMAIN redis' <=> q \in DOMAIN redis
      /\ q \in DOMAIN redis => redis'[q] = redis[q]
  BY DEF Elsewhere
<1>3. /\ \A t \in tasks' : t.poll = q => t \in tasks
      /\ \A x \in pending' : x.poll = q => x \in pending
  BY DEF Elsewhere
<1>4. \A x \in pending' : x.poll = q => TimerApart(q, x)'
  <2> SUFFICES ASSUME NEW x \in pending', x.poll = q
               PROVE  TimerApart(q, x)'
    OBVIOUS
  <2>1. TimerApart(q, x) /\ q \in DOMAIN redis
    BY <1>1, <1>3 DEF ApartOf, TimerApart, Stored
  <2> QED
    BY <1>2, <2>1 DEF TimerApart
<1>5. \A t \in tasks' : t.poll = q => TaskApart(q, t)'
  <2> SUFFICES ASSUME NEW t \in tasks', t.poll = q
               PROVE  TaskApart(q, t)'
    OBVIOUS
  <2>1. TaskApart(q, t)
    BY <1>1, <1>3 DEF ApartOf
  <2> QED
    BY <1>2, <1>3, <2>1 DEF TaskApart, Stored
<1> QED
  BY <1>1, <1>2, <1>3, <1>4, <1>5 DEF ApartOf, Stored

(* The task of a poll is the only one; it goes on, or ends. *)
LEMMA ItsTask ==
    ASSUME Inv, Apart, NEW t \in tasks
    PROVE  /\ t.poll \in Polls /\ ApartOf(t.poll) /\ TaskApart(t.poll, t)
           /\ t.poll \notin restoring
           /\ \A u \in tasks : u # t => u.poll # t.poll
           /\ \A x \in pending : x.poll = t.poll => TimerApart(t.poll, x)
<1>1. t.poll \in Polls
  BY TaskFacts
<1>2. ApartOf(t.poll)
  BY <1>1 DEF Apart
<1>3. t.poll \notin restoring
  BY DEF Inv, Quiet
<1> QED
  BY <1>1, <1>2, <1>3 DEF ApartOf

LEMMA GoesApart ==
    ASSUME Inv, Apart, NEW t \in tasks, NEW pc \in Pcs, tasks' = Goto(t, pc),
           UNCHANGED <<redis, pending, listed, restoring>>,
           pc \in Asking => t.kind \in {"register", "status"},
           pc \notin Asking => \A x \in pending : x.poll # t.poll,
           pc \in Setting => t.poll \notin listed,
           pc # "arm"
    PROVE  Apart'
<1>1. PICK u \in TaskRecs : /\ u = [t EXCEPT !.pc = pc]
                           /\ u.id = t.id /\ u.poll = t.poll
                           /\ u.kind = t.kind /\ u.pc = pc /\ u.rec = t.rec
  BY TaskFacts, TaskGoes
<1>2. tasks' = (tasks \ {t}) \cup {u}
  BY <1>1 DEF Goto, Moved
<1>3. TaskApart(t.poll, u)'
  BY <1>1 DEF TaskApart
<1>4. ApartOf(t.poll)'
  BY <1>1, <1>2, <1>3, ItsTask DEF ApartOf, TimerApart, Stored
<1>5. Elsewhere(t.poll)
  BY <1>1, <1>2 DEF Elsewhere
<1> QED
  BY <1>4, <1>5, ItsTask, OfOnePoll

LEMMA EndsApart ==
    ASSUME Inv, Apart, NEW t \in tasks, tasks' = Ended(t),
           UNCHANGED <<redis, pending, listed, restoring>>
    PROVE  Apart'
<1>1. tasks' \subseteq tasks
  BY DEF Ended
<1>2. ApartOf(t.poll)'
  BY <1>1, ItsTask DEF ApartOf, TimerApart, TaskApart, Stored
<1>3. Elsewhere(t.poll)
  BY <1>1 DEF Elsewhere
<1> QED
  BY <1>2, <1>3, ItsTask, OfOnePoll

(* Unlisting clears every timer of the poll, for the registry knows them all. *)
LEMMA RescheduleApart ==
    ASSUME Inv, Apart, NEW t \in tasks, NEW kind \in Kinds, NEW rec \in Rec,
           Reschedule(t, kind, rec), UNCHANGED <<redis, restoring>>
    PROVE  Apart'
<1>1. PICK pc \in Pcs : pc = "del"
  BY DEF Pcs
<1>2. PICK u \in TaskRecs : /\ u = Becomes(t, kind, pc, rec)
                           /\ u.id = t.id /\ u.poll = t.poll
                           /\ u.kind = kind /\ u.pc = pc /\ u.rec = rec
  BY TaskFacts, TaskBecomes
<1>3. tasks' = (tasks \ {t}) \cup {u}
  BY <1>1, <1>2, Zenon DEF Becomes, Moved, Reschedule
<1>4. /\ listed' = listed \ {t.poll}
      /\ pending' = {x \in pending : ~(x.poll = t.poll /\ x.listed)}
  BY DEF Reschedule, Unlist
<1>5. \A x \in pending' : x.poll # t.poll
  BY <1>4, ItsTask DEF TimerApart
<1>6. TaskApart(t.poll, u)'
  BY <1>1, <1>2, <1>4, <1>5 DEF TaskApart, Asking, Setting
<1>7. ApartOf(t.poll)'
  BY <1>2, <1>3, <1>4, <1>5, <1>6, ItsTask DEF ApartOf
<1>8. Elsewhere(t.poll)
  BY <1>2, <1>3, <1>4 DEF Elsewhere
<1> QED
  BY <1>7, <1>8, ItsTask, OfOnePoll

(* Only a task that no timer waits beside writes the record, or erases it. *)
LEMMA WritesApart ==
    ASSUME Inv, Apart, NEW t \in tasks, t.pc \notin Asking,
           NEW u \in TaskRecs, u.poll = t.poll, NEW rec \in Rec,
           u.pc \notin Asking,
           u.pc \in Setting => t.poll \notin listed,
           u.pc = "arm" => u.rec = rec,
           redis' = Set(t.poll, rec),
           tasks' = Moved(t, u), UNCHANGED <<pending, listed, restoring>>
    PROVE  Apart'
<1>1. t.poll \in Polls /\ \A x \in pending : x.poll # t.poll
  BY ItsTask DEF TaskApart
<1>2. /\ DOMAIN redis' = DOMAIN redis \cup {t.poll} /\ redis'[t.poll] = rec
      /\ \A q \in DOMAIN redis : q # t.poll => redis'[q] = redis[q]
  BY <1>1, Written
<1>3. tasks' = (tasks \ {t}) \cup {u}
  BY DEF Moved
<1>4. TaskApart(t.poll, u)'
  BY <1>1, <1>2 DEF TaskApart, Stored
<1>5. ApartOf(t.poll)'
  BY <1>1, <1>2, <1>3, <1>4, ItsTask DEF ApartOf, Stored
<1>6. Elsewhere(t.poll)
  BY <1>2, <1>3 DEF Elsewhere
<1> QED
  BY <1>1, <1>5, <1>6, OfOnePoll

LEMMA ErasesApart ==
    ASSUME Inv, Apart, NEW t \in tasks, t.pc \in Setting, redis' = Erased(t.poll),
           tasks' = Goto(t, "put") \/ tasks' = Ended(t),
           UNCHANGED <<pending, listed, restoring>>
    PROVE  Apart'
<1>1. t.pc \notin Asking
  BY DEF Asking, Setting
<1>2. t.poll \in Polls /\ t.poll \notin listed /\ \A x \in pending : x.poll # t.poll
  BY <1>1, ItsTask DEF TaskApart
<1>3. /\ DOMAIN redis' = DOMAIN redis \ {t.poll}
      /\ \A q \in DOMAIN redis \ {t.poll} : redis'[q] = redis[q]
  BY <1>2, ErasedIs
<1>4. PICK pc \in Pcs : pc = "put"
  BY DEF Pcs
<1>5. PICK u \in TaskRecs : /\ u = [t EXCEPT !.pc = pc]
                           /\ u.id = t.id /\ u.poll = t.poll
                           /\ u.kind = t.kind /\ u.pc = pc /\ u.rec = t.rec
  BY TaskFacts, TaskGoes
<1>6. tasks' \subseteq (tasks \ {t}) \cup {u}
  BY <1>4, <1>5 DEF Goto, Moved, Ended
<1>7. TaskApart(t.poll, u)'
  BY <1>2, <1>4, <1>5 DEF TaskApart, Asking
<1>8. ApartOf(t.poll)'
  BY <1>2, <1>5, <1>6, <1>7, ItsTask DEF ApartOf
<1>9. Elsewhere(t.poll)
  BY <1>3, <1>5, <1>6 DEF Elsewhere
<1> QED
  BY <1>2, <1>8, <1>9, OfOnePoll

LEMMA RestartApart ==
    ASSUME Restarted
    PROVE  Apart'
  BY DEF Restarted, Apart, ApartOf

LEMMA SpawnApart ==
    ASSUME Apart, NEW p \in Polls, NEW kind, NEW pc, NEW rec,
           \A t \in tasks : t.poll # p,
           tasks' = Spawned(p, kind, pc, rec), redis' = redis,
           pending' \subseteq pending, restoring' \subseteq restoring,
           \A q \in Polls \ {p} : q \in listed' <=> q \in listed,
           p \in listed' => p \in listed,
           \A x \in pending' : x.poll = p => p \in listed' /\ pc \in Asking,
           pc \in Asking => kind \in {"register", "status"},
           pc \in Setting => p \notin listed',
           pc # "arm"
    PROVE  Apart'
<1>1. PICK u : u = [id |-> CHOOSE i \in FreeIds : TRUE,
                    poll |-> p, kind |-> kind, pc |-> pc, rec |-> rec]
  OBVIOUS
<1>2. tasks' = tasks \cup {u} /\ u.poll = p /\ u.kind = kind /\ u.pc = pc
  BY <1>1 DEF Spawned
<1>3. ApartOf(p)
  BY DEF Apart
<1>4. TaskApart(p, u)'
  BY <1>2 DEF TaskApart
<1>5. ApartOf(p)'
  BY <1>2, <1>3, <1>4 DEF ApartOf, TimerApart, Stored
<1>6. Elsewhere(p)
  BY <1>2 DEF Elsewhere
<1> QED
  BY <1>5, <1>6, OfOnePoll
-----------------------------------------------------------------------------
(* The actions again, for the one pursuer. *)
LEMMA TasksStepApart ==
    ASSUME Inv, Apart, NEW t \in tasks, Step(t)
    PROVE  Apart'
<1> USE DEF Asking, Setting
<1>1. /\ t \in TaskRecs /\ t.poll \in Polls /\ t.kind \in Kinds /\ t.rec \in Rec
      /\ TaskApart(t.poll, t)
      /\ {"merge", "saveMerged", "generate", "saveGenerated", "submit", "process", "tally",
          "results", "check", "lookup", "forget", "put"} \subseteq Pcs
      /\ {"finalize", "retry", "done", "delete"} \subseteq Kinds
  BY TaskFacts, ItsTask DEF Pcs, Finalizing, Kinds
<1>2. ASSUME NEW pc \in {"merge", "saveMerged", "generate", "saveGenerated", "submit",
                         "process", "tally", "results"},
             t.pc \in Finalizing, tasks' = Goto(t, pc),
             UNCHANGED <<redis, pending, listed, restoring>>
      PROVE  Apart'
  BY <1>1, <1>2, GoesApart DEF TaskApart, Finalizing
<1>3. ASSUME NEW kind \in {"finalize", "retry", "done", "delete"}, NEW rec \in Rec,
             Reschedule(t, kind, rec), UNCHANGED <<redis, restoring>>
      PROVE  Apart'
  BY <1>1, <1>3, RescheduleApart
<1>4. ASSUME Read(t)
      PROVE  Apart'
  <2>1. RecFromChain(t) \in Rec
    <3>1. PICK b \in BOOLEAN : b = Reached(t.poll, "merged")
      BY <1>1, ReachedIs
    <3>2. [t.rec EXCEPT !.merged = b] \in Rec
      BY <1>1 DEF Rec
    <3> QED
      BY <3>1, <3>2 DEF RecFromChain
  <2>2. PICK pc \in {"merge", "generate", "submit"} :
           pc = (CASE ~t.rec.merged -> "merge"
                   [] t.rec.merged /\ ~t.rec.proofsGenerated -> "generate"
                   [] OTHER -> "submit")
    <3>1. t.rec.merged \in BOOLEAN /\ t.rec.proofsGenerated \in BOOLEAN
      BY <1>1 DEF Rec
    <3> QED
      BY <3>1
  <2> QED
    BY <1>1, <1>2, <1>3, <1>4, <2>1, <2>2 DEF Read, Finalizing
<1>5. ASSUME MergeDone(t) \/ Generate(t) \/ OpenProofs(t)
      PROVE  Apart'
  BY <1>2, <1>5 DEF MergeDone, Generate, OpenProofs, Finalizing
<1>6. ASSUME SaveMerged(t) \/ SaveGenerated(t)
      PROVE  Apart'
  <2>1. PICK pc \in {"generate", "submit"}, rec \in Rec :
           /\ tasks' = Moved(t, [t EXCEPT !.rec = rec, !.pc = pc])
           /\ redis' = Set(t.poll, rec)
    <3>1. CASE SaveMerged(t)
      <4>1. PICK rec \in Rec : rec = [t.rec EXCEPT !.merged = TRUE]
        <5>1. [t.rec EXCEPT !.merged = TRUE] \in Rec
          BY <1>1 DEF Rec
        <5> QED
          BY <5>1
      <4>2. PICK pc \in {"generate", "submit"} :
               pc = (IF t.rec.proofsGenerated THEN "submit" ELSE "generate")
        OBVIOUS
      <4>3. [t EXCEPT !.rec.merged = TRUE, !.pc = pc] = [t EXCEPT !.rec = rec, !.pc = pc]
        BY <1>1, <4>1 DEF TaskRecs
      <4> QED
        BY <3>1, <4>1, <4>2, <4>3 DEF SaveMerged
    <3>2. CASE SaveGenerated(t)
      <4>1. PICK rec \in Rec : rec = [merged |-> TRUE, proofsGenerated |-> TRUE]
        <5>1. [merged |-> TRUE, proofsGenerated |-> TRUE] \in Rec
          BY DEF Rec
        <5> QED
          BY <5>1
      <4> QED
        BY <3>2, <4>1 DEF SaveGenerated
    <3> QED
      BY <1>6, <3>1, <3>2
  <2>2. PICK u \in TaskRecs : /\ u = [t EXCEPT !.rec = rec, !.pc = pc]
                             /\ u.poll = t.poll /\ u.pc = pc
    <3> DEFINE v == [t EXCEPT !.rec = rec, !.pc = pc]
    <3>1. v \in TaskRecs /\ v.poll = t.poll /\ v.pc = pc
      BY <1>1, <2>1 DEF TaskRecs
    <3>2. v = [t EXCEPT !.rec = rec, !.pc = pc]
      OBVIOUS
    <3> HIDE DEF v
    <3> QED
      BY <3>1, <3>2
  <2>3. t.pc \notin Asking /\ UNCHANGED <<pending, listed, restoring>>
    BY <1>6 DEF SaveMerged, SaveGenerated
  <2> QED
    BY <2>1, <2>2, <2>3, WritesApart
<1>7. ASSUME Submit(t)
      PROVE  Apart'
  BY <1>1, <1>2, <1>3, <1>7 DEF Submit, Finalizing
<1>8. ASSUME StepFails(t)
      PROVE  Apart'
  <2>1. RecAfterFailure(t) \in Rec
    BY <1>1 DEF RecAfterFailure, Rec
  <2> QED
    BY <1>3, <1>8, <2>1 DEF StepFails
<1>9. ASSUME Del(t) \/ Forget(t)
      PROVE  Apart'
  BY <1>9, ErasesApart DEF Del, Forget, AfterLookup
<1>10. ASSUME Put(t)
       PROVE  Apart'
  <2>1. PICK pc \in Pcs : pc = "arm"
    BY DEF Pcs
  <2>2. PICK u \in TaskRecs : /\ u = [t EXCEPT !.pc = pc]
                             /\ u.poll = t.poll /\ u.pc = pc /\ u.rec = t.rec
    BY <1>1, TaskGoes
  <2>3. PICK rec \in Rec : rec = t.rec
    BY <1>1
  <2>4. /\ tasks' = Moved(t, u) /\ redis' = Set(t.poll, rec)
        /\ t.pc = "put" /\ UNCHANGED <<pending, listed, restoring>>
    BY <1>10, <2>1, <2>2, <2>3 DEF Put, Goto
  <2> QED
    BY <1>1, <2>1, <2>2, <2>3, <2>4, WritesApart DEF TaskApart
<1>11. ASSUME Arm(t)
       PROVE  Apart'
  <2>1. /\ t.pc = "arm" /\ t.poll \notin listed /\ t.poll \in Stored /\ redis[t.poll] = t.rec
        /\ \A x \in pending : x.poll # t.poll
        /\ UNCHANGED redis
    BY <1>1, <1>11 DEF Arm, TaskApart
  <2>2. PICK x : x = [poll |-> t.poll, rec |-> t.rec, listed |-> TRUE]
    OBVIOUS
  <2>3. /\ pending' = pending \cup {x} /\ listed' = listed \cup {t.poll}
        /\ tasks' = tasks \ {t} /\ UNCHANGED restoring
    BY <1>11, <2>1, <2>2 DEF Arm, Ended
  <2>4. ApartOf(t.poll)'
    <3>1. x.poll = t.poll /\ TimerApart(t.poll, x)'
      BY <2>1, <2>2, <2>3 DEF TimerApart
    <3>2. /\ \A y \in pending' : y.poll = t.poll => y = x
          /\ \A u \in tasks' : u.poll # t.poll
      BY <2>1, <2>3, ItsTask
    <3>3. t.poll \in DOMAIN redis' /\ t.poll \notin restoring'
      BY <2>1, <2>3, ItsTask DEF Stored
    <3> QED
      BY <3>1, <3>2, <3>3 DEF ApartOf, Stored
  <2>5. Elsewhere(t.poll)
    BY <2>1, <2>2, <2>3 DEF Elsewhere
  <2> QED
    BY <1>1, <2>4, <2>5, OfOnePoll
<1>12. ASSUME Ask(t) \/ Check(t) \/ Lookup(t) \/ RestoreCheck(t)
       PROVE  Apart'
  <2>1. ASSUME NEW pc \in {"check", "lookup"}, t.pc \in Asking, tasks' = Goto(t, pc),
               UNCHANGED <<redis, pending, listed, restoring>>
        PROVE  Apart'
    BY <1>1, <2>1, GoesApart DEF TaskApart
  <2>2. ASSUME NEW pc \in {"forget", "put"}, t.poll \notin listed, tasks' = Goto(t, pc),
               UNCHANGED <<redis, pending, listed, restoring>>
        PROVE  Apart'
    <3>1. \A x \in pending : x.poll # t.poll
      BY <2>2, ItsTask DEF TimerApart
    <3> QED
      BY <1>1, <2>2, <3>1, GoesApart
  <2>3. CASE Ask(t)
    BY <2>1, <2>3, EndsApart DEF Ask
  <2>4. CASE Check(t)
    BY <1>1, <1>3, <2>1, <2>4 DEF Check
  <2>5. CASE Lookup(t)
    <3>1. t.poll \notin Stored => t.poll \notin listed
      BY ItsTask DEF ApartOf
    <3>2. \/ t.poll \notin listed /\ \E pc \in {"forget", "put"} : tasks' = Goto(t, pc)
          \/ tasks' = Ended(t)
      <4>1. CASE t.poll \notin Stored
        BY <2>5, <3>1, <4>1 DEF Lookup, AfterLookup
      <4>2. CASE t.poll \in Stored \ listed
        BY <2>5, <4>2 DEF Lookup
      <4>3. CASE t.poll \in Stored /\ t.poll \in listed
        BY <2>5, <4>3 DEF Lookup
      <4> QED
        BY <4>1, <4>2, <4>3
    <3> QED
      BY <2>2, <2>5, <3>2, EndsApart DEF Lookup
  <2>6. CASE RestoreCheck(t)
    BY <1>1, <1>3, <2>2, <2>6, EndsApart DEF RestoreCheck, TaskApart
  <2> QED
    BY <1>12, <2>3, <2>4, <2>5, <2>6
<1> QED
  BY <1>4, <1>5, <1>6, <1>7, <1>8, <1>9, <1>10, <1>11, <1>12 DEF Step

(* The other steps.  Here it matters that requests keep apart: a timer runs when no request
   is under way, and a request comes when no task is. *)
LEMMA OthersApart ==
    ASSUME Inv, Apart, Overlap = FALSE, [Next]_vars, ~\E t \in tasks : Step(t)
    PROVE  Apart'
<1> USE DEF Asking, Setting
<1>1. ASSUME NEW t \in tasks, Fault(t)
      PROVE  Apart'
  <2>1. CASE ReadFails(t)
    BY <2>1, RestartApart DEF ReadFails
  <2>2. CASE MergeUnconfirmed(t)
    <3>1. "retry" \in Kinds /\ t.rec \in Rec
      BY TaskFacts DEF Kinds
    <3> QED
      BY <2>2, <3>1, RescheduleApart DEF MergeUnconfirmed
  <2> QED
    BY <1>1, <2>1, <2>2 DEF Fault
<1>2. ASSUME NEW p \in Polls, Pass(p)
      PROVE  Apart'
  BY <1>2 DEF Pass, service, Apart, ApartOf, TaskApart, TimerApart, Stored
<1>3. ASSUME NEW x \in pending, Fire(x)
      PROVE  Apart'
  <2>1. x.poll \in Polls /\ ApartOf(x.poll)
    BY DEF Inv, TypeOK, Apart
  <2>2. \A t \in tasks : t.poll # x.poll
    BY <1>3, <2>1 DEF Fire, ApartOf, TaskApart
  <2>3. \A y \in pending' : y.poll # x.poll
    BY <1>3, <2>1 DEF Fire, ApartOf
  <2>4. /\ tasks' = Spawned(x.poll, "finalize", "read", x.rec)
        /\ pending' \subseteq pending /\ UNCHANGED <<redis, listed, restoring>>
    BY <1>3 DEF Fire
  <2> QED
    BY <2>1, <2>2, <2>3, <2>4, SpawnApart
<1>4. ASSUME NEW p \in restoring, Restore(p)
      PROVE  Apart'
  <2>1. /\ p \in Polls /\ p \notin listed
        /\ \A t \in tasks : t.poll # p
        /\ \A x \in pending : x.poll # p
    BY DEF Inv, TypeOK, Quiet, Apart, ApartOf
  <2>2. /\ tasks' = Spawned(p, "restore", "restore", redis[p])
        /\ restoring' \subseteq restoring /\ UNCHANGED <<redis, listed, pending>>
    BY <1>4 DEF Restore
  <2> QED
    BY <2>1, <2>2, SpawnApart
<1>5. ASSUME NEW p \in Polls, NEW kind \in {"register", "status", "delete"}, Request(p, kind)
      PROVE  Apart'
  <2>1. /\ \A t \in tasks : t.poll # p
        /\ \A x \in pending : x.poll = p => TimerApart(p, x)
    BY <1>5 DEF Request, Apart, ApartOf
  <2>2. UNCHANGED <<redis, restoring>>
    BY <1>5 DEF Request
  <2>3. CASE kind \in {"register", "status"}
    <3>1. PICK pc \in {"ask", "check"} : tasks' = Spawned(p, kind, pc, NewRec)
      BY <1>5, <2>3 DEF Request
    <3>2. UNCHANGED <<listed, pending>>
      BY <1>5, <2>3 DEF Request
    <3> QED
      BY <2>1, <2>2, <2>3, <3>1, <3>2, SpawnApart DEF TimerApart
  <2>4. CASE kind = "delete"
    <3>1. tasks' = Spawned(p, kind, "del", NewRec) /\ Unlist(p)
      BY <1>5, <2>4 DEF Request
    <3> QED
      BY <2>1, <2>2, <3>1, SpawnApart DEF Unlist, TimerApart
  <2> QED
    BY <2>3, <2>4
<1>6. CASE Crash
  BY <1>6, RestartApart DEF Crash
<1>7. CASE UNCHANGED vars
  BY <1>7 DEF vars, service, Apart, ApartOf, TaskApart, TimerApart, Stored
<1> QED
  BY <1>1, <1>2, <1>3, <1>4, <1>5, <1>6, <1>7 DEF Next

(* What it says of a poll: its timers and pursuing tasks are at most one. *)
LEMMA AtMostOne ==
    ASSUME NEW S, \A a, b \in S : a = b
    PROVE  Cardinality(S) \in {0, 1} /\ (S = {} => Cardinality(S) = 0)
<1>1. CASE S = {}
  BY <1>1, FS_EmptySet
<1>2. ASSUME NEW a \in S
      PROVE  Cardinality(S) = 1
  <2>1. S = {a}
    BY <1>2
  <2> QED
    BY <2>1, FS_Singleton
<1> QED
  BY <1>1, <1>2

LEMMA ApartIsOnePursuer ==
    ASSUME Inv, Apart
    PROVE  OneRecordedPursuer
<1>1. OnePursuer
  <2> SUFFICES ASSUME NEW p \in Polls
               PROVE  Cardinality({x \in pending : x.poll = p})
                        + Cardinality({t \in tasks : t.poll = p /\ t.kind \in {"finalize", "retry", "restore"}})
                      <= 1
    BY DEF OnePursuer
  <2> DEFINE X == {x \in pending : x.poll = p}
             T == {t \in tasks : t.poll = p /\ t.kind \in {"finalize", "retry", "restore"}}
  <2>1. ApartOf(p)
    BY DEF Apart
  <2>2. (\A x, y \in X : x = y) /\ (\A t, u \in T : t = u)
    BY <2>1 DEF ApartOf
  <2>3. X = {} \/ T = {}
    BY <2>1 DEF ApartOf, TaskApart
  <2> HIDE DEF X, T
  <2>4. /\ Cardinality(X) \in {0, 1} /\ (X = {} => Cardinality(X) = 0)
        /\ Cardinality(T) \in {0, 1} /\ (T = {} => Cardinality(T) = 0)
    BY <2>2, AtMostOne
  <2>5. Cardinality(X) + Cardinality(T) <= 1
    BY <2>3, <2>4
  <2> QED
    BY <2>5 DEF X, T
<1>2. TimerIsRecorded
  <2>1. ASSUME NEW x \in pending
        PROVE  x.poll \in Polls
    BY DEF Inv, TypeOK
  <2> QED
    BY <2>1 DEF TimerIsRecorded, Apart, ApartOf, TimerApart
<1> QED
  BY <1>1, <1>2 DEF OneRecordedPursuer

(* With requests that keep apart from the service's own work, a poll is pursued by one timer or
   one finalization at a time, and a timer that waits is one a delete and a restart can find:
   for any number of polls and of tasks, whatever calls fail and wherever the process ends. *)
THEOREM OneRecordedPursuerHolds ==
    ASSUME Overlap = FALSE
    PROVE  Spec => []OneRecordedPursuer
<1>1. Init => Inv /\ Apart
  BY Start DEF Init, Apart, ApartOf
<1>2. (Inv /\ Apart) /\ [Next]_vars => (Inv /\ Apart)'
  BY Overlap = FALSE, StepKeeps, TasksStepApart, OthersApart
<1>3. Inv /\ Apart => OneRecordedPursuer
  BY ApartIsOnePursuer
<1> QED
  BY <1>1, <1>2, <1>3, PTL DEF Spec

(* The same of the two regimes that TLC runs together: in the one where requests keep apart,
   every poll is pursued once. *)
THEOREM PursuedOnceHolds ==
    ASSUME Overlap = FALSE
    PROVE  TwoSpec => []PursuedOnce
<1> DEFINE J == ~overlapping => Inv /\ Apart
<1>1. TwoInit => J
  BY Start DEF TwoInit, Init, Apart, ApartOf
<1>2. J /\ [TwoNext]_<<vars, overlapping>> => J'
  <2> SUFFICES ASSUME J, [TwoNext]_<<vars, overlapping>>, ~overlapping'
               PROVE  (Inv /\ Apart)'
    OBVIOUS
  <2>1. ~overlapping /\ [Next]_vars
    BY DEF TwoNext
  <2> QED
    BY <2>1, Overlap = FALSE, StepKeeps, TasksStepApart, OthersApart
<1>3. J => PursuedOnce
  BY ApartIsOnePursuer DEF PursuedOnce
<1> QED
  BY <1>1, <1>2, <1>3, PTL DEF TwoSpec
=============================================================================
