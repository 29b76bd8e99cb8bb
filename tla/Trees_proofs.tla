---------------------------- MODULE Trees_proofs ----------------------------
(***************************************************************************)
(* Proofs about the trees of the sign-ups: the backend's snapshot of one   *)
(* (TreeCache), for any keys, page size and bounds, and the two that the   *)
(* contracts keep (LazyIMT, LeanIMT), for any leaves and any size.         *)
(***************************************************************************)
EXTENDS TreeCache, LazyIMT, LeanIMT, SequenceTheorems, WellFoundedInduction, TLAPS

-----------------------------------------------------------------------------
(* Induction over the numbers, by their least element.                     *)

LEMMA Smallest ==
    ASSUME NEW S \in SUBSET Nat, S # {}
    PROVE  \E n \in S : \A m \in S : n <= m
<1> DEFINE Below == {pair \in Nat \X Nat : pair[1] < pair[2]}
<1>1. IsWellFoundedOn(Below, Nat)
  <2>1. Below = OpToRel(<, Nat)
    BY DEF OpToRel
  <2> QED
    BY <2>1, NatLessThanWellFounded
<1> HIDE DEF Below
<1>2. PICK n \in S : \A m \in S : ~(<<m, n>> \in Below)
  BY <1>1, WFMin
<1>3. ASSUME NEW m \in S
      PROVE  n <= m
  <2>1. ~(<<m, n>> \in Nat \X Nat /\ m < n)
    BY <1>2 DEF Below
  <2> QED
    BY <2>1
<1> QED
  BY <1>3

LEMMA Induction ==
    ASSUME NEW S \in SUBSET Nat, 0 \in S, \A n \in S : n + 1 \in S
    PROVE  S = Nat
<1> SUFFICES ASSUME Nat \ S # {}
             PROVE  FALSE
  OBVIOUS
<1>1. PICK n \in Nat \ S : \A m \in Nat \ S : n <= m
  BY Smallest
<1>2. n # 0 /\ n - 1 \in S
  BY <1>1
<1> QED
  BY <1>1, <1>2

-----------------------------------------------------------------------------
(* The keys that the blocks of a chain sign up.                            *)

Blocks == Seq(Keys \cup {NoOne})

\* f has the keys of each of the first blocks.
IsKeysOf(f, blocks) ==
    f = [n \in 0..Len(blocks) |->
            IF n = 0 THEN <<>>
            ELSE IF blocks[n] = NoOne THEN f[n - 1] ELSE Append(f[n - 1], blocks[n])]

LEMMA KeysExist == \A blocks \in Blocks : \E f : IsKeysOf(f, blocks)
<1> DEFINE S == {n \in Nat : \A blocks \in Blocks : Len(blocks) = n => \E f : IsKeysOf(f, blocks)}
<1>1. 0 \in S
  <2> SUFFICES ASSUME NEW blocks \in Blocks, Len(blocks) = 0
               PROVE  IsKeysOf([n \in {0} |-> <<>>], blocks)
    OBVIOUS
  <2> QED
    BY DEF IsKeysOf
<1>2. ASSUME NEW n \in S
      PROVE  n + 1 \in S
  <2> SUFFICES ASSUME NEW blocks \in Blocks, Len(blocks) = n + 1
               PROVE  \E f : IsKeysOf(f, blocks)
    OBVIOUS
  <2> DEFINE front == SubSeq(blocks, 1, n)
  <2>1. front \in Blocks /\ Len(front) = n /\ \A i \in 1..n : front[i] = blocks[i]
    BY DEF Blocks
  <2>2. PICK f : IsKeysOf(f, front)
    BY <2>1
  <2> HIDE DEF front
  <2> DEFINE g == [i \in 0..(n + 1) |-> IF i <= n THEN f[i]
                     ELSE IF blocks[i] = NoOne THEN f[n] ELSE Append(f[n], blocks[i])]
  <2>3. \A i \in 0..n : g[i] = f[i]
    OBVIOUS
  <2>4. \A i \in 0..n : f[i] = IF i = 0 THEN <<>>
            ELSE IF blocks[i] = NoOne THEN f[i - 1] ELSE Append(f[i - 1], blocks[i])
    <3>1. \A i \in 0..n : f[i] = IF i = 0 THEN <<>>
              ELSE IF front[i] = NoOne THEN f[i - 1] ELSE Append(f[i - 1], front[i])
      BY <2>1, <2>2, Zenon DEF IsKeysOf
    <3> QED
      BY <2>1, <3>1
  <2>5. \A i \in 0..(n + 1) : g[i] = IF i = 0 THEN <<>>
            ELSE IF blocks[i] = NoOne THEN g[i - 1] ELSE Append(g[i - 1], blocks[i])
    BY <2>3, <2>4
  <2> HIDE DEF g
  <2>6. g = [i \in 0..(n + 1) |-> IF i = 0 THEN <<>>
            ELSE IF blocks[i] = NoOne THEN g[i - 1] ELSE Append(g[i - 1], blocks[i])]
    BY <2>5 DEF g
  <2> QED
    BY <2>6 DEF IsKeysOf
<1>3. S = Nat
  <2> HIDE DEF S
  <2>1. S \in SUBSET Nat
    BY DEF S
  <2> QED
    BY <1>1, <1>2, <2>1, Induction
<1> QED
  BY <1>3 DEF Blocks

LEMMA SignedUpIs ==
    ASSUME NEW blocks \in Blocks
    PROVE  \E f : IsKeysOf(f, blocks) /\ SignedUp(blocks) = f[Len(blocks)]
  BY KeysExist DEF SignedUp, IsKeysOf

LEMMA KeysOfStep ==
    ASSUME NEW blocks \in Blocks, NEW f, IsKeysOf(f, blocks)
    PROVE  /\ f[0] = <<>>
           /\ \A n \in 1..Len(blocks) :
                  f[n] = IF blocks[n] = NoOne THEN f[n - 1] ELSE Append(f[n - 1], blocks[n])
<1>1. \A n \in 0..Len(blocks) : f[n] = IF n = 0 THEN <<>>
          ELSE IF blocks[n] = NoOne THEN f[n - 1] ELSE Append(f[n - 1], blocks[n])
  BY Zenon DEF IsKeysOf
<1>2. Len(blocks) \in Nat
  BY DEF Blocks
<1> QED
  BY <1>1, <1>2

LEMMA KeysAreSequences ==
    ASSUME NEW blocks \in Blocks
    PROVE  SignedUp(blocks) \in Seq(Keys)
<1>1. PICK f : IsKeysOf(f, blocks) /\ SignedUp(blocks) = f[Len(blocks)]
  BY SignedUpIs
<1> DEFINE S == {n \in Nat : n <= Len(blocks) => f[n] \in Seq(Keys)}
<1>2. Len(blocks) \in Nat /\ \A n \in 1..Len(blocks) : blocks[n] # NoOne => blocks[n] \in Keys
  BY DEF Blocks
<1>3. 0 \in S
  <2>1. f[0] = <<>> /\ <<>> \in Seq(Keys)
    BY <1>1, KeysOfStep
  <2> QED
    BY <2>1
<1>4. ASSUME NEW n \in S
      PROVE  n + 1 \in S
  <2> SUFFICES ASSUME n + 1 <= Len(blocks)
               PROVE  f[n + 1] \in Seq(Keys)
    OBVIOUS
  <2>1. f[n + 1] = IF blocks[n + 1] = NoOne THEN f[n] ELSE Append(f[n], blocks[n + 1])
    BY <1>1, <1>2, KeysOfStep
  <2>2. f[n] \in Seq(Keys)
    BY <1>2
  <2> QED
    BY <1>2, <2>1, <2>2
<1> HIDE DEF S
<1>5. S = Nat
  <2>1. S \in SUBSET Nat
    BY DEF S
  <2> QED
    BY <1>3, <1>4, <2>1, Induction
<1> QED
  BY <1>1, <1>2, <1>5 DEF S

(* A block adds what it signs up to the keys of the blocks before it. *)
LEMMA KeysOfAppend ==
    ASSUME NEW blocks \in Blocks, NEW key \in Keys
    PROVE  SignedUp(Append(blocks, key)) = Append(SignedUp(blocks), key)
<1> DEFINE longer == Append(blocks, key)
<1>1. /\ longer \in Blocks /\ Len(longer) = Len(blocks) + 1 /\ Len(blocks) \in Nat
      /\ longer[Len(blocks) + 1] = key /\ \A n \in 1..Len(blocks) : longer[n] = blocks[n]
  BY DEF Blocks
<1> HIDE DEF longer
<1>2. PICK f : IsKeysOf(f, blocks) /\ SignedUp(blocks) = f[Len(blocks)]
  BY SignedUpIs
<1>3. PICK g : IsKeysOf(g, longer) /\ SignedUp(longer) = g[Len(longer)]
  BY <1>1, SignedUpIs
<1> DEFINE S == {n \in Nat : n <= Len(blocks) => f[n] = g[n]}
<1>4. 0 \in S
  BY <1>1, <1>2, <1>3, KeysOfStep
<1>5. ASSUME NEW n \in S
      PROVE  n + 1 \in S
  <2> SUFFICES ASSUME n + 1 <= Len(blocks)
               PROVE  f[n + 1] = g[n + 1]
    OBVIOUS
  <2>1. f[n + 1] = IF blocks[n + 1] = NoOne THEN f[n] ELSE Append(f[n], blocks[n + 1])
    BY <1>1, <1>2, KeysOfStep
  <2>2. g[n + 1] = IF longer[n + 1] = NoOne THEN g[n] ELSE Append(g[n], longer[n + 1])
    BY <1>1, <1>3, KeysOfStep
  <2>3. f[n] = g[n] /\ blocks[n + 1] = longer[n + 1]
    BY <1>1
  <2> QED
    BY <2>1, <2>2, <2>3
<1> HIDE DEF S
<1>6. S = Nat
  <2>1. S \in SUBSET Nat
    BY DEF S
  <2> QED
    BY <1>4, <1>5, <2>1, Induction
<1>7. f[Len(blocks)] = g[Len(blocks)]
  BY <1>1, <1>6 DEF S
<1>8. g[Len(longer)] = Append(g[Len(blocks)], key)
  <2>1. g[Len(blocks) + 1] = IF longer[Len(blocks) + 1] = NoOne THEN g[Len(blocks)]
                             ELSE Append(g[Len(blocks)], longer[Len(blocks) + 1])
    BY <1>1, <1>3, KeysOfStep
  <2>2. key # NoOne
    BY TreeCacheAssumption
  <2> QED
    BY <1>1, <2>1, <2>2
<1> QED
  BY <1>2, <1>3, <1>7, <1>8 DEF longer

LEMMA NoKeysAtFirst == SignedUp(<<NoOne>>) = <<>>
<1>1. <<NoOne>> \in Blocks /\ Len(<<NoOne>>) = 1 /\ <<NoOne>>[1] = NoOne
  BY DEF Blocks
<1>2. PICK f : IsKeysOf(f, <<NoOne>>) /\ SignedUp(<<NoOne>>) = f[1]
  BY <1>1, SignedUpIs
<1> QED
  BY <1>1, <1>2, KeysOfStep

-----------------------------------------------------------------------------
(* Types, and what a witness is worth.                                     *)

SnapshotType == [leaves : Seq(Keys), hash : Blocks]
Stages == {"none", "meta", "full", "extra", "prefix", "extraRoot", "fullRoot", "retain"}
LoadingType == [at : Stages, head : Blocks, leaves : Seq(Keys)]
Waits == {"idle", "head", "validate", "wait", "again", "proved", "unproved", "subgraph", "rpc"}
RequestType ==
    [at : Waits \cup {"proving", "joined", "refused"}, snapshot : SnapshotType, settled : BOOLEAN,
     pending : SnapshotType, root : Seq(Keys), seen : Nat]

ChainTyped == chain \in Blocks /\ reorgs \in Nat /\ indexed \in Blocks
Typed ==
    /\ ChainTyped
    /\ cache \in SnapshotType
    /\ loading \in LoadingType
    /\ request \in [Clients -> RequestType]

\* Between the validation of a witness and the contract's answer only a reorganization
\* takes its root away.
Stands(r) ==
    /\ r.at = "refused" => r.seen < reorgs
    /\ r.at = "proving" => r.seen < reorgs \/ (r.seen = reorgs /\ IsPrefix(r.root, OnChain))
WitnessesStand == \A key \in Clients : Stands(request[key])

WasOnChain == OnChain \in was /\ CacheWasOnChain

Inv == Typed /\ WasOnChain /\ WitnessesStand

LEMMA NoSnapshotTyped == NoSnapshot \in SnapshotType /\ <<>> \in Seq(Keys) /\ <<>> \in Blocks
  BY DEF NoSnapshot, Snapshot, SnapshotType, Blocks

LEMMA IdleTyped == Idle \in RequestType /\ Idle.at = "idle"
  BY NoSnapshotTyped DEF Idle, RequestType, Waits

LEMMA PrefixOfLonger ==
    ASSUME NEW s \in Seq(Keys), NEW t \in Seq(Keys), NEW key \in Keys, IsPrefix(s, t)
    PROVE  IsPrefix(s, Append(t, key))
<1>1. Len(s) \in Nat /\ Len(t) \in Nat /\ Len(s) <= Len(t) /\ SubSeq(s, 1, Len(s)) = SubSeq(t, 1, Len(s))
  BY DEF IsPrefix
<1>2. SubSeq(Append(t, key), 1, Len(s)) = SubSeq(t, 1, Len(s)) /\ Len(Append(t, key)) = Len(t) + 1
  BY <1>1
<1> QED
  BY <1>1, <1>2 DEF IsPrefix

LEMMA EmptyIsPrefix == \A s \in Seq(Keys) : IsPrefix(<<>>, s)
<1> SUFFICES ASSUME NEW s \in Seq(Keys)
             PROVE  IsPrefix(<<>>, s)
  OBVIOUS
<1>1. Len(s) \in Nat /\ Len(<<>>) = 0 /\ SubSeq(<<>>, 1, 0) = <<>> /\ SubSeq(s, 1, 0) = <<>>
  OBVIOUS
<1> QED
  BY <1>1 DEF IsPrefix

(* A root the contract finds at its index is not refused. *)
LEMMA PrefixIsFound ==
    ASSUME NEW s \in Seq(Keys), NEW t \in Seq(Keys), IsPrefix(s, t)
    PROVE  Len(s) <= Len(t) /\ SubSeq(t, 1, Len(s)) = s
  BY DEF IsPrefix

-----------------------------------------------------------------------------
(* What a refresh and the service's answers leave.                         *)

ChainStays == UNCHANGED <<chain, was, reorgs, indexed>>

\* The request is as it was, or is not about a witness.
Quiet(key) == request'[key] = request[key] \/ request'[key].at \in Waits

LEMMA QuietKeeps ==
    ASSUME Inv, ChainStays, cache' \in SnapshotType, loading' \in LoadingType,
           request' \in [Clients -> RequestType], \A key \in Clients : Quiet(key), CacheWasOnChain'
    PROVE  Inv'
<1>1. Typed'
  BY DEF Inv, Typed, ChainTyped, ChainStays
<1>2. WasOnChain'
  BY DEF Inv, WasOnChain, OnChain, ChainStays
<1>3. WitnessesStand'
  <2> SUFFICES ASSUME NEW key \in Clients
               PROVE  Stands(request[key])'
    BY DEF WitnessesStand
  <2>1. Stands(request[key])
    BY DEF Inv, WitnessesStand
  <2>2. UNCHANGED <<chain, reorgs>>
    BY DEF ChainStays
  <2>3. CASE request'[key] = request[key]
    BY <2>1, <2>2, <2>3 DEF Stands, OnChain
  <2>4. CASE request'[key].at \in Waits
    BY <2>4 DEF Stands, Waits
  <2> QED
    BY <2>3, <2>4 DEF Quiet
<1> QED
  BY <1>1, <1>2, <1>3 DEF Inv

LEMMA AnsweredTyped ==
    ASSUME NEW key, NEW r \in RequestType, NEW snapshot \in SnapshotType
    PROVE  Answered(key, r, snapshot) \in RequestType /\ Answered(key, r, snapshot).at \in Waits
<1>1. CASE Contains(snapshot.leaves, key)
  <2>1. Answered(key, r, snapshot) = [Idle EXCEPT !.at = "proved", !.root = snapshot.leaves]
    BY <1>1 DEF Answered
  <2> QED
    BY <2>1, IdleTyped DEF RequestType, Waits, SnapshotType
<1>2. CASE ~Contains(snapshot.leaves, key)
  <2>1. Answered(key, r, snapshot) =
           [r EXCEPT !.at = "again", !.snapshot = NoSnapshot, !.settled = FALSE, !.pending = NoSnapshot]
    BY <1>2 DEF Answered
  <2> QED
    BY <2>1, NoSnapshotTyped DEF RequestType, Waits
<1> QED
  BY <1>1, <1>2

LEMMA UnprovedTyped == Unproved \in RequestType /\ Unproved.at \in Waits
  BY IdleTyped DEF Unproved, RequestType, Waits

LEMMA LoadingTyped == Started \in LoadingType /\ NotLoading \in LoadingType
  BY NoSnapshotTyped DEF Started, NotLoading, LoadingType, Stages

LEMMA SettledTyped ==
    ASSUME Inv, NEW snapshot \in SnapshotType, NEW key \in Clients
    PROVE  /\ Settled(key, snapshot) \in RequestType
           /\ Settled(key, snapshot) = request[key] \/ Settled(key, snapshot).at \in Waits
<1>1. PICK r : r = request[key]
  OBVIOUS
<1>2. r \in RequestType
  BY <1>1 DEF Inv, Typed
<1>3. \/ Settled(key, snapshot) \in {r, Unproved, Answered(key, r, snapshot)}
      \/ r.at = "validate" /\ Settled(key, snapshot) = [r EXCEPT !.settled = TRUE, !.pending = snapshot]
  BY <1>1 DEF Settled
<1>4. CASE r.at = "validate" /\ Settled(key, snapshot) = [r EXCEPT !.settled = TRUE, !.pending = snapshot]
  BY <1>2, <1>4 DEF RequestType, Waits
<1>5. CASE Settled(key, snapshot) \in {r, Unproved, Answered(key, r, snapshot)}
  BY <1>1, <1>2, <1>5, AnsweredTyped, UnprovedTyped
<1> QED
  BY <1>3, <1>4, <1>5

LEMMA RequestsTyped ==
    ASSUME Inv, NEW snapshot \in SnapshotType, request' = Requests(snapshot)
    PROVE  request' \in [Clients -> RequestType] /\ \A key \in Clients : Quiet(key)
  BY SettledTyped DEF Requests, Quiet

(* Only leaves the registry has, or none, are published. *)
LEMMA PublishKeeps ==
    ASSUME Inv, ChainStays, NEW snapshot \in SnapshotType, Publish(snapshot),
           HistoricalRootMatches(snapshot.leaves)
    PROVE  Inv'
<1>1. cache' = snapshot /\ request' = Requests(snapshot) /\ loading' \in LoadingType
  BY LoadingTyped DEF Publish
<1>2. CacheWasOnChain'
  BY <1>1 DEF HistoricalRootMatches, CacheWasOnChain, Inv, WasOnChain, ChainStays
<1> QED
  BY <1>1, <1>2, RequestsTyped, QuietKeeps

LEMMA FailLoadingKeeps ==
    ASSUME Inv, ChainStays, FailLoading
    PROVE  Inv'
<1>1. cache' = NoSnapshot /\ request' = Requests(NoSnapshot) /\ loading' \in LoadingType
  BY LoadingTyped DEF FailLoading, AfterFailure
<1>2. OnChain \in Seq(Keys) /\ OnChain \in was'
  BY KeysAreSequences DEF OnChain, Inv, Typed, ChainTyped, WasOnChain, ChainStays
<1>3. IsPrefix(cache'.leaves, OnChain)
  BY <1>1, <1>2, EmptyIsPrefix DEF NoSnapshot, Snapshot
<1>4. CacheWasOnChain'
  BY <1>2, <1>3 DEF CacheWasOnChain
<1> QED
  BY <1>1, <1>4, NoSnapshotTyped, RequestsTyped, QuietKeeps

(* A refresh that only gets on with reading. *)
LEMMA ReadsOn ==
    ASSUME Inv, ChainStays, UNCHANGED <<cache, request>>, loading' \in LoadingType
    PROVE  Inv'
<1>1. CacheWasOnChain'
  BY DEF CacheWasOnChain, Inv, WasOnChain, ChainStays
<1> QED
  BY <1>1, QuietKeeps DEF Inv, Typed, Quiet

LEMMA GotoKeeps ==
    ASSUME Inv, ChainStays, NEW at \in Stages, NEW list \in Seq(Keys), Goto(at, list)
    PROVE  Inv'
<1>1. loading' \in LoadingType
  BY DEF Goto, Inv, Typed, LoadingType
<1> QED
  BY <1>1, ReadsOn DEF Goto

LEMMA LeavesTyped ==
    ASSUME Inv, NEW hash \in Blocks, IsIndexed(hash)
    PROVE  LeavesAt(hash) \in Seq(Keys)
<1>1. SubSeq(indexed, 1, Len(hash)) \in Blocks
  <2>1. indexed \in Seq(Keys \cup {NoOne}) /\ Len(hash) \in Nat /\ Len(hash) <= Len(indexed)
    BY DEF Inv, Typed, ChainTyped, Blocks, IsIndexed
  <2> QED
    BY <2>1 DEF Blocks
<1> QED
  BY <1>1, KeysAreSequences DEF LeavesAt

LEMMA PageTyped ==
    ASSUME Inv, NEW hash \in Blocks, IsIndexed(hash), NEW cursor \in Nat
    PROVE  LeafPage(cursor, hash) \in Seq(Keys)
<1>1. PICK list : list = LeavesAt(hash)
  OBVIOUS
<1>2. list \in Seq(Keys) /\ Len(list) \in Nat /\ PageSize \in Nat
  BY <1>1, LeavesTyped, TreeCacheAssumption
<1>3. PICK last : last = IF cursor + PageSize < Len(list) THEN cursor + PageSize ELSE Len(list)
  OBVIOUS
<1>4. last \in Nat /\ last <= Len(list)
  BY <1>2, <1>3
<1>5. SubSeq(list, cursor + 1, last) \in Seq(Keys)
  BY <1>2, <1>4
<1> QED
  BY <1>1, <1>3, <1>5 DEF LeafPage

(* Each await of a refresh. *)
LEMMA LoadKeeps ==
    ASSUME Inv, ChainStays, NEW ok, Load(ok)
    PROVE  Inv'
<1>1. loading \in LoadingType /\ cache \in SnapshotType /\ indexed \in Blocks /\ <<>> \in Seq(Keys)
  BY NoSnapshotTyped DEF Inv, Typed, ChainTyped
<1>2. loading.head \in Blocks /\ loading.leaves \in Seq(Keys) /\ cache.leaves \in Seq(Keys)
  BY <1>1 DEF LoadingType, SnapshotType
<1>3. CASE ReadMeta(ok)
  <2>1. CASE Goto("retain", <<>>)
    BY <1>1, <2>1, GotoKeeps DEF Stages
  <2>2. CASE /\ loading' \in {[at |-> stage, head |-> indexed, leaves |-> <<>>] : stage \in Stages}
             /\ UNCHANGED <<cache, request>>
    <3>1. PICK stage \in Stages : loading' = [at |-> stage, head |-> indexed, leaves |-> <<>>]
      BY <2>2
    <3>2. loading' \in LoadingType
      BY <1>1, <3>1 DEF LoadingType
    <3> QED
      BY <2>2, <3>2, ReadsOn
  <2> QED
    BY <1>3, <2>1, <2>2 DEF ReadMeta, Stages
<1>4. CASE VerifyCachedPrefix(ok)
  BY <1>1, <1>2, <1>4, GotoKeeps DEF VerifyCachedPrefix, Stages
<1>5. CASE ReadPage(ok)
  <2>1. CASE ok /\ IsIndexed(loading.head)
    <3>1. PICK page : page = LeafPage(Len(loading.leaves), loading.head)
      OBVIOUS
    <3>2. page \in Seq(Keys)
      BY <1>2, <2>1, <3>1, PageTyped
    <3>3. loading.leaves \o page \in Seq(Keys)
      BY <1>2, <3>2
    <3>4. \E stage \in Stages : Goto(stage, loading.leaves \o page)
      BY <1>1, <1>5, <2>1, <3>1 DEF ReadPage, LoadingType, Stages
    <3> QED
      BY <3>3, <3>4, GotoKeeps
  <2>2. CASE ~(ok /\ IsIndexed(loading.head))
    BY <1>1, <1>5, <2>2, GotoKeeps DEF ReadPage, Stages
  <2> QED
    BY <2>1, <2>2
<1>6. CASE CheckRoot(ok)
  <2>1. CASE HistoricalRootMatches(loading.leaves) /\ Publish(Snapshot(loading.leaves, loading.head))
    <3>1. PICK snapshot : snapshot = Snapshot(loading.leaves, loading.head)
      OBVIOUS
    <3>2. snapshot \in SnapshotType /\ snapshot.leaves = loading.leaves
      BY <1>2, <3>1 DEF Snapshot, SnapshotType
    <3> QED
      BY <2>1, <3>1, <3>2, PublishKeeps
  <2> QED
    BY <1>1, <1>6, <2>1, GotoKeeps DEF CheckRoot, Stages
<1>7. CASE Retain(ok)
  BY <1>1, <1>7, PublishKeeps, FailLoadingKeeps DEF Retain
<1> QED
  BY <1>3, <1>4, <1>5, <1>6, <1>7 DEF Load

-----------------------------------------------------------------------------
(* What voters do.                                                         *)

LEMMA BecomeKeeps ==
    ASSUME Inv, ChainStays, NEW key \in Clients, NEW r \in RequestType, Become(key, r),
           Stands(r), UNCHANGED cache, loading' \in LoadingType
    PROVE  Inv'
<1>1. request' \in [Clients -> RequestType]
  BY DEF Become, Inv, Typed
<1>2. \A other \in Clients : request'[other] = IF other = key THEN r ELSE request[other]
  BY DEF Become, Inv, Typed
<1>3. Typed'
  BY <1>1 DEF Inv, Typed, ChainTyped, ChainStays
<1>4. WasOnChain'
  BY DEF Inv, WasOnChain, CacheWasOnChain, OnChain, ChainStays
<1>5. WitnessesStand'
  <2> SUFFICES ASSUME NEW other \in Clients
               PROVE  Stands(request[other])'
    BY DEF WitnessesStand
  <2>1. Stands(request[other]) /\ UNCHANGED <<chain, reorgs>>
    BY DEF Inv, WitnessesStand, ChainStays
  <2> QED
    BY <1>2, <2>1 DEF Stands, OnChain
<1> QED
  BY <1>3, <1>4, <1>5 DEF Inv

LEMMA WaitingStands == ASSUME NEW r, r.at \in Waits PROVE Stands(r)
  BY DEF Stands, Waits

LEMMA RefreshedTyped == ASSUME Inv PROVE loading \in LoadingType /\ Refreshed \in LoadingType
  BY LoadingTyped DEF Refreshed, Inv, Typed

LEMMA AskKeeps ==
    ASSUME Inv, ChainStays, NEW key \in Clients, Ask(key)
    PROVE  Inv'
<1>1. PICK r : /\ r \in {[Idle EXCEPT !.at = "head", !.snapshot = cache], [Idle EXCEPT !.at = "wait"]}
               /\ Become(key, r)
  BY DEF Ask
<1>2. r \in RequestType /\ r.at \in Waits
  BY <1>1, IdleTyped DEF Inv, Typed, RequestType, Waits
<1>3. loading' \in LoadingType /\ UNCHANGED cache
  BY RefreshedTyped DEF Ask
<1> QED
  BY <1>1, <1>2, <1>3, WaitingStands, BecomeKeeps

(* A witness is of the chain when it has been validated. *)
LEMMA WitnessTyped ==
    ASSUME Inv, NEW key, NEW root \in Seq(Keys), IsValidated(key, root)
    PROVE  Witness(root) \in RequestType /\ Stands(Witness(root))
<1>1. Witness(root) = [Idle EXCEPT !.at = "proving", !.root = root, !.seen = reorgs]
  BY DEF Witness
<1>2. /\ Witness(root) \in RequestType
      /\ Witness(root).at = "proving" /\ Witness(root).root = root /\ Witness(root).seen = reorgs
  BY <1>1, IdleTyped DEF RequestType, Inv, Typed, ChainTyped
<1> QED
  BY <1>2 DEF Stands, IsValidated, HistoricalRootMatches

LEMMA AtTyped ==
    ASSUME NEW at \in Waits
    PROVE  [Idle EXCEPT !.at = at] \in RequestType /\ [Idle EXCEPT !.at = at].at \in Waits
  BY IdleTyped DEF RequestType

LEMMA AwaitKeeps ==
    ASSUME Inv, ChainStays, NEW key \in Clients, NEW ok, Await(key, ok)
    PROVE  Inv'
<1>1. PICK r : r = request[key]
  OBVIOUS
<1>2. r \in RequestType
  BY <1>1 DEF Inv, Typed
<1>3. r.snapshot \in SnapshotType /\ r.pending \in SnapshotType /\ r.root \in Seq(Keys)
  BY <1>2 DEF RequestType
<1>4. CASE CompareHead(key, ok)
  <2>1. PICK q : q \in {Answered(key, r, r.snapshot), [r EXCEPT !.at = "validate"]} /\ Become(key, q)
    BY <1>1, <1>4 DEF CompareHead
  <2>2. q \in RequestType /\ q.at \in Waits
    <3>1. [r EXCEPT !.at = "validate"] \in RequestType /\ [r EXCEPT !.at = "validate"].at \in Waits
      BY <1>2 DEF RequestType, Waits
    <3> QED
      BY <1>2, <1>3, <2>1, <3>1, AnsweredTyped, ZenonT(60)
  <2>3. loading' \in LoadingType /\ UNCHANGED cache
    BY <1>4, RefreshedTyped DEF CompareHead
  <2> QED
    BY <2>1, <2>2, <2>3, WaitingStands, BecomeKeeps
<1>5. CASE Validate(key, ok)
  <2>1. PICK usable : usable \in {r.snapshot, r.pending} /\ \E q : Become(key, q) /\
               q \in {Answered(key, r, usable), Unproved, [r EXCEPT !.at = "wait"]}
    BY <1>1, <1>5 DEF Validate
  <2>2. PICK q : Become(key, q) /\ q \in {Answered(key, r, usable), Unproved, [r EXCEPT !.at = "wait"]}
    BY <2>1
  <2>3. q \in RequestType /\ q.at \in Waits
    <3>1. [r EXCEPT !.at = "wait"] \in RequestType /\ [r EXCEPT !.at = "wait"].at \in Waits
      BY <1>2 DEF RequestType, Waits
    <3>2. Answered(key, r, usable) \in RequestType /\ Answered(key, r, usable).at \in Waits
      BY <1>2, <1>3, <2>1, AnsweredTyped
    <3> QED
      BY <2>2, <3>1, <3>2, UnprovedTyped
  <2>4. loading' \in LoadingType /\ UNCHANGED cache
    BY <1>5, RefreshedTyped DEF Validate
  <2> QED
    BY <2>2, <2>3, <2>4, WaitingStands, BecomeKeeps
<1>6. ASSUME NEW root \in Seq(Keys), NEW next \in RequestType, next.at \in Waits, NEW q,
             (q = Witness(root) /\ IsValidated(key, root)) \/ q = next,
             Become(key, q), UNCHANGED <<cache, loading>>
      PROVE  Inv'
  <2>1. q \in RequestType /\ Stands(q)
    BY <1>6, WitnessTyped, WaitingStands
  <2>2. loading' \in LoadingType
    BY <1>6 DEF Inv, Typed
  <2> QED
    BY <1>6, <2>1, <2>2, BecomeKeeps
<1>7. CASE UseService(key, ok)
  <2>1. \E q : /\ \/ q = Witness(r.root) /\ IsValidated(key, r.root)
                  \/ q = [Idle EXCEPT !.at = "subgraph"]
               /\ Become(key, q)
    BY <1>1, <1>7 DEF UseService
  <2> QED
    BY <1>3, <1>6, <1>7, <2>1, AtTyped DEF UseService, Waits
<1>8. CASE UseSubgraph(key, ok)
  <2>1. SignedUp(indexed) \in Seq(Keys)
    BY KeysAreSequences DEF Inv, Typed, ChainTyped
  <2>2. \E q : /\ \/ q = Witness(SignedUp(indexed)) /\ IsValidated(key, SignedUp(indexed))
                  \/ q = [Idle EXCEPT !.at = "rpc"]
               /\ Become(key, q)
    BY <1>8 DEF UseSubgraph
  <2> QED
    BY <1>6, <1>8, <2>1, <2>2, AtTyped DEF UseSubgraph, Waits
<1>9. CASE UseEvents(key, ok)
  <2>1. OnChain \in Seq(Keys)
    BY KeysAreSequences DEF OnChain, Inv, Typed, ChainTyped
  <2>2. \E q : /\ (q = Witness(OnChain) /\ IsValidated(key, OnChain)) \/ q = Idle
               /\ Become(key, q)
    BY <1>9 DEF UseEvents
  <2> QED
    BY <1>6, <1>9, <2>1, <2>2, IdleTyped DEF UseEvents, Waits
<1> QED
  BY <1>4, <1>5, <1>7, <1>8, <1>9 DEF Await

(* The index that goes with a proof finds its root until the chain is reorganized. *)
LEMMA SubmitJoinKeeps ==
    ASSUME Inv, ChainStays, NEW key \in Clients, SubmitJoin(key)
    PROVE  Inv'
<1>1. PICK r : r = request[key]
  OBVIOUS
<1>2. r \in RequestType /\ Stands(r) /\ r.at = "proving"
  BY <1>1 DEF Inv, Typed, WitnessesStand, SubmitJoin
<1>3. PICK at \in {"joined", "refused"} :
          /\ Become(key, [r EXCEPT !.at = at])
          /\ at = "refused" => ~(Len(r.root) <= Len(OnChain) /\ SubSeq(OnChain, 1, Len(r.root)) = r.root)
  BY <1>1 DEF SubmitJoin, PinnedIndex
<1>4. PICK q : q = [r EXCEPT !.at = at]
  OBVIOUS
<1>5. q \in RequestType /\ q.at = at /\ q.seen = r.seen
  BY <1>2, <1>4 DEF RequestType
<1>6. r.root \in Seq(Keys) /\ OnChain \in Seq(Keys)
  BY <1>2, KeysAreSequences DEF RequestType, OnChain, Inv, Typed, ChainTyped
<1>7. at = "refused" => r.seen < reorgs
  BY <1>2, <1>3, <1>6, PrefixIsFound DEF Stands
<1>8. Stands(q)
  BY <1>5, <1>7 DEF Stands
<1> QED
  BY <1>3, <1>4, <1>5, <1>8, BecomeKeeps DEF SubmitJoin, Inv, Typed

LEMMA ClientStepKeeps ==
    ASSUME Inv, NEW key \in Clients, ClientStep(key)
    PROVE  Inv'
<1>1. ChainStays
  BY DEF ClientStep, ChainStays
<1>2. CASE TryAgain(key)
  BY <1>1, <1>2, IdleTyped, WaitingStands, BecomeKeeps DEF TryAgain, Inv, Typed, Waits
<1> QED
  BY <1>1, <1>2, AskKeeps, AwaitKeeps, SubmitJoinKeeps DEF ClientStep

-----------------------------------------------------------------------------
(* The chain, and the invariant.                                           *)

LEMMA MineKeeps ==
    ASSUME Inv, NEW key \in Keys, Mine(key)
    PROVE  Inv'
<1>1. /\ chain' = Append(chain, key) /\ was' = was \cup {OnChain'}
      /\ UNCHANGED <<reorgs, indexed, cache, loading, request>>
  BY DEF Mine, OnChain
<1>2. chain \in Blocks /\ chain' \in Blocks
  BY <1>1 DEF Inv, Typed, ChainTyped, Blocks
<1>3. OnChain' = Append(OnChain, key) /\ OnChain \in Seq(Keys)
  BY <1>1, <1>2, KeysOfAppend, KeysAreSequences DEF OnChain
<1>4. Typed'
  BY <1>1, <1>2 DEF Inv, Typed, ChainTyped
<1>5. WasOnChain'
  BY <1>1 DEF Inv, WasOnChain, CacheWasOnChain
<1>6. WitnessesStand'
  <2> SUFFICES ASSUME NEW other \in Clients
               PROVE  Stands(request[other])'
    BY DEF WitnessesStand
  <2>1. PICK r : r = request[other] /\ r = request'[other]
    BY <1>1
  <2>2. r.root \in Seq(Keys) /\ Stands(r)
    BY <2>1 DEF Inv, Typed, RequestType, WitnessesStand
  <2>3. IsPrefix(r.root, OnChain) => IsPrefix(r.root, OnChain')
    BY <1>3, <2>2, PrefixOfLonger
  <2> QED
    BY <1>1, <2>1, <2>2, <2>3 DEF Stands
<1> QED
  BY <1>4, <1>5, <1>6 DEF Inv

LEMMA ReorgKeeps ==
    ASSUME Inv, NEW from \in 1..(Len(chain) - 1),
           NEW fork \in [1..(Len(chain) - from) -> Keys \cup {NoOne}], Reorg(from, fork)
    PROVE  Inv'
<1>1. /\ chain' = SubSeq(chain, 1, from) \o fork /\ was' = was \cup {OnChain'}
      /\ reorgs' = reorgs + 1
      /\ UNCHANGED <<indexed, cache, loading, request>>
  BY DEF Reorg, OnChain
<1>2. chain' \in Blocks
  <2>1. chain \in Seq(Keys \cup {NoOne}) /\ Len(chain) \in Nat /\ from \in Nat /\ from <= Len(chain)
    BY DEF Inv, Typed, ChainTyped, Blocks
  <2>2. SubSeq(chain, 1, from) \in Seq(Keys \cup {NoOne})
    BY <2>1
  <2>3. fork \in Seq(Keys \cup {NoOne})
    BY <2>1 DEF Seq
  <2> QED
    BY <1>1, <2>2, <2>3 DEF Blocks
<1>3. Typed'
  BY <1>1, <1>2 DEF Inv, Typed, ChainTyped
<1>4. WasOnChain'
  BY <1>1 DEF Inv, WasOnChain, CacheWasOnChain
<1>5. WitnessesStand'
  <2> SUFFICES ASSUME NEW key \in Clients
               PROVE  Stands(request[key])'
    BY DEF WitnessesStand
  <2>1. Stands(request[key]) /\ request[key].seen \in Nat /\ reorgs \in Nat
    BY DEF Inv, Typed, ChainTyped, RequestType, WitnessesStand
  <2> QED
    BY <1>1, <2>1 DEF Stands
<1> QED
  BY <1>3, <1>4, <1>5 DEF Inv

LEMMA IndexKeeps ==
    ASSUME Inv, Index
    PROVE  Inv'
<1>1. UNCHANGED <<chain, was, reorgs, cache, loading, request>>
  BY DEF Index
<1>2. indexed' \in Blocks
  <2>1. /\ chain \in Seq(Keys \cup {NoOne}) /\ indexed \in Seq(Keys \cup {NoOne})
        /\ Len(chain) \in Nat /\ Len(indexed) \in Nat
    BY DEF Inv, Typed, ChainTyped, Blocks
  <2>2. CASE IsStrictPrefix(indexed, chain)
    <3>1. /\ Len(indexed) <= Len(chain) /\ indexed # chain
          /\ SubSeq(indexed, 1, Len(indexed)) = SubSeq(chain, 1, Len(indexed))
      BY <2>2 DEF IsStrictPrefix, IsPrefix
    <3>2. Len(indexed) # Len(chain)
      BY <2>1, <3>1
    <3>3. chain[Len(indexed) + 1] \in Keys \cup {NoOne}
      BY <2>1, <3>1, <3>2
    <3> QED
      BY <2>1, <2>2, <3>3 DEF Index, Blocks
  <2>3. CASE ~IsStrictPrefix(indexed, chain)
    <3>1. indexed' = SubSeq(indexed, 1, Len(indexed) - 1)
      BY <2>3 DEF Index, Front
    <3> QED
      BY <2>1, <3>1 DEF Blocks
  <2> QED
    BY <2>2, <2>3
<1>3. Typed'
  BY <1>1, <1>2 DEF Inv, Typed, ChainTyped
<1>4. WasOnChain' /\ WitnessesStand'
  BY <1>1 DEF Inv, WasOnChain, CacheWasOnChain, WitnessesStand, Stands, OnChain
<1> QED
  BY <1>3, <1>4 DEF Inv

LEMMA InvStarts ==
    ASSUME Init
    PROVE  Inv
<1>1. Typed
  <2>1. <<NoOne>> \in Blocks
    BY DEF Blocks
  <2> QED
    BY <2>1, NoSnapshotTyped, IdleTyped, LoadingTyped DEF Init, Typed, ChainTyped
<1>2. WasOnChain
  <2>1. OnChain = <<>> /\ OnChain \in was
    BY NoKeysAtFirst DEF Init, OnChain
  <2>2. IsPrefix(cache.leaves, OnChain)
    BY <2>1, NoSnapshotTyped, EmptyIsPrefix DEF Init, NoSnapshot, Snapshot
  <2> QED
    BY <2>1, <2>2 DEF WasOnChain, CacheWasOnChain
<1>3. WitnessesStand
  BY IdleTyped, WaitingStands DEF Init, WitnessesStand, Waits
<1> QED
  BY <1>1, <1>2, <1>3 DEF Inv

LEMMA InvNext ==
    ASSUME Inv, [Next]_vars
    PROVE  Inv'
<1>1. CASE Tick
  <2>1. ChainStays /\ UNCHANGED <<cache, request>> /\ loading' \in LoadingType
    BY <1>1, LoadingTyped DEF Tick, ChainStays
  <2> QED
    BY <2>1, ReadsOn
<1>2. CASE LoadStep
  BY <1>2, LoadKeeps DEF LoadStep, ChainStays
<1>3. CASE Fault
  BY <1>3, LoadKeeps, AwaitKeeps DEF Fault, ChainStays
<1>4. CASE UNCHANGED vars
  <2>1. ChainStays /\ UNCHANGED <<cache, request, loading>>
    BY <1>4 DEF vars, ChainStays
  <2> QED
    BY <2>1, ReadsOn DEF Inv, Typed
<1> QED
  BY <1>1, <1>2, <1>3, <1>4, MineKeeps, ReorgKeeps, IndexKeeps, ClientStepKeeps DEF Next

THEOREM InvHolds == Spec => []Inv
<1> QED
  BY InvStarts, InvNext, PTL DEF Spec

(* Whatever forks the pages of a snapshot are read from, and however refreshes fail, retry
   or are retained, the leaves that are published have been the registry's, in its order. *)
THEOREM CacheWasOnChainHolds == Spec => []CacheWasOnChain
<1>1. Inv => CacheWasOnChain
  BY DEF Inv, WasOnChain
<1> QED
  BY <1>1, InvHolds, PTL

(* A join whose witness has been validated is refused only if the chain was reorganized in
   between: sign-ups of others, in any number, leave the pinned root where it is. *)
THEOREM OnlyReorgsRefuseHolds == Spec => []OnlyReorgsRefuse
<1>1. Inv => OnlyReorgsRefuse
  BY DEF Inv, WitnessesStand, Stands, OnlyReorgsRefuse
<1> QED
  BY <1>1, InvHolds, PTL

-----------------------------------------------------------------------------
AreIterates(f, A, a, g, n) ==
    f \in [0..n -> A] /\ f[0] = a /\ \A i \in 1..n : f[i] = g[f[i - 1]]

LEMMA IteratesToExist ==
    ASSUME NEW A, NEW a \in A, NEW g \in [A -> A]
    PROVE  \A n \in Nat : \E f : AreIterates(f, A, a, g, n)
<1> DEFINE S == {n \in Nat : \E f : AreIterates(f, A, a, g, n)}
<1>1. 0 \in S
  <2>1. AreIterates([i \in 0..0 |-> a], A, a, g, 0)
    BY DEF AreIterates
  <2> QED
    BY <2>1
<1>2. ASSUME NEW n \in S
      PROVE  n + 1 \in S
  <2>1. PICK f : AreIterates(f, A, a, g, n)
    OBVIOUS
  <2> DEFINE h == [i \in 0..(n + 1) |-> IF i = n + 1 THEN g[f[n]] ELSE f[i]]
  <2>2. AreIterates(h, A, a, g, n + 1)
    BY <2>1 DEF AreIterates
  <2> QED
    BY <2>2
<1> HIDE DEF S
<1>3. S = Nat
  <2>1. S \in SUBSET Nat
    BY DEF S
  <2> QED
    BY <1>1, <1>2, <2>1, Induction
<1> QED
  BY <1>3 DEF S

LEMMA IteratesAgree ==
    ASSUME NEW A, NEW a, NEW g, NEW n \in Nat, NEW m \in Nat, NEW f, NEW h,
           AreIterates(f, A, a, g, n), AreIterates(h, A, a, g, m)
    PROVE  \A i \in Nat : i <= n /\ i <= m => f[i] = h[i]
<1> DEFINE S == {i \in Nat : i <= n /\ i <= m => f[i] = h[i]}
<1>1. 0 \in S
  BY DEF AreIterates
<1>2. ASSUME NEW i \in S
      PROVE  i + 1 \in S
  <2> SUFFICES ASSUME i + 1 <= n, i + 1 <= m
               PROVE  f[i + 1] = h[i + 1]
    OBVIOUS
  <2>1. f[i] = h[i]
    OBVIOUS
  <2>2. i + 1 \in 1..n /\ i + 1 \in 1..m /\ (i + 1) - 1 = i
    OBVIOUS
  <2>3. f[i + 1] = g[f[i]] /\ h[i + 1] = g[h[i]]
    BY <2>2 DEF AreIterates
  <2> QED
    BY <2>1, <2>3
<1> HIDE DEF S
<1>3. S = Nat
  <2>1. S \in SUBSET Nat
    BY DEF S
  <2> QED
    BY <1>1, <1>2, <2>1, Induction
<1> QED
  BY <1>3 DEF S

LEMMA Iterates ==
    \A A : \A a \in A : \A g \in [A -> A] :
        \E f \in [Nat -> A] : f[0] = a /\ \A i \in Nat : f[i + 1] = g[f[i]]
<1> TAKE A
<1> TAKE a \in A
<1> TAKE g \in [A -> A]
<1> DEFINE F(n) == CHOOSE f : AreIterates(f, A, a, g, n)
           f == [i \in Nat |-> F(i)[i]]
<1>1. \A n \in Nat : AreIterates(F(n), A, a, g, n)
  BY IteratesToExist
<1> HIDE DEF F
<1>2. f \in [Nat -> A]
  BY <1>1 DEF AreIterates
<1>3. f[0] = a
  BY <1>1 DEF AreIterates
<1>4. ASSUME NEW i \in Nat
      PROVE  f[i + 1] = g[f[i]]
  <2>1. i + 1 \in Nat /\ i + 1 \in 1..(i + 1) /\ (i + 1) - 1 = i
    OBVIOUS
  <2>2. F(i + 1)[i + 1] = g[F(i + 1)[i]]
    BY <1>1, <2>1 DEF AreIterates
  <2>3. F(i + 1)[i] = F(i)[i]
    BY <1>1, <2>1, IteratesAgree
  <2> QED
    BY <2>1, <2>2, <2>3
<1> HIDE DEF f
<1> QED
  BY <1>2, <1>3, <1>4

LEMMA Powers ==
    /\ PowerOfTwo[0] = 1
    /\ \A i \in Nat : PowerOfTwo[i] \in Nat \ {0} /\ PowerOfTwo[i + 1] = 2 * PowerOfTwo[i]
<1> DEFINE A == Nat \ {0}
           g == [x \in A |-> 2 * x]
           Power(f) == f = [i \in Nat |-> IF i = 0 THEN 1 ELSE 2 * f[i - 1]]
<1>1. 1 \in A /\ g \in [A -> A]
  OBVIOUS
<1>2. PICK f \in [Nat -> A] : f[0] = 1 /\ \A i \in Nat : f[i + 1] = g[f[i]]
  <2>1. \A a \in A : \A h \in [A -> A] :
            \E f \in [Nat -> A] : f[0] = a /\ \A i \in Nat : f[i + 1] = h[f[i]]
    BY Iterates
  <2> HIDE DEF g, A
  <2> QED
    BY <1>1, <2>1
<1>3. ASSUME NEW i \in Nat, i # 0
      PROVE  f[i] = 2 * f[i - 1]
  <2>1. i - 1 \in Nat /\ (i - 1) + 1 = i
    BY <1>3
  <2>2. f[i - 1] \in A
    BY <2>1
  <2> QED
    BY <1>2, <2>1, <2>2
<1>4. Power(f)
  BY <1>2, <1>3
<1>5. Power(PowerOfTwo)
  <2>1. PowerOfTwo = CHOOSE h : Power(h)
    BY DEF PowerOfTwo
  <2> HIDE DEF Power
  <2> QED
    BY <1>4, <2>1
<1>6. PowerOfTwo[0] = 1 /\ \A i \in Nat : PowerOfTwo[i + 1] = 2 * PowerOfTwo[i]
  <2>1. \A i \in Nat : PowerOfTwo[i] = IF i = 0 THEN 1 ELSE 2 * PowerOfTwo[i - 1]
    BY <1>5
  <2>2. \A i \in Nat : i + 1 \in Nat /\ i + 1 # 0 /\ (i + 1) - 1 = i
    OBVIOUS
  <2> QED
    BY <2>1, <2>2
<1> DEFINE S == {i \in Nat : PowerOfTwo[i] \in A}
<1>7. 0 \in S
  BY <1>6
<1>8. \A i \in S : i + 1 \in S
  BY <1>6
<1>9. S = Nat
  <2>1. S \in SUBSET Nat
    OBVIOUS
  <2> HIDE DEF S
  <2> QED
    BY <1>7, <1>8, <2>1, Induction
<1> HIDE DEF S
<1>10. \A i \in Nat : PowerOfTwo[i] \in Nat \ {0}
  BY <1>9 DEF S
<1> QED
  BY <1>6, <1>10

LEMMA Halves ==
    ASSUME NEW n \in Nat
    PROVE  /\ n \div 2 \in Nat
           /\ n % 2 \in {0, 1}
           /\ n = 2 * (n \div 2) + (n % 2)
OBVIOUS

LEMMA Shifts ==
    ASSUME NEW n \in Nat
    PROVE  /\ Shift(n, 0) = n
           /\ \A i \in Nat : Shift(n, i) \in Nat /\ Shift(n, i + 1) = Shift(n, i) \div 2
<1> DEFINE g == [x \in Nat |-> x \div 2]
           Shifted(f) == f = [i \in Nat |-> IF i = 0 THEN n ELSE f[i - 1] \div 2]
           shifted == CHOOSE f : Shifted(f)
<1>1. g \in [Nat -> Nat]
  BY Halves
<1>2. PICK f \in [Nat -> Nat] : f[0] = n /\ \A i \in Nat : f[i + 1] = g[f[i]]
  <2> DEFINE A == Nat
  <2> HIDE DEF A
  <2>1. \A a \in A : \A h \in [A -> A] :
            \E f \in [Nat -> A] : f[0] = a /\ \A i \in Nat : f[i + 1] = h[f[i]]
    BY Iterates
  <2> HIDE DEF g
  <2> QED
    BY <1>1, <2>1 DEF A
<1>3. ASSUME NEW i \in Nat, i # 0
      PROVE  f[i] = f[i - 1] \div 2
  <2>1. i - 1 \in Nat /\ (i - 1) + 1 = i
    BY <1>3
  <2>2. f[i - 1] \in Nat
    BY <2>1
  <2> QED
    BY <1>2, <2>1, <2>2
<1>4. Shifted(f)
  BY <1>2, <1>3
<1>5. Shifted(shifted)
  <2> HIDE DEF Shifted
  <2> QED
    BY <1>4
<1>6. \A i \in Nat : Shift(n, i) = shifted[i]
  BY DEF Shift
<1> HIDE DEF shifted
<1>7. shifted[0] = n /\ \A i \in Nat : shifted[i + 1] = shifted[i] \div 2
  <2>1. \A i \in Nat : shifted[i] = IF i = 0 THEN n ELSE shifted[i - 1] \div 2
    BY <1>5
  <2>2. \A i \in Nat : i + 1 \in Nat /\ i + 1 # 0 /\ (i + 1) - 1 = i
    OBVIOUS
  <2> QED
    BY <2>1, <2>2
<1> DEFINE S == {i \in Nat : shifted[i] \in Nat}
<1>8. 0 \in S
  BY <1>7
<1>9. \A i \in S : i + 1 \in S
  BY <1>7, Halves
<1>10. S = Nat
  <2>1. S \in SUBSET Nat
    OBVIOUS
  <2> HIDE DEF S
  <2> QED
    BY <1>8, <1>9, <2>1, Induction
<1> HIDE DEF S
<1>11. \A i \in Nat : shifted[i] \in Nat
  BY <1>10 DEF S
<1>12. \A i \in Nat : i + 1 \in Nat
  OBVIOUS
<1> QED
  BY <1>6, <1>7, <1>11, <1>12

LEMMA ShiftOfHalf ==
    ASSUME NEW n \in Nat
    PROVE  \A i \in Nat : Shift(n, i + 1) = Shift(n \div 2, i)
<1> DEFINE half == n \div 2
           S == {i \in Nat : Shift(n, i + 1) = Shift(half, i)}
<1>1. half \in Nat
  BY Halves
<1> HIDE DEF half
<1>2. 0 \in S
  <2>1. Shift(n, 0 + 1) = half
    BY Shifts DEF half
  <2> QED
    BY <1>1, <2>1, Shifts
<1>3. ASSUME NEW i \in S
      PROVE  i + 1 \in S
  <2>1. i \in Nat /\ i + 1 \in Nat /\ Shift(n, i + 1) = Shift(half, i)
    OBVIOUS
  <2>2. Shift(n, (i + 1) + 1) = Shift(n, i + 1) \div 2
    BY <2>1, Shifts
  <2>3. Shift(half, i + 1) = Shift(half, i) \div 2
    BY <1>1, <2>1, Shifts
  <2> QED
    BY <2>1, <2>2, <2>3
<1> HIDE DEF S
<1>4. S = Nat
  <2>1. S \in SUBSET Nat
    BY DEF S
  <2> QED
    BY <1>2, <1>3, <2>1, Induction
<1> QED
  BY <1>4 DEF S, half

\* Nothing is left of a number below 2^i when it is shifted by i.
LEMMA ShiftedAway ==
    ASSUME NEW n \in Nat, NEW i \in Nat, n < PowerOfTwo[i]
    PROVE  Shift(n, i) = 0
<1> DEFINE S == {j \in Nat : \A m \in Nat : m < PowerOfTwo[j] => Shift(m, j) = 0}
<1>1. 0 \in S
  <2>1. \A m \in Nat : m < 1 => m = 0
    OBVIOUS
  <2> QED
    BY <2>1, Powers, Shifts
<1>2. ASSUME NEW j \in S
      PROVE  j + 1 \in S
  <2> SUFFICES ASSUME NEW m \in Nat, m < PowerOfTwo[j + 1]
               PROVE  Shift(m, j + 1) = 0
    OBVIOUS
  <2>1. j \in Nat /\ PowerOfTwo[j] \in Nat /\ PowerOfTwo[j + 1] = 2 * PowerOfTwo[j]
    BY Powers
  <2>2. m \div 2 \in Nat /\ 2 * (m \div 2) <= m
    BY Halves
  <2>3. m \div 2 < PowerOfTwo[j]
    BY <2>1, <2>2
  <2>4. Shift(m \div 2, j) = 0
    BY <2>2, <2>3
  <2> QED
    BY <2>1, <2>4, ShiftOfHalf
<1> HIDE DEF S
<1>3. S = Nat
  <2>1. S \in SUBSET Nat
    BY DEF S
  <2> QED
    BY <1>1, <1>2, <2>1, Induction
<1> QED
  BY <1>3 DEF S

-----------------------------------------------------------------------------
(* The levels that an insertion completes.                                 *)

LEMMA CompletedIsLeast ==
    ASSUME NEW n \in Nat
    PROVE  /\ Completed(n) \in 0..n
           /\ ~IsOdd(Shift(n, Completed(n)))
           /\ \A i \in 0..(Completed(n) - 1) : IsOdd(Shift(n, i))
<1> DEFINE Even == {m \in Nat : ~IsOdd(Shift(n, m))}
           S == {i \in Nat : Shift(n, i) = 0 \/ Shift(n, i) + i <= n}
<1>1. 0 \in S
  BY Shifts
<1>2. ASSUME NEW i \in S
      PROVE  i + 1 \in S
  <2>1. i \in Nat /\ Shift(n, i) \in Nat /\ Shift(n, i + 1) = Shift(n, i) \div 2
    BY Shifts
  <2> QED
    BY <2>1, Halves
<1>3. S = Nat
  <2>1. S \in SUBSET Nat
    OBVIOUS
  <2> HIDE DEF S
  <2> QED
    BY <1>1, <1>2, <2>1, Induction
<1>4. n \in Even
  <2>1. Shift(n, n) = 0
    BY <1>3, Shifts
  <2> QED
    BY <2>1 DEF IsOdd
<1>5. PICK m \in Even : \A k \in Even : m <= k
  <2>1. Even \in SUBSET Nat /\ Even # {}
    BY <1>4
  <2> HIDE DEF Even
  <2> QED
    BY <2>1, Smallest
<1>6. m \in 0..n
  BY <1>4, <1>5
<1>7. \A i \in 0..(m - 1) : IsOdd(Shift(n, i))
  <2> TAKE i \in 0..(m - 1)
  <2>1. i \in Nat /\ i < m
    BY <1>5
  <2> QED
    BY <1>5, <2>1
<1>8. ~IsOdd(Shift(n, m))
  BY <1>5
<1> QED
  BY <1>6, <1>7, <1>8 DEF Completed

\* As a carry: an insertion adds one to the shifts that it completes.
LEMMA ShiftOfNext ==
    ASSUME NEW n \in Nat
    PROVE  \A i \in Nat : Shift(n + 1, i) = IF i <= Completed(n) THEN Shift(n, i) + 1 ELSE Shift(n, i)
<1> DEFINE c == Completed(n)
           S == {i \in Nat : Shift(n + 1, i) = IF i <= c THEN Shift(n, i) + 1 ELSE Shift(n, i)}
<1>1. /\ c \in Nat
      /\ ~IsOdd(Shift(n, c))
      /\ \A i \in Nat : i < c => IsOdd(Shift(n, i))
  BY CompletedIsLeast
<1> HIDE DEF c
<1>2. 0 \in S
  BY <1>1, Shifts
<1>3. ASSUME NEW i \in S
      PROVE  i + 1 \in S
  <2>1. /\ i \in Nat
        /\ Shift(n + 1, i + 1) = Shift(n + 1, i) \div 2
        /\ Shift(n, i + 1) = Shift(n, i) \div 2
        /\ Shift(n, i) \in Nat
    <3>1. n + 1 \in Nat /\ i \in Nat
      OBVIOUS
    <3> QED
      BY <3>1, Shifts
  <2> DEFINE s == Shift(n, i)
  <2> HIDE DEF s
  <2>2. CASE i + 1 <= c
    <3>1. s % 2 = 1 /\ Shift(n + 1, i) = s + 1
      BY <1>1, <2>1, <2>2 DEF IsOdd, s
    <3>2. (s + 1) \div 2 = (s \div 2) + 1
      BY <2>1, <3>1 DEF s
    <3> QED
      BY <2>1, <2>2, <3>1, <3>2 DEF s
  <2>3. CASE i = c
    <3>1. s % 2 = 0 /\ Shift(n + 1, i) = s + 1
      BY <1>1, <2>1, <2>3 DEF IsOdd, s
    <3>2. (s + 1) \div 2 = s \div 2
      BY <2>1, <3>1 DEF s
    <3>3. ~(i + 1 <= c)
      BY <2>1, <2>3
    <3> QED
      BY <2>1, <3>1, <3>2, <3>3 DEF s
  <2>4. CASE i > c
    BY <1>1, <2>1, <2>4
  <2> QED
    BY <1>1, <2>1, <2>2, <2>3, <2>4
<1> HIDE DEF S
<1>4. S = Nat
  <2>1. S \in SUBSET Nat
    BY DEF S
  <2> QED
    BY <1>2, <1>3, <2>1, Induction
<1> QED
  BY <1>4 DEF S, c

-----------------------------------------------------------------------------
(* The functions that the model defines level by level.                    *)

AreZeros(f, n) ==
    f = [i \in 0..n |->
            IF i = 0 THEN Leaf(BlankLeaf) ELSE Poseidon(f[i - 1], f[i - 1])]

LEMMA ZerosExist ==
    \A n \in Nat : \E f : AreZeros(f, n)
<1> DEFINE S == {n \in Nat : \E f : AreZeros(f, n)}
<1>1. 0 \in S
  <2> DEFINE h == [i \in 0..0 |->
                      IF i = 0 THEN Leaf(BlankLeaf) ELSE Poseidon(<<>>[i - 1], <<>>[i - 1])]
  <2>1. AreZeros(h, 0)
    BY DEF AreZeros
  <2> HIDE DEF h
  <2> QED
    BY <2>1
<1>2. ASSUME NEW n \in S
      PROVE  n + 1 \in S
  <2>1. PICK f : AreZeros(f, n)
    OBVIOUS
  <2> DEFINE h == [i \in 0..(n + 1) |->
                      IF i = 0 THEN Leaf(BlankLeaf) ELSE Poseidon(f[i - 1], f[i - 1])]
  <2>2. ASSUME NEW i \in 0..(n + 1), i # 0
        PROVE  f[i - 1] = h[i - 1]
    <3>1. i - 1 \in 0..n /\ i - 1 \in 0..(n + 1)
      BY <2>2
    <3> QED
      BY <2>1, <3>1 DEF AreZeros
  <2>3. AreZeros(h, n + 1)
    BY <2>2 DEF AreZeros
  <2> HIDE DEF h
  <2> QED
    BY <2>3
<1> HIDE DEF S
<1>3. S = Nat
  <2>1. S \in SUBSET Nat
    BY DEF S
  <2> QED
    BY <1>1, <1>2, <2>1, Induction
<1> QED
  BY <1>3 DEF S

LEMMA Zeros ==
    /\ DefaultZero[0] = Leaf(BlankLeaf)
    /\ \A i \in 1..MaxDepth : DefaultZero[i] = Poseidon(DefaultZero[i - 1], DefaultZero[i - 1])
<1>1. \E f : AreZeros(f, MaxDepth)
  BY ZerosExist, LazyAssumption
<1>2. DefaultZero = CHOOSE f : AreZeros(f, MaxDepth)
  BY DEF DefaultZero, AreZeros
<1>3. AreZeros(DefaultZero, MaxDepth)
  BY <1>1, <1>2
<1> QED
  BY <1>3, LazyAssumption DEF AreZeros

AreHashes(f, nodes, index, leaf, n) ==
    f = [i \in 0..n |->
            IF i = 0 THEN leaf
            ELSE Poseidon(nodes[<<i - 1, Shift(index, i - 1) - 1>>], f[i - 1])]

LEMMA HashesExist ==
    ASSUME NEW nodes, NEW index, NEW leaf
    PROVE  \A n \in Nat : \E f : AreHashes(f, nodes, index, leaf, n)
<1> DEFINE S == {n \in Nat : \E f : AreHashes(f, nodes, index, leaf, n)}
<1>1. 0 \in S
  <2> DEFINE h == [i \in 0..0 |->
                      IF i = 0 THEN leaf
                      ELSE Poseidon(nodes[<<i - 1, Shift(index, i - 1) - 1>>], <<>>[i - 1])]
  <2>1. AreHashes(h, nodes, index, leaf, 0)
    BY DEF AreHashes
  <2> HIDE DEF h
  <2> QED
    BY <2>1
<1>2. ASSUME NEW n \in S
      PROVE  n + 1 \in S
  <2>1. PICK f : AreHashes(f, nodes, index, leaf, n)
    OBVIOUS
  <2> DEFINE h == [i \in 0..(n + 1) |->
                      IF i = 0 THEN leaf
                      ELSE Poseidon(nodes[<<i - 1, Shift(index, i - 1) - 1>>], f[i - 1])]
  <2>2. ASSUME NEW i \in 0..(n + 1), i # 0
        PROVE  f[i - 1] = h[i - 1]
    <3>1. i - 1 \in 0..n /\ i - 1 \in 0..(n + 1)
      BY <2>2
    <3> QED
      BY <2>1, <3>1 DEF AreHashes
  <2>3. AreHashes(h, nodes, index, leaf, n + 1)
    BY <2>2 DEF AreHashes
  <2> HIDE DEF h
  <2> QED
    BY <2>3
<1> HIDE DEF S
<1>3. S = Nat
  <2>1. S \in SUBSET Nat
    BY DEF S
  <2> QED
    BY <1>1, <1>2, <2>1, Induction
<1> QED
  BY <1>3 DEF S

LEMMA Hashes ==
    ASSUME NEW index, NEW leaf, NEW hash, hash = HashAt(index, leaf)
    PROVE  /\ hash[0] = leaf
           /\ \A i \in 1..MaxDepth :
                 hash[i] = Poseidon(elements[<<i - 1, Shift(index, i - 1) - 1>>], hash[i - 1])
<1>1. \E f : AreHashes(f, elements, index, leaf, MaxDepth)
  BY HashesExist, LazyAssumption
<1>2. hash = CHOOSE f : AreHashes(f, elements, index, leaf, MaxDepth)
  BY DEF HashAt, AreHashes
<1>3. AreHashes(hash, elements, index, leaf, MaxDepth)
  BY <1>1, <1>2
<1> DEFINE h == [i \in 0..MaxDepth |->
                    IF i = 0 THEN leaf
                    ELSE Poseidon(elements[<<i - 1, Shift(index, i - 1) - 1>>], hash[i - 1])]
<1>4. hash = h
  BY <1>3 DEF AreHashes
<1>5. /\ h[0] = leaf
      /\ \A i \in 1..MaxDepth :
            h[i] = Poseidon(elements[<<i - 1, Shift(index, i - 1) - 1>>], hash[i - 1])
  BY LazyAssumption
<1> HIDE DEF h
<1> QED
  BY <1>4, <1>5

AreNodes(f, list, n) ==
    f = [i \in 0..n |->
            [k \in Nat |->
                IF i = 0
                THEN Leaf(IF k < Len(list) THEN list[k + 1] ELSE BlankLeaf)
                ELSE Poseidon(f[i - 1][2 * k], f[i - 1][2 * k + 1])]]

LEMMA NodesExist ==
    ASSUME NEW list
    PROVE  \A n \in Nat : \E f : AreNodes(f, list, n)
<1> DEFINE S == {n \in Nat : \E f : AreNodes(f, list, n)}
<1>1. 0 \in S
  <2> DEFINE h == [i \in 0..0 |->
                      [k \in Nat |->
                          IF i = 0
                          THEN Leaf(IF k < Len(list) THEN list[k + 1] ELSE BlankLeaf)
                          ELSE Poseidon(<<>>[i - 1][2 * k], <<>>[i - 1][2 * k + 1])]]
  <2>1. AreNodes(h, list, 0)
    BY DEF AreNodes
  <2> HIDE DEF h
  <2> QED
    BY <2>1
<1>2. ASSUME NEW n \in S
      PROVE  n + 1 \in S
  <2>1. PICK f : AreNodes(f, list, n)
    OBVIOUS
  <2> DEFINE h == [i \in 0..(n + 1) |->
                      [k \in Nat |->
                          IF i = 0
                          THEN Leaf(IF k < Len(list) THEN list[k + 1] ELSE BlankLeaf)
                          ELSE Poseidon(f[i - 1][2 * k], f[i - 1][2 * k + 1])]]
  <2>2. ASSUME NEW i \in 0..(n + 1), i # 0
        PROVE  f[i - 1] = h[i - 1]
    <3>1. i - 1 \in 0..n /\ i - 1 \in 0..(n + 1)
      BY <2>2
    <3> QED
      BY <2>1, <3>1 DEF AreNodes
  <2>3. AreNodes(h, list, n + 1)
    BY <2>2 DEF AreNodes
  <2> HIDE DEF h
  <2> QED
    BY <2>3
<1> HIDE DEF S
<1>3. S = Nat
  <2>1. S \in SUBSET Nat
    BY DEF S
  <2> QED
    BY <1>1, <1>2, <2>1, Induction
<1> QED
  BY <1>3 DEF S

LEMMA Nodes ==
    ASSUME NEW list, NEW node, node = NodesOver(list)
    PROVE  \A k \in Nat :
              /\ node[0][k] = Leaf(IF k < Len(list) THEN list[k + 1] ELSE BlankLeaf)
              /\ \A d \in 1..MaxDepth : node[d][k] = Poseidon(node[d - 1][2 * k], node[d - 1][2 * k + 1])
<1>1. \E f : AreNodes(f, list, MaxDepth)
  BY NodesExist, LazyAssumption
<1>2. node = CHOOSE f : AreNodes(f, list, MaxDepth)
  BY DEF NodesOver, AreNodes
<1>3. AreNodes(node, list, MaxDepth)
  BY <1>1, <1>2
<1> DEFINE Value(d, k) == IF d = 0
                          THEN Leaf(IF k < Len(list) THEN list[k + 1] ELSE BlankLeaf)
                          ELSE Poseidon(node[d - 1][2 * k], node[d - 1][2 * k + 1])
           h == [d \in 0..MaxDepth |-> [k \in Nat |-> Value(d, k)]]
<1>4. node = h
  BY <1>3 DEF AreNodes
<1>5. \A d \in 0..MaxDepth : \A k \in Nat : h[d][k] = Value(d, k)
  <2> HIDE DEF Value
  <2> QED
    OBVIOUS
<1> HIDE DEF h
<1>6. 0 \in 0..MaxDepth /\ \A d \in 1..MaxDepth : d \in 0..MaxDepth /\ d # 0
  BY LazyAssumption
<1> QED
  BY <1>4, <1>5, <1>6

AreLevels(f, last, n) ==
    f = [i \in 0..n |->
            IF i = 0 THEN
                IF IsOdd(last) THEN DefaultZero[0] ELSE elements[<<0, last>>]
            ELSE IF ~IsOdd(Shift(last, i - 1))
            THEN Poseidon(f[i - 1], DefaultZero[i - 1])
            ELSE IF Shift(numberOfLeaves, i) > Shift(Shift(last, i - 1), 1)
            THEN elements[<<i, Shift(Shift(last, i - 1), 1)>>]
            ELSE Poseidon(elements[<<i - 1, Shift(last, i - 1) - 1>>], f[i - 1])]

LEMMA LevelsExist ==
    ASSUME NEW last
    PROVE  \A n \in Nat : \E f : AreLevels(f, last, n)
<1> DEFINE S == {n \in Nat : \E f : AreLevels(f, last, n)}
<1>1. 0 \in S
  <2> DEFINE h == [i \in 0..0 |->
                      IF i = 0 THEN
                          IF IsOdd(last) THEN DefaultZero[0] ELSE elements[<<0, last>>]
                      ELSE IF ~IsOdd(Shift(last, i - 1))
                      THEN Poseidon(<<>>[i - 1], DefaultZero[i - 1])
                      ELSE IF Shift(numberOfLeaves, i) > Shift(Shift(last, i - 1), 1)
                      THEN elements[<<i, Shift(Shift(last, i - 1), 1)>>]
                      ELSE Poseidon(elements[<<i - 1, Shift(last, i - 1) - 1>>], <<>>[i - 1])]
  <2>1. AreLevels(h, last, 0)
    BY DEF AreLevels
  <2> HIDE DEF h
  <2> QED
    BY <2>1
<1>2. ASSUME NEW n \in S
      PROVE  n + 1 \in S
  <2>1. PICK f : AreLevels(f, last, n)
    OBVIOUS
  <2> DEFINE h == [i \in 0..(n + 1) |->
                      IF i = 0 THEN
                          IF IsOdd(last) THEN DefaultZero[0] ELSE elements[<<0, last>>]
                      ELSE IF ~IsOdd(Shift(last, i - 1))
                      THEN Poseidon(f[i - 1], DefaultZero[i - 1])
                      ELSE IF Shift(numberOfLeaves, i) > Shift(Shift(last, i - 1), 1)
                      THEN elements[<<i, Shift(Shift(last, i - 1), 1)>>]
                      ELSE Poseidon(elements[<<i - 1, Shift(last, i - 1) - 1>>], f[i - 1])]
  <2>2. ASSUME NEW i \in 0..(n + 1), i # 0
        PROVE  f[i - 1] = h[i - 1]
    <3>1. i - 1 \in 0..n /\ i - 1 \in 0..(n + 1)
      BY <2>2
    <3> QED
      BY <2>1, <3>1 DEF AreLevels
  <2>3. AreLevels(h, last, n + 1)
    BY <2>2 DEF AreLevels
  <2> HIDE DEF h
  <2> QED
    BY <2>3
<1> HIDE DEF S
<1>3. S = Nat
  <2>1. S \in SUBSET Nat
    BY DEF S
  <2> QED
    BY <1>1, <1>2, <2>1, Induction
<1> QED
  BY <1>3 DEF S

LEMMA EdgeLevels ==
    ASSUME NEW last, last = numberOfLeaves - 1
    PROVE  \E levels :
              /\ AreLevels(levels, last, MaxDepth)
              /\ \A d : RootAt(d) = levels[d]
<1> DEFINE levels == CHOOSE f : AreLevels(f, last, MaxDepth)
<1>1. AreLevels(levels, last, MaxDepth)
  BY LevelsExist, LazyAssumption
<1>2. ASSUME NEW d
      PROVE  RootAt(d) = levels[d]
  BY DEF RootAt, AreLevels
<1> HIDE DEF levels
<1> QED
  BY <1>1, <1>2

-----------------------------------------------------------------------------
(* The stored nodes.                                                       *)

\* Complete nodes stay as they are when a leaf is added.
LEMMA CompleteStay ==
    ASSUME NEW L, NEW list \in Seq(L), NEW leaf, NEW old, NEW new,
           old = NodesOver(list), new = NodesOver(Append(list, leaf))
    PROVE  \A i \in 0..MaxDepth : \A k \in Nat :
              k < Shift(Len(list), i) => new[i][k] = old[i][k]
<1> DEFINE n == Len(list)
           longer == Append(list, leaf)
           S == {i \in Nat : i <= MaxDepth =>
                    \A k \in Nat : k < Shift(n, i) => new[i][k] = old[i][k]}
<1>1. n \in Nat
  OBVIOUS
<1>2. Len(longer) = n + 1 /\ \A k \in 1..n : longer[k] = list[k]
  OBVIOUS
<1> HIDE DEF longer, n
<1>3. 0 \in S
  <2> SUFFICES ASSUME NEW k \in Nat, k < Shift(n, 0)
               PROVE  new[0][k] = old[0][k]
    OBVIOUS
  <2>1. k < n
    BY <1>1, Shifts
  <2>2. k < n + 1 /\ k + 1 \in 1..n
    BY <1>1, <2>1
  <2>3. old[0][k] = Leaf(IF k < n THEN list[k + 1] ELSE BlankLeaf)
    BY Nodes DEF n
  <2>4. new[0][k] = Leaf(IF k < Len(longer) THEN longer[k + 1] ELSE BlankLeaf)
    BY Nodes DEF longer
  <2> QED
    BY <1>2, <2>1, <2>2, <2>3, <2>4
<1>4. ASSUME NEW i \in S
      PROVE  i + 1 \in S
  <2> SUFFICES ASSUME i + 1 <= MaxDepth, NEW k \in Nat, k < Shift(n, i + 1)
               PROVE  new[i + 1][k] = old[i + 1][k]
    OBVIOUS
  <2>1. /\ i \in Nat
        /\ i <= MaxDepth
        /\ i + 1 \in 1..MaxDepth
        /\ (i + 1) - 1 = i
        /\ \A j \in Nat : j < Shift(n, i) => new[i][j] = old[i][j]
    BY LazyAssumption
  <2>2. Shift(n, i) \in Nat /\ Shift(n, i + 1) = Shift(n, i) \div 2
    BY <1>1, <2>1, Shifts
  <2>3. /\ 2 * k \in Nat /\ 2 * k + 1 \in Nat
        /\ 2 * k < Shift(n, i) /\ 2 * k + 1 < Shift(n, i)
    <3> DEFINE s == Shift(n, i)
    <3>1. s \in Nat /\ s \div 2 \in Nat /\ k < s \div 2
      BY <2>2, Halves
    <3>2. 2 * (s \div 2) <= s
      BY <3>1
    <3> HIDE DEF s
    <3> QED
      BY <3>1, <3>2 DEF s
  <2>4. new[i][2 * k] = old[i][2 * k] /\ new[i][2 * k + 1] = old[i][2 * k + 1]
    BY <2>1, <2>3
  <2>5. old[i + 1][k] = Poseidon(old[(i + 1) - 1][2 * k], old[(i + 1) - 1][2 * k + 1])
    BY <2>1, Nodes
  <2>6. new[i + 1][k] = Poseidon(new[(i + 1) - 1][2 * k], new[(i + 1) - 1][2 * k + 1])
    BY <2>1, Nodes
  <2> QED
    BY <2>1, <2>4, <2>5, <2>6
<1> HIDE DEF S
<1>5. S = Nat
  <2>1. S \in SUBSET Nat
    BY DEF S
  <2> QED
    BY <1>3, <1>4, <2>1, Induction
<1> QED
  BY <1>5, LazyAssumption DEF S, n

\* Right of the last leaf every node is the zero of its level.
LEMMA ZerosRight ==
    ASSUME NEW L, NEW list \in Seq(L), list # <<>>, NEW node, node = NodesOver(list)
    PROVE  \A i \in 0..MaxDepth : \A k \in Nat :
              k > Shift(Len(list) - 1, i) => node[i][k] = DefaultZero[i]
<1> DEFINE last == Len(list) - 1
           S == {i \in Nat : i <= MaxDepth =>
                    \A k \in Nat : k > Shift(last, i) => node[i][k] = DefaultZero[i]}
<1>1. last \in Nat /\ Len(list) = last + 1
  OBVIOUS
<1> HIDE DEF last
<1>2. 0 \in S
  <2> SUFFICES ASSUME NEW k \in Nat, k > Shift(last, 0)
               PROVE  node[0][k] = DefaultZero[0]
    OBVIOUS
  <2>1. ~(k < Len(list))
    BY <1>1, Shifts
  <2> QED
    BY <2>1, Nodes, Zeros
<1>3. ASSUME NEW i \in S
      PROVE  i + 1 \in S
  <2> SUFFICES ASSUME i + 1 <= MaxDepth, NEW k \in Nat, k > Shift(last, i + 1)
               PROVE  node[i + 1][k] = DefaultZero[i + 1]
    OBVIOUS
  <2>1. /\ i \in Nat
        /\ i <= MaxDepth
        /\ i + 1 \in 1..MaxDepth
        /\ (i + 1) - 1 = i
        /\ \A j \in Nat : j > Shift(last, i) => node[i][j] = DefaultZero[i]
    BY LazyAssumption
  <2>2. Shift(last, i) \in Nat /\ Shift(last, i + 1) = Shift(last, i) \div 2
    BY <1>1, <2>1, Shifts
  <2>3. /\ 2 * k \in Nat /\ 2 * k + 1 \in Nat
        /\ 2 * k > Shift(last, i) /\ 2 * k + 1 > Shift(last, i)
    BY <2>2, Halves
  <2>4. node[i][2 * k] = DefaultZero[i] /\ node[i][2 * k + 1] = DefaultZero[i]
    BY <2>1, <2>3
  <2>5. node[i + 1][k] = Poseidon(node[(i + 1) - 1][2 * k], node[(i + 1) - 1][2 * k + 1])
    BY <2>1, Nodes
  <2>6. DefaultZero[i + 1] = Poseidon(DefaultZero[(i + 1) - 1], DefaultZero[(i + 1) - 1])
    BY <2>1, Zeros
  <2> QED
    BY <2>1, <2>4, <2>5, <2>6
<1> HIDE DEF S
<1>4. S = Nat
  <2>1. S \in SUBSET Nat
    BY DEF S
  <2> QED
    BY <1>2, <1>3, <2>1, Induction
<1> QED
  BY <1>4, LazyAssumption DEF S, last

\* Every node whose leaves are all there is stored.
LazyInv ==
    /\ inserted \in Seq(JoinLeaves \cup {BlankLeaf})
    /\ numberOfLeaves = Len(inserted)
    /\ numberOfLeaves \in 1..MaxSignups
    /\ \A i \in 0..MaxDepth : \A k \in Nat :
          k < Shift(numberOfLeaves, i) =>
              <<i, k>> \in DOMAIN elements /\ elements[<<i, k>>] = NodesOver(inserted)[i][k]

LEMMA LazyInvInit == LazyInit => LazyInv
<1> SUFFICES ASSUME LazyInit
             PROVE  LazyInv
  OBVIOUS
<1> USE DEF LazyInit
<1>1. /\ inserted \in Seq(JoinLeaves \cup {BlankLeaf})
      /\ Len(inserted) = 1 /\ inserted[1] = BlankLeaf
  OBVIOUS
<1>2. 1 \in 1..MaxSignups
  BY Powers, LazyAssumption
<1>3. Shift(1, 0) = 1 /\ \A i \in Nat : Shift(1, i + 1) = 0
  <2>1. 1 \in Nat /\ 0 \in Nat /\ 1 \div 2 = 0
    OBVIOUS
  <2>2. \A i \in Nat : Shift(1, i + 1) = Shift(0, i)
    BY <2>1, ShiftOfHalf
  <2>3. \A i \in Nat : Shift(0, i) = 0
    <3>1. \A i \in Nat : 0 < PowerOfTwo[i]
      BY Powers
    <3> QED
      BY <2>1, <3>1, ShiftedAway
  <2> QED
    BY <2>1, <2>2, <2>3, Shifts
<1>4. ASSUME NEW i \in 0..MaxDepth, NEW k \in Nat, k < Shift(1, i)
      PROVE  <<i, k>> \in DOMAIN elements /\ elements[<<i, k>>] = NodesOver(inserted)[i][k]
  <2>1. i = 0 /\ k = 0
    <3>1. CASE i = 0
      BY <1>3, <1>4, <3>1
    <3>2. CASE i # 0
      <4>1. i - 1 \in Nat /\ (i - 1) + 1 = i
        BY <3>2, LazyAssumption
      <4>2. Shift(1, i) = 0
        BY <1>3, <4>1
      <4> QED
        BY <1>4, <4>2
    <3> QED
      BY <3>1, <3>2
  <2>2. NodesOver(inserted)[0][0] = Leaf(BlankLeaf)
    <3>1. NodesOver(inserted)[0][0] = Leaf(IF 0 < Len(inserted) THEN inserted[0 + 1] ELSE BlankLeaf)
      BY Nodes
    <3> QED
      BY <1>1, <3>1
  <2> QED
    BY <2>1, <2>2
<1> QED
  BY <1>1, <1>2, <1>4 DEF LazyInv

LEMMA LazyInvJoin ==
    ASSUME LazyInv, NEW leaf \in JoinLeaves, JoinPoll(leaf)
    PROVE  LazyInv'
<1> DEFINE n == numberOfLeaves
           c == Completed(n)
           hash == HashAt(n, Leaf(leaf))
           old == NodesOver(inserted)
           new == NodesOver(inserted')
           added == {<<i, Shift(n, i)>> : i \in 0..c}
<1>1. /\ inserted \in Seq(JoinLeaves \cup {BlankLeaf})
      /\ n = Len(inserted) /\ n \in Nat /\ n >= 1
      /\ MaxSignups \in Nat /\ n <= MaxSignups
      /\ PowerOfTwo[MaxDepth] \in Nat /\ MaxSignups <= PowerOfTwo[MaxDepth]
  <2>1. PowerOfTwo[MaxDepth] \in Nat
    BY Powers, LazyAssumption
  <2>2. MaxSignups \in Nat /\ MaxSignups <= PowerOfTwo[MaxDepth]
    BY <2>1, LazyAssumption
  <2>3. inserted \in Seq(JoinLeaves \cup {BlankLeaf}) /\ n = Len(inserted) /\ n \in 1..MaxSignups
    BY DEF LazyInv
  <2> QED
    BY <2>1, <2>2, <2>3
<1>2. /\ n < MaxSignups
      /\ numberOfLeaves' = n + 1
      /\ inserted' = Append(inserted, leaf)
      /\ elements' = [e \in DOMAIN elements \union added |->
                         IF e \in added THEN hash[e[1]] ELSE elements[e]]
  BY DEF JoinPoll, LazyInsert, Put
<1>3. /\ inserted' \in Seq(JoinLeaves \cup {BlankLeaf})
      /\ Len(inserted') = n + 1
      /\ inserted'[n + 1] = leaf
  BY <1>1, <1>2
<1>4. \A i \in 0..MaxDepth : \A k \in Nat :
          k < Shift(n, i) => <<i, k>> \in DOMAIN elements /\ elements[<<i, k>>] = old[i][k]
  BY DEF LazyInv
<1>5. /\ c \in Nat /\ c <= MaxDepth
      /\ \A i \in Nat : i < c => IsOdd(Shift(n, i))
  <2>1. /\ c \in Nat
        /\ \A i \in Nat : i < c => IsOdd(Shift(n, i))
    BY <1>1, CompletedIsLeast
  <2> HIDE DEF c
  <2>2. Shift(n, MaxDepth) = 0
    <3>1. n < PowerOfTwo[MaxDepth]
      BY <1>1, <1>2
    <3> QED
      BY <1>1, <3>1, ShiftedAway, LazyAssumption
  <2>3. ~IsOdd(Shift(n, MaxDepth))
    BY <2>2 DEF IsOdd
  <2> QED
    BY <2>1, <2>3, LazyAssumption
<1>6. \A i \in Nat : Shift(n + 1, i) = IF i <= c THEN Shift(n, i) + 1 ELSE Shift(n, i)
  BY <1>1, ShiftOfNext
<1>7. \A i \in 0..MaxDepth : \A k \in Nat : k < Shift(n, i) => new[i][k] = old[i][k]
  BY <1>1, <1>2, CompleteStay
<1>8. /\ hash[0] = Leaf(leaf)
      /\ \A i \in 1..MaxDepth :
            hash[i] = Poseidon(elements[<<i - 1, Shift(n, i - 1) - 1>>], hash[i - 1])
  BY Hashes
<1>9. \A k \in Nat :
          /\ new[0][k] = Leaf(IF k < Len(inserted') THEN inserted'[k + 1] ELSE BlankLeaf)
          /\ \A d \in 1..MaxDepth : new[d][k] = Poseidon(new[d - 1][2 * k], new[d - 1][2 * k + 1])
  BY Nodes
<1> HIDE DEF n, c, hash, old, new
\* The hash at each level it completes is the node there.
<1> DEFINE S == {i \in Nat : i <= c => hash[i] = new[i][Shift(n, i)]}
<1>10. 0 \in S
  <2>1. Shift(n, 0) = n /\ n < n + 1
    BY <1>1, Shifts
  <2>2. new[0][n] = Leaf(leaf)
    BY <1>1, <1>3, <1>9, <2>1
  <2> QED
    BY <1>8, <2>1, <2>2
<1>11. ASSUME NEW i \in S
       PROVE  i + 1 \in S
  <2> SUFFICES ASSUME i + 1 <= c
               PROVE  hash[i + 1] = new[i + 1][Shift(n, i + 1)]
    OBVIOUS
  <2> DEFINE s == Shift(n, i)
             q == Shift(n, i + 1)
  <2>1. /\ i \in Nat /\ i < c /\ i <= c
        /\ i \in 0..MaxDepth
        /\ i + 1 \in 1..MaxDepth
        /\ (i + 1) - 1 = i
    BY <1>5, LazyAssumption
  <2>2. s \in Nat /\ s % 2 = 1 /\ q = s \div 2
    BY <1>1, <1>5, <2>1, Shifts DEF IsOdd
  <2>3. hash[i] = new[i][s]
    BY <2>1
  <2> HIDE DEF s, q
  <2>4. q \in Nat /\ 2 * q \in Nat /\ 2 * q = s - 1 /\ 2 * q + 1 = s /\ s - 1 < s
    BY <2>2, Halves
  <2>5. elements[<<i, s - 1>>] = new[i][s - 1]
    BY <1>4, <1>7, <2>1, <2>4 DEF s
  <2>6. hash[i + 1] = Poseidon(elements[<<i, s - 1>>], hash[i])
    BY <1>8, <2>1 DEF s
  <2>7. new[i + 1][q] = Poseidon(new[i][2 * q], new[i][2 * q + 1])
    <3>1. new[i + 1][q] = Poseidon(new[(i + 1) - 1][2 * q], new[(i + 1) - 1][2 * q + 1])
      BY <1>9, <2>1, <2>4
    <3> QED
      BY <2>1, <3>1
  <2>8. hash[i + 1] = new[i + 1][q]
    BY <2>3, <2>4, <2>5, <2>6, <2>7
  <2> QED
    BY <2>8 DEF q
<1> HIDE DEF S
<1>12. S = Nat
  <2>1. S \in SUBSET Nat
    BY DEF S
  <2> QED
    BY <1>10, <1>11, <2>1, Induction
<1>13. ASSUME NEW i \in 0..MaxDepth, NEW k \in Nat, k < Shift(n + 1, i)
       PROVE  <<i, k>> \in DOMAIN elements' /\ elements'[<<i, k>>] = new[i][k]
  <2>1. i \in Nat /\ Shift(n, i) \in Nat
    <3>1. i \in Nat
      BY LazyAssumption
    <3> QED
      BY <1>1, <3>1, Shifts
  <2>2. DOMAIN elements' = DOMAIN elements \union added
    BY <1>2
  <2>3. \A j \in 0..c : <<j, Shift(n, j)>> = <<i, k>> => j = i /\ k = Shift(n, i)
    OBVIOUS
  <2>4. CASE i <= c /\ k = Shift(n, i)
    <3>1. i \in 0..c /\ <<i, k>> \in added
      BY <1>5, <2>1, <2>4
    <3>2. elements'[<<i, k>>] = hash[i]
      BY <1>2, <3>1
    <3> QED
      BY <1>12, <2>1, <2>2, <2>4, <3>1, <3>2 DEF S
  <2>5. CASE ~(i <= c /\ k = Shift(n, i))
    <3>1. k < Shift(n, i)
      BY <1>5, <1>6, <1>13, <2>1, <2>5
    <3>2. <<i, k>> \notin added
      BY <2>1, <2>3, <3>1
    <3>3. <<i, k>> \in DOMAIN elements /\ elements[<<i, k>>] = old[i][k] /\ new[i][k] = old[i][k]
      BY <1>4, <1>7, <3>1
    <3>4. elements'[<<i, k>>] = elements[<<i, k>>]
      BY <1>2, <3>2, <3>3
    <3> QED
      BY <2>2, <3>3, <3>4
  <2> QED
    BY <2>4, <2>5
<1>14. numberOfLeaves' = Len(inserted') /\ numberOfLeaves' \in 1..MaxSignups
  BY <1>1, <1>2, <1>3
<1> QED
  BY <1>2, <1>3, <1>13, <1>14 DEF LazyInv, new

LEMMA LazyInvNext ==
    ASSUME LazyInv, [LazyNext]_lazyVars
    PROVE  LazyInv'
<1>1. CASE LazyNext
  BY <1>1, LazyInvJoin DEF LazyNext
<1>2. CASE UNCHANGED lazyVars
  BY <1>2 DEF lazyVars, LazyInv
<1> QED
  BY <1>1, <1>2

-----------------------------------------------------------------------------
(* The right edge that _levels computes from them.                         *)

LEMMA LevelsAreNodes ==
    ASSUME LazyInv, NEW last, last = numberOfLeaves - 1,
           NEW levels, AreLevels(levels, last, MaxDepth)
    PROVE  \A i \in 1..MaxDepth : levels[i] = NodesOver(inserted)[i][Shift(last, i)]
<1> DEFINE n == numberOfLeaves
           node == NodesOver(inserted)
           index(i) == Shift(last, i)
           S == {i \in Nat : i <= MaxDepth /\ (i # 0 \/ ~IsOdd(last)) => levels[i] = node[i][index(i)]}
<1>1. last \in Nat /\ n = last + 1 /\ n \in Nat /\ n = Len(inserted) /\ inserted # <<>>
  <2>1. n \in Nat /\ n >= 1 /\ n = Len(inserted)
    BY LazyAssumption, Powers DEF LazyInv
  <2> QED
    BY <2>1
<1>2. \A i \in 0..MaxDepth : \A k \in Nat : k < Shift(n, i) => elements[<<i, k>>] = node[i][k]
  BY DEF LazyInv
<1>3. \A i \in 0..MaxDepth : \A k \in Nat : k > index(i) => node[i][k] = DefaultZero[i]
  <2>1. inserted \in Seq(JoinLeaves \cup {BlankLeaf}) /\ inserted # <<>> /\ Len(inserted) - 1 = last
    BY <1>1 DEF LazyInv
  <2> QED
    BY <2>1, ZerosRight
<1>4. \A i \in Nat : index(i) \in Nat /\ index(i + 1) = index(i) \div 2 /\ Shift(index(i), 1) = index(i + 1)
  <2> TAKE i \in Nat
  <2>1. index(i) \in Nat /\ index(i + 1) = index(i) \div 2
    BY <1>1, Shifts
  <2>2. Shift(index(i), 1) = Shift(index(i), 0) \div 2
    <3>1. 0 \in Nat /\ 0 + 1 = 1
      OBVIOUS
    <3> HIDE DEF index
    <3> QED
      BY <2>1, <3>1, Shifts
  <2>3. Shift(index(i), 0) = index(i)
    BY <2>1, Shifts
  <2> QED
    BY <2>1, <2>2, <2>3
<1>5. \A i \in Nat : Shift(n, i) >= index(i)
  <2> TAKE i \in Nat
  <2>1. Shift(n, i) = IF i <= Completed(last) THEN index(i) + 1 ELSE index(i)
    BY <1>1, ShiftOfNext
  <2> HIDE DEF index
  <2> QED
    BY <1>4, <2>1
<1>6. \A k \in Nat :
          /\ node[0][k] = Leaf(IF k < Len(inserted) THEN inserted[k + 1] ELSE BlankLeaf)
          /\ \A d \in 1..MaxDepth : node[d][k] = Poseidon(node[d - 1][2 * k], node[d - 1][2 * k + 1])
  BY Nodes
<1> DEFINE Stored(i) == elements[<<i, index(i)>>]
           Climbed(i) ==
              IF i = 0 THEN IF IsOdd(last) THEN DefaultZero[0] ELSE elements[<<0, last>>]
              ELSE IF ~IsOdd(Shift(last, i - 1))
              THEN Poseidon(levels[i - 1], DefaultZero[i - 1])
              ELSE IF Shift(n, i) > Shift(Shift(last, i - 1), 1)
              THEN elements[<<i, Shift(Shift(last, i - 1), 1)>>]
              ELSE Poseidon(elements[<<i - 1, Shift(last, i - 1) - 1>>], levels[i - 1])
           h == [i \in 0..MaxDepth |-> Climbed(i)]
<1>7. levels = h
  BY DEF AreLevels
<1>8. \A i \in 0..MaxDepth : levels[i] = Climbed(i)
  <2>1. \A i \in 0..MaxDepth : h[i] = Climbed(i)
    <3> HIDE DEF Climbed
    <3> QED
      OBVIOUS
  <2> HIDE DEF h, Climbed
  <2> QED
    BY <1>7, <2>1
<1> HIDE DEF h
<1>9. levels[0] = IF IsOdd(last) THEN DefaultZero[0] ELSE elements[<<0, last>>]
  <2>1. 0 \in 0..MaxDepth
    BY LazyAssumption
  <2>2. levels[0] = Climbed(0)
    BY <1>8, <2>1
  <2> QED
    BY <2>2
<1>10. ASSUME NEW i \in Nat, i + 1 <= MaxDepth
       PROVE  levels[i + 1] = IF ~IsOdd(index(i))
                              THEN Poseidon(levels[i], DefaultZero[i])
                              ELSE IF Shift(n, i + 1) > index(i + 1)
                              THEN elements[<<i + 1, index(i + 1)>>]
                              ELSE Poseidon(elements[<<i, index(i) - 1>>], levels[i])
  <2>1. i + 1 \in 0..MaxDepth /\ i + 1 # 0 /\ (i + 1) - 1 = i
    BY <1>10, LazyAssumption
  <2>2. levels[i + 1] = Climbed(i + 1)
    BY <1>8, <2>1
  <2>3. Shift(Shift(last, i), 1) = index(i + 1)
    BY <1>4
  <2> QED
    BY <2>1, <2>2, <2>3
<1> HIDE DEF Climbed, node, n, index
<1>11. 0 \in S
  <2> SUFFICES ASSUME ~IsOdd(last)
               PROVE  levels[0] = node[0][index(0)]
    OBVIOUS
  <2>1. index(0) = last
    BY <1>1, Shifts DEF index
  <2>2. last < Shift(n, 0)
    <3>1. Shift(n, 0) = n
      BY <1>1, Shifts
    <3> QED
      BY <1>1, <3>1
  <2>3. elements[<<0, last>>] = node[0][last]
    BY <1>1, <1>2, <2>2, LazyAssumption
  <2> QED
    BY <1>9, <2>1, <2>3
<1>12. ASSUME NEW i \in S
       PROVE  i + 1 \in S
  <2> SUFFICES ASSUME i + 1 <= MaxDepth
               PROVE  levels[i + 1] = node[i + 1][index(i + 1)]
    OBVIOUS
  <2> DEFINE s == index(i)
             q == index(i + 1)
  <2>1. /\ i \in Nat /\ i \in 0..MaxDepth /\ i + 1 \in 0..MaxDepth /\ i + 1 \in 1..MaxDepth
        /\ (i + 1) - 1 = i
        /\ i # 0 \/ ~IsOdd(last) => levels[i] = node[i][s]
    BY LazyAssumption
  <2>2. s \in Nat /\ q = s \div 2
    BY <1>4, <2>1
  <2>3. node[i + 1][q] = Poseidon(node[i][2 * q], node[i][2 * q + 1])
    <3>1. q \in Nat
      BY <2>2, Halves
    <3> HIDE DEF q
    <3>2. node[i + 1][q] = Poseidon(node[(i + 1) - 1][2 * q], node[(i + 1) - 1][2 * q + 1])
      BY <1>6, <2>1, <3>1
    <3> QED
      BY <2>1, <3>2
  <2>4. index(0) = last
    BY <1>1, Shifts DEF index
  <2>5. CASE ~IsOdd(s)
    <3>1. i = 0 => ~IsOdd(last)
      BY <2>4, <2>5
    <3>2. levels[i + 1] = Poseidon(levels[i], DefaultZero[i])
      BY <1>10, <2>1, <2>5
    <3> HIDE DEF s, q
    <3>3. 2 * q = s /\ 2 * q + 1 \in Nat /\ 2 * q + 1 > s
      BY <2>2, <2>5, Halves DEF IsOdd
    <3>4. node[i][2 * q + 1] = DefaultZero[i]
      BY <1>3, <2>1, <3>3 DEF s
    <3>5. levels[i + 1] = node[i + 1][q]
      BY <2>1, <2>3, <3>1, <3>2, <3>3, <3>4
    <3> QED
      BY <3>5 DEF q
  <2>6. CASE IsOdd(s) /\ Shift(n, i + 1) > q
    <3>1. levels[i + 1] = elements[<<i + 1, q>>]
      BY <1>10, <2>1, <2>6
    <3>2. q \in Nat /\ Shift(n, i + 1) \in Nat
      BY <1>1, <2>1, <2>2, Halves, Shifts
    <3> HIDE DEF s, q
    <3>3. elements[<<i + 1, q>>] = node[i + 1][q]
      BY <1>2, <2>1, <2>6, <3>2
    <3> QED
      BY <3>1, <3>3 DEF q
  <2>7. CASE IsOdd(s) /\ ~(Shift(n, i + 1) > q)
    <3>1. levels[i + 1] = Poseidon(elements[<<i, s - 1>>], levels[i])
      BY <1>10, <2>1, <2>7
    <3>2. i # 0
      <4> SUFFICES ASSUME i = 0
                   PROVE  FALSE
        OBVIOUS
      <4>1. last % 2 = 1 /\ q = last \div 2
        BY <2>2, <2>4, <2>7 DEF IsOdd
      <4>2. Shift(n, 0 + 1) = n \div 2
        BY <1>1, Shifts
      <4>3. (last + 1) \div 2 = (last \div 2) + 1
        BY <1>1, <4>1
      <4> HIDE DEF q
      <4> QED
        BY <1>1, <2>7, <4>1, <4>2, <4>3, Halves
    <3>3. Shift(n, i) >= s /\ Shift(n, i) \in Nat
      BY <1>1, <1>5, <2>1, Shifts
    <3> HIDE DEF s, q
    <3>4. s - 1 \in Nat /\ s - 1 < s /\ 2 * q = s - 1 /\ 2 * q + 1 = s
      BY <2>2, <2>7, Halves DEF IsOdd
    <3>5. s - 1 < Shift(n, i)
      BY <2>2, <3>3, <3>4
    <3>6. elements[<<i, s - 1>>] = node[i][s - 1]
      BY <1>2, <2>1, <3>4, <3>5
    <3>7. levels[i + 1] = node[i + 1][q]
      BY <2>1, <2>3, <3>1, <3>2, <3>4, <3>6
    <3> QED
      BY <3>7 DEF q
  <2> QED
    BY <2>5, <2>6, <2>7
<1> HIDE DEF S
<1>13. S = Nat
  <2>1. S \in SUBSET Nat
    BY DEF S
  <2> QED
    BY <1>11, <1>12, <2>1, Induction
<1>14. ASSUME NEW i \in 1..MaxDepth
       PROVE  levels[i] = node[i][index(i)]
  <2>1. i \in Nat /\ i <= MaxDepth /\ i # 0
    BY LazyAssumption
  <2>2. i \in S
    BY <1>13, <2>1
  <2> QED
    BY <2>1, <2>2 DEF S
<1> QED
  BY <1>14 DEF node, index

LEMMA DynamicDepthHolds ==
    ASSUME NEW n \in 1..MaxSignups
    PROVE  DynamicDepth(n) \in 1..MaxDepth /\ PowerOfTwo[DynamicDepth(n)] >= n
<1> DEFINE Enough == {d \in Nat : d \in 1..MaxDepth /\ PowerOfTwo[d] >= n}
<1>1. MaxDepth \in Enough
  <2>1. MaxDepth \in Nat /\ MaxDepth \in 1..MaxDepth /\ PowerOfTwo[MaxDepth] \in Nat
    BY Powers, LazyAssumption
  <2> QED
    BY <2>1, LazyAssumption
<1>2. PICK d \in Enough : \A e \in Enough : d <= e
  <2>1. Enough \in SUBSET Nat /\ Enough # {}
    BY <1>1
  <2> HIDE DEF Enough
  <2> QED
    BY <2>1, Smallest
<1>3. d \in 1..MaxDepth /\ PowerOfTwo[d] >= n
  BY <1>2
<1>4. \A e \in 1..(d - 1) : PowerOfTwo[e] < n
  <2> TAKE e \in 1..(d - 1)
  <2>1. e \in Nat /\ e < d /\ e \in 1..MaxDepth
    BY <1>3, LazyAssumption
  <2>2. PowerOfTwo[e] \in Nat
    BY <2>1, Powers
  <2>3. e \notin Enough
    BY <1>2, <2>1
  <2>4. n \in Nat
    BY LazyAssumption
  <2> QED
    BY <2>1, <2>2, <2>3, <2>4
<1> HIDE DEF Enough
<1> QED
  BY <1>3, <1>4 DEF DynamicDepth

LEMMA LazyInvRoots ==
    ASSUME LazyInv
    PROVE  LazyRootIsRoot
<1> DEFINE n == numberOfLeaves
           last == n - 1
<1>1. n \in 1..MaxSignups /\ n \in Nat /\ last \in Nat /\ last < n
  <2>1. n \in 1..MaxSignups
    BY DEF LazyInv
  <2> HIDE DEF n
  <2> QED
    BY <2>1
<1>2. PICK levels : AreLevels(levels, last, MaxDepth) /\ \A d : RootAt(d) = levels[d]
  BY EdgeLevels
<1>3. ASSUME NEW d \in 1..MaxDepth, PowerOfTwo[d] >= n
      PROVE  RootAt(d) = FullTree(inserted, d)
  <2>1. d \in Nat /\ PowerOfTwo[d] \in Nat
    BY Powers, LazyAssumption
  <2>2. Shift(last, d) = 0
    <3>1. last < PowerOfTwo[d]
      BY <1>1, <1>3, <2>1
    <3> QED
      BY <1>1, <2>1, <3>1, ShiftedAway
  <2>3. levels[d] = NodesOver(inserted)[d][Shift(last, d)]
    BY <1>2, LevelsAreNodes
  <2> QED
    BY <1>2, <2>2, <2>3 DEF FullTree
<1>4. DynamicDepth(n) \in 1..MaxDepth /\ PowerOfTwo[DynamicDepth(n)] >= n
  BY <1>1, DynamicDepthHolds
<1>5. \A d \in 1..DynamicDepth(MaxSignups) : d \in 1..MaxDepth
  <2>1. MaxSignups \in 1..MaxSignups
    <3>1. PowerOfTwo[MaxDepth] \in Nat
      BY Powers, LazyAssumption
    <3> QED
      BY <3>1, LazyAssumption
  <2>2. DynamicDepth(MaxSignups) \in 1..MaxDepth
    BY <2>1, DynamicDepthHolds
  <2> QED
    BY <2>2, LazyAssumption
<1> HIDE DEF n
<1> QED
  BY <1>3, <1>4, <1>5 DEF LazyRootIsRoot, LazyRoot, n

(* LazyRootIsRoot of every poll state tree: what _levels makes of the stored
   nodes is the root of the complete tree over all leaves inserted so far, at
   every depth that holds them (LazyIMT.sol _insert, _root, _levels). *)
THEOREM LazyRootIsRootHolds == LazySpec => []LazyRootIsRoot
<1>1. LazyInit => LazyInv
  BY LazyInvInit
<1>2. LazyInv /\ [LazyNext]_lazyVars => LazyInv'
  BY LazyInvNext
<1>3. LazyInv => LazyRootIsRoot
  BY LazyInvRoots
<1> QED
  BY <1>1, <1>2, <1>3, PTL DEF LazySpec

-----------------------------------------------------------------------------
(* The functions that LeanIMT defines level by level.                      *)

AreParents(f, values, n) ==
    f = [i \in 0..n |->
            [k \in Nat |->
                IF i = 0 THEN values[k + 1]
                ELSE IF 2 * k + 1 < SizeAt(Len(values), i - 1)
                THEN Poseidon(f[i - 1][2 * k], f[i - 1][2 * k + 1])
                ELSE f[i - 1][2 * k]]]

LEMMA ParentsExist ==
    ASSUME NEW values
    PROVE  \A n \in Nat : \E f : AreParents(f, values, n)
<1> DEFINE S == {n \in Nat : \E f : AreParents(f, values, n)}
<1>1. 0 \in S
  <2> DEFINE h == [i \in 0..0 |->
                      [k \in Nat |->
                          IF i = 0 THEN values[k + 1]
                          ELSE IF 2 * k + 1 < SizeAt(Len(values), i - 1)
                          THEN Poseidon(<<>>[i - 1][2 * k], <<>>[i - 1][2 * k + 1])
                          ELSE <<>>[i - 1][2 * k]]]
  <2>1. AreParents(h, values, 0)
    BY DEF AreParents
  <2> HIDE DEF h
  <2> QED
    BY <2>1
<1>2. ASSUME NEW n \in S
      PROVE  n + 1 \in S
  <2>1. PICK f : AreParents(f, values, n)
    OBVIOUS
  <2> DEFINE h == [i \in 0..(n + 1) |->
                      [k \in Nat |->
                          IF i = 0 THEN values[k + 1]
                          ELSE IF 2 * k + 1 < SizeAt(Len(values), i - 1)
                          THEN Poseidon(f[i - 1][2 * k], f[i - 1][2 * k + 1])
                          ELSE f[i - 1][2 * k]]]
  <2>2. ASSUME NEW i \in 0..(n + 1), i # 0
        PROVE  f[i - 1] = h[i - 1]
    <3>1. i - 1 \in 0..n /\ i - 1 \in 0..(n + 1)
      BY <2>2
    <3> QED
      BY <2>1, <3>1 DEF AreParents
  <2>3. AreParents(h, values, n + 1)
    BY <2>2 DEF AreParents
  <2> HIDE DEF h
  <2> QED
    BY <2>3
<1> HIDE DEF S
<1>3. S = Nat
  <2>1. S \in SUBSET Nat
    BY DEF S
  <2> QED
    BY <1>1, <1>2, <2>1, Induction
<1> QED
  BY <1>3 DEF S

\* node is the tree over the n values.
IsTree(node, values, n) ==
    \A k \in Nat :
        /\ node[0][k] = values[k + 1]
        /\ \A level \in 1..MaxSize :
              node[level][k] =
                  IF 2 * k + 1 < SizeAt(n, level - 1)
                  THEN Poseidon(node[level - 1][2 * k], node[level - 1][2 * k + 1])
                  ELSE node[level - 1][2 * k]

LEMMA Parents ==
    ASSUME NEW values, NEW node, node = NodeOf(values)
    PROVE  IsTree(node, values, Len(values))
<1>1. \E f : AreParents(f, values, MaxSize)
  BY ParentsExist, LeanAssumption
<1>2. node = CHOOSE f : AreParents(f, values, MaxSize)
  BY DEF NodeOf, AreParents, Levels
<1>3. AreParents(node, values, MaxSize)
  BY <1>1, <1>2
<1> DEFINE Value(d, k) == IF d = 0 THEN values[k + 1]
                          ELSE IF 2 * k + 1 < SizeAt(Len(values), d - 1)
                          THEN Poseidon(node[d - 1][2 * k], node[d - 1][2 * k + 1])
                          ELSE node[d - 1][2 * k]
           h == [d \in 0..MaxSize |-> [k \in Nat |-> Value(d, k)]]
<1>4. node = h
  BY <1>3 DEF AreParents
<1>5. \A d \in 0..MaxSize : \A k \in Nat : h[d][k] = Value(d, k)
  <2> HIDE DEF Value
  <2> QED
    OBVIOUS
<1> HIDE DEF h
<1>6. 0 \in 0..MaxSize /\ \A d \in 1..MaxSize : d \in 0..MaxSize /\ d # 0
  BY LeanAssumption
<1> QED
  BY <1>4, <1>5, <1>6 DEF IsTree

AreInserted(f, leaf, n) ==
    f = [i \in 0..n |->
            IF i = 0 THEN leaf
            ELSE IF IsOdd(Shift(size, i - 1))
            THEN Poseidon(sideNodes[i - 1], f[i - 1])
            ELSE f[i - 1]]

LEMMA InsertedExist ==
    ASSUME NEW leaf
    PROVE  \A n \in Nat : \E f : AreInserted(f, leaf, n)
<1> DEFINE S == {n \in Nat : \E f : AreInserted(f, leaf, n)}
<1>1. 0 \in S
  <2> DEFINE h == [i \in 0..0 |->
                      IF i = 0 THEN leaf
                      ELSE IF IsOdd(Shift(size, i - 1))
                      THEN Poseidon(sideNodes[i - 1], <<>>[i - 1])
                      ELSE <<>>[i - 1]]
  <2>1. AreInserted(h, leaf, 0)
    BY DEF AreInserted
  <2> HIDE DEF h
  <2> QED
    BY <2>1
<1>2. ASSUME NEW n \in S
      PROVE  n + 1 \in S
  <2>1. PICK f : AreInserted(f, leaf, n)
    OBVIOUS
  <2> DEFINE h == [i \in 0..(n + 1) |->
                      IF i = 0 THEN leaf
                      ELSE IF IsOdd(Shift(size, i - 1))
                      THEN Poseidon(sideNodes[i - 1], f[i - 1])
                      ELSE f[i - 1]]
  <2>2. ASSUME NEW i \in 0..(n + 1), i # 0
        PROVE  f[i - 1] = h[i - 1]
    <3>1. i - 1 \in 0..n /\ i - 1 \in 0..(n + 1)
      BY <2>2
    <3> QED
      BY <2>1, <3>1 DEF AreInserted
  <2>3. AreInserted(h, leaf, n + 1)
    BY <2>2 DEF AreInserted
  <2> HIDE DEF h
  <2> QED
    BY <2>3
<1> HIDE DEF S
<1>3. S = Nat
  <2>1. S \in SUBSET Nat
    BY DEF S
  <2> QED
    BY <1>1, <1>2, <2>1, Induction
<1> QED
  BY <1>3 DEF S

LEMMA InsertedNodes ==
    ASSUME NEW leaf, NEW node, node = NodeAt(leaf)
    PROVE  /\ node[0] = leaf
           /\ \A level \in 1..MaxSize :
                 node[level] = IF IsOdd(Shift(size, level - 1))
                        THEN Poseidon(sideNodes[level - 1], node[level - 1])
                        ELSE node[level - 1]
<1>1. \E f : AreInserted(f, leaf, MaxSize)
  BY InsertedExist, LeanAssumption
<1>2. node = CHOOSE f : AreInserted(f, leaf, MaxSize)
  BY DEF NodeAt, AreInserted, Levels
<1>3. AreInserted(node, leaf, MaxSize)
  BY <1>1, <1>2
<1> DEFINE Value(level) == IF level = 0 THEN leaf ELSE IF IsOdd(Shift(size, level - 1))
                           THEN Poseidon(sideNodes[level - 1], node[level - 1])
                           ELSE node[level - 1]
           h == [level \in 0..MaxSize |-> Value(level)]
<1>4. node = h
  BY <1>3 DEF AreInserted
<1>5. \A level \in 0..MaxSize : h[level] = Value(level)
  <2> HIDE DEF Value
  <2> QED
    OBVIOUS
<1> HIDE DEF h
<1>6. 0 \in 0..MaxSize /\ \A level \in 1..MaxSize : level \in 0..MaxSize /\ level # 0
  BY LeanAssumption
<1> QED
  BY <1>4, <1>5, <1>6

AreClimbed(f, index, start, n) ==
    f = [i \in 0..n |->
            IF i = 0 THEN start
            ELSE IF IsOdd(Shift(index, i - 1))
            THEN Poseidon(Sibling(index, i - 1), f[i - 1])
            ELSE IF HasSibling(index, i - 1)
            THEN Poseidon(f[i - 1], Sibling(index, i - 1))
            ELSE f[i - 1]]

LEMMA ClimbedExist ==
    ASSUME NEW index, NEW start
    PROVE  \A n \in Nat : \E f : AreClimbed(f, index, start, n)
<1> DEFINE S == {n \in Nat : \E f : AreClimbed(f, index, start, n)}
<1>1. 0 \in S
  <2> DEFINE h == [i \in 0..0 |->
                      IF i = 0 THEN start
                      ELSE IF IsOdd(Shift(index, i - 1))
                      THEN Poseidon(Sibling(index, i - 1), <<>>[i - 1])
                      ELSE IF HasSibling(index, i - 1)
                      THEN Poseidon(<<>>[i - 1], Sibling(index, i - 1))
                      ELSE <<>>[i - 1]]
  <2>1. AreClimbed(h, index, start, 0)
    BY DEF AreClimbed
  <2> HIDE DEF h
  <2> QED
    BY <2>1
<1>2. ASSUME NEW n \in S
      PROVE  n + 1 \in S
  <2>1. PICK f : AreClimbed(f, index, start, n)
    OBVIOUS
  <2> DEFINE h == [i \in 0..(n + 1) |->
                      IF i = 0 THEN start
                      ELSE IF IsOdd(Shift(index, i - 1))
                      THEN Poseidon(Sibling(index, i - 1), f[i - 1])
                      ELSE IF HasSibling(index, i - 1)
                      THEN Poseidon(f[i - 1], Sibling(index, i - 1))
                      ELSE f[i - 1]]
  <2>2. ASSUME NEW i \in 0..(n + 1), i # 0
        PROVE  f[i - 1] = h[i - 1]
    <3>1. i - 1 \in 0..n /\ i - 1 \in 0..(n + 1)
      BY <2>2
    <3> QED
      BY <2>1, <3>1 DEF AreClimbed
  <2>3. AreClimbed(h, index, start, n + 1)
    BY <2>2 DEF AreClimbed
  <2> HIDE DEF h
  <2> QED
    BY <2>3
<1> HIDE DEF S
<1>3. S = Nat
  <2>1. S \in SUBSET Nat
    BY DEF S
  <2> QED
    BY <1>1, <1>2, <2>1, Induction
<1> QED
  BY <1>3 DEF S

LEMMA ClimbedNodes ==
    ASSUME NEW index, NEW start, NEW node, node = Climb(index, start)
    PROVE  /\ node[0] = start
           /\ \A level \in 1..MaxSize :
                 node[level] = IF IsOdd(Shift(index, level - 1))
                        THEN Poseidon(Sibling(index, level - 1), node[level - 1])
                        ELSE IF HasSibling(index, level - 1)
                        THEN Poseidon(node[level - 1], Sibling(index, level - 1))
                        ELSE node[level - 1]
<1>1. \E f : AreClimbed(f, index, start, MaxSize)
  BY ClimbedExist, LeanAssumption
<1>2. node = CHOOSE f : AreClimbed(f, index, start, MaxSize)
  BY DEF Climb, AreClimbed, Levels
<1>3. AreClimbed(node, index, start, MaxSize)
  BY <1>1, <1>2
<1> DEFINE Value(level) == IF level = 0 THEN start ELSE IF IsOdd(Shift(index, level - 1))
                           THEN Poseidon(Sibling(index, level - 1), node[level - 1])
                           ELSE IF HasSibling(index, level - 1)
                           THEN Poseidon(node[level - 1], Sibling(index, level - 1))
                           ELSE node[level - 1]
           h == [level \in 0..MaxSize |-> Value(level)]
<1>4. node = h
  BY <1>3 DEF AreClimbed
<1>5. \A level \in 0..MaxSize : h[level] = Value(level)
  <2> HIDE DEF Value
  <2> QED
    OBVIOUS
<1> HIDE DEF h
<1>6. 0 \in 0..MaxSize /\ \A level \in 1..MaxSize : level \in 0..MaxSize /\ level # 0
  BY LeanAssumption
<1> QED
  BY <1>4, <1>5, <1>6

AreNew(f, vs, n) ==
    f = [i \in 0..n |->
            IF i = 0 THEN [j \in 1..Len(vs) |-> Leaf(vs[j])]
            ELSE NodesAbove(f[i - 1], size + Len(vs), i)]

LEMMA NewExist ==
    ASSUME NEW vs
    PROVE  \A n \in Nat : \E f : AreNew(f, vs, n)
<1> DEFINE S == {n \in Nat : \E f : AreNew(f, vs, n)}
<1>1. 0 \in S
  <2> DEFINE h == [i \in 0..0 |->
                      IF i = 0 THEN [j \in 1..Len(vs) |-> Leaf(vs[j])]
                      ELSE NodesAbove(<<>>[i - 1], size + Len(vs), i)]
  <2>1. AreNew(h, vs, 0)
    BY DEF AreNew
  <2> HIDE DEF h
  <2> QED
    BY <2>1
<1>2. ASSUME NEW n \in S
      PROVE  n + 1 \in S
  <2>1. PICK f : AreNew(f, vs, n)
    OBVIOUS
  <2> DEFINE h == [i \in 0..(n + 1) |->
                      IF i = 0 THEN [j \in 1..Len(vs) |-> Leaf(vs[j])]
                      ELSE NodesAbove(f[i - 1], size + Len(vs), i)]
  <2>2. ASSUME NEW i \in 0..(n + 1), i # 0
        PROVE  f[i - 1] = h[i - 1]
    <3>1. i - 1 \in 0..n /\ i - 1 \in 0..(n + 1)
      BY <2>2
    <3> QED
      BY <2>1, <3>1 DEF AreNew
  <2>3. AreNew(h, vs, n + 1)
    BY <2>2 DEF AreNew
  <2> HIDE DEF h
  <2> QED
    BY <2>3
<1> HIDE DEF S
<1>3. S = Nat
  <2>1. S \in SUBSET Nat
    BY DEF S
  <2> QED
    BY <1>1, <1>2, <2>1, Induction
<1> QED
  BY <1>3 DEF S

LEMMA NewNodesAre ==
    ASSUME NEW vs, NEW nodes, nodes = NewNodes(vs)
    PROVE  /\ nodes[0] = [j \in 1..Len(vs) |-> Leaf(vs[j])]
           /\ \A level \in 1..MaxSize :
                 nodes[level] = NodesAbove(nodes[level - 1], size + Len(vs), level)
<1>1. \E f : AreNew(f, vs, MaxSize)
  BY NewExist, LeanAssumption
<1>2. nodes = CHOOSE f : AreNew(f, vs, MaxSize)
  BY DEF NewNodes, AreNew, Levels
<1>3. AreNew(nodes, vs, MaxSize)
  BY <1>1, <1>2
<1> DEFINE Value(level) == IF level = 0 THEN [j \in 1..Len(vs) |-> Leaf(vs[j])] ELSE NodesAbove(nodes[level - 1], size + Len(vs), level)
           h == [level \in 0..MaxSize |-> Value(level)]
<1>4. nodes = h
  BY <1>3 DEF AreNew
<1>5. \A level \in 0..MaxSize : h[level] = Value(level)
  <2> HIDE DEF Value
  <2> QED
    OBVIOUS
<1> HIDE DEF h
<1>6. 0 \in 0..MaxSize /\ \A level \in 1..MaxSize : level \in 0..MaxSize /\ level # 0
  BY LeanAssumption
<1> QED
  BY <1>4, <1>5, <1>6

-----------------------------------------------------------------------------
(* Sizes of levels.                                                        *)

LEMMA ShiftKeepsOrder ==
    ASSUME NEW n \in Nat, NEW m \in Nat, m <= n
    PROVE  \A i \in Nat : Shift(m, i) <= Shift(n, i)
<1> DEFINE S == {i \in Nat : Shift(m, i) <= Shift(n, i)}
<1>1. 0 \in S
  BY Shifts
<1>2. ASSUME NEW i \in S
      PROVE  i + 1 \in S
  <2>1. /\ i \in Nat /\ i + 1 \in Nat
        /\ Shift(m, i) \in Nat /\ Shift(n, i) \in Nat
        /\ Shift(m, i + 1) = Shift(m, i) \div 2
        /\ Shift(n, i + 1) = Shift(n, i) \div 2
        /\ Shift(m, i) <= Shift(n, i)
    BY Shifts
  <2>2. \A a, b \in Nat : a <= b => a \div 2 <= b \div 2
    OBVIOUS
  <2> QED
    BY <2>1, <2>2
<1> HIDE DEF S
<1>3. S = Nat
  <2>1. S \in SUBSET Nat
    BY DEF S
  <2> QED
    BY <1>1, <1>2, <2>1, Induction
<1> QED
  BY <1>3 DEF S

LEMMA SizesAre ==
    ASSUME NEW n \in Nat, n > 0
    PROVE  \A i \in Nat :
              /\ n - 1 \in Nat
              /\ Shift(n - 1, i) \in Nat
              /\ SizeAt(n, i) = Shift(n - 1, i) + 1
              /\ Shift(n, i) \in {Shift(n - 1, i), Shift(n - 1, i) + 1}
<1>1. n - 1 \in Nat /\ (n - 1) + 1 = n
  OBVIOUS
<1> TAKE i \in Nat
<1>2. Shift(n - 1, i) \in Nat /\ Shift(n - 1, 0) = n - 1
  BY <1>1, Shifts
<1>3. Shift(n, i) \in {Shift(n - 1, i), Shift(n - 1, i) + 1}
  <2>1. Shift((n - 1) + 1, i) \in {Shift(n - 1, i), Shift(n - 1, i) + 1}
    BY <1>1, ShiftOfNext
  <2> QED
    BY <1>1, <2>1
<1>4. SizeAt(n, i) = Shift(n - 1, i) + 1
  BY <1>1, <1>2 DEF SizeAt
<1> QED
  BY <1>1, <1>2, <1>3, <1>4

LEMMA PowersExceed == \A n \in Nat : PowerOfTwo[n] > n
<1> DEFINE S == {n \in Nat : PowerOfTwo[n] > n}
<1>1. 0 \in S
  BY Powers
<1>2. ASSUME NEW n \in S
      PROVE  n + 1 \in S
  <2>1. n \in Nat /\ PowerOfTwo[n] \in Nat /\ PowerOfTwo[n] > n /\ PowerOfTwo[n + 1] = 2 * PowerOfTwo[n]
    BY Powers
  <2> QED
    BY <2>1
<1> HIDE DEF S
<1>3. S = Nat
  <2>1. S \in SUBSET Nat
    BY DEF S
  <2> QED
    BY <1>1, <1>2, <2>1, Induction
<1> QED
  BY <1>3 DEF S

LEMMA PowersGrow ==
    ASSUME NEW d \in Nat
    PROVE  \A e \in Nat : d <= e => PowerOfTwo[d] <= PowerOfTwo[e]
<1> DEFINE S == {i \in Nat : PowerOfTwo[d] <= PowerOfTwo[d + i]}
<1>1. 0 \in S
  BY Powers
<1>2. ASSUME NEW i \in S
      PROVE  i + 1 \in S
  <2>1. d + i \in Nat /\ d + (i + 1) = (d + i) + 1
    OBVIOUS
  <2>2. PowerOfTwo[d + i] \in Nat /\ PowerOfTwo[d] \in Nat /\ PowerOfTwo[(d + i) + 1] = 2 * PowerOfTwo[d + i]
    BY <2>1, Powers
  <2> QED
    BY <2>1, <2>2
<1> HIDE DEF S
<1>3. S = Nat
  <2>1. S \in SUBSET Nat
    BY DEF S
  <2> QED
    BY <1>1, <1>2, <2>1, Induction
<1>4. ASSUME NEW e \in Nat, d <= e
      PROVE  PowerOfTwo[d] <= PowerOfTwo[e]
  <2>1. e - d \in Nat /\ d + (e - d) = e
    BY <1>4
  <2>2. PowerOfTwo[d] <= PowerOfTwo[d + (e - d)]
    BY <1>3, <2>1 DEF S
  <2> QED
    BY <2>1, <2>2
<1> QED
  BY <1>4

\* A node whose leaves are all there stays when more are added.
LEMMA FullNodesStay ==
    ASSUME NEW D, NEW values \in Seq(D), NEW longer \in Seq(D),
           Len(values) <= Len(longer), \A j \in 1..Len(values) : longer[j] = values[j],
           NEW old, old = NodeOf(values), NEW new, new = NodeOf(longer)
    PROVE  \A i \in 0..MaxSize : \A k \in Nat :
              k < Shift(Len(values), i) => new[i][k] = old[i][k]
<1> DEFINE n == Len(values)
           total == Len(longer)
           S == {i \in Nat : i <= MaxSize =>
                    \A k \in Nat : k < Shift(n, i) => new[i][k] = old[i][k]}
<1>1. n \in Nat /\ total \in Nat /\ n <= total
  OBVIOUS
<1>2. \A j \in 1..n : longer[j] = values[j]
  OBVIOUS
<1>3. IsTree(old, values, n)
  BY Parents
<1>4. IsTree(new, longer, total)
  BY Parents
<1> HIDE DEF n, total
<1>5. 0 \in S
  <2> SUFFICES ASSUME NEW k \in Nat, k < Shift(n, 0)
               PROVE  new[0][k] = old[0][k]
    OBVIOUS
  <2>1. k + 1 \in 1..n
    BY <1>1, Shifts
  <2> QED
    BY <1>2, <1>3, <1>4, <2>1 DEF IsTree
<1>6. ASSUME NEW i \in S
      PROVE  i + 1 \in S
  <2> SUFFICES ASSUME i + 1 <= MaxSize, NEW k \in Nat, k < Shift(n, i + 1)
               PROVE  new[i + 1][k] = old[i + 1][k]
    OBVIOUS
  <2>1. /\ i \in Nat
        /\ i <= MaxSize
        /\ i + 1 \in 1..MaxSize
        /\ (i + 1) - 1 = i
        /\ \A j \in Nat : j < Shift(n, i) => new[i][j] = old[i][j]
    BY LeanAssumption
  <2> DEFINE s == Shift(n, i)
  <2>2. s \in Nat /\ k < s \div 2
    BY <1>1, <2>1, Shifts
  <2>3. n > 0
    <3>1. CASE n = 0
      <4>1. 0 < PowerOfTwo[i]
        <5>1. PowerOfTwo[i] \in Nat \ {0}
          BY <2>1, Powers
        <5> QED
          BY <5>1
      <4>2. s = 0
        BY <2>1, <3>1, <4>1, ShiftedAway
      <4> HIDE DEF s
      <4> QED
        BY <2>2, <4>2
    <3> QED
      BY <1>1, <3>1
  <2>4. /\ SizeAt(n, i) = Shift(n - 1, i) + 1
        /\ Shift(n - 1, i) \in Nat
        /\ s \in {Shift(n - 1, i), Shift(n - 1, i) + 1}
    BY <1>1, <2>1, <2>3, SizesAre
  <2>5. SizeAt(total, i) = Shift(total - 1, i) + 1 /\ Shift(total - 1, i) \in Nat
    <3>1. total > 0
      BY <1>1, <2>3
    <3> QED
      BY <1>1, <2>1, <3>1, SizesAre
  <2>6. Shift(n - 1, i) <= Shift(total - 1, i)
    <3>1. n - 1 \in Nat /\ total - 1 \in Nat /\ n - 1 <= total - 1
      BY <1>1, <2>3
    <3> QED
      BY <2>1, <3>1, ShiftKeepsOrder
  <2> HIDE DEF s
  <2>7. /\ 2 * k \in Nat /\ 2 * k + 1 \in Nat
        /\ 2 * k < s /\ 2 * k + 1 < s
    BY <2>2
  <2>8. 2 * k + 1 < SizeAt(n, i) /\ 2 * k + 1 < SizeAt(total, i)
    BY <2>2, <2>4, <2>5, <2>6, <2>7
  <2>9. new[i][2 * k] = old[i][2 * k] /\ new[i][2 * k + 1] = old[i][2 * k + 1]
    BY <2>1, <2>7 DEF s
  <2>10. old[i + 1][k] = Poseidon(old[i][2 * k], old[i][2 * k + 1])
    BY <1>3, <2>1, <2>8 DEF IsTree
  <2>11. new[i + 1][k] = Poseidon(new[i][2 * k], new[i][2 * k + 1])
    BY <1>4, <2>1, <2>8 DEF IsTree
  <2> QED
    BY <2>9, <2>10, <2>11
<1> HIDE DEF S
<1>7. S = Nat
  <2>1. S \in SUBSET Nat
    BY DEF S
  <2> QED
    BY <1>5, <1>6, <2>1, Induction
<1> QED
  BY <1>7, LeanAssumption DEF S, n

-----------------------------------------------------------------------------
(* What the side nodes are.                                                *)

Entries == {Zero} \cup {Leaf(v) : v \in Values}

\* The last node of a level with an even index, of the n leaves of a tree.
SideIndex(n, level) == 2 * Shift(n - 1, level + 1)

SidesRight ==
    IF size = 0 THEN sideNodes[0] = Zero
    ELSE \A level \in 0..depth : sideNodes[level] = NodeOf(contents)[level][SideIndex(size, level)]

\* depth is the least that holds n leaves.
Holds(d, n) == PowerOfTwo[d] >= n /\ \A e \in 0..(d - 1) : PowerOfTwo[e] < n

LeanInv ==
    /\ contents \in Seq(Entries)
    /\ size = Len(contents) /\ size <= MaxSize
    /\ depth \in Nat /\ depth <= size /\ Holds(depth, size)
    /\ \E f : sideNodes = [level \in Levels |-> f[level]]
    /\ leaves \in [Values -> 0..size]
    /\ changes \in Nat
    /\ changes = 0 => SidesRight

LEMMA LeanFacts ==
    ASSUME LeanInv
    PROVE  /\ contents \in Seq(Entries) /\ size = Len(contents) /\ size \in Nat /\ size <= MaxSize
           /\ depth \in Nat /\ depth <= size
           /\ PowerOfTwo[depth] \in Nat /\ size <= PowerOfTwo[depth]
           /\ \A e \in 0..(depth - 1) : PowerOfTwo[e] < size
           /\ MaxSize \in Nat
<1>1. /\ contents \in Seq(Entries) /\ size = Len(contents) /\ size <= MaxSize
      /\ depth \in Nat /\ depth <= size
      /\ PowerOfTwo[depth] >= size
      /\ \A e \in 0..(depth - 1) : PowerOfTwo[e] < size
  BY DEF LeanInv, Holds
<1>2. size \in Nat
  BY <1>1
<1>3. PowerOfTwo[depth] \in Nat
  BY <1>1, Powers
<1> QED
  BY <1>1, <1>2, <1>3, LeanAssumption

\* The same of the tree and what it becomes when more is appended.
LEMMA GrownNodesStay ==
    ASSUME LeanInv, contents' \in Seq(Entries), size <= Len(contents'),
           \A j \in 1..size : contents'[j] = contents[j]
    PROVE  \A i \in 0..MaxSize : \A k \in Nat :
              k < Shift(size, i) => NodeOf(contents')[i][k] = NodeOf(contents)[i][k]
<1>1. contents \in Seq(Entries) /\ size = Len(contents)
  BY LeanFacts
<1>2. \A i \in 0..MaxSize : \A k \in Nat :
          k < Shift(Len(contents), i) => NodeOf(contents')[i][k] = NodeOf(contents)[i][k]
  BY <1>1, FullNodesStay
<1> QED
  BY <1>1, <1>2

LEMMA LeanInvInit == LeanInit => LeanInv
<1> SUFFICES ASSUME LeanInit
             PROVE  LeanInv
  OBVIOUS
<1> USE DEF LeanInit
<1>1. contents \in Seq(Entries) /\ size = Len(contents) /\ size <= MaxSize
  BY LeanAssumption
<1>2. depth \in Nat /\ depth <= size /\ Holds(depth, size)
  BY Powers DEF Holds
<1>3. \E f : sideNodes = [level \in Levels |-> f[level]]
  <2>1. sideNodes = [level \in Levels |-> sideNodes[level]]
    OBVIOUS
  <2> QED
    BY <2>1
<1>4. SidesRight
  BY LeanAssumption DEF SidesRight, Levels
<1> QED
  BY <1>1, <1>2, <1>3, <1>4 DEF LeanInv

\* RootOf takes the node at the depth that holds the leaves.
LEMMA RootOfIs ==
    ASSUME NEW values \in Seq(Entries), values # <<>>, NEW d \in Nat, Holds(d, Len(values))
    PROVE  RootOf(values) = NodeOf(values)[d][0]
<1> DEFINE n == Len(values)
           Least(e) == PowerOfTwo[e] >= n /\ \A c \in 0..(e - 1) : PowerOfTwo[c] < n
           chosen == CHOOSE e \in 0..n : Least(e)
<1>1. n \in Nat
  OBVIOUS
<1>2. Least(d)
  BY DEF Holds
<1> HIDE DEF n
<1>3. d \in 0..n
  <2> SUFFICES ASSUME d > n
               PROVE  FALSE
    BY <1>1
  <2>1. n \in 0..(d - 1)
    BY <1>1
  <2>2. PowerOfTwo[n] < n /\ PowerOfTwo[n] > n /\ PowerOfTwo[n] \in Nat
    BY <1>1, <1>2, <2>1, PowersExceed, Powers
  <2> QED
    BY <1>1, <2>2
<1>4. chosen \in 0..n /\ Least(chosen)
  <2> HIDE DEF Least
  <2> QED
    BY <1>2, <1>3
<1> HIDE DEF chosen
<1>5. chosen = d
  <2>1. chosen \in Nat /\ PowerOfTwo[chosen] \in Nat /\ PowerOfTwo[d] \in Nat
    <3>1. chosen \in Nat
      BY <1>1, <1>4
    <3> QED
      BY <3>1, Powers
  <2>2. CASE chosen < d
    <3>1. chosen \in 0..(d - 1)
      BY <2>1, <2>2
    <3> QED
      BY <1>1, <1>2, <1>4, <2>1, <3>1
  <2>3. CASE d < chosen
    <3>1. d \in 0..(chosen - 1)
      BY <2>1, <2>3
    <3> QED
      BY <1>1, <1>2, <1>4, <2>1, <3>1
  <2> QED
    BY <2>1, <2>2, <2>3
<1>6. RootOf(values) = NodeOf(values)[chosen][0]
  BY DEF RootOf, chosen, n
<1> QED
  BY <1>5, <1>6

LEMMA LeanInvRoot ==
    ASSUME LeanInv
    PROVE  GrownRootMatches
<1> SUFFICES ASSUME SidesRight
             PROVE  LeanRoot = RootOf(contents)
  BY DEF GrownRootMatches, LeanInv
<1>1. /\ contents \in Seq(Entries) /\ size = Len(contents) /\ size \in Nat
      /\ depth \in Nat /\ depth <= size /\ Holds(depth, size)
      /\ PowerOfTwo[depth] \in Nat /\ size <= PowerOfTwo[depth]
  BY LeanFacts DEF LeanInv
<1>2. CASE size = 0
  <2>1. contents = <<>> /\ depth = 0
    <3>1. Len(contents) = 0 /\ depth = 0
      BY <1>1, <1>2
    <3> QED
      BY <1>1, <3>1, EmptySeq
  <2> QED
    BY <1>2, <2>1 DEF SidesRight, LeanRoot, RootOf
<1>3. CASE size # 0
  <2>1. contents # <<>>
    BY <1>1, <1>3
  <2>2. RootOf(contents) = NodeOf(contents)[depth][0]
    BY <1>1, <2>1, RootOfIs
  <2>3. depth \in 0..depth
    BY <1>1
  <2>4. LeanRoot = NodeOf(contents)[depth][SideIndex(size, depth)]
    BY <1>3, <2>3 DEF SidesRight, LeanRoot
  <2>5. SideIndex(size, depth) = 0
    <3>1. size - 1 \in Nat
      BY <1>1, <1>3
    <3>2. size - 1 < PowerOfTwo[depth] /\ PowerOfTwo[depth] \in Nat
      BY <1>1
    <3>3. PowerOfTwo[depth + 1] = 2 * PowerOfTwo[depth] /\ depth + 1 \in Nat
      BY <1>1, Powers
    <3>4. Shift(size - 1, depth + 1) = 0
      BY <3>1, <3>2, <3>3, ShiftedAway
    <3> QED
      BY <3>4 DEF SideIndex
  <2> QED
    BY <2>2, <2>4, <2>5
<1> QED
  BY <1>2, <1>3

\* Where a level of a tree that was only grown has an odd number of full nodes,
\* its side node is the last of them.
LEMMA OddSides ==
    ASSUME LeanInv, SidesRight, NEW i \in Nat, IsOdd(Shift(size, i))
    PROVE  /\ i <= depth
           /\ Shift(size, i) \in Nat /\ Shift(size, i) - 1 \in Nat
           /\ sideNodes[i] = NodeOf(contents)[i][Shift(size, i) - 1]
<1> DEFINE s == Shift(size, i)
           t == Shift(size - 1, i)
<1>1. size \in Nat /\ depth \in Nat /\ PowerOfTwo[depth] \in Nat /\ size <= PowerOfTwo[depth]
  BY LeanFacts
<1>2. s \in Nat /\ s % 2 = 1
  BY <1>1, Shifts DEF IsOdd
<1>3. size # 0
  <2> SUFFICES ASSUME size = 0
               PROVE  FALSE
    OBVIOUS
  <2>1. size < PowerOfTwo[i]
    BY Powers
  <2>2. s = 0
    BY <1>1, <2>1, ShiftedAway
  <2> HIDE DEF s
  <2> QED
    BY <1>2, <2>2
<1>4. i <= depth
  <2> SUFFICES ASSUME i > depth
               PROVE  FALSE
    BY <1>1
  <2>1. depth + 1 \in Nat /\ depth + 1 <= i
    BY <1>1
  <2>2. PowerOfTwo[depth + 1] = 2 * PowerOfTwo[depth] /\ PowerOfTwo[depth] # 0
    BY <1>1, Powers
  <2>3. PowerOfTwo[depth + 1] <= PowerOfTwo[i]
    BY <2>1, PowersGrow
  <2>4. size < PowerOfTwo[i]
    <3>1. PowerOfTwo[i] \in Nat
      BY Powers
    <3> QED
      BY <1>1, <2>2, <2>3, <3>1
  <2>5. s = 0
    BY <1>1, <2>4, ShiftedAway
  <2> HIDE DEF s
  <2> QED
    BY <1>2, <2>5
<1>5. t \in Nat /\ s \in {t, t + 1} /\ Shift(size - 1, i + 1) = t \div 2
  <2>1. size - 1 \in Nat /\ size > 0
    BY <1>1, <1>3
  <2> QED
    BY <1>1, <2>1, SizesAre, Shifts
<1>6. sideNodes[i] = NodeOf(contents)[i][SideIndex(size, i)]
  <2>1. i \in 0..depth
    BY <1>1, <1>4
  <2> QED
    BY <1>3, <2>1 DEF SidesRight
<1>7. SideIndex(size, i) = 2 * (t \div 2)
  BY <1>5 DEF SideIndex
<1> HIDE DEF s, t
<1>8. 2 * (t \div 2) = s - 1 /\ s - 1 \in Nat
  BY <1>2, <1>5
<1> QED
  BY <1>2, <1>4, <1>6, <1>7, <1>8 DEF s

-----------------------------------------------------------------------------
(* Insertions.                                                             *)

LEMMA DepthOneMore ==
    ASSUME LeanInv
    PROVE  DepthAfterOne \in Nat /\ DepthAfterOne <= size + 1 /\ Holds(DepthAfterOne, size + 1)
<1>1. /\ size \in Nat /\ depth \in Nat /\ depth <= size
      /\ PowerOfTwo[depth] \in Nat /\ size <= PowerOfTwo[depth]
      /\ \A e \in 0..(depth - 1) : PowerOfTwo[e] < size
  BY LeanFacts
<1>2. \A e \in Nat : PowerOfTwo[e] \in Nat
  BY Powers
<1>3. CASE PowerOfTwo[depth] < size + 1
  <2>1. DepthAfterOne = depth + 1 /\ depth + 1 \in Nat /\ depth + 1 <= size + 1
    BY <1>1, <1>3 DEF DepthAfterOne
  <2>2. PowerOfTwo[depth + 1] = 2 * PowerOfTwo[depth] /\ PowerOfTwo[depth] # 0
    BY <1>1, Powers
  <2>3. PowerOfTwo[depth + 1] >= size + 1
    BY <1>1, <2>2
  <2>4. ASSUME NEW e \in 0..((depth + 1) - 1)
        PROVE  PowerOfTwo[e] < size + 1
    <3>1. e = depth \/ e \in 0..(depth - 1)
      BY <1>1
    <3>2. e \in Nat
      OBVIOUS
    <3> QED
      BY <1>1, <1>2, <1>3, <3>1, <3>2
  <2> QED
    BY <2>1, <2>3, <2>4 DEF Holds
<1>4. CASE ~(PowerOfTwo[depth] < size + 1)
  <2>1. DepthAfterOne = depth
    BY <1>4 DEF DepthAfterOne
  <2>2. ASSUME NEW e \in 0..(depth - 1)
        PROVE  PowerOfTwo[e] < size + 1
    <3>1. e \in Nat /\ PowerOfTwo[e] < size
      BY <1>1
    <3> QED
      BY <1>1, <1>2, <3>1
  <2> QED
    BY <1>1, <1>4, <2>1, <2>2 DEF Holds
<1> QED
  BY <1>3, <1>4

\* The node of the loop is at every level the last of the new tree.
LEMMA InsertedAreLast ==
    ASSUME LeanInv, SidesRight, NEW v \in Values, size < MaxSize,
           contents' = Append(contents, Leaf(v))
    PROVE  \A i \in 0..MaxSize : NodeAt(Leaf(v))[i] = NodeOf(contents')[i][Shift(size, i)]
<1> DEFINE n == size
           node == NodeAt(Leaf(v))
           old == NodeOf(contents)
           new == NodeOf(contents')
           S == {i \in Nat : i <= MaxSize => node[i] = new[i][Shift(n, i)]}
<1>1. n \in Nat /\ contents \in Seq(Entries) /\ n = Len(contents)
  BY LeanFacts
<1>2. /\ contents' \in Seq(Entries)
      /\ Len(contents') = n + 1
      /\ contents'[n + 1] = Leaf(v)
      /\ \A j \in 1..n : contents'[j] = contents[j]
  BY <1>1 DEF Entries
<1>3. \A i \in 0..MaxSize : \A k \in Nat : k < Shift(n, i) => new[i][k] = old[i][k]
  <2>1. n <= n + 1
    BY <1>1
  <2> QED
    BY <1>2, <2>1, GrownNodesStay
<1>4. IsTree(new, contents', n + 1)
  BY <1>2, Parents
<1>5. /\ node[0] = Leaf(v)
      /\ \A level \in 1..MaxSize :
            node[level] = IF IsOdd(Shift(n, level - 1))
                          THEN Poseidon(sideNodes[level - 1], node[level - 1])
                          ELSE node[level - 1]
  BY InsertedNodes
<1>6. \A i \in Nat : IsOdd(Shift(n, i)) => /\ Shift(n, i) - 1 \in Nat
                                           /\ sideNodes[i] = old[i][Shift(n, i) - 1]
  BY OddSides
<1> HIDE DEF n, node, old, new
<1>7. 0 \in S
  BY <1>1, <1>2, <1>4, <1>5, Shifts DEF IsTree
<1>8. ASSUME NEW i \in S
      PROVE  i + 1 \in S
  <2> SUFFICES ASSUME i + 1 <= MaxSize
               PROVE  node[i + 1] = new[i + 1][Shift(n, i + 1)]
    OBVIOUS
  <2> DEFINE s == Shift(n, i)
             q == Shift(n, i + 1)
  <2>1. /\ i \in Nat /\ i \in 0..MaxSize
        /\ i + 1 \in 1..MaxSize
        /\ (i + 1) - 1 = i
        /\ node[i] = new[i][s]
    BY LeanAssumption
  <2>2. s \in Nat /\ q = s \div 2
    BY <1>1, <2>1, Shifts
  <2>3. SizeAt(n + 1, i) = s + 1
    <3>1. n + 1 \in Nat /\ n + 1 > 0 /\ (n + 1) - 1 = n
      BY <1>1
    <3> QED
      BY <2>1, <3>1, SizesAre
  <2>4. node[i + 1] = IF IsOdd(s) THEN Poseidon(sideNodes[i], node[i]) ELSE node[i]
    BY <1>5, <2>1
  <2>5. new[i + 1][q] = IF 2 * q + 1 < s + 1
                        THEN Poseidon(new[i][2 * q], new[i][2 * q + 1])
                        ELSE new[i][2 * q]
    <3>1. q \in Nat
      BY <2>2, Halves
    <3> HIDE DEF q, s
    <3> QED
      BY <1>4, <2>1, <2>3, <3>1 DEF IsTree
  <2>6. CASE IsOdd(s)
    <3>1. s - 1 \in Nat /\ sideNodes[i] = old[i][s - 1]
      BY <1>6, <2>1, <2>6
    <3>2. s - 1 < s
      BY <2>2
    <3>3. new[i][s - 1] = old[i][s - 1]
      BY <1>3, <2>1, <3>1, <3>2
    <3> HIDE DEF q, s
    <3>4. 2 * q = s - 1 /\ 2 * q + 1 = s /\ 2 * q + 1 < s + 1
      BY <2>2, <2>6 DEF IsOdd
    <3>5. node[i + 1] = new[i + 1][q]
      BY <2>1, <2>4, <2>5, <2>6, <3>1, <3>3, <3>4
    <3> QED
      BY <3>5 DEF q
  <2>7. CASE ~IsOdd(s)
    <3> HIDE DEF q, s
    <3>1. 2 * q = s /\ ~(2 * q + 1 < s + 1)
      BY <2>2, <2>7, Halves DEF IsOdd
    <3>2. node[i + 1] = new[i + 1][q]
      BY <2>1, <2>4, <2>5, <2>7, <3>1
    <3> QED
      BY <3>2 DEF q
  <2> QED
    BY <2>6, <2>7
<1> HIDE DEF S
<1>9. S = Nat
  <2>1. S \in SUBSET Nat
    BY DEF S
  <2> QED
    BY <1>7, <1>8, <2>1, Induction
<1> QED
  BY <1>9, LeanAssumption DEF S, n, node, new

LEMMA LeanInvInsert ==
    ASSUME LeanInv, NEW v \in Values, LeanInsert(v)
    PROVE  LeanInv'
<1> DEFINE n == size
           node == NodeAt(Leaf(v))
           old == NodeOf(contents)
           new == NodeOf(contents')
<1>1. /\ n \in Nat /\ MaxSize \in Nat /\ contents \in Seq(Entries) /\ n = Len(contents)
      /\ leaves \in [Values -> 0..n] /\ changes \in Nat
  BY LeanFacts DEF LeanInv
<1>2. /\ n < MaxSize
      /\ depth' = DepthAfterOne
      /\ sideNodes' =
            [level \in Levels |->
                IF level = depth' \/ (level < depth' /\ ~IsOdd(Shift(n, level)))
                THEN node[level]
                ELSE sideNodes[level]]
      /\ size' = n + 1
      /\ leaves' = [leaves EXCEPT ![v] = n + 1]
      /\ contents' = Append(contents, Leaf(v))
      /\ changes' = changes
  BY DEF LeanInsert, NewPosition
<1>3. /\ contents' \in Seq(Entries)
      /\ Len(contents') = n + 1
      /\ \A j \in 1..n : contents'[j] = contents[j]
  BY <1>1, <1>2 DEF Entries
<1>4. depth' \in Nat /\ depth' <= n + 1 /\ Holds(depth', n + 1)
  BY <1>2, DepthOneMore
<1>5. \E f : sideNodes' = [level \in Levels |-> f[level]]
  <2>1. sideNodes' = [level \in Levels |-> sideNodes'[level]]
    BY <1>2
  <2> QED
    BY <2>1
<1>6. leaves' \in [Values -> 0..(n + 1)]
  BY <1>1, <1>2
<1>7. ASSUME changes' = 0
      PROVE  SidesRight'
  <2>1. SidesRight
    BY <1>2, <1>7 DEF LeanInv
  <2>2. \A i \in 0..MaxSize : node[i] = new[i][Shift(n, i)]
    BY <1>2, <2>1, InsertedAreLast
  <2>3. \A i \in 0..MaxSize : \A k \in Nat : k < Shift(n, i) => new[i][k] = old[i][k]
    <3>1. n <= n + 1
      BY <1>1
    <3> QED
      BY <1>3, <3>1, GrownNodesStay
  <2>4. \A i \in Nat : IsOdd(Shift(n, i)) => /\ Shift(n, i) - 1 \in Nat
                                             /\ sideNodes[i] = old[i][Shift(n, i) - 1]
    BY <2>1, OddSides
  <2> HIDE DEF n, node, old, new
  <2>5. ASSUME NEW level \in 0..depth'
        PROVE  sideNodes'[level] = new[level][SideIndex(n + 1, level)]
    <3> DEFINE s == Shift(n, level)
    <3>1. level \in Nat /\ level <= depth' /\ level \in 0..MaxSize /\ level \in Levels
      BY <1>1, <1>2, <1>4 DEF Levels
    <3>2. s \in Nat
      BY <1>1, <3>1, Shifts
    <3>3. SideIndex(n + 1, level) = 2 * (s \div 2)
      <4>1. (n + 1) - 1 = n
        BY <1>1
      <4>2. Shift(n, level + 1) = s \div 2
        BY <1>1, <3>1, Shifts
      <4> QED
        BY <4>1, <4>2 DEF SideIndex
    <3>4. sideNodes'[level] = IF level = depth' \/ (level < depth' /\ ~IsOdd(s))
                              THEN node[level]
                              ELSE sideNodes[level]
      BY <1>2, <3>1
    <3>5. node[level] = new[level][s]
      BY <2>2, <3>1
    <3>6. CASE IsOdd(s)
      <4>1. level # depth'
        <5> SUFFICES ASSUME level = depth'
                     PROVE  FALSE
          OBVIOUS
        <5>1. PowerOfTwo[level] >= n + 1 /\ PowerOfTwo[level] \in Nat
          BY <1>4, <3>1, Powers DEF Holds
        <5>2. n < PowerOfTwo[level]
          BY <1>1, <5>1
        <5>3. s = 0
          BY <1>1, <3>1, <5>2, ShiftedAway
        <5> HIDE DEF s
        <5> QED
          BY <3>6, <5>3 DEF IsOdd
      <4>2. sideNodes'[level] = sideNodes[level]
        BY <3>4, <3>6, <4>1
      <4>3. s - 1 \in Nat /\ sideNodes[level] = old[level][s - 1]
        BY <2>4, <3>1, <3>6
      <4>4. new[level][s - 1] = old[level][s - 1]
        BY <2>3, <3>1, <3>2, <4>3
      <4> HIDE DEF s
      <4>5. 2 * (s \div 2) = s - 1
        BY <3>2, <3>6 DEF IsOdd
      <4> QED
        BY <3>3, <4>2, <4>3, <4>4, <4>5
    <3>7. CASE ~IsOdd(s)
      <4>1. sideNodes'[level] = new[level][s]
        <5>1. level = depth' \/ level < depth'
          BY <1>4, <3>1
        <5> QED
          BY <3>4, <3>5, <3>7, <5>1
      <4> HIDE DEF s
      <4>2. 2 * (s \div 2) = s
        BY <3>2, <3>7, Halves DEF IsOdd
      <4> QED
        BY <3>3, <4>1, <4>2
    <3> QED
      BY <3>6, <3>7
  <2>6. size' # 0
    BY <1>1, <1>2
  <2> QED
    BY <1>2, <2>5, <2>6 DEF SidesRight, new
<1>8. n + 1 \in Nat /\ n + 1 <= MaxSize
  BY <1>1, <1>2
<1> QED
  BY <1>1, <1>2, <1>3, <1>4, <1>5, <1>6, <1>7, <1>8 DEF LeanInv, Holds

\* Those below an index of the entries of a batch.
NodesFrom(total, new, i) ==
    [j \in 1..(SizeAt(total, i) - Shift(size, i)) |-> new[i][Shift(size, i) + j - 1]]

\* The new nodes of a level are the nodes of the new tree from the first that changes.
LEMMA ManyAreNodes ==
    ASSUME LeanInv, SidesRight, NEW k0 \in Nat \ {0}, NEW vs \in [1..k0 -> Values],
           NEW total, total = size + Len(vs), total <= MaxSize,
           contents' = contents \o [i \in 1..Len(vs) |-> Leaf(vs[i])]
    PROVE  \A i \in 0..MaxSize : NewNodes(vs)[i] = NodesFrom(total, NodeOf(contents'), i)
<1> DEFINE n == size
           nodes == NewNodes(vs)
           old == NodeOf(contents)
           new == NodeOf(contents')
           more == [i \in 1..Len(vs) |-> Leaf(vs[i])]
           S == {i \in Nat : i <= MaxSize => nodes[i] = NodesFrom(total, new, i)}
<1>1. n \in Nat /\ contents \in Seq(Entries) /\ n = Len(contents)
  BY LeanFacts
<1>2. Len(vs) = k0 /\ total \in Nat /\ total > n /\ total - n = k0 /\ total > 0 /\ total - 1 \in Nat
  BY <1>1
<1>3. more \in Seq(Entries) /\ Len(more) = k0 /\ \A j \in 1..k0 : more[j] = Leaf(vs[j])
  BY <1>2 DEF Entries
<1>4. /\ contents' \in Seq(Entries)
      /\ Len(contents') = total
      /\ \A j \in 1..n : contents'[j] = contents[j]
      /\ \A j \in 1..k0 : contents'[n + j] = Leaf(vs[j])
  <2>1. contents' = contents \o more
    OBVIOUS
  <2> HIDE DEF more
  <2>2. \A j \in 1..k0 : n + j \in Nat /\ n + j > n /\ n + j <= n + k0 /\ (n + j) - n = j
    BY <1>1
  <2> QED
    BY <1>1, <1>2, <1>3, <2>1, <2>2
<1>5. \A i \in 0..MaxSize : \A k \in Nat : k < Shift(n, i) => new[i][k] = old[i][k]
  <2>1. n <= total
    BY <1>1, <1>2
  <2> QED
    BY <1>4, <2>1, GrownNodesStay
<1>6. IsTree(new, contents', total)
  BY <1>4, Parents
<1>7. /\ nodes[0] = [j \in 1..Len(vs) |-> Leaf(vs[j])]
      /\ \A level \in 1..MaxSize : nodes[level] = NodesAbove(nodes[level - 1], total, level)
  BY NewNodesAre
<1>8. \A i \in Nat : IsOdd(Shift(n, i)) => /\ Shift(n, i) - 1 \in Nat
                                           /\ sideNodes[i] = old[i][Shift(n, i) - 1]
  BY OddSides
<1> HIDE DEF nodes, old, new, more
<1>9. 0 \in S
  <2>1. SizeAt(total, 0) = total /\ Shift(n, 0) = n
    BY <1>1, Shifts DEF SizeAt
  <2>2. \A j \in 1..k0 : new[0][n + j - 1] = Leaf(vs[j])
    <3> TAKE j \in 1..k0
    <3>1. n + j - 1 \in Nat /\ (n + j - 1) + 1 = n + j
      BY <1>1
    <3>2. new[0][n + j - 1] = contents'[(n + j - 1) + 1]
      BY <1>6, <3>1 DEF IsTree
    <3> QED
      BY <1>4, <3>1, <3>2
  <2>3. NodesFrom(total, new, 0) = [j \in 1..k0 |-> new[0][n + j - 1]]
    BY <1>2, <2>1 DEF NodesFrom
  <2>4. nodes[0] = [j \in 1..k0 |-> Leaf(vs[j])]
    BY <1>2, <1>7
  <2> HIDE DEF n
  <2>5. nodes[0] = NodesFrom(total, new, 0)
    BY <2>2, <2>3, <2>4
  <2> QED
    BY <2>5
<1>10. ASSUME NEW i \in S
       PROVE  i + 1 \in S
  <2> SUFFICES ASSUME i + 1 <= MaxSize
               PROVE  nodes[i + 1] = NodesFrom(total, new, i + 1)
    OBVIOUS
  <2> DEFINE a == Shift(n, i)
             b == Shift(n, i + 1)
             t == Shift(total - 1, i)
             u == Shift(total - 1, i + 1)
             below == nodes[i]
             fresh(k) == below[k - a + 1]
             left(p) == IF 2 * p < a THEN sideNodes[i] ELSE fresh(2 * p)
             Value(p) == IF 2 * p + 1 < t + 1 THEN Poseidon(left(p), fresh(2 * p + 1)) ELSE left(p)
  <2>1. /\ i \in Nat /\ i + 1 \in Nat /\ i \in 0..MaxSize
        /\ i + 1 \in 1..MaxSize
        /\ (i + 1) - 1 = i
        /\ below = NodesFrom(total, new, i)
    BY LeanAssumption
  <2>2. a \in Nat /\ b = a \div 2 /\ t \in Nat /\ u = t \div 2
    BY <1>1, <1>2, <2>1, Shifts
  <2>3. SizeAt(total, i) = t + 1 /\ SizeAt(total, i + 1) = u + 1
    BY <1>2, <2>1, SizesAre
  <2>4. nodes[i + 1] = [j \in 1..((u + 1) - b) |-> Value(b + j - 1)]
    BY <1>7, <2>1, <2>3 DEF NodesAbove
  <2>5. NodesFrom(total, new, i + 1) = [j \in 1..((u + 1) - b) |-> new[i + 1][b + j - 1]]
    BY <2>3 DEF NodesFrom
  <2>6. IsOdd(a) => a - 1 \in Nat /\ sideNodes[i] = new[i][a - 1]
    <3>1. a \in Nat /\ a - 1 < a
      BY <2>2
    <3>2. IsOdd(a) => a - 1 \in Nat /\ sideNodes[i] = old[i][a - 1]
      BY <1>8, <2>1
    <3> HIDE DEF a
    <3>3. IsOdd(a) => new[i][a - 1] = old[i][a - 1]
      BY <1>5, <2>1, <3>1, <3>2 DEF a
    <3> QED
      BY <3>2, <3>3
  <2>7. below = [j \in 1..((t + 1) - a) |-> new[i][a + j - 1]]
    BY <2>1, <2>3 DEF NodesFrom
  <2>8. \A p \in Nat : new[i + 1][p] = IF 2 * p + 1 < t + 1
                                       THEN Poseidon(new[i][2 * p], new[i][2 * p + 1])
                                       ELSE new[i][2 * p]
    <3> TAKE p \in Nat
    <3>1. new[i + 1][p] = IF 2 * p + 1 < SizeAt(total, (i + 1) - 1)
                          THEN Poseidon(new[(i + 1) - 1][2 * p], new[(i + 1) - 1][2 * p + 1])
                          ELSE new[(i + 1) - 1][2 * p]
      BY <1>6, <2>1 DEF IsTree
    <3> HIDE DEF t
    <3> QED
      BY <2>1, <2>3, <3>1
  <2> HIDE DEF a, b, t, u, below, n
  <2>9. ASSUME NEW k \in Nat, a <= k, k <= t
        PROVE  fresh(k) = new[i][k]
    <3>1. k - a + 1 \in 1..((t + 1) - a) /\ a + (k - a + 1) - 1 = k
      BY <2>2, <2>9
    <3> QED
      BY <2>7, <3>1
  <2>10. ASSUME NEW p \in Nat, b <= p, p <= u
         PROVE  left(p) = new[i][2 * p]
    <3>1. CASE 2 * p < a
      <4>1. IsOdd(a) /\ 2 * p = a - 1
        BY <2>2, <2>10, <3>1, Halves DEF IsOdd
      <4> QED
        BY <2>6, <3>1, <4>1
    <3>2. CASE ~(2 * p < a)
      <4>1. 2 * p \in Nat /\ a <= 2 * p /\ 2 * p <= t
        BY <2>2, <2>10, <3>2, Halves
      <4> HIDE DEF fresh
      <4> QED
        BY <2>9, <3>2, <4>1
    <3> QED
      BY <3>1, <3>2
  <2>11. ASSUME NEW j \in 1..((u + 1) - b)
         PROVE  Value(b + j - 1) = new[i + 1][b + j - 1]
    <3> DEFINE p == b + j - 1
    <3>1. b \in Nat /\ u \in Nat
      BY <2>2, Halves
    <3>2. p \in Nat /\ b <= p /\ p <= u
      BY <2>11, <3>1
    <3> HIDE DEF p
    <3>3. left(p) = new[i][2 * p]
      BY <2>10, <3>2
    <3>4. CASE 2 * p + 1 < t + 1
      <4>1. 2 * p + 1 \in Nat /\ a <= 2 * p + 1 /\ 2 * p + 1 <= t
        BY <2>2, <3>2, <3>4, Halves
      <4>2. fresh(2 * p + 1) = new[i][2 * p + 1]
        BY <2>9, <4>1
      <4> HIDE DEF fresh, left
      <4>3. Value(p) = new[i + 1][p]
        BY <2>8, <3>2, <3>3, <3>4, <4>2
      <4> QED
        BY <4>3 DEF p
    <3>5. CASE ~(2 * p + 1 < t + 1)
      <4> HIDE DEF fresh, left
      <4>1. Value(p) = new[i + 1][p]
        BY <2>8, <3>2, <3>3, <3>5
      <4> QED
        BY <4>1 DEF p
    <3> QED
      BY <3>4, <3>5
  <2> HIDE DEF Value
  <2> QED
    BY <2>4, <2>5, <2>11
<1> HIDE DEF S
<1>11. S = Nat
  <2>1. S \in SUBSET Nat
    BY DEF S
  <2> QED
    BY <1>9, <1>10, <2>1, Induction
<1>12. ASSUME NEW i \in 0..MaxSize
       PROVE  nodes[i] = NodesFrom(total, new, i)
  <2>1. i \in Nat /\ i <= MaxSize
    BY LeanAssumption
  <2> QED
    BY <1>11, <2>1 DEF S
<1> QED
  BY <1>12 DEF nodes, new

LEMMA DepthMany ==
    ASSUME LeanInv, NEW total \in Nat, total >= size
    PROVE  DepthAfter(total) \in Nat /\ DepthAfter(total) <= total /\ Holds(DepthAfter(total), total)
<1> DEFINE Enough == {d \in Nat : d >= depth /\ PowerOfTwo[d] >= total}
           Good(d) == PowerOfTwo[d] >= total /\ \A e \in depth..(d - 1) : PowerOfTwo[e] < total
           chosen == CHOOSE d \in depth..(depth + total) : Good(d)
<1>1. /\ size \in Nat /\ depth \in Nat /\ depth <= size
      /\ \A e \in 0..(depth - 1) : PowerOfTwo[e] < size
  BY LeanFacts
<1>2. \A e \in Nat : PowerOfTwo[e] \in Nat /\ PowerOfTwo[e] > e
  BY Powers, PowersExceed
<1>3. depth + total \in Enough
  <2>1. depth + total \in Nat
    BY <1>1
  <2>2. PowerOfTwo[depth + total] \in Nat /\ PowerOfTwo[depth + total] > depth + total
    BY <1>2, <2>1
  <2> QED
    BY <1>1, <2>1, <2>2
<1>4. PICK d \in Enough : \A e \in Enough : d <= e
  <2>1. Enough \in SUBSET Nat /\ Enough # {}
    BY <1>3
  <2> HIDE DEF Enough
  <2> QED
    BY <2>1, Smallest
<1>5. d \in Nat /\ d >= depth /\ PowerOfTwo[d] >= total /\ d <= depth + total
  BY <1>3, <1>4
<1>6. ASSUME NEW e \in depth..(d - 1)
      PROVE  PowerOfTwo[e] < total
  <2>1. e \in Nat /\ e >= depth /\ e < d
    BY <1>1, <1>5
  <2>2. e \notin Enough
    BY <1>4, <1>5, <2>1
  <2>3. PowerOfTwo[e] \in Nat
    BY <1>2, <2>1
  <2> QED
    BY <2>1, <2>2, <2>3
<1>7. d \in depth..(depth + total) /\ Good(d)
  BY <1>1, <1>5, <1>6
<1>8. chosen \in depth..(depth + total) /\ Good(chosen)
  <2> HIDE DEF Good
  <2> QED
    BY <1>7
<1>9. DepthAfter(total) = chosen
  BY DEF DepthAfter
<1> HIDE DEF chosen, Enough
<1>10. chosen \in Nat /\ depth <= chosen
  BY <1>1, <1>8
<1>11. ASSUME NEW e \in 0..(chosen - 1)
       PROVE  PowerOfTwo[e] < total
  <2>1. e \in Nat /\ PowerOfTwo[e] \in Nat
    BY <1>2
  <2>2. CASE e < depth
    <3>1. e \in 0..(depth - 1)
      BY <1>1, <2>1, <2>2
    <3> QED
      BY <1>1, <2>1, <3>1
  <2>3. CASE e >= depth
    <3>1. e \in depth..(chosen - 1)
      BY <1>1, <1>10, <1>11, <2>1, <2>3
    <3> QED
      BY <1>8, <3>1
  <2> QED
    BY <1>1, <2>1, <2>2, <2>3
<1>12. chosen <= total
  <2> SUFFICES ASSUME chosen > total
               PROVE  FALSE
    BY <1>10
  <2>1. total \in 0..(chosen - 1)
    BY <1>10
  <2>2. PowerOfTwo[total] < total
    BY <1>11, <2>1
  <2> QED
    BY <1>2, <2>2
<1> QED
  BY <1>8, <1>9, <1>10, <1>11, <1>12 DEF Holds

LEMMA LeanInvInsertMany ==
    ASSUME LeanInv, NEW vs \in Batches, InsertMany(vs)
    PROVE  LeanInv'
<1> DEFINE n == size
           total == size + Len(vs)
           nodes == NewNodes(vs)
           old == NodeOf(contents)
           new == NodeOf(contents')
           more == [i \in 1..Len(vs) |-> Leaf(vs[i])]
<1>1. /\ n \in Nat /\ MaxSize \in Nat /\ contents \in Seq(Entries) /\ n = Len(contents)
      /\ leaves \in [Values -> 0..n] /\ changes \in Nat
  BY LeanFacts DEF LeanInv
<1>2. PICK k0 \in Nat \ {0} : vs \in [1..k0 -> Values]
  <2>1. PICK length \in 1..3 : vs \in [1..length -> Values]
    BY DEF Batches
  <2>2. length \in Nat \ {0}
    BY <2>1
  <2> QED
    BY <2>1, <2>2
<1>3. /\ Len(vs) = k0 /\ total \in Nat /\ total > n /\ total - n = k0
      /\ total > 0 /\ total - 1 \in Nat /\ n <= total - 1
  BY <1>1, <1>2
<1>4. /\ total <= MaxSize
      /\ depth' = DepthAfter(total)
      /\ sideNodes' =
            [level \in Levels |->
                IF level < depth'
                THEN SideNode(nodes[level], SizeAt(total, level), sideNodes[level])
                ELSE IF level = depth' THEN nodes[level][1]
                ELSE sideNodes[level]]
      /\ size' = total
      /\ leaves' = [v \in Values |->
                      IF \E i \in 1..Len(vs) : vs[i] = v
                      THEN NewPosition(CHOOSE i \in 1..Len(vs) : vs[i] = v)
                      ELSE leaves[v]]
      /\ contents' = contents \o more
      /\ changes' = changes
  BY DEF InsertMany
<1>5. more \in Seq(Entries) /\ Len(more) = k0
  BY <1>2, <1>3 DEF Entries
<1>6. /\ contents' \in Seq(Entries)
      /\ Len(contents') = total
      /\ \A j \in 1..n : contents'[j] = contents[j]
  <2>1. contents' = contents \o more
    BY <1>4
  <2>2. total = n + k0
    BY <1>3
  <2> HIDE DEF more, n, total
  <2>3. /\ contents \in Seq(Entries) /\ n = Len(contents) /\ n \in Nat
        /\ more \in Seq(Entries) /\ k0 = Len(more) /\ k0 \in Nat
    BY <1>1, <1>5
  <2>4. /\ contents \o more \in Seq(Entries)
        /\ Len(contents \o more) = Len(contents) + Len(more)
    BY <2>3
  <2>5. contents' \in Seq(Entries)
    BY <2>1, <2>4
  <2>6. Len(contents') = total
    BY <2>1, <2>2, <2>3, <2>4
  <2>7. \A j \in 1..n : contents'[j] = contents[j]
    <3> TAKE j \in 1..n
    <3>1. j \in 1..Len(contents) /\ j \in 1..(Len(contents) + Len(more))
      BY <1>1, <1>5
    <3> QED
      BY <1>1, <1>5, <2>1, <3>1
  <2> QED
    BY <2>5, <2>6, <2>7
<1>7. depth' \in Nat /\ depth' <= total /\ Holds(depth', total)
  <2>1. total \in Nat /\ total >= size
    BY <1>1, <1>3
  <2>2. depth' = DepthAfter(total)
    BY <1>4
  <2> HIDE DEF total
  <2>3. DepthAfter(total) \in Nat /\ DepthAfter(total) <= total /\ Holds(DepthAfter(total), total)
    BY <2>1, DepthMany
  <2> QED
    BY <2>2, <2>3
<1>8. \E f : sideNodes' = [level \in Levels |-> f[level]]
  <2>1. sideNodes' = [level \in Levels |-> sideNodes'[level]]
    BY <1>4
  <2> QED
    BY <2>1
<1>9. leaves' \in [Values -> 0..total]
  <2>1. ASSUME NEW v \in Values
        PROVE  (IF \E i \in 1..Len(vs) : vs[i] = v
                THEN NewPosition(CHOOSE i \in 1..Len(vs) : vs[i] = v)
                ELSE leaves[v]) \in 0..total
    <3>1. CASE \E i \in 1..Len(vs) : vs[i] = v
      <4> DEFINE i == CHOOSE i \in 1..Len(vs) : vs[i] = v
      <4>1. i \in 1..k0
        BY <1>3, <3>1
      <4> HIDE DEF i
      <4>2. NewPosition(i) \in 0..total
        BY <1>1, <1>3, <4>1 DEF NewPosition
      <4> QED
        BY <3>1, <4>2 DEF i
    <3>2. CASE ~\E i \in 1..Len(vs) : vs[i] = v
      <4>1. leaves[v] \in 0..n
        BY <1>1
      <4> HIDE DEF total
      <4> QED
        BY <1>1, <1>3, <3>2, <4>1
    <3> QED
      BY <3>1, <3>2
  <2> QED
    BY <1>4, <2>1
<1>10. ASSUME changes' = 0
       PROVE  SidesRight'
  <2>1. SidesRight
    BY <1>4, <1>10 DEF LeanInv
  <2>2. \A i \in 0..MaxSize : nodes[i] = NodesFrom(total, new, i)
    BY <1>2, <1>4, <2>1, ManyAreNodes
  <2>3. \A i \in 0..MaxSize : \A k \in Nat : k < Shift(n, i) => new[i][k] = old[i][k]
    <3>1. n <= total
      BY <1>1, <1>3
    <3> QED
      BY <1>6, <3>1, GrownNodesStay
  <2>4. \A i \in Nat : IsOdd(Shift(n, i)) => /\ Shift(n, i) - 1 \in Nat
                                             /\ sideNodes[i] = old[i][Shift(n, i) - 1]
    BY <2>1, OddSides
  <2> HIDE DEF n, nodes, old, new, total
  <2>5. ASSUME NEW level \in 0..depth'
        PROVE  sideNodes'[level] = new[level][SideIndex(total, level)]
    <3> DEFINE b == Shift(n, level)
               t == Shift(total - 1, level)
               many == nodes[level]
    <3>1. level \in Nat /\ level <= depth' /\ level \in 0..MaxSize /\ level \in Levels
      BY <1>1, <1>3, <1>4, <1>7 DEF Levels
    <3>2. b \in Nat /\ t \in Nat /\ b <= t
      BY <1>1, <1>3, <3>1, Shifts, ShiftKeepsOrder
    <3>3. SizeAt(total, level) = t + 1 /\ SideIndex(total, level) = 2 * (t \div 2)
      <4>1. Shift(total - 1, level + 1) = t \div 2
        BY <1>3, <3>1, Shifts
      <4> QED
        BY <1>3, <3>1, <4>1, SizesAre DEF SideIndex
    <3>4. many = [j \in 1..((t + 1) - b) |-> new[level][b + j - 1]]
      BY <2>2, <3>1, <3>3 DEF NodesFrom, n
    <3>5. sideNodes'[level] = IF level < depth' THEN SideNode(many, t + 1, sideNodes[level])
                              ELSE many[1]
      BY <1>4, <1>7, <3>1, <3>3
    <3>6. IsOdd(b) => b - 1 \in Nat /\ sideNodes[level] = new[level][b - 1]
      <4>1. IsOdd(b) => b - 1 \in Nat /\ sideNodes[level] = old[level][b - 1]
        BY <2>4, <3>1
      <4>2. b - 1 < b
        BY <3>2
      <4>3. IsOdd(b) => new[level][b - 1] = old[level][b - 1]
        BY <2>3, <3>1, <4>1, <4>2
      <4> QED
        BY <4>1, <4>3
    <3>7. level = depth' => t = 0
      <4> SUFFICES ASSUME level = depth'
                   PROVE  t = 0
        OBVIOUS
      <4>1. PowerOfTwo[level] >= total /\ PowerOfTwo[level] \in Nat
        BY <1>7, <3>1, Powers DEF Holds
      <4>2. total - 1 < PowerOfTwo[level]
        BY <1>3, <4>1
      <4> QED
        BY <1>3, <3>1, <4>2, ShiftedAway
    <3> HIDE DEF b, t, many
    <3>8. Len(many) = (t + 1) - b
      BY <3>2, <3>4
    <3>9. \A j \in 1..((t + 1) - b) : many[j] = new[level][b + j - 1]
      BY <3>4
    <3>10. CASE level = depth'
      <4>1. t = 0 /\ b = 0
        BY <3>2, <3>7, <3>10
      <4>2. many[1] = new[level][0]
        <5>1. 1 \in 1..((t + 1) - b) /\ b + 1 - 1 = 0
          BY <4>1
        <5> QED
          BY <3>9, <5>1
      <4>3. SideIndex(total, level) = 0
        BY <3>3, <4>1
      <4> QED
        BY <1>7, <3>5, <3>10, <4>2, <4>3
    <3>11. CASE level < depth'
      <4>1. sideNodes'[level] = SideNode(many, t + 1, sideNodes[level])
        BY <3>5, <3>11
      <4>2. CASE IsOdd(t + 1)
        <5>1. (t + 1) - b \in 1..((t + 1) - b) /\ b + ((t + 1) - b) - 1 = t
          BY <3>2
        <5>2. many[(t + 1) - b] = new[level][t]
          BY <3>9, <5>1
        <5>3. 2 * (t \div 2) = t
          BY <3>2, <4>2 DEF IsOdd
        <5> QED
          BY <3>3, <3>8, <4>1, <4>2, <5>2, <5>3 DEF SideNode
      <4>3. CASE ~IsOdd(t + 1) /\ (t + 1) - b > 1
        <5>1. (t + 1) - b - 1 \in 1..((t + 1) - b) /\ b + ((t + 1) - b - 1) - 1 = t - 1
          BY <3>2, <4>3
        <5>2. many[(t + 1) - b - 1] = new[level][t - 1]
          BY <3>9, <5>1
        <5>3. 2 * (t \div 2) = t - 1
          BY <3>2, <4>3 DEF IsOdd
        <5> QED
          BY <3>3, <3>8, <4>1, <4>3, <5>2, <5>3 DEF SideNode
      <4>4. CASE ~IsOdd(t + 1) /\ ~((t + 1) - b > 1)
        <5>1. b = t /\ IsOdd(b)
          BY <3>2, <4>4 DEF IsOdd
        <5>2. 2 * (t \div 2) = t - 1
          BY <3>2, <4>4 DEF IsOdd
        <5> QED
          BY <3>3, <3>6, <3>8, <4>1, <4>4, <5>1, <5>2 DEF SideNode
      <4> QED
        BY <4>2, <4>3, <4>4
    <3> QED
      BY <1>7, <3>1, <3>10, <3>11
  <2>6. size' # 0
    BY <1>3, <1>4
  <2> QED
    BY <1>4, <2>5, <2>6 DEF SidesRight, new
<1> HIDE DEF total
<1> QED
  BY <1>1, <1>3, <1>4, <1>6, <1>7, <1>8, <1>9, <1>10 DEF LeanInv, Holds

-----------------------------------------------------------------------------
(* Updates and removals.                                                   *)

SameElsewhere(changed, values, index) ==
    \A k \in Nat : k # index => changed[k + 1] = values[k + 1]

LEMMA ReplaceFacts ==
    ASSUME LeanInv, NEW v0 \in Values, NEW entry \in Entries, Replace(v0, entry),
           NEW index, index = leaves[v0] - 1
    PROVE  /\ index \in 0..(size - 1)
           /\ contents' \in Seq(Entries) /\ Len(contents') = size
           /\ contents'[index + 1] = entry /\ SameElsewhere(contents', contents, index)
           /\ size' = size /\ depth' = depth /\ changes' = changes + 1
           /\ depth \in Levels
           /\ sideNodes' = SideNodesAfter(index, Climb(index, entry))
<1>1. contents \in Seq(Entries) /\ size = Len(contents) /\ size \in Nat /\ depth \in Levels
  BY LeanFacts DEF Levels
<1>2. leaves[v0] \in 0..size /\ leaves[v0] # 0
  BY DEF LeanInv, Replace, Has
<1>3. index \in 0..(size - 1)
  BY <1>1, <1>2
<1>4. /\ contents' = [contents EXCEPT ![index + 1] = entry]
      /\ size' = size /\ depth' = depth /\ changes' = changes + 1
      /\ sideNodes' = SideNodesAfter(index, Climb(index, entry))
  BY DEF Replace
<1>5. /\ contents' \in Seq(Entries) /\ Len(contents') = size
      /\ contents'[index + 1] = entry /\ SameElsewhere(contents', contents, index)
  <2>1. index + 1 \in 1..Len(contents) /\ index \in Nat
    BY <1>1, <1>3
  <2>2. /\ [contents EXCEPT ![index + 1] = entry] \in Seq(Entries)
        /\ Len([contents EXCEPT ![index + 1] = entry]) = Len(contents)
    BY <1>1, <2>1, ExceptSeq
  <2>3. contents'[index + 1] = entry
    BY <1>1, <1>4, <2>1
  <2>4. ASSUME NEW k \in Nat, k # index
        PROVE  contents'[k + 1] = contents[k + 1]
    <3>1. k + 1 # index + 1
      BY <2>1, <2>4
    <3> QED
      BY <1>1, <1>4, <2>1, <3>1
  <2> QED
    BY <1>1, <1>4, <2>2, <2>3, <2>4 DEF SameElsewhere
<1> QED
  BY <1>1, <1>3, <1>4, <1>5

\* What the siblings of a path leave in the side nodes is one node for every level.
LEMMA SidesStayLevels ==
    ASSUME NEW index, NEW node, NEW sides, sides = SideNodesAfter(index, node)
    PROVE  /\ sides = [level \in Levels |-> sides[level]]
           /\ depth \in Levels => sides[depth] = node[depth]
<1> DEFINE edges == EdgeNodes(index, node)
<1>1. DOMAIN edges = Levels /\ edges = [level \in Levels |-> edges[level]]
  BY DEF EdgeNodes
<1> HIDE DEF edges
<1>2. sides = [edges EXCEPT ![depth] = node[depth]]
  BY DEF SideNodesAfter, edges
<1> QED
  BY <1>1, <1>2

LEMMA LeanInvChange ==
    ASSUME LeanInv, Change
    PROVE  LeanInv'
<1>1. PICK v0 \in Values, entry \in Entries :
          Replace(v0, entry) /\ leaves' \in [Values -> 0..size]
  <2>1. leaves \in [Values -> 0..size] /\ size \in Nat
    BY LeanFacts DEF LeanInv
  <2>2. ASSUME NEW v0 \in Values, NEW v \in Values, LeanUpdate(v0, v)
        PROVE  Replace(v0, Leaf(v)) /\ Leaf(v) \in Entries /\ leaves' \in [Values -> 0..size]
    BY <2>1, <2>2 DEF LeanUpdate, Entries
  <2>3. ASSUME NEW v0 \in Values, LeanRemove(v0)
        PROVE  Replace(v0, Zero) /\ Zero \in Entries /\ leaves' \in [Values -> 0..size]
    BY <2>1, <2>3 DEF LeanRemove, Entries
  <2> QED
    BY <2>2, <2>3 DEF Change
<1> DEFINE index == leaves[v0] - 1
<1>2. /\ contents' \in Seq(Entries) /\ Len(contents') = size
      /\ size' = size /\ depth' = depth /\ changes' = changes + 1
      /\ sideNodes' = SideNodesAfter(index, Climb(index, entry))
  BY <1>1, ReplaceFacts
<1>3. \E f : sideNodes' = [level \in Levels |-> f[level]]
  <2>1. sideNodes' = [level \in Levels |-> sideNodes'[level]]
    BY <1>2, SidesStayLevels
  <2> QED
    BY <2>1
<1>4. changes' \in Nat /\ changes' # 0
  BY <1>2 DEF LeanInv
<1>5. size <= MaxSize /\ depth \in Nat /\ depth <= size /\ Holds(depth, size)
  BY DEF LeanInv
<1> QED
  BY <1>1, <1>2, <1>3, <1>4, <1>5 DEF LeanInv, Holds

LEMMA LeanInvNext ==
    ASSUME LeanInv, [LeanNext]_leanVars
    PROVE  LeanInv'
<1>1. CASE \E v \in Values : LeanInsert(v)
  BY <1>1, LeanInvInsert
<1>2. CASE \E vs \in Batches : InsertMany(vs)
  BY <1>2, LeanInvInsertMany
<1>3. CASE Change
  BY <1>3, LeanInvChange
<1>4. CASE UNCHANGED leanVars
  BY <1>4 DEF leanVars, LeanInv, SidesRight, Holds
<1> QED
  BY <1>1, <1>2, <1>3, <1>4 DEF LeanNext

\* Away from the path of the leaf that is replaced every node stays.
LEMMA OffPathStays ==
    ASSUME NEW index \in Nat, NEW n \in Nat,
           NEW values, Len(values) = n,
           NEW changed, Len(changed) = n,
           SameElsewhere(changed, values, index),
           NEW old, old = NodeOf(values), NEW new, new = NodeOf(changed)
    PROVE  \A i \in 0..MaxSize : \A k \in Nat :
              k # Shift(index, i) => new[i][k] = old[i][k]
<1> DEFINE S == {i \in Nat : i <= MaxSize =>
                    \A k \in Nat : k # Shift(index, i) => new[i][k] = old[i][k]}
<1>2. IsTree(old, values, n)
  BY Parents
<1>3. IsTree(new, changed, n)
  BY Parents
<1>4. 0 \in S
  <2> SUFFICES ASSUME NEW k \in Nat, k # Shift(index, 0)
               PROVE  new[0][k] = old[0][k]
    OBVIOUS
  <2>1. k # index
    BY Shifts
  <2>2. changed[k + 1] = values[k + 1]
    BY <2>1 DEF SameElsewhere
  <2> QED
    BY <1>2, <1>3, <2>2 DEF IsTree
<1>5. ASSUME NEW i \in S
      PROVE  i + 1 \in S
  <2> SUFFICES ASSUME i + 1 <= MaxSize, NEW k \in Nat, k # Shift(index, i + 1)
               PROVE  new[i + 1][k] = old[i + 1][k]
    OBVIOUS
  <2>1. /\ i \in Nat /\ i <= MaxSize /\ i + 1 \in 1..MaxSize /\ (i + 1) - 1 = i
        /\ \A j \in Nat : j # Shift(index, i) => new[i][j] = old[i][j]
    BY LeanAssumption
  <2> DEFINE s == Shift(index, i)
  <2>2. s \in Nat /\ k # s \div 2
    BY <2>1, Shifts
  <2> HIDE DEF s
  <2>3. 2 * k \in Nat /\ 2 * k + 1 \in Nat /\ 2 * k # s /\ 2 * k + 1 # s
    BY <2>2
  <2>4. new[i][2 * k] = old[i][2 * k] /\ new[i][2 * k + 1] = old[i][2 * k + 1]
    BY <2>1, <2>3 DEF s
  <2>5. new[i + 1][k] = IF 2 * k + 1 < SizeAt(n, i)
                        THEN Poseidon(new[i][2 * k], new[i][2 * k + 1])
                        ELSE new[i][2 * k]
    BY <1>3, <2>1 DEF IsTree
  <2>6. old[i + 1][k] = IF 2 * k + 1 < SizeAt(n, i)
                        THEN Poseidon(old[i][2 * k], old[i][2 * k + 1])
                        ELSE old[i][2 * k]
    BY <1>2, <2>1 DEF IsTree
  <2> QED
    BY <2>4, <2>5, <2>6
<1> HIDE DEF S
<1>6. S = Nat
  <2>1. S \in SUBSET Nat
    BY DEF S
  <2> QED
    BY <1>4, <1>5, <2>1, Induction
<1> SUFFICES ASSUME NEW i \in 0..MaxSize
             PROVE  \A k \in Nat : k # Shift(index, i) => new[i][k] = old[i][k]
  OBVIOUS
<1>7. i \in Nat /\ i <= MaxSize
  BY LeanAssumption
<1> QED
  BY <1>6, <1>7 DEF S

\* Up the path, with the siblings of the tree before: the nodes of the tree after.
LEMMA ClimbedAreNodes ==
    ASSUME LeanInv, NEW entry \in Entries, NEW index \in 0..(size - 1),
           NEW changed, Len(changed) = size, changed[index + 1] = entry,
           SameElsewhere(changed, contents, index)
    PROVE  \A i \in 0..MaxSize : Climb(index, entry)[i] = NodeOf(changed)[i][Shift(index, i)]
<1> DEFINE n == size
           node == Climb(index, entry)
           old == NodeOf(contents)
           new == NodeOf(changed)
           S == {i \in Nat : i <= MaxSize => node[i] = new[i][Shift(index, i)]}
<1>1. /\ n \in Nat /\ contents \in Seq(Entries) /\ n = Len(contents)
      /\ index \in Nat /\ n > 0 /\ n - 1 \in Nat /\ index <= n - 1
  BY LeanFacts
<1>2. \A i \in 0..MaxSize : \A k \in Nat : k # Shift(index, i) => new[i][k] = old[i][k]
  BY <1>1, OffPathStays
<1>3. IsTree(new, changed, n)
  BY <1>1, Parents
<1>4. /\ node[0] = entry
      /\ \A level \in 1..MaxSize :
            node[level] = IF IsOdd(Shift(index, level - 1))
                          THEN Poseidon(Sibling(index, level - 1), node[level - 1])
                          ELSE IF HasSibling(index, level - 1)
                          THEN Poseidon(node[level - 1], Sibling(index, level - 1))
                          ELSE node[level - 1]
  BY ClimbedNodes
<1>5. \A i \in Nat : Sibling(index, i) = old[i][IF IsOdd(Shift(index, i))
                                                THEN Shift(index, i) - 1 ELSE Shift(index, i) + 1]
  BY DEF Sibling
<1> HIDE DEF node, old, new
<1>6. 0 \in S
  <2>1. new[0][index] = changed[index + 1]
    BY <1>1, <1>3 DEF IsTree
  <2> QED
    BY <1>1, <1>4, <2>1, Shifts
<1>7. ASSUME NEW i \in S
      PROVE  i + 1 \in S
  <2> SUFFICES ASSUME i + 1 <= MaxSize
               PROVE  node[i + 1] = new[i + 1][Shift(index, i + 1)]
    OBVIOUS
  <2> DEFINE s == Shift(index, i)
             q == Shift(index, i + 1)
             t == Shift(n - 1, i)
  <2>1. /\ i \in Nat /\ i \in 0..MaxSize /\ i + 1 \in 1..MaxSize /\ (i + 1) - 1 = i
        /\ node[i] = new[i][s]
    BY LeanAssumption
  <2>2. s \in Nat /\ q = s \div 2 /\ t \in Nat /\ s <= t
    BY <1>1, <2>1, Shifts, ShiftKeepsOrder
  <2>3. SizeAt(n, i) = t + 1
    BY <1>1, <2>1, SizesAre
  <2>4. new[i + 1][q] = IF 2 * q + 1 < t + 1
                        THEN Poseidon(new[i][2 * q], new[i][2 * q + 1])
                        ELSE new[i][2 * q]
    <3>1. q \in Nat
      BY <2>2, Halves
    <3> HIDE DEF q, t
    <3> QED
      BY <1>3, <2>1, <2>3, <3>1 DEF IsTree
  <2>5. node[i + 1] = IF IsOdd(s) THEN Poseidon(Sibling(index, i), node[i])
                      ELSE IF s # t THEN Poseidon(node[i], Sibling(index, i))
                      ELSE node[i]
    BY <1>4, <2>1 DEF HasSibling
  <2>6. Sibling(index, i) = old[i][IF IsOdd(s) THEN s - 1 ELSE s + 1]
    BY <1>5, <2>1
  <2>7. \A k \in Nat : k # s => new[i][k] = old[i][k]
    BY <1>2, <2>1
  <2> HIDE DEF s, q, t
  <2>8. CASE IsOdd(s)
    <3>1. s - 1 \in Nat /\ s - 1 # s /\ 2 * q = s - 1 /\ 2 * q + 1 = s /\ 2 * q + 1 < t + 1
      BY <2>2, <2>8 DEF IsOdd
    <3>2. node[i + 1] = new[i + 1][q]
      BY <2>1, <2>4, <2>5, <2>6, <2>7, <2>8, <3>1
    <3> QED
      BY <3>2 DEF q
  <2>9. CASE ~IsOdd(s) /\ s # t
    <3>1. 2 * q = s
      BY <2>2, <2>9, Halves DEF IsOdd
    <3>3. s + 1 \in Nat /\ s + 1 # s /\ 2 * q + 1 = s + 1 /\ 2 * q + 1 < t + 1
      BY <2>2, <2>9, <3>1
    <3>2. node[i + 1] = new[i + 1][q]
      BY <2>1, <2>4, <2>5, <2>6, <2>7, <2>9, <3>1, <3>3
    <3> QED
      BY <3>2 DEF q
  <2>10. CASE ~IsOdd(s) /\ s = t
    <3>1. 2 * q = s /\ ~(2 * q + 1 < t + 1)
      BY <2>2, <2>10, Halves DEF IsOdd
    <3>2. node[i + 1] = new[i + 1][q]
      BY <2>1, <2>4, <2>5, <2>10, <3>1
    <3> QED
      BY <3>2 DEF q
  <2> QED
    BY <2>8, <2>9, <2>10
<1> HIDE DEF S
<1>8. S = Nat
  <2>1. S \in SUBSET Nat
    BY DEF S
  <2> QED
    BY <1>6, <1>7, <2>1, Induction
<1>9. ASSUME NEW i \in 0..MaxSize
      PROVE  node[i] = new[i][Shift(index, i)]
  <2>1. i \in Nat /\ i <= MaxSize
    BY LeanAssumption
  <2> QED
    BY <1>8, <2>1 DEF S
<1> QED
  BY <1>9 DEF node, new

LEMMA ChangedRoot ==
    ASSUME LeanInv, Change
    PROVE  LeanRoot' = RootOf(contents')
<1>1. PICK v0 \in Values, entry \in Entries : Replace(v0, entry)
  BY DEF Change, LeanUpdate, LeanRemove, Entries
<1> DEFINE index == leaves[v0] - 1
<1>2. /\ index \in 0..(size - 1)
      /\ contents' \in Seq(Entries) /\ Len(contents') = size
      /\ contents'[index + 1] = entry /\ SameElsewhere(contents', contents, index)
      /\ depth' = depth /\ depth \in Levels
      /\ sideNodes' = SideNodesAfter(index, Climb(index, entry))
  BY <1>1, ReplaceFacts
<1> HIDE DEF index
<1>3. /\ size \in Nat /\ depth \in Nat /\ depth <= MaxSize
      /\ PowerOfTwo[depth] \in Nat /\ size <= PowerOfTwo[depth]
      /\ depth \in 0..MaxSize
  BY LeanFacts
<1>4. LeanRoot' = Climb(index, entry)[depth]
  BY <1>2, SidesStayLevels DEF LeanRoot
<1>5. Climb(index, entry)[depth] = NodeOf(contents')[depth][Shift(index, depth)]
  BY <1>2, <1>3, ClimbedAreNodes
<1>6. Shift(index, depth) = 0
  <2>1. index \in Nat /\ index < PowerOfTwo[depth]
    BY <1>2, <1>3
  <2> QED
    BY <1>3, <2>1, ShiftedAway
<1>7. RootOf(contents') = NodeOf(contents')[depth][0]
  <2>1. contents' # <<>>
    BY <1>2, <1>3
  <2>2. Holds(depth, Len(contents'))
    BY <1>2 DEF LeanInv
  <2> QED
    BY <1>2, <1>3, <2>1, <2>2, RootOfIs
<1> QED
  BY <1>4, <1>5, <1>6, <1>7

(* RootStaysRight of every tree: single and multiple insertions in any order leave
   the root of the leaves in the side nodes, and so does one update or removal
   (LeanIMT.sol _insert, _insertMany, _update, _remove). *)
THEOREM RootStaysRightHolds == LeanSpec => RootStaysRight
<1>1. LeanInit => LeanInv
  BY LeanInvInit
<1>2. LeanInv /\ [LeanNext]_leanVars => LeanInv'
  BY LeanInvNext
<1>3. LeanInv /\ [LeanNext]_leanVars => [GrownRootMatches']_leanVars
  <2>1. LeanInv' => GrownRootMatches'
    BY LeanInvRoot, PTL
  <2> QED
    BY <1>2, <2>1
<1>4. LeanInv /\ [LeanNext]_leanVars
          => [Change /\ LeanRoot = RootOf(contents) => LeanRoot' = RootOf(contents')]_leanVars
  BY ChangedRoot
<1> QED
  BY <1>1, <1>2, <1>3, <1>4, PTL DEF LeanSpec, RootStaysRight, ChangeKeepsRoot
=============================================================================
