--------------------------- MODULE Messages_proofs ---------------------------
(***************************************************************************)
(* Proofs about what becomes of messages: Relayer, which brings them to    *)
(* the chain, for any messages, polls, limit and number of runs and        *)
(* faults; and CorePoll, which makes votes and a tally of them, for any    *)
(* number of voters, options and messages and any size of the batches.     *)
(***************************************************************************)
EXTENDS CorePoll, Relayer, FiniteSetTheorems, SequenceTheorems, WellFoundedInduction, TLAPS

-----------------------------------------------------------------------------
(* The relayer.  A batch is the first of the saved messages; so a chain that is made of
   batches has no gaps, as long as saved messages are only added to. *)

IsStartOf(s, t) == s \in Seq(Messages) /\ Len(s) <= Len(t) /\ \A i \in 1..Len(s) : s[i] = t[i]

RunType(i) == [id : {i}, pc : {"add", "create", "relay"}, batch : Seq(Messages)]

SavedOnce == saved \in Seq(Messages) /\ \A i, j \in 1..Len(saved) : saved[i] = saved[j] => i = j

BatchesAreFirst == \A r \in runs : IsStartOf(r.batch, saved) /\ r.batch # <<>>

\* A run announces what it has added and saved.
StepsInOrder ==
    \A r \in runs :
        /\ r \in RunType(r.id)
        /\ r.pc \in {"create", "relay"} => r.batch \in ipfs
        /\ r.pc = "relay" => r.batch \in batches

\* The messages of a chain are saved ones, each behind all that were saved before it.
HasNoGaps(chain, t) ==
    /\ chain \in Seq(Messages)
    /\ \A i \in 1..Len(chain) : \E l \in 1..Len(t) :
          t[l] = chain[i] /\ \A k \in 1..(l - 1) : \E j \in 1..(i - 1) : chain[j] = t[k]

ChainsHaveNoGaps == DOMAIN relayed = Polls /\ \A p \in Polls : HasNoGaps(relayed[p], saved)

RelayerInv ==
    /\ SavedOnce
    /\ BatchesAreFirst
    /\ StepsInOrder
    /\ AnnouncedIsReadable
    /\ ChainsHaveNoGaps

LEMMA StartOfLonger ==
    ASSUME NEW s, NEW t \in Seq(Messages), NEW u \in Seq(Messages), IsStartOf(s, t)
    PROVE  IsStartOf(s, t \o u)
<1>1. Len(t) \in Nat /\ Len(u) \in Nat /\ Len(t \o u) = Len(t) + Len(u)
      /\ \A i \in 1..Len(t) : (t \o u)[i] = t[i]
  OBVIOUS
<1>2. Len(s) \in Nat
  BY DEF IsStartOf
<1> QED
  BY <1>1, <1>2 DEF IsStartOf

(* Saving more leaves the chains without gaps. *)
LEMMA NoGapsInLonger ==
    ASSUME NEW chain, NEW t \in Seq(Messages), NEW u \in Seq(Messages), HasNoGaps(chain, t)
    PROVE  HasNoGaps(chain, t \o u)
<1>1. Len(t) \in Nat /\ Len(u) \in Nat /\ Len(t \o u) = Len(t) + Len(u)
      /\ \A i \in 1..Len(t) : (t \o u)[i] = t[i]
  OBVIOUS
<1> SUFFICES ASSUME NEW i \in 1..Len(chain)
             PROVE  \E l \in 1..Len(t \o u) :
                       /\ (t \o u)[l] = chain[i]
                       /\ \A k \in 1..(l - 1) : \E j \in 1..(i - 1) : chain[j] = (t \o u)[k]
  BY DEF HasNoGaps
<1>2. PICK l \in 1..Len(t) :
         t[l] = chain[i] /\ \A k \in 1..(l - 1) : \E j \in 1..(i - 1) : chain[j] = t[k]
  BY DEF HasNoGaps
<1>3. l \in 1..Len(t \o u) /\ \A k \in 1..(l - 1) : k \in 1..Len(t)
  BY <1>1
<1> QED
  BY <1>1, <1>2, <1>3

(* A batch brings along all that was saved before any of its messages. *)
LEMMA NoGapsWithBatch ==
    ASSUME NEW chain, NEW t \in Seq(Messages), NEW batch, HasNoGaps(chain, t), IsStartOf(batch, t)
    PROVE  HasNoGaps(chain \o batch, t)
<1>1. /\ chain \in Seq(Messages) /\ batch \in Seq(Messages)
      /\ Len(chain) \in Nat /\ Len(batch) \in Nat /\ Len(t) \in Nat /\ Len(batch) <= Len(t)
      /\ \A i \in 1..Len(batch) : batch[i] = t[i]
  BY DEF HasNoGaps, IsStartOf
<1>2. PICK both : both = chain \o batch
  OBVIOUS
<1>3. /\ both \in Seq(Messages) /\ Len(both) = Len(chain) + Len(batch)
      /\ \A i \in 1..Len(chain) : both[i] = chain[i]
      /\ \A i \in 1..Len(batch) : both[Len(chain) + i] = batch[i]
  BY <1>1, <1>2
<1>4. ASSUME NEW i \in 1..Len(both)
      PROVE  \E l \in 1..Len(t) :
                t[l] = both[i] /\ \A k \in 1..(l - 1) : \E j \in 1..(i - 1) : both[j] = t[k]
  <2>1. CASE i <= Len(chain)
    <3>1. i \in 1..Len(chain)
      BY <1>1, <1>3, <2>1
    <3>2. PICK l \in 1..Len(t) :
             t[l] = chain[i] /\ \A k \in 1..(l - 1) : \E j \in 1..(i - 1) : chain[j] = t[k]
      BY <3>1 DEF HasNoGaps
    <3>3. both[i] = chain[i] /\ \A j \in 1..(i - 1) : both[j] = chain[j]
      BY <1>1, <1>3, <3>1
    <3> QED
      BY <3>2, <3>3
  <2>2. CASE i > Len(chain)
    <3>1. PICK l \in 1..Len(batch) : i = Len(chain) + l
      <4>1. i - Len(chain) \in 1..Len(batch) /\ i = Len(chain) + (i - Len(chain))
        BY <1>1, <1>3, <2>2
      <4> QED
        BY <4>1
    <3>2. l \in 1..Len(t) /\ t[l] = both[i]
      BY <1>1, <1>3, <3>1
    <3>3. ASSUME NEW k \in 1..(l - 1)
          PROVE  \E j \in 1..(i - 1) : both[j] = t[k]
      <4>1. k \in 1..Len(batch) /\ Len(chain) + k \in 1..(i - 1)
        BY <1>1, <3>1
      <4>2. both[Len(chain) + k] = t[k]
        BY <1>1, <1>3, <4>1
      <4> QED
        BY <4>1, <4>2
    <3> QED
      BY <3>2, <3>3
  <2> QED
    BY <1>1, <1>3, <2>1, <2>2
<1> QED
  BY <1>2, <1>3, <1>4 DEF HasNoGaps

-----------------------------------------------------------------------------
(* Each operation.                                                         *)

LEMMA SaveKeeps ==
    ASSUME RelayerInv, NEW ms \in Requests, Save(ms)
    PROVE  RelayerInv'
<1>1. saved' = saved \o ms /\ UNCHANGED <<ipfs, batches, announced, relayed, runs>>
  BY DEF Save
<1>2. PICK n \in {1, 2} : ms \in [1..n -> Messages]
  BY DEF Requests
<1>3. /\ ms \in Seq(Messages) /\ Len(ms) = n
      /\ \A i, j \in 1..n : ms[i] = ms[j] => i = j
      /\ \A i \in 1..n : ms[i] \notin ToSet(saved)
  <2>1. ms \in Seq(Messages) /\ Len(ms) = n /\ DOMAIN ms = 1..n
    BY <1>2
  <2> QED
    BY <2>1 DEF Requests, IsInjective, Save
<1>4. /\ saved \in Seq(Messages) /\ Len(saved) \in Nat
      /\ \A i \in 1..Len(saved) : saved[i] \in ToSet(saved)
      /\ \A i, j \in 1..Len(saved) : saved[i] = saved[j] => i = j
  BY DEF RelayerInv, SavedOnce, ToSet
<1>5. SavedOnce'
  <2>1. saved' \in Seq(Messages) /\ Len(saved') = Len(saved) + n
    BY <1>1, <1>3, <1>4
  <2>2. \A i \in 1..Len(saved) : saved'[i] = saved[i]
    BY <1>1, <1>3, <1>4
  <2>3. \A i \in 1..Len(saved') : i > Len(saved) => i - Len(saved) \in 1..n /\ saved'[i] = ms[i - Len(saved)]
    BY <1>1, <1>3, <1>4
  <2>4. ASSUME NEW i \in 1..Len(saved'), NEW j \in 1..Len(saved'), saved'[i] = saved'[j]
        PROVE  i = j
    BY <1>3, <1>4, <2>1, <2>2, <2>3, <2>4
  <2> QED
    BY <2>1, <2>4 DEF SavedOnce
<1>6. BatchesAreFirst' /\ ChainsHaveNoGaps'
  BY <1>1, <1>3, <1>4, StartOfLonger, NoGapsInLonger DEF RelayerInv, BatchesAreFirst,
     ChainsHaveNoGaps
<1> QED
  BY <1>1, <1>5, <1>6 DEF RelayerInv, StepsInOrder, AnnouncedIsReadable

LEMMA FindKeeps ==
    ASSUME RelayerInv, Find
    PROVE  RelayerInv'
<1> PICK r : r = [id |-> CHOOSE i \in FreeIds : \A j \in FreeIds : i <= j, pc |-> "add", batch |-> Found]
  OBVIOUS
<1>1. /\ runs' = runs \cup {r} /\ r.pc = "add" /\ r.batch = Found
      /\ saved # <<>> /\ UNCHANGED <<saved, ipfs, batches, announced, relayed>>
  BY DEF Find
<1>2. PICK n : n = IF Len(saved) < Limit THEN Len(saved) ELSE Limit
  OBVIOUS
<1>3. saved \in Seq(Messages) /\ Len(saved) \in Nat \ {0} /\ Limit \in Nat \ {0}
  BY <1>1, RelayerAssumption DEF RelayerInv, SavedOnce
<1>4. n \in 1..Len(saved) /\ Found = SubSeq(saved, 1, n)
  BY <1>2, <1>3 DEF Found
<1>5. IsStartOf(Found, saved) /\ Found # <<>>
  <2>1. /\ SubSeq(saved, 1, n) \in Seq(Messages) /\ Len(SubSeq(saved, 1, n)) = n
        /\ \A i \in 1..n : SubSeq(saved, 1, n)[i] = saved[i]
    BY <1>3, <1>4
  <2> QED
    BY <1>4, <2>1 DEF IsStartOf
<1>6. r \in RunType(r.id)
  BY <1>1, <1>5 DEF RunType, IsStartOf
<1>7. BatchesAreFirst' /\ StepsInOrder'
  BY <1>1, <1>5, <1>6 DEF RelayerInv, BatchesAreFirst, StepsInOrder
<1> QED
  BY <1>1, <1>7 DEF RelayerInv, SavedOnce, AnnouncedIsReadable, ChainsHaveNoGaps

LEMMA AdvanceKeeps ==
    ASSUME RelayerInv, NEW r \in runs, Advance(r)
    PROVE  RelayerInv'
<1>1. saved' = saved /\ ipfs \subseteq ipfs' /\ batches \subseteq batches'
  BY DEF Advance, Add, Create, Relay, Fail
<1>2. ASSUME runs' = runs \ {r}
      PROVE  BatchesAreFirst' /\ StepsInOrder'
  BY <1>1, <1>2 DEF RelayerInv, BatchesAreFirst, StepsInOrder
<1>3. ASSUME NEW pc \in {"create", "relay"}, runs' = Goto(r, pc), r.batch \in ipfs',
             pc = "relay" => r.batch \in batches'
      PROVE  BatchesAreFirst' /\ StepsInOrder'
  <2>1. PICK q : q = [r EXCEPT !.pc = pc]
    OBVIOUS
  <2>2. q \in RunType(r.id) /\ q.id = r.id /\ q.batch = r.batch /\ q.pc = pc
    BY <2>1 DEF RelayerInv, StepsInOrder, RunType
  <2>3. runs' = (runs \ {r}) \cup {q}
    BY <1>3, <2>1 DEF Goto
  <2> QED
    BY <1>1, <1>3, <2>2, <2>3 DEF RelayerInv, BatchesAreFirst, StepsInOrder
<1>4. ASSUME UNCHANGED <<announced, relayed>>
      PROVE  SavedOnce' /\ AnnouncedIsReadable' /\ ChainsHaveNoGaps'
  BY <1>1, <1>4 DEF RelayerInv, SavedOnce, AnnouncedIsReadable, ChainsHaveNoGaps
<1>5. CASE Add(r)
  BY <1>3, <1>4, <1>5 DEF Add, RelayerInv
<1>6. CASE Create(r)
  BY <1>3, <1>4, <1>6 DEF Create, RelayerInv, StepsInOrder
<1>7. CASE Relay(r)
  <2>1. r.batch \in ipfs \cap batches /\ IsStartOf(r.batch, saved)
    BY <1>7 DEF Relay, RelayerInv, StepsInOrder, BatchesAreFirst
  <2>2. AnnouncedIsReadable'
    BY <1>7, <2>1 DEF Relay, RelayerInv, AnnouncedIsReadable
  <2>3. ChainsHaveNoGaps'
    <3>1. /\ DOMAIN relayed' = Polls
          /\ \A p \in Polls : \/ relayed'[p] = relayed[p]
                              \/ relayed'[p] = relayed[p] \o r.batch
      BY <1>7 DEF Relay, RelayerInv, ChainsHaveNoGaps
    <3>2. \A p \in Polls : HasNoGaps(relayed[p] \o r.batch, saved)
      BY <2>1, NoGapsWithBatch DEF RelayerInv, SavedOnce, ChainsHaveNoGaps
    <3> QED
      BY <1>1, <3>1, <3>2 DEF RelayerInv, ChainsHaveNoGaps
  <2> QED
    BY <1>1, <1>2, <1>7, <2>2, <2>3 DEF Relay, RelayerInv, SavedOnce
<1>8. CASE Fail(r)
  BY <1>2, <1>4, <1>8 DEF Fail, RelayerInv
<1> QED
  BY <1>5, <1>6, <1>7, <1>8 DEF Advance

LEMMA RelayerInvNext ==
    ASSUME RelayerInv, [RelayerNext]_relayerVars
    PROVE  RelayerInv'
<1>1. ASSUME UNCHANGED <<saved, ipfs, batches, announced, relayed, runs>>
      PROVE  RelayerInv'
  BY <1>1 DEF RelayerInv, SavedOnce, BatchesAreFirst, StepsInOrder, AnnouncedIsReadable, ChainsHaveNoGaps
<1>2. ASSUME NEW p \in Polls, Close(p)
      PROVE  RelayerInv'
  BY <1>1, <1>2 DEF Close
<1>3. CASE UNCHANGED relayerVars
  BY <1>1, <1>3 DEF relayerVars
<1> QED
  BY <1>2, <1>3, SaveKeeps, FindKeeps, AdvanceKeeps DEF RelayerNext

LEMMA RelayerInvStarts ==
    ASSUME RelayerInit
    PROVE  RelayerInv
<1>1. <<>> \in Seq(Messages) /\ Len(<<>>) = 0
  OBVIOUS
<1> QED
  BY <1>1 DEF RelayerInit, RelayerInv, SavedOnce, BatchesAreFirst, StepsInOrder, AnnouncedIsReadable,
     ChainsHaveNoGaps, HasNoGaps

THEOREM RelayerInvHolds == RelayerSpec => []RelayerInv
<1> QED
  BY RelayerInvStarts, RelayerInvNext, PTL DEF RelayerSpec

(* Whatever fails and however runs overtake one another, a batch that is announced can be
   read, and no message is on the chain ahead of one that was accepted before it: a run
   that overtakes another relays more or less of the same beginning. *)
THEOREM ReadableWithoutGapsHolds == RelayerSpec => []ReadableWithoutGaps
<1>1. RelayerInv => ReadableWithoutGaps
  <2> SUFFICES ASSUME RelayerInv
               PROVE  NoneIsPassedOver
    BY DEF RelayerInv, ReadableWithoutGaps
  <2> SUFFICES ASSUME NEW p \in Polls, NEW i \in DOMAIN relayed[p],
                      NEW k \in DOMAIN saved, NEW l \in DOMAIN saved,
                      k < l, saved[l] = relayed[p][i]
               PROVE  \E j \in 1..(i - 1) : relayed[p][j] = saved[k]
    BY DEF NoneIsPassedOver
  <2>1. saved \in Seq(Messages) /\ HasNoGaps(relayed[p], saved)
    BY DEF RelayerInv, SavedOnce, ChainsHaveNoGaps
  <2>2. i \in 1..Len(relayed[p]) /\ k \in 1..Len(saved) /\ l \in 1..Len(saved)
    BY <2>1 DEF HasNoGaps
  <2>3. PICK m \in 1..Len(saved) :
           /\ saved[m] = relayed[p][i]
           /\ \A n \in 1..(m - 1) : \E j \in 1..(i - 1) : relayed[p][j] = saved[n]
    BY <2>1, <2>2 DEF HasNoGaps
  <2>4. m = l
    BY <2>2, <2>3 DEF RelayerInv, SavedOnce
  <2>5. k \in 1..(m - 1)
    BY <2>2, <2>4
  <2> QED
    BY <2>3, <2>5
<1> QED
  BY <1>1, RelayerInvHolds, PTL

-----------------------------------------------------------------------------
(* Induction over the numbers, by their least element, and over finite sets. *)

LEMMA Smallest ==
    ASSUME NEW S \in SUBSET Nat, S # {}
    PROVE  \E n \in S : \A m \in S : n <= m
<1> DEFINE Below == {pair \in Nat \X Nat : pair[1] < pair[2]}
<1>1. IsWellFoundedOn(Below, Nat)
  <2>1. Below = OpToRel(<, Nat)
    BY DEF OpToRel
  <2> QED
    BY <2>1, NatLessThanWellFounded
<1> HIDE DEF Below
<1>2. PICK n \in S : \A m \in S : ~(<<m, n>> \in Below)
  BY <1>1, WFMin
<1>3. ASSUME NEW m \in S
      PROVE  n <= m
  <2>1. ~(<<m, n>> \in Nat \X Nat /\ m < n)
    BY <1>2 DEF Below
  <2> QED
    BY <2>1
<1> QED
  BY <1>3

LEMMA Induction ==
    ASSUME NEW S \in SUBSET Nat, 0 \in S, \A n \in S : n + 1 \in S
    PROVE  S = Nat
<1> SUFFICES ASSUME Nat \ S # {}
             PROVE  FALSE
  OBVIOUS
<1>1. PICK n \in Nat \ S : \A m \in Nat \ S : n <= m
  BY Smallest
<1>2. n # 0 /\ n - 1 \in S
  BY <1>1
<1> QED
  BY <1>1, <1>2

LEMMA FiniteInduction ==
    ASSUME NEW D, IsFiniteSet(D), NEW F \in SUBSET SUBSET D, {} \in F,
           \A s \in F : \A x \in D \ s : s \cup {x} \in F
    PROVE  \A s \in SUBSET D : s \in F
<1> DEFINE N == {n \in Nat : \A s \in SUBSET D : Cardinality(s) = n => s \in F}
<1>1. \A s \in SUBSET D : IsFiniteSet(s) /\ Cardinality(s) \in Nat
  BY FS_Subset, FS_CardinalityType
<1>2. 0 \in N
  BY <1>1, FS_EmptySet
<1>3. ASSUME NEW n \in N
      PROVE  n + 1 \in N
  <2> SUFFICES ASSUME NEW s \in SUBSET D, Cardinality(s) = n + 1
               PROVE  s \in F
    OBVIOUS
  <2>0. n \in Nat /\ IsFiniteSet(s)
    BY <1>1
  <2>1. PICK x \in s : TRUE
    BY <2>0, FS_EmptySet
  <2>2. Cardinality(s \ {x}) = n /\ s \ {x} \in SUBSET D
    <3>1. Cardinality(s \ {x}) = Cardinality(s) - 1
      BY <2>0, <2>1, FS_RemoveElement
    <3> QED
      BY <2>0, <3>1
  <2>3. s \ {x} \in F
    BY <2>2
  <2>4. s = (s \ {x}) \cup {x} /\ x \in D \ (s \ {x})
    BY <2>1
  <2> QED
    BY <2>3, <2>4
<1>4. N = Nat
  <2> HIDE DEF N
  <2>1. N \in SUBSET Nat
    BY DEF N
  <2> QED
    BY <1>2, <1>3, <2>1, Induction
<1> QED
  BY <1>1, <1>4

-----------------------------------------------------------------------------
(* Sums.  CalculateTotal folds a function in an order that CHOOSE gives; there is such a
   fold for every finite domain, and the order makes no difference. *)

TotalOf(g, f, s) ==
    IF s = {} THEN 0 ELSE LET x == CHOOSE x \in s : TRUE IN f[x] + g[s \ {x}]
IsTotals(g, f) == g = [s \in SUBSET DOMAIN f |-> TotalOf(g, f, s)]

LEMMA TotalOfPick ==
    ASSUME NEW s, s # {}
    PROVE  \E x \in s : \A g, f : TotalOf(g, f, s) = f[x] + g[s \ {x}]
<1>1. PICK x : x = (CHOOSE y \in s : TRUE)
  OBVIOUS
<1>2. x \in s
  BY <1>1
<1>3. \A g, f : TotalOf(g, f, s) = f[x] + g[s \ {x}]
  BY <1>1 DEF TotalOf
<1> QED
  BY <1>2, <1>3

LEMMA TotalsExist ==
    ASSUME NEW f, IsFiniteSet(DOMAIN f)
    PROVE  \E g : IsTotals(g, f)
<1> DEFINE D == DOMAIN f
           N == {n \in Nat : \E g : \A s \in SUBSET D : Cardinality(s) <= n => g[s] = TotalOf(g, f, s)}
<1>1. \A s \in SUBSET D : IsFiniteSet(s) /\ Cardinality(s) \in Nat /\ Cardinality(s) <= Cardinality(D)
  BY FS_Subset, FS_CardinalityType
<1>2. 0 \in N
  <2> DEFINE g == [s \in SUBSET D |-> 0]
  <2>1. \A s \in SUBSET D : Cardinality(s) <= 0 => g[s] = TotalOf(g, f, s)
    BY <1>1, FS_EmptySet DEF TotalOf
  <2> QED
    BY <2>1
<1>3. ASSUME NEW n \in N
      PROVE  n + 1 \in N
  <2>1. PICK g : \A s \in SUBSET D : Cardinality(s) <= n => g[s] = TotalOf(g, f, s)
    OBVIOUS
  <2> DEFINE h == [s \in SUBSET D |-> IF Cardinality(s) <= n THEN g[s] ELSE TotalOf(g, f, s)]
  <2>2. ASSUME NEW s \in SUBSET D, Cardinality(s) <= n + 1
        PROVE  TotalOf(h, f, s) = TotalOf(g, f, s)
    <3>1. CASE s = {}
      BY <3>1 DEF TotalOf
    <3>2. CASE s # {}
      <4>1. PICK x : x = (CHOOSE y \in s : TRUE)
        OBVIOUS
      <4>2. x \in s
        BY <3>2, <4>1
      <4>3. s \ {x} \in SUBSET D /\ Cardinality(s \ {x}) <= n
        BY <1>1, <2>2, <4>2, FS_RemoveElement
      <4>4. h[s \ {x}] = g[s \ {x}]
        BY <4>3
      <4> QED
        BY <3>2, <4>1, <4>4 DEF TotalOf
    <3> QED
      BY <3>1, <3>2
  <2>3. ASSUME NEW s \in SUBSET D, Cardinality(s) <= n + 1
        PROVE  h[s] = TotalOf(h, f, s)
    <3>1. h[s] = TotalOf(g, f, s)
      BY <2>1
    <3> QED
      BY <2>2, <2>3, <3>1
  <2>4. \E k : \A s \in SUBSET D : Cardinality(s) <= n + 1 => k[s] = TotalOf(k, f, s)
    BY <2>3
  <2>5. n + 1 \in Nat
    OBVIOUS
  <2> QED
    BY <2>4, <2>5
<1>4. N = Nat
  <2> HIDE DEF N
  <2>1. N \in SUBSET Nat
    BY DEF N
  <2> QED
    BY <1>2, <1>3, <2>1, Induction
<1>5. PICK g : \A s \in SUBSET D : Cardinality(s) <= Cardinality(D) => g[s] = TotalOf(g, f, s)
  BY <1>1, <1>4
<1> DEFINE h == [s \in SUBSET D |-> g[s]]
<1>6. \A s \in SUBSET D : h[s] = TotalOf(h, f, s)
  <2> SUFFICES ASSUME NEW s \in SUBSET D
               PROVE  h[s] = TotalOf(h, f, s)
    OBVIOUS
  <2>1. h[s] = TotalOf(g, f, s)
    BY <1>1, <1>5
  <2>2. TotalOf(g, f, s) = TotalOf(h, f, s)
    BY DEF TotalOf
  <2> QED
    BY <2>1, <2>2
<1>7. h = [s \in SUBSET D |-> TotalOf(h, f, s)]
  BY <1>6
<1> QED
  BY <1>7 DEF IsTotals

LEMMA SumIs ==
    ASSUME NEW f, IsFiniteSet(DOMAIN f)
    PROVE  \E g : IsTotals(g, f) /\ Sum(f) = g[DOMAIN f]
<1>1. \E g : IsTotals(g, f)
  BY TotalsExist
<1> QED
  BY <1>1 DEF IsTotals, TotalOf, Sum, CalculateTotal, FoldFunction, FoldFunctionOnSet, MapThenFoldSet

\* The sum of f over a part of its domain.
SumOver(f, s) == Sum([x \in s |-> f[x]])

LEMMA TotalsOfParts ==
    ASSUME NEW f, IsFiniteSet(DOMAIN f), NEW g, IsTotals(g, f)
    PROVE  \A s \in SUBSET DOMAIN f : SumOver(f, s) = g[s]
<1> SUFFICES ASSUME NEW s \in SUBSET DOMAIN f
             PROVE  SumOver(f, s) = g[s]
  OBVIOUS
<1> DEFINE part == [x \in s |-> f[x]]
<1>1. IsFiniteSet(s) /\ DOMAIN part = s
  BY FS_Subset
<1>2. PICK h : IsTotals(h, part) /\ Sum(part) = h[s]
  <2> HIDE DEF part
  <2> QED
    BY <1>1, SumIs
<1> DEFINE F == {u \in SUBSET s : h[u] = g[u]}
<1>3. \A u \in SUBSET s : g[u] = TotalOf(g, f, u) /\ h[u] = TotalOf(h, part, u)
  BY <1>1, <1>2 DEF IsTotals
<1> DEFINE N == {n \in Nat : \A u \in SUBSET s : Cardinality(u) = n => h[u] = g[u]}
<1>4. \A u \in SUBSET s : IsFiniteSet(u) /\ Cardinality(u) \in Nat
  BY <1>1, FS_Subset, FS_CardinalityType
<1>5. 0 \in N
  BY <1>3, <1>4, FS_EmptySet DEF TotalOf
<1>6. ASSUME NEW n \in N
      PROVE  n + 1 \in N
  <2> SUFFICES ASSUME NEW u \in SUBSET s, Cardinality(u) = n + 1
               PROVE  h[u] = g[u]
    OBVIOUS
  <2>1. n \in Nat /\ u # {}
    BY <1>4, FS_EmptySet
  <2>2. PICK x \in u : \A k, e : TotalOf(k, e, u) = e[x] + k[u \ {x}]
    BY <2>1, TotalOfPick
  <2>3. x \in u
    OBVIOUS
  <2>4. Cardinality(u \ {x}) = Cardinality(u) - 1
    BY <1>4, <2>3, FS_RemoveElement
  <2>5. h[u \ {x}] = g[u \ {x}]
    BY <2>1, <2>4
  <2>6. part[x] = f[x]
    BY <2>3
  <2> HIDE DEF part, N
  <2> QED
    BY <1>3, <2>2, <2>5, <2>6
<1>7. N = Nat
  <2> HIDE DEF N
  <2>1. N \in SUBSET Nat
    BY DEF N
  <2> QED
    BY <1>5, <1>6, <2>1, Induction
<1>8. h[s] = g[s]
  BY <1>4, <1>7
<1> QED
  BY <1>2, <1>8 DEF SumOver

LEMMA SumOverAll ==
    ASSUME NEW D, NEW f, f = [x \in D |-> f[x]]
    PROVE  SumOver(f, D) = Sum(f)
  BY DEF SumOver

LEMMA SumOverEmpty ==
    ASSUME NEW f
    PROVE  SumOver(f, {}) = 0
<1> DEFINE part == [x \in {} |-> f[x]]
<1>1. DOMAIN part = {} /\ IsFiniteSet({})
  BY FS_EmptySet
<1>2. PICK h : IsTotals(h, part) /\ Sum(part) = h[{}]
  <2> HIDE DEF part
  <2> QED
    BY <1>1, SumIs
<1>3. h[{}] = TotalOf(h, part, {})
  BY <1>1, <1>2 DEF IsTotals
<1> QED
  BY <1>2, <1>3 DEF SumOver, TotalOf

(* Any element may be taken first. *)
LEMMA SumOverPick ==
    ASSUME NEW f, IsFiniteSet(DOMAIN f), \A x \in DOMAIN f : f[x] \in Int
    PROVE  \A s \in SUBSET DOMAIN f :
              /\ SumOver(f, s) \in Int
              /\ \A x \in s : SumOver(f, s) = f[x] + SumOver(f, s \ {x})
<1> DEFINE D == DOMAIN f
<1>1. PICK g : IsTotals(g, f)
  BY TotalsExist
<1>2. \A s \in SUBSET D : SumOver(f, s) = g[s]
  BY <1>1, TotalsOfParts
<1>3. \A s \in SUBSET D : g[s] = TotalOf(g, f, s)
  BY <1>1 DEF IsTotals
<1>4. \A u \in SUBSET D : IsFiniteSet(u) /\ Cardinality(u) \in Nat
  BY FS_Subset, FS_CardinalityType
<1> DEFINE N == {n \in Nat : \A s \in SUBSET D : Cardinality(s) <= n =>
                    g[s] \in Int /\ \A x \in s : g[s] = f[x] + g[s \ {x}]}
<1>5. 0 \in N
  <2>1. g[{}] = 0
    BY <1>3 DEF TotalOf
  <2> QED
    BY <1>4, <2>1, FS_EmptySet
<1>6. ASSUME NEW n \in N
      PROVE  n + 1 \in N
  <2>1. /\ n \in Nat
        /\ \A u \in SUBSET D : Cardinality(u) <= n =>
              g[u] \in Int /\ \A y \in u : g[u] = f[y] + g[u \ {y}]
    OBVIOUS
  <2> HIDE DEF N
  <2>2. ASSUME NEW s \in SUBSET D, Cardinality(s) = n + 1
        PROVE  g[s] \in Int /\ \A x \in s : g[s] = f[x] + g[s \ {x}]
    <3>1. s # {}
      BY <1>4, <2>1, <2>2, FS_EmptySet
    <3>2. ASSUME NEW u \in SUBSET s, NEW x \in u
          PROVE  u \ {x} \in SUBSET D /\ Cardinality(u \ {x}) = Cardinality(u) - 1
      BY <1>4, FS_RemoveElement
    <3>3. PICK c \in s : \A k, e : TotalOf(k, e, s) = e[c] + k[s \ {c}]
      BY <3>1, TotalOfPick
    <3>4. c \in s /\ g[s] = f[c] + g[s \ {c}]
      BY <1>3, <3>3
    <3>5. s \ {c} \in SUBSET D /\ Cardinality(s \ {c}) = n
      BY <2>1, <2>2, <3>2, <3>4
    <3>6. g[s \ {c}] \in Int /\ \A y \in s \ {c} : g[s \ {c}] = f[y] + g[(s \ {c}) \ {y}]
      <4>1. PICK u \in SUBSET D : u = s \ {c}
        BY <3>5
      <4>2. g[u] \in Int /\ \A y \in u : g[u] = f[y] + g[u \ {y}]
        <5>1. Cardinality(u) <= n
          BY <2>1, <3>5, <4>1
        <5> QED
          BY <2>1, <5>1
      <4> QED
        BY <4>1, <4>2
    <3>7. ASSUME NEW x \in s, x # c
          PROVE  g[s] = f[x] + g[s \ {x}]
      <4> DEFINE rest == (s \ {c}) \ {x}
      <4>1. rest = (s \ {x}) \ {c} /\ rest \in SUBSET D
        OBVIOUS
      <4>2. g[s \ {c}] = f[x] + g[rest]
        BY <3>6, <3>7
      <4>3. Cardinality(s \ {x}) = n /\ s \ {x} \in SUBSET D /\ c \in s \ {x}
        BY <2>1, <2>2, <3>2, <3>4, <3>7
      <4>4. g[s \ {x}] = f[c] + g[rest]
        BY <2>1, <4>1, <4>3
      <4>5. Cardinality(rest) = n - 1
        BY <2>1, <3>2, <3>5, <3>7
      <4>6. g[rest] \in Int /\ f[x] \in Int /\ f[c] \in Int
        BY <2>1, <3>4, <4>1, <4>5
      <4> HIDE DEF rest
      <4> QED
        BY <3>4, <4>2, <4>4, <4>6
    <3>8. f[c] \in Int /\ g[s] \in Int
      BY <3>4, <3>6
    <3>9. \A x \in s : g[s] = f[x] + g[s \ {x}]
      BY <3>4, <3>7
    <3> QED
      BY <3>8, <3>9
  <2>3. \A s \in SUBSET D : Cardinality(s) <= n + 1 => Cardinality(s) <= n \/ Cardinality(s) = n + 1
    BY <1>4, <2>1
  <2>4. \A s \in SUBSET D : Cardinality(s) <= n + 1 =>
            g[s] \in Int /\ \A x \in s : g[s] = f[x] + g[s \ {x}]
    BY <2>1, <2>2, <2>3
  <2> QED
    BY <2>1, <2>4 DEF N
<1>7. N = Nat
  <2> HIDE DEF N
  <2>1. N \in SUBSET Nat
    BY DEF N
  <2> QED
    BY <1>5, <1>6, <2>1, Induction
<1> QED
  BY <1>2, <1>4, <1>7

LEMMA SumOverType ==
    ASSUME NEW D, IsFiniteSet(D), NEW f \in [D -> Int]
    PROVE  /\ Sum(f) = SumOver(f, D)
           /\ \A s \in SUBSET D : /\ SumOver(f, s) \in Int
                                  /\ \A x \in s : SumOver(f, s) = f[x] + SumOver(f, s \ {x})
<1>1. DOMAIN f = D /\ f = [x \in D |-> f[x]] /\ \A x \in D : f[x] \in Int
  OBVIOUS
<1> QED
  BY <1>1, SumOverAll, SumOverPick

LEMMA SumType ==
    ASSUME NEW D, IsFiniteSet(D), NEW f \in [D -> Nat]
    PROVE  Sum(f) \in Nat
<1>1. f \in [D -> Int]
  OBVIOUS
<1> DEFINE F == {s \in SUBSET D : SumOver(f, s) \in Nat}
<1>2. {} \in F
  BY SumOverEmpty
<1>3. ASSUME NEW s \in F, NEW x \in D \ s
      PROVE  s \cup {x} \in F
  <2>1. PICK u \in SUBSET D : u = s \cup {x}
    OBVIOUS
  <2>2. u \ {x} = s /\ x \in u
    BY <2>1
  <2>3. SumOver(f, u) = f[x] + SumOver(f, s)
    BY <1>1, <2>2, SumOverType
  <2>4. SumOver(f, s) \in Nat /\ f[x] \in Nat
    OBVIOUS
  <2>5. SumOver(f, u) \in Nat
    BY <2>3, <2>4
  <2> QED
    BY <2>1, <2>5
<1>4. D \in F
  <2> HIDE DEF F
  <2>1. F \in SUBSET SUBSET D
    BY DEF F
  <2> QED
    BY <1>2, <1>3, <2>1, FiniteInduction
<1> QED
  BY <1>1, <1>4, SumOverType

(* One summand is changed. *)
LEMMA SumExcept ==
    ASSUME NEW D, IsFiniteSet(D), NEW f \in [D -> Int], NEW h \in [D -> Int],
           NEW x \in D, \A y \in D \ {x} : h[y] = f[y]
    PROVE  Sum(h) = Sum(f) - f[x] + h[x]
<1>1. SumOver(h, D \ {x}) = SumOver(f, D \ {x})
  <2>1. [y \in D \ {x} |-> h[y]] = [y \in D \ {x} |-> f[y]]
    OBVIOUS
  <2> QED
    BY <2>1 DEF SumOver
<1>2. /\ Sum(f) = f[x] + SumOver(f, D \ {x}) /\ SumOver(f, D \ {x}) \in Int
      /\ Sum(h) = h[x] + SumOver(h, D \ {x})
  <2>1. D \in SUBSET D /\ D \ {x} \in SUBSET D
    OBVIOUS
  <2> QED
    BY <2>1, SumOverType
<1>3. f[x] \in Int /\ h[x] \in Int
  OBVIOUS
<1> QED
  BY <1>1, <1>2, <1>3

LEMMA SumPlus ==
    ASSUME NEW D, IsFiniteSet(D), NEW f \in [D -> Int], NEW h \in [D -> Int], NEW k \in [D -> Int],
           \A x \in D : k[x] = f[x] + h[x]
    PROVE  Sum(k) = Sum(f) + Sum(h)
<1> DEFINE F == {s \in SUBSET D : SumOver(k, s) = SumOver(f, s) + SumOver(h, s)}
<1>1. {} \in F
  <2>1. SumOver(k, {}) = 0 /\ SumOver(f, {}) = 0 /\ SumOver(h, {}) = 0
    BY SumOverEmpty
  <2> QED
    BY <2>1
<1>2. ASSUME NEW s \in F, NEW x \in D \ s
      PROVE  s \cup {x} \in F
  <2>1. PICK u \in SUBSET D : u = s \cup {x}
    OBVIOUS
  <2>2. u \ {x} = s /\ x \in u /\ s \in SUBSET D
    BY <2>1
  <2>3. /\ SumOver(f, u) = f[x] + SumOver(f, s) /\ SumOver(f, s) \in Int
        /\ SumOver(h, u) = h[x] + SumOver(h, s) /\ SumOver(h, s) \in Int
        /\ SumOver(k, u) = k[x] + SumOver(k, s)
    BY <2>2, SumOverType
  <2>4. SumOver(k, s) = SumOver(f, s) + SumOver(h, s) /\ k[x] = f[x] + h[x] /\ f[x] \in Int /\ h[x] \in Int
    OBVIOUS
  <2>5. SumOver(k, u) = SumOver(f, u) + SumOver(h, u)
    BY <2>3, <2>4
  <2> QED
    BY <2>1, <2>5
<1>3. D \in F
  <2> HIDE DEF F
  <2>1. F \in SUBSET SUBSET D
    BY DEF F
  <2> QED
    BY <1>1, <1>2, <2>1, FiniteInduction
<1> QED
  BY <1>3, SumOverType

LEMMA SumZero ==
    ASSUME NEW D, IsFiniteSet(D), NEW f \in [D -> Int], \A x \in D : f[x] = 0
    PROVE  Sum(f) = 0
<1>1. Sum(f) = Sum(f) + Sum(f)
  BY SumPlus
<1>2. Sum(f) \in Int
  BY SumOverType
<1> QED
  BY <1>1, <1>2, SMTT(30)

(* What is added up in two parts. *)
LEMMA SumSplit ==
    ASSUME NEW D, IsFiniteSet(D), NEW f \in [D -> Int],
           NEW A \in SUBSET D, NEW C \in SUBSET D, A \cap C = {}
    PROVE  SumOver(f, A \cup C) = SumOver(f, A) + SumOver(f, C)
<1> DEFINE F == {s \in SUBSET C : SumOver(f, A \cup s) = SumOver(f, A) + SumOver(f, s)}
<1>1. {} \in F
  <2>1. SumOver(f, {}) = 0 /\ SumOver(f, A) \in Int /\ A \cup {} = A
    BY SumOverEmpty, SumOverType
  <2> QED
    BY <2>1
<1>2. ASSUME NEW s \in F, NEW x \in C \ s
      PROVE  s \cup {x} \in F
  <2>1. PICK u \in SUBSET C : u = s \cup {x}
    OBVIOUS
  <2>2. /\ u \ {x} = s /\ x \in u /\ u \in SUBSET D /\ s \in SUBSET D
        /\ (A \cup u) \ {x} = A \cup s /\ x \in A \cup u /\ A \cup u \in SUBSET D
    BY <2>1
  <2>3. /\ SumOver(f, u) = f[x] + SumOver(f, s) /\ SumOver(f, s) \in Int
        /\ SumOver(f, A \cup u) = f[x] + SumOver(f, A \cup s)
        /\ SumOver(f, A) \in Int
    BY <2>2, SumOverType
  <2>4. SumOver(f, A \cup s) = SumOver(f, A) + SumOver(f, s) /\ f[x] \in Int
    OBVIOUS
  <2>5. SumOver(f, A \cup u) = SumOver(f, A) + SumOver(f, u)
    BY <2>3, <2>4
  <2> QED
    BY <2>1, <2>5
<1>3. C \in F
  <2> HIDE DEF F
  <2>1. F \in SUBSET SUBSET C /\ IsFiniteSet(C)
    BY FS_Subset DEF F
  <2> QED
    BY <1>1, <1>2, <2>1, FiniteInduction
<1> QED
  BY <1>3

(* The summands may be called by other names. *)
LEMMA SumRenamed ==
    ASSUME NEW D, IsFiniteSet(D), NEW E, IsFiniteSet(E), NEW p \in [D -> E],
           \A x, y \in D : p[x] = p[y] => x = y,
           NEW f \in [E -> Int], NEW h \in [D -> Int], \A x \in D : h[x] = f[p[x]]
    PROVE  Sum(h) = SumOver(f, {p[x] : x \in D})
<1> DEFINE Image(s) == {p[x] : x \in s}
           F == {s \in SUBSET D : SumOver(h, s) = SumOver(f, Image(s))}
<1>1. {} \in F
  <2>1. SumOver(h, {}) = 0 /\ SumOver(f, {}) = 0 /\ Image({}) = {}
    BY SumOverEmpty
  <2> QED
    BY <2>1
<1>2. ASSUME NEW s \in F, NEW x \in D \ s
      PROVE  s \cup {x} \in F
  <2>1. PICK u \in SUBSET D : u = s \cup {x}
    OBVIOUS
  <2>2. u \ {x} = s /\ x \in u /\ s \in SUBSET D
    BY <2>1
  <2>3. Image(u) \ {p[x]} = Image(s) /\ p[x] \in Image(u) /\ Image(u) \in SUBSET E /\ Image(s) \in SUBSET E
    BY <2>1, <2>2
  <2>4. SumOver(h, u) = h[x] + SumOver(h, s)
    BY <2>2, SumOverType
  <2>5. SumOver(f, Image(u)) = f[p[x]] + SumOver(f, Image(s))
    <3> HIDE DEF Image
    <3> QED
      BY <2>3, SumOverType
  <2>6. SumOver(h, s) = SumOver(f, Image(s)) /\ h[x] = f[p[x]]
    OBVIOUS
  <2>7. SumOver(h, u) = SumOver(f, Image(u))
    BY <2>4, <2>5, <2>6
  <2> QED
    BY <2>1, <2>7
<1>3. D \in F
  <2> HIDE DEF F
  <2>1. F \in SUBSET SUBSET D
    BY DEF F
  <2> QED
    BY <1>1, <1>2, <2>1, FiniteInduction
<1> QED
  BY <1>3, SumOverType

(* Functions given by recursion over 0..n. *)
IsIteration(g, S, n, x, F) ==
    g \in [0..n -> S] /\ g[0] = x /\ \A k \in 1..n : g[k] = F[<<k, g[k - 1]>>]

LEMMA Iterated ==
    ASSUME NEW S, NEW n \in Nat, NEW x \in S, NEW F, F \in [(1..n) \X S -> S]
    PROVE  \E g : IsIteration(g, S, n, x, F)
<1> DEFINE Upto(m) == \E g \in [0..m -> S] : g[0] = x /\ \A k \in 1..m : k <= n => g[k] = F[<<k, g[k - 1]>>]
           N == {m \in Nat : Upto(m)}
<1>1. 0 \in N
  <2>1. [k \in 0..0 |-> x] \in [0..0 -> S] /\ [k \in 0..0 |-> x][0] = x
    OBVIOUS
  <2>2. \A k \in 1..0 : FALSE
    OBVIOUS
  <2>3. Upto(0)
    <3> DEFINE g == [k \in 0..0 |-> x]
    <3>1. g \in [0..0 -> S] /\ g[0] = x
      BY <2>1
    <3>2. \A k \in 1..0 : k <= n => g[k] = F[<<k, g[k - 1]>>]
      BY <2>2
    <3> HIDE DEF g
    <3> QED
      BY <3>1, <3>2
  <2> QED
    BY <2>3
<1>2. ASSUME NEW m \in N
      PROVE  m + 1 \in N
  <2>1. PICK g \in [0..m -> S] : g[0] = x /\ \A k \in 1..m : k <= n => g[k] = F[<<k, g[k - 1]>>]
    OBVIOUS
  <2> DEFINE h == [k \in 0..(m + 1) |-> IF k <= m THEN g[k]
                                        ELSE IF k <= n THEN F[<<k, g[m]>>] ELSE x]
  <2>2. m \in Nat /\ \A k \in 0..m : h[k] = g[k] /\ g[k] \in S
    OBVIOUS
  <2>3. m + 1 <= n => <<m + 1, g[m]>> \in (1..n) \X S
    BY <2>2
  <2>4. h \in [0..(m + 1) -> S]
    BY <2>2, <2>3
  <2>5. m + 1 <= n => h[m + 1] = F[<<m + 1, h[m]>>]
    BY <2>2
  <2>6. h[0] = x
    BY <2>1, <2>2
  <2>7. \A k \in 1..m : k <= n => h[k] = F[<<k, h[k - 1]>>]
    BY <2>1, <2>2
  <2> HIDE DEF h
  <2>8. \A k \in 1..(m + 1) : k <= n => h[k] = F[<<k, h[k - 1]>>]
    <3>1. \A k \in 1..(m + 1) : k \in 1..m \/ (k = m + 1 /\ k - 1 = m)
      BY <2>2
    <3> QED
      BY <2>5, <2>7, <3>1
  <2>9. Upto(m + 1)
    BY <2>4, <2>6, <2>8
  <2> QED
    BY <2>2, <2>9
<1>3. N = Nat
  <2> HIDE DEF N
  <2>1. N \in SUBSET Nat
    BY DEF N
  <2> QED
    BY <1>1, <1>2, <2>1, Induction
<1>4. Upto(n)
  <2> HIDE DEF Upto
  <2> QED
    BY <1>3
<1> QED
  BY <1>4 DEF IsIteration

-----------------------------------------------------------------------------
(* The constants and the types. *)

Message == [index : Nat, key : Keys \union {PadKey}, option : Nat, weight : Nat, nonce : Nat,
            signer : Keys \union {NoSigner}]

LEMMA ConstantsAre ==
    /\ TotalSignups \in Nat \ {0} /\ Indices = 0..(TotalSignups - 1) /\ TotalSignups <= MaxLeaves
    /\ IsFiniteSet(Indices) /\ IsFiniteSet(Options) /\ 0 \in Indices
    /\ MaxVoteOptions \in Nat \ {0} /\ Options = 0..(MaxVoteOptions - 1) /\ 0 \in Options
    /\ VoteOptions \in 1..MaxVoteOptions
    /\ MaxLeaves \in Nat /\ MaxLeaves % TallyBatchSize = 0
    /\ MessageBatchSize \in Nat \ {0} /\ TallyBatchSize \in Nat \ {0}
    /\ \A m \in Modes : m \in {"QV", "NON_QV", "FULL"} /\ Credits[m] \in Nat
    /\ \A i \in Indices \ {0} : JoinKeys[i] \in Keys
    /\ PadKey \notin Keys /\ NoSigner \notin Keys /\ PadKey # NoSigner
    /\ Commands \subseteq Message /\ EmptyCommand \in Message
<1>1. TotalSignups \in Nat \ {0} /\ Indices = 0..(TotalSignups - 1) /\ TotalSignups <= MaxLeaves
  BY CorePollAssumption DEF TotalSignups, Indices
<1>2. MaxVoteOptions \in Nat \ {0} /\ Options = 0..(MaxVoteOptions - 1) /\ VoteOptions \in 1..MaxVoteOptions
  BY CorePollAssumption DEF Options
<1>3. IsFiniteSet(Indices) /\ IsFiniteSet(Options) /\ 0 \in Indices /\ 0 \in Options
  BY <1>1, <1>2, FS_Interval
<1>4. \A i \in Indices \ {0} : JoinKeys[i] \in Keys
  BY <1>1, CorePollAssumption DEF TotalSignups
<1>5. Commands \subseteq Message /\ EmptyCommand \in Message
  BY CorePollAssumption DEF Message, EmptyCommand
<1> QED
  BY <1>1, <1>2, <1>3, <1>4, <1>5, CorePollAssumption

LEMMA CostType ==
    ASSUME NEW w \in Nat
    PROVE  Cost(w) \in Nat /\ Cost(0) = 0
  BY DEF Cost

-----------------------------------------------------------------------------
(* What a message does to a state: credits and votes are exchanged. *)

BallotCost(ballot) == Sum([o \in Options |-> Cost(ballot.votes[o])])

\* Credits are conserved, and nothing happens to leaf 0.
Conserved(st) ==
    /\ st \in States
    /\ st.leaves[0] = InitialState.leaves[0] /\ st.ballots[0] = EmptyBallot
    /\ \A i \in Indices \ {0} : st.leaves[i].credits + BallotCost(st.ballots[i]) = Credits[mode]

LEMMA StateFields ==
    ASSUME NEW st \in States
    PROVE  /\ \A i \in Indices : st.leaves[i].key \in Keys \union {PadKey} /\ st.leaves[i].credits \in Nat
                                 /\ st.ballots[i].nonce \in Nat /\ st.ballots[i].votes \in [Options -> Nat]
                                 /\ st.ballots[i] \in Ballots
           /\ st.leaves \in [Indices -> [key : Keys \union {PadKey}, credits : Nat]]
           /\ st.ballots \in [Indices -> Ballots]
           /\ DOMAIN st.leaves = Indices /\ DOMAIN st.ballots = Indices
  BY DEF States, Ballots

\* What a valid message does, in terms of the leaf and the ballot it names.
LEMMA ValidMessage ==
    ASSUME NEW st \in States, NEW c \in Message, IsValid(st, c)
    PROVE  LET i == c.index
               next == ProcessMessage(st, c)
               left == CreditsLeft(st.leaves[i], st.ballots[i].votes[c.option], c.weight)
           IN  /\ i \in Indices \ {0} /\ c.option \in Options /\ left \in Nat
               /\ c.signer = st.leaves[i].key /\ c.nonce = st.ballots[i].nonce + 1
               /\ next \in States
               /\ next.leaves[i] = [key |-> c.key, credits |-> left]
               /\ next.ballots[i] = [nonce |-> st.ballots[i].nonce + 1,
                                     votes |-> VotesWith(st.ballots[i].votes, c)]
               /\ \A j \in Indices \ {i} : next.leaves[j] = st.leaves[j] /\ next.ballots[j] = st.ballots[j]
<1> DEFINE i == c.index
           left == CreditsLeft(st.leaves[i], st.ballots[i].votes[c.option], c.weight)
           votes == VotesWith(st.ballots[i].votes, c)
           next == ProcessMessage(st, c)
<1>1. /\ i \in Indices \ {0} /\ c.signer = st.leaves[i].key /\ c.nonce = st.ballots[i].nonce + 1
      /\ c.option < VoteOptions /\ left >= 0
  BY DEF IsValid
<1>2. /\ c.option \in Nat /\ c.weight \in Nat /\ c.key \in Keys \union {PadKey}
  BY DEF Message
<1>3. c.option \in Options
  BY <1>1, <1>2, ConstantsAre
<1>4. left \in Nat
  <2>1. st.leaves[i].credits \in Nat /\ st.ballots[i].votes[c.option] \in Nat
    BY <1>1, <1>3, StateFields
  <2>2. Cost(st.ballots[i].votes[c.option]) \in Nat /\ Cost(c.weight) \in Nat
    BY <1>2, <2>1, CostType
  <2> QED
    BY <1>1, <2>1, <2>2 DEF CreditsLeft
<1>5. votes \in [Options -> Nat]
  BY <1>1, <1>2, <1>3, StateFields DEF VotesWith
<1>6. /\ next.leaves = [st.leaves EXCEPT ![i] = [key |-> c.key, credits |-> left]]
      /\ next.ballots = [st.ballots EXCEPT ![i] = [nonce |-> st.ballots[i].nonce + 1, votes |-> votes]]
      /\ next = [leaves |-> next.leaves, ballots |-> next.ballots]
  <2>1. i \in DOMAIN st.leaves /\ i \in DOMAIN st.ballots
    BY <1>1, StateFields
  <2> HIDE DEF i
  <2> QED
    BY <2>1 DEF ProcessMessage, i
<1> HIDE DEF i, left, votes, next
<1>7. [key |-> c.key, credits |-> left] \in [key : Keys \union {PadKey}, credits : Nat]
  BY <1>2, <1>4
<1>8. [nonce |-> st.ballots[i].nonce + 1, votes |-> votes] \in Ballots
  BY <1>1, <1>5, StateFields DEF Ballots
<1>9. next \in States
  BY <1>1, <1>6, <1>7, <1>8, StateFields DEF States
<1>10. /\ next.leaves[i] = [key |-> c.key, credits |-> left]
       /\ next.ballots[i] = [nonce |-> st.ballots[i].nonce + 1, votes |-> votes]
       /\ \A j \in Indices \ {i} : next.leaves[j] = st.leaves[j] /\ next.ballots[j] = st.ballots[j]
  BY <1>1, <1>6, StateFields
<1> QED
  BY <1>1, <1>3, <1>4, <1>9, <1>10 DEF i, left, votes, next

LEMMA ProcessMessageKeeps ==
    ASSUME NEW st, Conserved(st), NEW c \in Message, mode # "FULL"
    PROVE  Conserved(ProcessMessage(st, c))
<1>1. CASE ~IsValid(st, c)
  BY <1>1 DEF ProcessMessage
<1>2. CASE IsValid(st, c)
  <2> DEFINE i == c.index
             next == ProcessMessage(st, c)
             left == CreditsLeft(st.leaves[i], st.ballots[i].votes[c.option], c.weight)
             before == st.ballots[i].votes
             after == [st.ballots[i].votes EXCEPT ![c.option] = c.weight]
  <2>1. st \in States
    BY DEF Conserved
  <2>2. /\ i \in Indices \ {0} /\ c.option \in Options /\ next \in States
        /\ next.leaves[i].credits = left /\ next.ballots[i].votes = after
        /\ \A j \in Indices \ {i} : next.leaves[j] = st.leaves[j] /\ next.ballots[j] = st.ballots[j]
    <3>0. VotesWith(before, c) = after
      BY DEF VotesWith
    <3>1. /\ i \in Indices \ {0} /\ c.option \in Options /\ next \in States
          /\ next.leaves[i] = [key |-> c.key, credits |-> left]
          /\ next.ballots[i] = [nonce |-> st.ballots[i].nonce + 1, votes |-> after]
          /\ \A j \in Indices \ {i} : next.leaves[j] = st.leaves[j] /\ next.ballots[j] = st.ballots[j]
      BY <1>2, <2>1, <3>0, ValidMessage, SMTT(30)
    <3> HIDE DEF next, left, after
    <3> QED
      BY <3>1
  <2>3. c.weight \in Nat /\ before \in [Options -> Nat] /\ st.leaves[i].credits \in Nat
    BY <2>1, <2>2, StateFields DEF Message
  <2> HIDE DEF next, i
  <2>4. BallotCost(next.ballots[i]) = BallotCost(st.ballots[i]) - Cost(before[c.option]) + Cost(c.weight)
    <3> DEFINE f == [o \in Options |-> Cost(before[o])]
               h == [o \in Options |-> Cost(after[o])]
    <3>1. f \in [Options -> Int] /\ h \in [Options -> Int]
      BY <2>3, CostType
    <3>2. /\ f[c.option] = Cost(before[c.option]) /\ h[c.option] = Cost(c.weight)
          /\ \A o \in Options \ {c.option} : h[o] = f[o]
      BY <2>2, <2>3
    <3> HIDE DEF f, h
    <3>3. PICK x \in Options : x = c.option
      BY <2>2
    <3>4. Sum(h) = Sum(f) - f[x] + h[x]
      <4>1. IsFiniteSet(Options) /\ \A y \in Options \ {x} : h[y] = f[y]
        BY <3>2, <3>3, ConstantsAre
      <4> QED
        BY <3>1, <4>1, SumExcept
    <3>5. Sum(f) = BallotCost(st.ballots[i]) /\ Sum(h) = BallotCost(next.ballots[i])
      BY <2>2 DEF BallotCost, f, h
    <3> QED
      BY <3>2, <3>3, <3>4, <3>5
  <2>5. left = st.leaves[i].credits + Cost(before[c.option]) - Cost(c.weight)
    BY DEF CreditsLeft
  <2>6. BallotCost(st.ballots[i]) \in Nat /\ Cost(before[c.option]) \in Nat /\ Cost(c.weight) \in Nat
    <3>1. Cost(before[c.option]) \in Nat /\ Cost(c.weight) \in Nat
      BY <2>2, <2>3, CostType
    <3>2. [o \in Options |-> Cost(before[o])] \in [Options -> Nat]
      BY <2>3, CostType
    <3> QED
      BY <3>1, <3>2, SumType, ConstantsAre DEF BallotCost
  <2>7. next.leaves[i].credits + BallotCost(next.ballots[i]) = Credits[mode]
    <3>1. st.leaves[i].credits + BallotCost(st.ballots[i]) = Credits[mode]
      BY <2>2 DEF Conserved
    <3> HIDE DEF left, before, after
    <3> QED
      BY <2>2, <2>3, <2>4, <2>5, <2>6, <3>1
  <2>8. Conserved(next)
    BY <2>2, <2>7, ConstantsAre DEF Conserved
  <2> QED
    BY <2>8 DEF next
<1> QED
  BY <1>1, <1>2

-----------------------------------------------------------------------------
(* The states of a batch, slot by slot. *)

LEMMA SlotType ==
    ASSUME messages \in Seq(Message), NEW index \in Nat \ {0}, NEW s \in 1..MessageBatchSize
    PROVE  Slot(index, s) \in Message /\ Position(index, s) \in Nat \ {0}
<1>1. Position(index, s) \in Nat \ {0}
  <2>1. index * MessageBatchSize >= MessageBatchSize /\ index * MessageBatchSize \in Nat
    BY ConstantsAre
  <2> QED
    BY <2>1, ConstantsAre DEF Position
<1>2. CASE Position(index, s) <= Len(messages)
  BY <1>1, <1>2 DEF Slot
<1>3. CASE ~(Position(index, s) <= Len(messages))
  BY <1>1, <1>3, ConstantsAre DEF Slot
<1> QED
  BY <1>1, <1>2, <1>3

LEMMA NodeStatesAre ==
    ASSUME NEW S, state \in S, messages \in Seq(Message), NEW index \in Nat \ {0},
           \A st \in S : \A c \in Message : ProcessMessage(st, c) \in S
    PROVE  /\ NodeStates(index) \in [0..MessageBatchSize -> S]
           /\ NodeStates(index)[0] = state
           /\ \A s \in 1..MessageBatchSize :
                 NodeStates(index)[s] = ProcessMessage(NodeStates(index)[s - 1], Slot(index, s))
<1> DEFINE B == MessageBatchSize
           F == [p \in (1..B) \X S |-> ProcessMessage(p[2], Slot(index, p[1]))]
<1>1. F \in [(1..B) \X S -> S]
  BY SlotType
<1>2. \A k \in 1..B : \A st \in S : F[<<k, st>>] = ProcessMessage(st, Slot(index, k))
  OBVIOUS
<1>3. B \in Nat
  BY ConstantsAre
<1> HIDE DEF B, F
<1>4. PICK g \in [0..B -> S] : g[0] = state /\ \A k \in 1..B : g[k] = F[<<k, g[k - 1]>>]
  <2>1. \E g : IsIteration(g, S, B, state, F)
    BY <1>1, <1>3, Iterated
  <2> QED
    BY <2>1 DEF IsIteration
<1>5. \A k \in 1..B : g[k] = ProcessMessage(g[k - 1], Slot(index, k))
  <2> SUFFICES ASSUME NEW k \in 1..B
               PROVE  g[k] = ProcessMessage(g[k - 1], Slot(index, k))
    OBVIOUS
  <2>1. k - 1 \in 0..B
    BY <1>3
  <2> QED
    BY <1>2, <1>4, <2>1
<1> DEFINE Rec(h) == h = [s \in 0..B |-> IF s = 0 THEN state ELSE ProcessMessage(h[s - 1], Slot(index, s))]
<1>6. Rec(g)
  <2>1. \A s \in 0..B : g[s] = IF s = 0 THEN state ELSE ProcessMessage(g[s - 1], Slot(index, s))
    BY <1>3, <1>4, <1>5
  <2> QED
    BY <1>4, <2>1
<1>7. NodeStates(index) = CHOOSE h : Rec(h)
  BY DEF NodeStates, B
<1>8. Rec(NodeStates(index))
  <2> HIDE DEF Rec
  <2> QED
    BY <1>6, <1>7
<1> DEFINE core == NodeStates(index)
<1> HIDE DEF core
<1>9. core = [s \in 0..B |-> IF s = 0 THEN state ELSE ProcessMessage(core[s - 1], Slot(index, s))]
  BY <1>8 DEF core
<1>10. core[0] = state /\ \A s \in 1..B : core[s] = ProcessMessage(core[s - 1], Slot(index, s))
  BY <1>3, <1>9
<1>11. core \in [0..B -> S]
  <2> DEFINE N == {n \in Nat : n <= B => core[n] \in S}
  <2>1. 0 \in N
    BY <1>10
  <2>2. ASSUME NEW n \in N
        PROVE  n + 1 \in N
    <3>1. n + 1 <= B => n + 1 \in 1..B /\ n <= B /\ (n + 1) - 1 = n
      BY <1>3
    <3>2. n + 1 <= B => core[n + 1] = ProcessMessage(core[n], Slot(index, n + 1))
      BY <1>10, <3>1
    <3>3. n + 1 <= B => Slot(index, n + 1) \in Message
      BY <3>1, SlotType DEF B
    <3> QED
      BY <3>1, <3>2, <3>3
  <2>3. N = Nat
    <3> HIDE DEF N
    <3>1. N \in SUBSET Nat
      BY DEF N
    <3> QED
      BY <2>1, <2>2, <3>1, Induction
  <2>4. \A s \in 0..B : core[s] \in S
    BY <1>3, <2>3
  <2> QED
    BY <1>9, <2>4
<1> QED
  BY <1>10, <1>11 DEF B, core

-----------------------------------------------------------------------------
(* Batches of messages: the index of the next one, and how many are left. *)

LEMMA DivMod ==
    ASSUME NEW n \in Nat, NEW b \in Nat \ {0}
    PROVE  n \div b \in Nat /\ n % b \in 0..(b - 1) /\ n = (n \div b) * b + (n % b)
OBVIOUS

LEMMA Batches ==
    ASSUME NEW n \in Nat, NEW b \in Nat \ {0}
    PROVE  LET up == (n + b - 1) \div b
           IN  /\ up \in Nat
               /\ up * b \in Nat /\ up * b >= n /\ up * b < n + b
<1> DEFINE up == (n + b - 1) \div b
           rest == (n + b - 1) % b
<1>1. n + b - 1 \in Nat
  OBVIOUS
<1>2. up \in Nat /\ rest \in 0..(b - 1) /\ n + b - 1 = up * b + rest
  BY <1>1, DivMod
<1>3. up * b \in Nat
  BY <1>2
<1> HIDE DEF up, rest
<1>4. up * b >= n /\ up * b < n + b
  BY <1>2, <1>3
<1> QED
  BY <1>2, <1>3, <1>4 DEF up

(* A number of batches is determined by what it holds. *)
LEMMA SameBatches ==
    ASSUME NEW b \in Nat \ {0}, NEW n \in Nat, NEW i \in Nat, NEW k \in Nat,
           i * b >= n, i * b < n + b, k * b >= n, k * b < n + b
    PROVE  i = k
<1>1. CASE i < k
  <2>1. (i + 1) * b <= k * b
    BY <1>1
  <2>2. (i + 1) * b = i * b + b /\ i * b \in Nat /\ k * b \in Nat
    OBVIOUS
  <2> QED
    BY <2>1, <2>2
<1>2. CASE k < i
  <2>1. (k + 1) * b <= i * b
    BY <1>2
  <2>2. (k + 1) * b = k * b + b /\ i * b \in Nat /\ k * b \in Nat
    OBVIOUS
  <2> QED
    BY <2>1, <2>2
<1> QED
  BY <1>1, <1>2

BatchInv ==
    /\ mode \in Modes
    /\ messages \in Seq(Message) /\ Len(messages) > 0 /\ Len(messages) <= MaxMessages
    /\ batchHashes \in Seq(Seq(Message))
    /\ totalBatchesProcessed \in Nat /\ currentMessageBatchIndex \in Nat
    /\ totalBatchesProcessed = 0 =>
          /\ Len(batchHashes) = currentMessageBatchIndex + 1
          /\ currentMessageBatchIndex * MessageBatchSize <= Len(messages)
          /\ Len(messages) < currentMessageBatchIndex * MessageBatchSize + MessageBatchSize
    /\ totalBatchesProcessed > 0 =>
          totalBatchesProcessed + currentMessageBatchIndex = TotalBatches

LEMMA TotalBatchesIs ==
    ASSUME BatchInv
    PROVE  /\ TotalBatches \in Nat \ {0}
           /\ TotalBatches * MessageBatchSize \in Nat
           /\ TotalBatches * MessageBatchSize >= Len(messages)
           /\ TotalBatches * MessageBatchSize < Len(messages) + MessageBatchSize
<1>1. Len(messages) \in Nat /\ Len(messages) > 0 /\ MessageBatchSize \in Nat \ {0}
  BY ConstantsAre DEF BatchInv
<1>2. /\ TotalBatches \in Nat
      /\ TotalBatches * MessageBatchSize \in Nat
      /\ TotalBatches * MessageBatchSize >= Len(messages)
      /\ TotalBatches * MessageBatchSize < Len(messages) + MessageBatchSize
  BY <1>1, Batches DEF TotalBatches
<1> QED
  BY <1>1, <1>2

LEMMA BatchIndexIs ==
    ASSUME BatchInv
    PROVE  /\ BatchIndex = TotalBatches - totalBatchesProcessed
           /\ PaddedHashes \in Seq(Seq(Message))
           /\ totalBatchesProcessed = 0 => Len(PaddedHashes) = TotalBatches + 1
           /\ totalBatchesProcessed > 0 => PaddedHashes = batchHashes
           /\ HasUnprocessedMessages => BatchIndex \in Nat \ {0}
<1> DEFINE B == MessageBatchSize
           n == Len(messages)
           i == currentMessageBatchIndex
<1>1. n \in Nat /\ n > 0 /\ B \in Nat \ {0} /\ i \in Nat /\ i * B \in Nat
  BY ConstantsAre DEF BatchInv
<1>2. CASE totalBatchesProcessed = 0
  <2>1. Len(batchHashes) = i + 1 /\ i * B <= n /\ n < i * B + B /\ batchHashes \in Seq(Seq(Message))
    BY <1>2 DEF BatchInv
  <2> HIDE DEF i, n, B
  <2>2. n % B # 0 <=> n # i * B
    <3>1. n % B \in 0..(B - 1) /\ n \div B \in Nat /\ n = (n \div B) * B + (n % B)
      BY <1>1, DivMod
    <3>2. ASSUME n = i * B
          PROVE  n % B = 0
      <4>1. i = n \div B
        BY <1>1, <3>2
      <4>2. n = (n \div B) * B
        BY <3>2, <4>1
      <4> QED
        BY <1>1, <3>1, <4>2
    <3>3. ASSUME n % B = 0
          PROVE  n = i * B
      <4>1. n = (n \div B) * B
        BY <1>1, <3>1, <3>3
      <4>2. (n \div B) * B >= n /\ (n \div B) * B < n + B
        BY <1>1, <4>1
      <4>3. CASE n = i * B
        BY <4>3
      <4>4. CASE n # i * B
        <5>1. (i + 1) * B = i * B + B /\ i + 1 \in Nat
          BY <1>1
        <5>2. (i + 1) * B >= n /\ (i + 1) * B < n + B
          BY <1>1, <2>1, <4>4, <5>1
        <5>3. n \div B = i + 1
          BY <1>1, <3>1, <4>2, <5>1, <5>2, SameBatches
        <5> QED
          BY <1>1, <2>1, <4>1, <5>1, <5>3, SMTT(30)
      <4> QED
        BY <4>3, <4>4
    <3> QED
      BY <3>2, <3>3
  <2>3. /\ TotalBatches \in Nat /\ TotalBatches * B >= n /\ TotalBatches * B < n + B
    BY TotalBatchesIs DEF n, B
  <2>4. messages \in Seq(Message)
    BY DEF BatchInv
  <2>5. CASE n = i * B
    <3>1. TotalBatches = i
      BY <1>1, <2>3, <2>5, SameBatches
    <3>2. PaddedHashes = batchHashes
      BY <2>2, <2>5 DEF PaddedHashes, n, B
    <3>3. BatchIndex = i /\ PaddedHashes \in Seq(Seq(Message)) /\ Len(PaddedHashes) = i + 1
      BY <1>1, <1>2, <2>1, <3>2 DEF BatchIndex
    <3>4. i \in Nat /\ (HasUnprocessedMessages => i # 0)
      BY <1>1, <1>2, <3>1 DEF HasUnprocessedMessages
    <3> QED
      BY <1>2, <3>1, <3>3, <3>4
  <2>6. CASE n # i * B
    <3>1. (i + 1) * B = i * B + B /\ i + 1 \in Nat
      BY <1>1
    <3>2. (i + 1) * B >= n /\ (i + 1) * B < n + B
      BY <1>1, <2>1, <2>6, <3>1
    <3>3. TotalBatches = i + 1
      BY <1>1, <2>3, <3>1, <3>2, SameBatches
    <3>4. PaddedHashes = Append(batchHashes, messages)
      BY <1>2, <2>2, <2>6 DEF PaddedHashes, n, B
    <3>5. PaddedHashes \in Seq(Seq(Message)) /\ Len(PaddedHashes) = Len(batchHashes) + 1
      BY <2>1, <2>4, <3>4
    <3> QED
      BY <1>1, <1>2, <2>1, <2>3, <3>3, <3>5 DEF BatchIndex, HasUnprocessedMessages
  <2> QED
    BY <2>5, <2>6
<1>3. CASE totalBatchesProcessed # 0
  <2>1. totalBatchesProcessed \in Nat /\ totalBatchesProcessed + i = TotalBatches /\ batchHashes \in Seq(Seq(Message))
    BY <1>3 DEF BatchInv
  <2>2. BatchIndex = i /\ PaddedHashes = batchHashes
    BY <1>3 DEF BatchIndex, PaddedHashes
  <2>3. TotalBatches \in Nat
    BY TotalBatchesIs
  <2> QED
    BY <1>1, <1>3, <2>1, <2>2, <2>3 DEF HasUnprocessedMessages
<1> QED
  BY <1>2, <1>3

-----------------------------------------------------------------------------
(* The batches are the same after every step. *)

LEMMA BatchInvStarts ==
    ASSUME Init
    PROVE  BatchInv
<1>1. EmptyCommand \in Message /\ MessageBatchSize \in Nat \ {0} /\ MaxMessages \in Nat \ {0}
  BY ConstantsAre, CorePollAssumption
<1>2. messages = <<EmptyCommand>> /\ messages \in Seq(Message) /\ Len(messages) = 1
  BY <1>1 DEF Init
<1>3. CASE MessageBatchSize = 1
  <2>1. batchHashes = <<<<>>>> \o <<messages>> /\ currentMessageBatchIndex = 1
    BY <1>3 DEF Init
  <2>2. batchHashes \in Seq(Seq(Message)) /\ Len(batchHashes) = 2
    BY <1>2, <2>1
  <2> QED
    BY <1>1, <1>2, <1>3, <2>1, <2>2 DEF Init, BatchInv
<1>4. CASE MessageBatchSize # 1
  <2>1. batchHashes = <<<<>>>> \o <<>> /\ currentMessageBatchIndex = 0
    BY <1>4 DEF Init
  <2>2. batchHashes \in Seq(Seq(Message)) /\ Len(batchHashes) = 1
    BY <2>1
  <2> QED
    BY <1>1, <1>2, <1>4, <2>1, <2>2 DEF Init, BatchInv
<1> QED
  BY <1>3, <1>4

LEMMA BatchInvNext ==
    ASSUME BatchInv, [Next]_vars
    PROVE  BatchInv'
<1> DEFINE B == MessageBatchSize
           n == Len(messages)
           i == currentMessageBatchIndex
<1>1. /\ n \in Nat /\ B \in Nat \ {0} /\ i \in Nat /\ i * B \in Nat /\ MaxMessages \in Nat
      /\ messages \in Seq(Message) /\ batchHashes \in Seq(Seq(Message)) /\ mode \in Modes
      /\ n > 0 /\ n <= MaxMessages /\ totalBatchesProcessed \in Nat
  BY ConstantsAre, CorePollAssumption DEF BatchInv
<1>2. CASE Publish
  <2>1. PICK c \in Commands : PublishMessage(c)
    BY <1>2 DEF Publish
  <2>2. /\ messages' = Append(messages, c) /\ messages' \in Seq(Message) /\ Len(messages') = n + 1
        /\ n < MaxMessages
    BY <1>1, <2>1, ConstantsAre DEF PublishMessage
  <2>3. totalBatchesProcessed = 0 /\ totalBatchesProcessed' = 0 /\ mode' = mode
    BY <2>1 DEF PublishMessage, processVars
  <2>4. Len(batchHashes) = i + 1 /\ i * B <= n /\ n < i * B + B
    BY <2>3 DEF BatchInv
  <2>5. CASE (n + 1) % B = 0
    <3>1. batchHashes' = Append(batchHashes, messages') /\ i' = i + 1
      BY <2>1, <2>2, <2>5 DEF PublishMessage
    <3>2. batchHashes' \in Seq(Seq(Message)) /\ Len(batchHashes') = i + 2
      BY <1>1, <2>2, <2>4, <3>1
    <3>3. n + 1 = (i + 1) * B
      <4> HIDE DEF n, i, B
      <4>1. n + 1 = ((n + 1) \div B) * B /\ (n + 1) \div B \in Nat
        <5>1. n + 1 \in Nat
          BY <1>1
        <5>2. (n + 1) \div B \in Nat /\ n + 1 = ((n + 1) \div B) * B + ((n + 1) % B)
          BY <1>1, <5>1, DivMod
        <5>3. ((n + 1) \div B) * B \in Nat
          BY <1>1, <5>2
        <5> QED
          BY <2>5, <5>2, <5>3
      <4>2. (i + 1) * B = i * B + B /\ i + 1 \in Nat
        BY <1>1
      <4>3. (i + 1) * B >= n + 1 /\ (i + 1) * B < (n + 1) + B
        BY <1>1, <2>4, <4>2
      <4>4. (n + 1) \div B = i + 1
        <5>1. n + 1 \in Nat /\ ((n + 1) \div B) * B >= n + 1 /\ ((n + 1) \div B) * B < (n + 1) + B
          BY <1>1, <4>1
        <5> QED
          BY <1>1, <4>1, <4>2, <4>3, <5>1, SameBatches
      <4> QED
        BY <4>1, <4>4
    <3>4. (i + 1) * B + B > n + 1
      BY <1>1, <3>3
    <3> QED
      BY <1>1, <2>2, <2>3, <3>1, <3>2, <3>3, <3>4 DEF BatchInv
  <2>6. CASE (n + 1) % B # 0
    <3>1. batchHashes' = batchHashes /\ i' = i
      BY <1>1, <2>1, <2>2, <2>6 DEF PublishMessage
    <3>2. n + 1 # i * B + B
      <4> HIDE DEF n, i, B
      <4>1. SUFFICES ASSUME n + 1 = i * B + B
                     PROVE  FALSE
        OBVIOUS
      <4>2. n + 1 = (i + 1) * B /\ i + 1 \in Nat
        BY <1>1, <4>1
      <4>3. ((i + 1) * B) % B = 0
        BY <1>1
      <4> QED
        BY <2>6, <4>2, <4>3
    <3>3. i * B <= n + 1 /\ n + 1 < i * B + B
      BY <1>1, <2>4, <3>2
    <3> QED
      BY <1>1, <2>2, <2>3, <2>4, <3>1, <3>3 DEF BatchInv
  <2> QED
    BY <2>5, <2>6
<1>3. CASE ProcessMessages
  <2>1. /\ BatchIndex = TotalBatches - totalBatchesProcessed /\ BatchIndex \in Nat \ {0}
        /\ PaddedHashes \in Seq(Seq(Message)) /\ TotalBatches \in Nat
    BY <1>3, BatchIndexIs, TotalBatchesIs DEF ProcessMessages
  <2>2. /\ batchHashes' = PaddedHashes /\ totalBatchesProcessed' = totalBatchesProcessed + 1
        /\ currentMessageBatchIndex' = IF BatchIndex > 0 THEN BatchIndex - 1 ELSE BatchIndex
        /\ UNCHANGED <<mode, messages>>
    BY <1>3 DEF ProcessMessages
  <2>3. TotalBatches' = TotalBatches
    BY <2>2 DEF TotalBatches
  <2>4. currentMessageBatchIndex' = BatchIndex - 1
    BY <2>1, <2>2
  <2>5. currentMessageBatchIndex' \in Nat /\ totalBatchesProcessed' + currentMessageBatchIndex' = TotalBatches
    BY <1>1, <2>1, <2>2, <2>4
  <2> QED
    BY <1>1, <2>1, <2>2, <2>3, <2>5 DEF BatchInv
<1>4. CASE TallyVotes
  BY <1>4 DEF TallyVotes, processVars, BatchInv, TotalBatches
<1>5. CASE UNCHANGED vars
  BY <1>5 DEF vars, BatchInv, TotalBatches
<1> QED
  BY <1>2, <1>3, <1>4, <1>5 DEF Next

-----------------------------------------------------------------------------
(* Messages count once.  app are the positions applied so far, in the order of their
   application, once every message above low is processed; st is what they have come to. *)

AppliedTo(app, i) == {n \in 1..Len(app) : messages[app[n]].index = i}

Applied(st, app, low) ==
    /\ st \in States
    /\ app \in Seq(1..Len(messages))
    /\ \A n \in 1..Len(app) : app[n] > low
    /\ \A n, m \in 1..Len(app) : n < m => app[m] < app[n]
    /\ \A n \in 1..Len(app) :
          /\ messages[app[n]].index \in Indices \ {0}
          /\ messages[app[n]].nonce <= st.ballots[messages[app[n]].index].nonce
    /\ \A i \in Indices : AppliedTo(app, i) = {} =>
          st.leaves[i] = InitialState.leaves[i] /\ st.ballots[i] = EmptyBallot
    /\ \A p \in 1..Len(messages) :
          p > low /\ IsValid(InitialState, messages[p]) =>
              \E n \in AppliedTo(app, messages[p].index) : app[n] >= p

LEMMA InitialStateType ==
    ASSUME mode \in Modes
    PROVE  /\ InitialState \in States /\ EmptyBallot \in Ballots
           /\ \A i \in Indices : InitialState.ballots[i] = EmptyBallot
           /\ InitialState.leaves[0] = [key |-> PadKey, credits |-> 0]
<1>1. EmptyBallot \in Ballots
  BY DEF EmptyBallot, Ballots
<1>2. Credits[mode] \in Nat
  BY ConstantsAre
<1>3. \A i \in Indices : (IF i = 0 THEN [key |-> PadKey, credits |-> 0]
                          ELSE [key |-> JoinKeys[i], credits |-> Credits[mode]])
                         \in [key : Keys \union {PadKey}, credits : Nat]
  BY <1>2, ConstantsAre
<1>4. InitialState.leaves \in [Indices -> [key : Keys \union {PadKey}, credits : Nat]]
  BY <1>3 DEF InitialState
<1>5. InitialState.ballots \in [Indices -> Ballots]
  BY <1>1 DEF InitialState
<1>6. InitialState = [leaves |-> InitialState.leaves, ballots |-> InitialState.ballots]
  BY DEF InitialState
<1>7. InitialState \in States
  BY <1>4, <1>5, <1>6 DEF States
<1> QED
  BY <1>1, <1>7, ConstantsAre DEF InitialState

LEMMA AppliedStarts ==
    ASSUME mode \in Modes, messages \in Seq(Message), NEW low \in Nat, low >= Len(messages)
    PROVE  Applied(InitialState, <<>>, low)
<1>1. Len(messages) \in Nat
  OBVIOUS
<1>2. \A p \in 1..Len(messages) : ~(p > low)
  BY <1>1
<1> QED
  BY <1>2, InitialStateType DEF Applied

(* A message that is not valid changes nothing, and is not one that counts. *)
LEMMA AppliedSkip ==
    ASSUME mode \in Modes, messages \in Seq(Message), NEW st, NEW app, NEW low \in Nat \ {0},
           Applied(st, app, low), low <= Len(messages) => ~IsValid(st, messages[low])
    PROVE  Applied(st, app, low - 1)
<1>1. Len(messages) \in Nat
  OBVIOUS
<1>2. \A n \in 1..Len(app) : app[n] > low - 1
  <2>1. \A n \in 1..Len(app) : app[n] > low /\ app[n] \in Nat
    BY <1>1 DEF Applied
  <2> QED
    BY <2>1
<1>3. ASSUME NEW p \in 1..Len(messages), p > low - 1, IsValid(InitialState, messages[p])
      PROVE  \E n \in AppliedTo(app, messages[p].index) : app[n] >= p
  <2>1. CASE p > low
    BY <1>3, <2>1 DEF Applied
  <2>2. CASE ~(p > low)
    <3> DEFINE c == messages[p]
    <3>1. p = low /\ low <= Len(messages)
      BY <1>1, <1>3, <2>2
    <3>2. ~IsValid(st, c) /\ c.index \in Indices
      BY <1>3, <3>1 DEF IsValid
    <3>3. AppliedTo(app, c.index) # {}
      <4>1. SUFFICES ASSUME AppliedTo(app, c.index) = {}
                     PROVE  FALSE
        OBVIOUS
      <4>2. st.leaves[c.index] = InitialState.leaves[c.index]
            /\ st.ballots[c.index] = InitialState.ballots[c.index]
        BY <3>2, <4>1, InitialStateType DEF Applied
      <4>3. IsValid(st, c)
        BY <1>3, <4>2 DEF IsValid
      <4> QED
        BY <3>2, <4>3
    <3>4. PICK n \in 1..Len(app) : n \in AppliedTo(app, c.index)
      BY <3>3 DEF AppliedTo
    <3>5. app[n] > low /\ app[n] \in Nat
      BY <1>1 DEF Applied
    <3> QED
      BY <3>1, <3>4, <3>5
  <2> QED
    BY <2>1, <2>2
<1> QED
  BY <1>2, <1>3 DEF Applied

(* A valid one is the next to be applied. *)
LEMMA AppliedOne ==
    ASSUME mode \in Modes, messages \in Seq(Message), NEW st, NEW app, NEW low \in 1..Len(messages),
           Applied(st, app, low), IsValid(st, messages[low])
    PROVE  Applied(ProcessMessage(st, messages[low]), Append(app, low), low - 1)
<1> DEFINE c == messages[low]
           i == c.index
           next == ProcessMessage(st, c)
           longer == Append(app, low)
           k == Len(app)
<1>1. Len(messages) \in Nat /\ low \in Nat /\ c \in Message
  OBVIOUS
<1>2. st \in States /\ app \in Seq(1..Len(messages)) /\ k \in Nat
  BY DEF Applied
<1>3. /\ i \in Indices \ {0} /\ c.nonce = st.ballots[i].nonce + 1 /\ next \in States
      /\ next.ballots[i].nonce = c.nonce /\ st.ballots[i].nonce \in Nat
      /\ \A j \in Indices \ {i} : next.leaves[j] = st.leaves[j] /\ next.ballots[j] = st.ballots[j]
  <2>1. /\ i \in Indices \ {0} /\ c.nonce = st.ballots[i].nonce + 1 /\ next \in States
        /\ next.ballots[i] = [nonce |-> st.ballots[i].nonce + 1, votes |-> VotesWith(st.ballots[i].votes, c)]
        /\ \A j \in Indices \ {i} : next.leaves[j] = st.leaves[j] /\ next.ballots[j] = st.ballots[j]
    BY <1>1, <1>2, ValidMessage
  <2>2. st.ballots[i].nonce \in Nat
    BY <1>2, <2>1, StateFields
  <2> HIDE DEF next, i, c
  <2> QED
    BY <2>1, <2>2
<1>4. /\ longer \in Seq(1..Len(messages)) /\ Len(longer) = k + 1 /\ longer[k + 1] = low
      /\ \A n \in 1..k : longer[n] = app[n]
      /\ \A n \in 1..Len(longer) : n \in 1..k \/ n = k + 1
  BY <1>1, <1>2
<1>5. \A n \in 1..k : app[n] > low /\ app[n] \in Nat
  BY <1>1, <1>2 DEF Applied
<1> HIDE DEF longer, next, k, i, c
<1>6. \A n \in 1..Len(longer) : longer[n] > low - 1
  BY <1>1, <1>4, <1>5
<1>7. \A n, m \in 1..Len(longer) : n < m => longer[m] < longer[n]
  <2>1. \A n, m \in 1..k : n < m => app[m] < app[n]
    BY DEF Applied, k
  <2>2. SUFFICES ASSUME NEW n \in 1..Len(longer), NEW m \in 1..Len(longer), n < m
                 PROVE  longer[m] < longer[n]
    OBVIOUS
  <2>3. n \in 1..k
    BY <1>2, <1>4, <2>2
  <2>4. CASE m \in 1..k
    BY <1>4, <2>1, <2>2, <2>3, <2>4
  <2>5. CASE m = k + 1
    <3>1. longer[m] = low /\ longer[n] = app[n] /\ app[n] > low /\ app[n] \in Nat
      BY <1>4, <1>5, <2>3, <2>5
    <3> QED
      BY <1>1, <3>1
  <2> QED
    BY <1>4, <2>4, <2>5
<1>8. ASSUME NEW n \in 1..Len(longer)
      PROVE  /\ messages[longer[n]].index \in Indices \ {0}
             /\ messages[longer[n]].nonce <= next.ballots[messages[longer[n]].index].nonce
  <2>1. CASE n = k + 1
    <3>1. messages[longer[n]] = c
      BY <1>4, <2>1 DEF c
    <3>2. c.index = i /\ c.nonce \in Nat
      BY <1>1 DEF i, Message
    <3> QED
      BY <1>3, <3>1, <3>2
  <2>2. CASE n \in 1..k
    <3> DEFINE j == messages[app[n]].index
               nonce == messages[app[n]].nonce
    <3>1. longer[n] = app[n] /\ j \in Indices \ {0} /\ nonce <= st.ballots[j].nonce /\ nonce \in Nat
      <4>1. app[n] \in 1..Len(messages)
        BY <1>2, <2>2 DEF k
      <4>2. nonce \in Nat
        <5>1. messages[app[n]] \in Message
          BY <4>1
        <5> QED
          BY <5>1 DEF Message
      <4>3. j \in Indices \ {0} /\ nonce <= st.ballots[j].nonce
        BY <2>2 DEF Applied, k
      <4> QED
        BY <1>4, <2>2, <4>2, <4>3
    <3>2. CASE j = i
      <4>1. nonce <= next.ballots[j].nonce
        <5> HIDE DEF nonce, j
        <5> QED
          BY <1>3, <3>1, <3>2
      <4> QED
        BY <3>1, <4>1
    <3>3. CASE j # i
      BY <1>3, <3>1, <3>3
    <3> QED
      BY <3>2, <3>3
  <2> QED
    BY <1>4, <2>1, <2>2
<1>9. ASSUME NEW j \in Indices, AppliedTo(longer, j) = {}
      PROVE  next.leaves[j] = InitialState.leaves[j] /\ next.ballots[j] = EmptyBallot
  <2>1. j # i
    <3>1. SUFFICES ASSUME j = i
                   PROVE  FALSE
      OBVIOUS
    <3>2. k + 1 \in 1..Len(longer) /\ messages[longer[k + 1]].index = j
      BY <1>2, <1>4, <3>1 DEF i, c
    <3> QED
      BY <1>9, <3>2 DEF AppliedTo
  <2>2. AppliedTo(app, j) = {}
    <3>0. \A n \in 1..Len(longer) : messages[longer[n]].index # j
      BY <1>9 DEF AppliedTo
    <3>1. \A n \in 1..k : n \in 1..Len(longer) /\ messages[longer[n]].index # j
      BY <1>2, <1>4, <3>0
    <3> QED
      BY <1>4, <3>1 DEF AppliedTo, k
  <2> QED
    BY <1>3, <2>1, <2>2 DEF Applied
<1>10. ASSUME NEW p \in 1..Len(messages), p > low - 1, IsValid(InitialState, messages[p])
       PROVE  \E n \in AppliedTo(longer, messages[p].index) : longer[n] >= p
  <2>1. CASE p = low
    <3>1. k + 1 \in AppliedTo(longer, messages[p].index) /\ longer[k + 1] >= p
      BY <1>1, <1>2, <1>4, <2>1 DEF AppliedTo
    <3> QED
      BY <3>1
  <2>2. CASE p # low
    <3>1. p > low
      BY <1>1, <1>10, <2>2
    <3>2. PICK n \in AppliedTo(app, messages[p].index) : app[n] >= p
      BY <1>10, <3>1 DEF Applied
    <3>3. n \in 1..k /\ messages[app[n]].index = messages[p].index
      BY <3>2 DEF AppliedTo, k
    <3>4. n \in AppliedTo(longer, messages[p].index) /\ longer[n] >= p
      BY <1>2, <1>4, <3>2, <3>3 DEF AppliedTo
    <3> QED
      BY <3>4
  <2> QED
    BY <2>1, <2>2
<1>11. Applied(next, longer, low - 1)
  BY <1>3, <1>4, <1>6, <1>7, <1>8, <1>9, <1>10 DEF Applied
<1> QED
  BY <1>11 DEF next, longer, c

(* A batch of messages, slot by slot: what is applied, and what has been applied before it. *)

History(index) ==
    LET core == NodeStates(index)
        history[s \in 0..MessageBatchSize] ==
            IF s = 0 THEN applied
            ELSE IF core[s] = core[s - 1] THEN history[s - 1]
            ELSE Append(history[s - 1], Position(index, s))
    IN  history

LEMMA HistoryIs ==
    ASSUME NEW index \in Nat \ {0}, applied \in Seq(Nat)
    PROVE  /\ History(index)[0] = applied
           /\ \A s \in 1..MessageBatchSize :
                 History(index)[s] =
                    IF NodeStates(index)[s] = NodeStates(index)[s - 1] THEN History(index)[s - 1]
                    ELSE Append(History(index)[s - 1], Position(index, s))
<1> DEFINE B == MessageBatchSize
           core == NodeStates(index)
           S == Seq(Int)
           F == [p \in (1..B) \X S |-> IF core[p[1]] = core[p[1] - 1] THEN p[2]
                                      ELSE Append(p[2], Position(index, p[1]))]
<1>1. B \in Nat /\ applied \in S
  BY ConstantsAre
<1>2. \A s \in 1..B : Position(index, s) \in Int
  BY ConstantsAre DEF Position
<1>3. F \in [(1..B) \X S -> S]
  <2> HIDE DEF core
  <2>1. ASSUME NEW p \in (1..B) \X S
        PROVE  (IF core[p[1]] = core[p[1] - 1] THEN p[2] ELSE Append(p[2], Position(index, p[1]))) \in S
    BY <1>2
  <2> QED
    BY <2>1
<1>4. \A k \in 1..B : \A h \in S :
         F[<<k, h>>] = IF core[k] = core[k - 1] THEN h ELSE Append(h, Position(index, k))
  OBVIOUS
<1> HIDE DEF B, core, F, S
<1>5. PICK g : IsIteration(g, S, B, applied, F)
  BY <1>1, <1>3, Iterated
<1>6. g \in [0..B -> S] /\ g[0] = applied /\ \A k \in 1..B : g[k] = F[<<k, g[k - 1]>>]
  BY <1>5 DEF IsIteration
<1>7. \A k \in 1..B : g[k] = IF core[k] = core[k - 1] THEN g[k - 1] ELSE Append(g[k - 1], Position(index, k))
  <2> SUFFICES ASSUME NEW k \in 1..B
               PROVE  g[k] = IF core[k] = core[k - 1] THEN g[k - 1] ELSE Append(g[k - 1], Position(index, k))
    OBVIOUS
  <2>1. k - 1 \in 0..B
    BY <1>1
  <2> QED
    BY <1>4, <1>6, <2>1
<1> DEFINE Rec(h) == h = [s \in 0..B |-> IF s = 0 THEN applied
                                       ELSE IF core[s] = core[s - 1] THEN h[s - 1]
                                       ELSE Append(h[s - 1], Position(index, s))]
<1>8. Rec(g)
  <2>1. \A s \in 0..B : g[s] = IF s = 0 THEN applied
                               ELSE IF core[s] = core[s - 1] THEN g[s - 1]
                               ELSE Append(g[s - 1], Position(index, s))
    <3>1. \A s \in 0..B : s = 0 \/ (s # 0 /\ s \in 1..B)
      BY <1>1
    <3>2. g[0] = applied
      BY <1>6
    <3> QED
      BY <1>7, <3>1, <3>2
  <2> QED
    BY <1>6, <2>1
<1>9. History(index) = CHOOSE h : Rec(h)
  BY DEF History, B, core
<1>10. Rec(History(index))
  <2> HIDE DEF Rec
  <2> QED
    BY <1>8, <1>9
<1> DEFINE all == History(index)
<1> HIDE DEF all
<1>11. all = [s \in 0..B |-> IF s = 0 THEN applied
                            ELSE IF core[s] = core[s - 1] THEN all[s - 1]
                            ELSE Append(all[s - 1], Position(index, s))]
  BY <1>10 DEF all
<1>12. /\ all[0] = applied
       /\ \A s \in 1..B : all[s] = IF core[s] = core[s - 1] THEN all[s - 1]
                                   ELSE Append(all[s - 1], Position(index, s))
  <2>1. all[0] = applied
    BY <1>1, <1>11
  <2>2. ASSUME NEW s \in 1..B
        PROVE  all[s] = IF core[s] = core[s - 1] THEN all[s - 1]
                        ELSE Append(all[s - 1], Position(index, s))
    <3>1. s \in 0..B /\ s # 0
      BY <1>1
    <3> QED
      BY <1>11, <3>1
  <2> QED
    BY <2>1, <2>2
<1> QED
  BY <1>12 DEF all, B, core

LEMMA ProcessMessageType ==
    ASSUME NEW st \in States, NEW c \in Message
    PROVE  ProcessMessage(st, c) \in States
<1>1. CASE IsValid(st, c)
  BY <1>1, ValidMessage
<1>2. CASE ~IsValid(st, c)
  BY <1>2 DEF ProcessMessage
<1> QED
  BY <1>1, <1>2

LEMMA EmptyCommandIsInvalid ==
    ASSUME NEW st
    PROVE  ~IsValid(st, EmptyCommand)
  BY DEF IsValid, EmptyCommand

(* A valid message changes the state: the nonce of its ballot is another. *)
LEMMA ValidMessageCounts ==
    ASSUME NEW st \in States, NEW c \in Message
    PROVE  IsValid(st, c) <=> ProcessMessage(st, c) # st
<1>1. ASSUME IsValid(st, c)
      PROVE  ProcessMessage(st, c) # st
  <2> DEFINE next == ProcessMessage(st, c)
  <2>1. next.ballots[c.index] = [nonce |-> st.ballots[c.index].nonce + 1,
                                 votes |-> VotesWith(st.ballots[c.index].votes, c)]
        /\ c.index \in Indices
    BY <1>1, ValidMessage
  <2>2. st.ballots[c.index].nonce \in Nat
    BY <2>1, StateFields
  <2> HIDE DEF next
  <2>3. next.ballots[c.index].nonce # st.ballots[c.index].nonce
    BY <2>1, <2>2
  <2> QED
    BY <2>3 DEF next
<1> QED
  BY <1>1 DEF ProcessMessage

LEMMA AppliedBatch ==
    ASSUME mode \in Modes, messages \in Seq(Message), NEW index \in Nat \ {0},
           Applied(state, applied, index * MessageBatchSize)
    PROVE  Applied(NodeStates(index)[MessageBatchSize], History(index)[MessageBatchSize],
                   (index - 1) * MessageBatchSize)
<1> DEFINE B == MessageBatchSize
           core == NodeStates(index)
           hist == History(index)
           N == {s \in Nat : s <= B => Applied(core[s], hist[s], index * B - s)}
<1>1. B \in Nat \ {0} /\ index * B \in Nat /\ index * B >= B /\ index * B - B = (index - 1) * B
  BY ConstantsAre
<1>2. state \in States /\ applied \in Seq(Nat)
  <2>1. state \in States /\ applied \in Seq(1..Len(messages))
    BY DEF Applied
  <2> QED
    BY <2>1
<1>3. /\ core \in [0..B -> States] /\ core[0] = state
      /\ \A s \in 1..B : core[s] = ProcessMessage(core[s - 1], Slot(index, s))
  BY <1>2, NodeStatesAre, ProcessMessageType
<1>4. /\ hist[0] = applied
      /\ \A s \in 1..B : hist[s] = IF core[s] = core[s - 1] THEN hist[s - 1]
                                   ELSE Append(hist[s - 1], Position(index, s))
  BY <1>2, HistoryIs
<1>5. \A s \in 1..B : /\ Slot(index, s) \in Message /\ Position(index, s) \in Nat \ {0}
                      /\ Position(index, s) = index * B - (s - 1)
                      /\ index * B - s = Position(index, s) - 1
  BY <1>1, SlotType DEF Position
<1>6. 0 \in N
  <2>1. index * B - 0 = index * B
    BY <1>1
  <2> HIDE DEF core, hist, B
  <2>2. Applied(core[0], hist[0], index * B - 0)
    BY <1>3, <1>4, <2>1 DEF B
  <2> QED
    BY <2>2
<1> HIDE DEF core, hist, B
<1>7. ASSUME NEW r \in N
      PROVE  r + 1 \in N
  <2>1. r \in Nat
    OBVIOUS
  <2> SUFFICES ASSUME r + 1 <= B
               PROVE  Applied(core[r + 1], hist[r + 1], index * B - (r + 1))
    BY <2>1
  <2> DEFINE s == r + 1
             low == Position(index, s)
             c == Slot(index, s)
             st == core[r]
  <2>2. s \in 1..B /\ r \in 0..B /\ s - 1 = r /\ r <= B
    BY <1>1, <2>1
  <2>3. Applied(st, hist[r], index * B - r)
    BY <2>2 DEF N
  <2>4. /\ low \in Nat \ {0} /\ low = index * B - r /\ c \in Message /\ st \in States
        /\ index * B - s = low - 1
    BY <1>3, <1>5, <2>2
  <2>5. Applied(st, hist[r], low)
    BY <2>3, <2>4
  <2>6. /\ core[s] = ProcessMessage(st, c)
        /\ hist[s] = IF core[s] = st THEN hist[r] ELSE Append(hist[r], low)
    BY <1>3, <1>4, <2>2
  <2>7. c = IF low <= Len(messages) THEN messages[low] ELSE EmptyCommand
    BY DEF Slot
  <2> HIDE DEF s, low, c, st
  <2>8. CASE IsValid(st, c)
    <3>1. core[s] # st /\ hist[s] = Append(hist[r], low)
      BY <2>4, <2>6, <2>8, ValidMessageCounts
    <3>2. low \in 1..Len(messages) /\ c = messages[low]
      BY <2>4, <2>7, <2>8, EmptyCommandIsInvalid
    <3>3. Applied(ProcessMessage(st, messages[low]), Append(hist[r], low), low - 1)
      BY <2>5, <2>8, <3>2, AppliedOne
    <3> QED
      BY <2>4, <2>6, <3>1, <3>2, <3>3 DEF s
  <2>9. CASE ~IsValid(st, c)
    <3>1. core[s] = st /\ hist[s] = hist[r]
      BY <2>4, <2>6, <2>9, ValidMessageCounts
    <3>2. low <= Len(messages) => ~IsValid(st, messages[low])
      BY <2>7, <2>9
    <3>3. Applied(st, hist[r], low - 1)
      BY <2>4, <2>5, <3>2, AppliedSkip
    <3> QED
      BY <2>4, <3>1, <3>3 DEF s
  <2> QED
    BY <2>8, <2>9
<1>8. N = Nat
  <2> HIDE DEF N
  <2>1. N \in SUBSET Nat
    BY DEF N
  <2> QED
    BY <1>6, <1>7, <2>1, Induction
<1>9. Applied(core[B], hist[B], index * B - B)
  BY <1>1, <1>8
<1> QED
  BY <1>1, <1>9 DEF core, hist, B

MessagesInv ==
    /\ BatchInv
    /\ totalBatchesProcessed = 0 => state = InitialState /\ applied = <<>>
    /\ totalBatchesProcessed > 0 =>
          Applied(state, applied, currentMessageBatchIndex * MessageBatchSize)

(* What a call of processMessages does to the state and the history. *)
LEMMA ProcessMessagesDoes ==
    ASSUME ProcessMessages, BatchInv
    PROVE  /\ BatchIndex \in Nat \ {0}
           /\ BatchIndex * MessageBatchSize \in Nat
           /\ currentMessageBatchIndex' = BatchIndex - 1
           /\ state' = NodeStates(BatchIndex)[MessageBatchSize]
           /\ applied' = History(BatchIndex)[MessageBatchSize]
           /\ totalBatchesProcessed' = totalBatchesProcessed + 1
           /\ UNCHANGED <<mode, messages, tallyVars>>
           /\ totalBatchesProcessed > 0 => BatchIndex = currentMessageBatchIndex
           /\ totalBatchesProcessed = 0 => BatchIndex * MessageBatchSize >= Len(messages)
<1>1. HasUnprocessedMessages
  BY DEF ProcessMessages
<1>2. BatchIndex \in Nat \ {0} /\ BatchIndex = TotalBatches - totalBatchesProcessed
  BY <1>1, BatchIndexIs
<1>3. currentMessageBatchIndex' = BatchIndex - 1
  BY <1>2 DEF ProcessMessages
<1>4. applied' = History(BatchIndex)[MessageBatchSize]
  BY DEF ProcessMessages, History
<1>5. totalBatchesProcessed > 0 => BatchIndex = currentMessageBatchIndex
  BY DEF BatchIndex, BatchInv
<1>6. totalBatchesProcessed = 0 => BatchIndex * MessageBatchSize >= Len(messages)
  BY <1>2, TotalBatchesIs
<1>7. BatchIndex * MessageBatchSize \in Nat
  BY <1>2, ConstantsAre
<1> QED
  BY <1>2, <1>3, <1>4, <1>5, <1>6, <1>7 DEF ProcessMessages

LEMMA MessagesInvStarts ==
    ASSUME Init
    PROVE  MessagesInv
  BY BatchInvStarts DEF Init, MessagesInv

LEMMA MessagesInvNext ==
    ASSUME MessagesInv, [Next]_vars
    PROVE  MessagesInv'
<1>1. BatchInv /\ BatchInv'
  BY BatchInvNext DEF MessagesInv
<1>2. mode \in Modes /\ messages \in Seq(Message) /\ totalBatchesProcessed \in Nat
  BY <1>1 DEF BatchInv
<1>3. CASE Publish
  <2>1. /\ totalBatchesProcessed = 0 /\ totalBatchesProcessed' = 0
        /\ state' = state /\ applied' = applied /\ mode' = mode
    BY <1>3 DEF Publish, PublishMessage, processVars
  <2>2. InitialState' = InitialState
    BY <2>1 DEF InitialState
  <2> QED
    BY <1>1, <2>1, <2>2 DEF MessagesInv
<1>4. CASE ProcessMessages
  <2> DEFINE index == BatchIndex
  <2>1. /\ index \in Nat \ {0} /\ index * MessageBatchSize \in Nat
        /\ currentMessageBatchIndex' = index - 1
        /\ state' = NodeStates(index)[MessageBatchSize]
        /\ applied' = History(index)[MessageBatchSize]
        /\ totalBatchesProcessed' = totalBatchesProcessed + 1
        /\ mode' = mode /\ messages' = messages
        /\ totalBatchesProcessed > 0 => index = currentMessageBatchIndex
        /\ totalBatchesProcessed = 0 => index * MessageBatchSize >= Len(messages)
    BY <1>1, <1>4, ProcessMessagesDoes
  <2> HIDE DEF index
  <2>2. Applied(state, applied, index * MessageBatchSize)
    <3>1. CASE totalBatchesProcessed = 0
      BY <1>2, <2>1, <3>1, AppliedStarts DEF MessagesInv
    <3>2. CASE totalBatchesProcessed # 0
      BY <1>2, <2>1, <3>2 DEF MessagesInv
    <3> QED
      BY <3>1, <3>2
  <2>3. Applied(state', applied', currentMessageBatchIndex' * MessageBatchSize)
    BY <1>2, <2>1, <2>2, AppliedBatch
  <2>4. Applied(state, applied, currentMessageBatchIndex * MessageBatchSize)'
    <3>1. InitialState' = InitialState
      BY <2>1 DEF InitialState
    <3>2. \A c : IsValid(InitialState, c)' = IsValid(InitialState, c)
      BY <2>1, <3>1 DEF IsValid, CreditsLeft, Cost
    <3> QED
      BY <2>1, <2>3, <3>1, <3>2 DEF Applied, AppliedTo
  <2>5. totalBatchesProcessed' # 0
    BY <1>2, <2>1
  <2> QED
    BY <1>1, <2>4, <2>5 DEF MessagesInv
<1>5. CASE TallyVotes \/ UNCHANGED vars
  <2>1. UNCHANGED <<mode, messages, state, applied, totalBatchesProcessed, currentMessageBatchIndex>>
    BY <1>5 DEF TallyVotes, vars, processVars
  <2>2. InitialState' = InitialState
    BY <2>1 DEF InitialState
  <2>3. \A c : IsValid(InitialState, c)' = IsValid(InitialState, c)
    BY <2>1, <2>2 DEF IsValid, CreditsLeft, Cost
  <2> QED
    BY <1>1, <2>1, <2>2, <2>3 DEF MessagesInv, Applied, AppliedTo
<1> QED
  BY <1>3, <1>4, <1>5 DEF Next

LEMMA CountOnce ==
    ASSUME MessagesInv
    PROVE  MessagesCountOnce
<1>1. /\ mode \in Modes /\ messages \in Seq(Message) /\ totalBatchesProcessed \in Nat
      /\ Len(messages) \in Nat
  BY DEF MessagesInv, BatchInv
<1>2. CASE totalBatchesProcessed = 0
  <2>1. applied = <<>>
    BY <1>2 DEF MessagesInv
  <2> QED
    BY <1>2, <2>1 DEF MessagesCountOnce, LaterMessageWins, NoReplay
<1>3. CASE totalBatchesProcessed # 0
  <2> DEFINE low == currentMessageBatchIndex * MessageBatchSize
  <2>1. Applied(state, applied, low)
    BY <1>1, <1>3 DEF MessagesInv
  <2> HIDE DEF low
  <2>2. applied \in Seq(1..Len(messages)) /\ DOMAIN applied = 1..Len(applied) /\ Len(applied) \in Nat
    BY <2>1 DEF Applied
  <2>3. \A n, m \in 1..Len(applied) : n < m => applied[m] < applied[n]
    BY <2>1 DEF Applied
  <2>4. LaterMessageWins
    <3> SUFFICES ASSUME NEW p \in 1..Len(messages), p > low, IsValid(InitialState, messages[p])
                 PROVE  \E n \in AppliedTo(applied, messages[p].index) :
                            applied[n] >= p /\ \A m \in AppliedTo(applied, messages[p].index) : n <= m
      BY <2>2 DEF LaterMessageWins, AppliedTo, low
    <3> DEFINE ofLeaf == AppliedTo(applied, messages[p].index)
    <3>1. PICK k \in ofLeaf : applied[k] >= p
      BY <2>1 DEF Applied
    <3>2. ofLeaf \in SUBSET Nat /\ ofLeaf \in SUBSET (1..Len(applied))
      BY <2>2 DEF AppliedTo
    <3> HIDE DEF ofLeaf
    <3>3. PICK n \in ofLeaf : \A m \in ofLeaf : n <= m
      BY <3>1, <3>2, Smallest
    <3>4. n <= k /\ n \in 1..Len(applied) /\ k \in 1..Len(applied)
      BY <3>1, <3>2, <3>3
    <3>5. applied[n] \in Nat /\ applied[k] \in Nat
      BY <1>1, <2>2, <3>4
    <3>6. applied[n] >= p
      <4>1. CASE n = k
        BY <3>1, <4>1
      <4>2. CASE n # k
        <5>1. n < k
          BY <3>4, <4>2
        <5>2. applied[k] < applied[n]
          BY <2>3, <3>4, <5>1
        <5> QED
          BY <3>1, <3>5, <5>2
      <4> QED
        BY <4>1, <4>2
    <3> QED
      BY <3>3, <3>6 DEF ofLeaf
  <2>5. NoReplay
    <3> SUFFICES ASSUME NEW n \in 1..Len(applied)
                 PROVE  ~IsValid(state, messages[applied[n]])
      BY <2>2 DEF NoReplay
    <3> DEFINE c == messages[applied[n]]
    <3>1. c.index \in Indices \ {0} /\ c.nonce <= state.ballots[c.index].nonce /\ state \in States
      BY <2>1 DEF Applied
    <3>2. c \in Message
      BY <1>1, <2>2
    <3> HIDE DEF c
    <3>3. c.nonce \in Nat /\ state.ballots[c.index].nonce \in Nat
      BY <3>1, <3>2, StateFields DEF Message
    <3>4. c.nonce # state.ballots[c.index].nonce + 1
      BY <3>1, <3>3
    <3> QED
      BY <3>4 DEF IsValid, c
  <2> QED
    BY <2>4, <2>5 DEF MessagesCountOnce
<1> QED
  BY <1>2, <1>3

(* Every message that counts is the last one its voter meant to count, and it counts once:
   however the messages fall into batches (Poll.ts processMessages, in reverse order), and
   whatever is tallied in between. *)
THEOREM EveryMessageCountsOnce == Spec => []MessagesCountOnce
<1>1. Init => MessagesInv
  BY MessagesInvStarts
<1>2. MessagesInv /\ [Next]_vars => MessagesInv'
  BY MessagesInvNext
<1>3. MessagesInv => MessagesCountOnce
  BY CountOnce
<1> QED
  BY <1>1, <1>2, <1>3, PTL DEF Spec

-----------------------------------------------------------------------------
(* Types, and the conservation of credits, along every behaviour. *)

StateInv ==
    /\ BatchInv
    /\ state \in States
    /\ totalBatchesProcessed = 0 => state = InitialState
    /\ totalBatchesProcessed <= TotalBatches
    /\ mode # "FULL" => Conserved(state)

LEMMA InitialStateConserved ==
    ASSUME mode \in Modes
    PROVE  Conserved(InitialState)
<1>1. ASSUME NEW i \in Indices \ {0}
      PROVE  InitialState.leaves[i].credits + BallotCost(InitialState.ballots[i]) = Credits[mode]
  <2>1. InitialState.ballots[i] = EmptyBallot /\ InitialState.leaves[i].credits = Credits[mode]
    BY DEF InitialState
  <2> DEFINE f == [o \in Options |-> Cost(EmptyBallot.votes[o])]
  <2>2. f \in [Options -> Int] /\ \A o \in Options : f[o] = 0
    BY DEF EmptyBallot, Cost
  <2> HIDE DEF f
  <2>3. Sum(f) = 0
    BY <2>2, SumZero, ConstantsAre
  <2>4. BallotCost(EmptyBallot) = 0
    BY <2>3 DEF BallotCost, f
  <2>5. Credits[mode] \in Nat
    BY ConstantsAre
  <2> QED
    BY <2>1, <2>4, <2>5
<1> QED
  BY <1>1, InitialStateType, ConstantsAre DEF Conserved

LEMMA StateInvStarts ==
    ASSUME Init
    PROVE  StateInv
<1>1. BatchInv /\ mode \in Modes /\ state = InitialState /\ totalBatchesProcessed = 0
  BY BatchInvStarts DEF Init
<1>2. TotalBatches \in Nat
  BY <1>1, TotalBatchesIs
<1> QED
  BY <1>1, <1>2, InitialStateConserved, InitialStateType DEF StateInv

LEMMA ConservedPrime ==
    ASSUME mode' = mode, NEW st
    PROVE  InitialState' = InitialState /\ Conserved(st)' = Conserved(st')
  BY DEF InitialState, Conserved, BallotCost, Cost

LEMMA StateInvNext ==
    ASSUME StateInv, [Next]_vars
    PROVE  StateInv'
<1>1. /\ BatchInv /\ BatchInv' /\ mode \in Modes /\ messages \in Seq(Message) /\ state \in States
      /\ totalBatchesProcessed \in Nat
  BY BatchInvNext DEF StateInv, BatchInv
<1>2. mode' = mode
  BY DEF Next, Publish, PublishMessage, ProcessMessages, TallyVotes, vars
<1>3. InitialState' = InitialState
  BY <1>2 DEF InitialState
<1>4. TotalBatches \in Nat /\ TotalBatches' \in Nat
  <2>1. TotalBatches \in Nat \ {0}
    BY <1>1, TotalBatchesIs
  <2>2. TotalBatches' \in Nat
    <3>1. Len(messages') \in Nat /\ MessageBatchSize \in Nat \ {0}
      BY <1>1, ConstantsAre DEF BatchInv
    <3>2. (Len(messages') + MessageBatchSize - 1) \div MessageBatchSize \in Nat
      BY <3>1, Batches
    <3> QED
      BY <3>2 DEF TotalBatches
  <2> QED
    BY <2>1, <2>2
<1>5. CASE Publish
  <2>1. totalBatchesProcessed = 0 /\ totalBatchesProcessed' = 0 /\ state' = state
    BY <1>5 DEF Publish, PublishMessage, processVars
  <2> QED
    BY <1>1, <1>2, <1>3, <1>4, <2>1 DEF StateInv, Conserved, BallotCost, Cost
<1>6. CASE ProcessMessages
  <2> DEFINE index == BatchIndex
             Same == {st \in States : mode # "FULL" => Conserved(st)}
  <2>1. /\ index \in Nat \ {0}
        /\ state' = NodeStates(index)[MessageBatchSize]
        /\ totalBatchesProcessed' = totalBatchesProcessed + 1
        /\ messages' = messages
    BY <1>1, <1>6, ProcessMessagesDoes
  <2>2. TotalBatches' = TotalBatches /\ totalBatchesProcessed' <= TotalBatches /\ totalBatchesProcessed' # 0
    BY <1>1, <1>4, <1>6, <2>1 DEF TotalBatches, ProcessMessages, HasUnprocessedMessages
  <2> HIDE DEF index
  <2>3. state \in Same
    BY DEF StateInv
  <2>4. \A st \in Same : \A c \in Message : ProcessMessage(st, c) \in Same
    BY ProcessMessageType, ProcessMessageKeeps
  <2>5. state' \in Same
    <3> HIDE DEF Same
    <3>1. NodeStates(index) \in [0..MessageBatchSize -> Same]
      BY <1>1, <2>1, <2>3, <2>4, NodeStatesAre
    <3> QED
      BY <2>1, <3>1, ConstantsAre
  <2>6. state' \in States /\ (mode # "FULL" => Conserved(state'))
    BY <2>5
  <2>7. (mode # "FULL" => Conserved(state))'
    BY <1>2, <1>3, <2>6 DEF Conserved, BallotCost, Cost
  <2> QED
    BY <1>1, <2>2, <2>6, <2>7 DEF StateInv
<1>7. CASE TallyVotes \/ UNCHANGED vars
  <2>1. UNCHANGED <<mode, messages, state, totalBatchesProcessed>>
    BY <1>7 DEF TallyVotes, vars, processVars
  <2> QED
    BY <1>1, <1>3, <2>1 DEF StateInv, Conserved, BallotCost, Cost, TotalBatches
<1> QED
  BY <1>5, <1>6, <1>7 DEF Next

(* The history holds positions of messages. *)
LEMMA TypesFollow ==
    ASSUME StateInv, MessagesInv, tallyResult \in [Options -> Nat], totalSpentVoiceCredits \in Nat,
           numBatchesTallied \in Nat
    PROVE  TypeOK
<1>1. /\ mode \in Modes /\ Len(messages) \in 1..MaxMessages /\ state \in States
      /\ totalBatchesProcessed \in 0..TotalBatches /\ totalBatchesProcessed \in Nat
      /\ currentMessageBatchIndex \in Nat /\ TotalBatches \in Nat
  <2>1. TotalBatches \in Nat
    BY TotalBatchesIs DEF StateInv
  <2>2. MaxMessages \in Nat /\ Len(messages) \in Nat
    BY CorePollAssumption DEF StateInv, BatchInv
  <2> QED
    BY <2>1, <2>2 DEF StateInv, BatchInv
<1>2. totalBatchesProcessed > 0 => totalBatchesProcessed + currentMessageBatchIndex = TotalBatches
  BY DEF StateInv, BatchInv
<1>3. currentMessageBatchIndex \in 0..TotalBatches
  <2>1. CASE totalBatchesProcessed > 0
    BY <1>1, <1>2, <2>1
  <2>2. CASE totalBatchesProcessed = 0
    <3>1. currentMessageBatchIndex * MessageBatchSize <= Len(messages)
      BY <2>2 DEF StateInv, BatchInv
    <3>2. TotalBatches * MessageBatchSize >= Len(messages) /\ TotalBatches * MessageBatchSize \in Nat
          /\ Len(messages) \in Nat /\ MessageBatchSize \in Nat \ {0}
      BY <1>1, TotalBatchesIs, ConstantsAre DEF StateInv
    <3>3. ASSUME TotalBatches + 1 <= currentMessageBatchIndex
          PROVE  FALSE
      <4>1. (TotalBatches + 1) * MessageBatchSize <= currentMessageBatchIndex * MessageBatchSize
        BY <1>1, <3>2, <3>3
      <4>2. (TotalBatches + 1) * MessageBatchSize = TotalBatches * MessageBatchSize + MessageBatchSize
        BY <1>1, <3>2
      <4>3. currentMessageBatchIndex * MessageBatchSize \in Nat
        BY <1>1, <3>2
      <4> QED
        BY <3>1, <3>2, <4>1, <4>2, <4>3
    <3> QED
      BY <1>1, <3>3
  <2> QED
    BY <1>1, <2>1, <2>2
<1>4. applied \in Seq(1..MaxMessages)
  <2>1. applied \in Seq(1..Len(messages))
    <3>1. CASE totalBatchesProcessed = 0
      BY <3>1 DEF MessagesInv
    <3>2. CASE totalBatchesProcessed > 0
      BY <3>2 DEF MessagesInv, Applied
    <3> QED
      BY <1>1, <3>1, <3>2
  <2>2. MaxMessages \in Nat /\ Len(messages) \in Nat /\ Len(messages) <= MaxMessages
    BY <1>1, CorePollAssumption
  <2>3. \A n \in 1..Len(applied) : applied[n] \in 1..MaxMessages
    BY <2>1, <2>2
  <2>4. Len(applied) \in Nat /\ applied = [n \in 1..Len(applied) |-> applied[n]]
    BY <2>1
  <2>5. PICK n \in Nat : n = Len(applied)
    BY <2>4
  <2>6. applied \in [1..n -> 1..MaxMessages]
    BY <2>3, <2>4, <2>5
  <2> QED
    BY <2>6, SeqDef
<1> QED
  BY <1>1, <1>2, <1>3, <1>4 DEF TypeOK

-----------------------------------------------------------------------------
(* The tally: what has been added up are the first ballots. *)

Votes(o) == [i \in Indices |-> state.ballots[i].votes[o]]
Spent == [i \in Indices |-> BallotCost(state.ballots[i])]
SpentOn(o) == [i \in Indices |-> Cost(state.ballots[i].votes[o])]

TallyInv ==
    /\ numBatchesTallied \in Nat
    /\ numBatchesTallied > 0 => ~HasUnprocessedMessages
    /\ tallyResult = [o \in Options |-> SumOver(Votes(o), First(BatchStart))]
    /\ totalSpentVoiceCredits = SumOver(Spent, First(BatchStart))
    /\ perVoteOptionSpent = [o \in Options |->
          IF mode = "QV" THEN SumOver(SpentOn(o), First(BatchStart)) ELSE 0]

LEMMA SummandTypes ==
    ASSUME state \in States
    PROVE  /\ Spent \in [Indices -> Nat]
           /\ \A o \in Options : Votes(o) \in [Indices -> Nat] /\ SpentOn(o) \in [Indices -> Nat]
<1>1. ASSUME NEW i \in Indices
      PROVE  /\ BallotCost(state.ballots[i]) \in Nat
             /\ \A o \in Options : state.ballots[i].votes[o] \in Nat
                                   /\ Cost(state.ballots[i].votes[o]) \in Nat
  <2> DEFINE f == [o \in Options |-> Cost(state.ballots[i].votes[o])]
  <2>1. \A o \in Options : state.ballots[i].votes[o] \in Nat
    BY StateFields
  <2>2. \A o \in Options : Cost(state.ballots[i].votes[o]) \in Nat
    BY <2>1, CostType
  <2>3. f \in [Options -> Nat]
    BY <2>2
  <2> HIDE DEF f
  <2>4. Sum(f) \in Nat
    BY <2>3, SumType, ConstantsAre
  <2> QED
    BY <2>1, <2>2, <2>4 DEF BallotCost, f
<1> QED
  BY <1>1 DEF Spent, Votes, SpentOn

LEMMA FirstAre ==
    ASSUME NEW n \in Nat
    PROVE  /\ First(n) \in SUBSET Indices /\ First(0) = {}
           /\ n >= TotalSignups => First(n) = Indices
  BY ConstantsAre DEF First

LEMMA SumOfPart ==
    ASSUME NEW s \in SUBSET Indices
    PROVE  /\ Sum([i \in s |-> Sum([o \in Options |-> Cost(state.ballots[i].votes[o])])]) = SumOver(Spent, s)
           /\ \A o : /\ Sum([i \in s |-> state.ballots[i].votes[o]]) = SumOver(Votes(o), s)
                     /\ Sum([i \in s |-> Cost(state.ballots[i].votes[o])]) = SumOver(SpentOn(o), s)
<1>1. [i \in s |-> Sum([o \in Options |-> Cost(state.ballots[i].votes[o])])] = [i \in s |-> Spent[i]]
  BY DEF Spent, BallotCost
<1>2. \A o : /\ [i \in s |-> state.ballots[i].votes[o]] = [i \in s |-> Votes(o)[i]]
             /\ [i \in s |-> Cost(state.ballots[i].votes[o])] = [i \in s |-> SpentOn(o)[i]]
  BY DEF Votes, SpentOn
<1> QED
  BY <1>1, <1>2 DEF SumOver

(* Another batch of ballots. *)
LEMMA NextBallots ==
    ASSUME numBatchesTallied \in Nat, NEW f \in [Indices -> Nat]
    PROVE  /\ BatchStart \in Nat /\ BatchOfBallots \in SUBSET Indices
           /\ SumOver(f, First(BatchStart + TallyBatchSize))
                 = SumOver(f, First(BatchStart)) + SumOver(f, BatchOfBallots)
<1>1. BatchStart \in Nat /\ TallyBatchSize \in Nat
  BY ConstantsAre DEF BatchStart
<1>2. /\ First(BatchStart + TallyBatchSize) = First(BatchStart) \cup BatchOfBallots
      /\ First(BatchStart) \cap BatchOfBallots = {}
      /\ First(BatchStart) \in SUBSET Indices /\ BatchOfBallots \in SUBSET Indices
  BY <1>1, ConstantsAre DEF First, BatchOfBallots
<1>3. f \in [Indices -> Int] /\ IsFiniteSet(Indices)
  BY ConstantsAre
<1>4. PICK A \in SUBSET Indices, C \in SUBSET Indices : A = First(BatchStart) /\ C = BatchOfBallots
  BY <1>2
<1>5. SumOver(f, A \cup C) = SumOver(f, A) + SumOver(f, C)
  <2>1. A \cap C = {}
    BY <1>2, <1>4
  <2> QED
    BY <1>3, <2>1, SumSplit
<1> QED
  BY <1>1, <1>2, <1>4, <1>5

LEMMA NothingTallied ==
    ASSUME BatchStart = 0, numBatchesTallied = 0, tallyResult = [o \in Options |-> 0],
           totalSpentVoiceCredits = 0, perVoteOptionSpent = [o \in Options |-> 0]
    PROVE  TallyInv
<1>1. First(BatchStart) = {}
  BY FirstAre
<1>2. SumOver(Spent, {}) = 0 /\ \A o : SumOver(Votes(o), {}) = 0 /\ SumOver(SpentOn(o), {}) = 0
  BY SumOverEmpty
<1> QED
  BY <1>1, <1>2 DEF TallyInv

LEMMA TallyInvStarts ==
    ASSUME Init
    PROVE  TallyInv
<1>1. BatchStart = 0
  BY ConstantsAre DEF Init, BatchStart
<1> QED
  BY <1>1, NothingTallied DEF Init

LEMMA TallyInvNext ==
    ASSUME StateInv, TallyInv, [Generate]_vars
    PROVE  TallyInv'
<1>1. /\ BatchInv /\ state \in States /\ totalBatchesProcessed \in Nat /\ TotalBatches \in Nat \ {0}
      /\ numBatchesTallied \in Nat /\ TallyBatchSize \in Nat \ {0}
  BY TotalBatchesIs, ConstantsAre DEF StateInv, BatchInv, TallyInv
<1>2. CASE Publish \/ ProcessMessages
  <2>1. UNCHANGED tallyVars /\ mode' = mode
    BY <1>2 DEF Publish, PublishMessage, ProcessMessages
  <2>2. HasUnprocessedMessages
    BY <1>1, <1>2 DEF Publish, PublishMessage, ProcessMessages, HasUnprocessedMessages
  <2>3. numBatchesTallied = 0 /\ numBatchesTallied' = 0
    BY <1>1, <2>1, <2>2 DEF TallyInv, tallyVars
  <2>4. BatchStart = 0 /\ BatchStart' = 0
    BY <1>1, <2>3 DEF BatchStart
  <2>5. First(BatchStart) = {}
    BY <2>4, FirstAre
  <2>6. SumOver(Spent, {}) = 0 /\ \A o : SumOver(Votes(o), {}) = 0 /\ SumOver(SpentOn(o), {}) = 0
    BY SumOverEmpty
  <2>7. /\ tallyResult' = [o \in Options |-> 0] /\ totalSpentVoiceCredits' = 0
        /\ perVoteOptionSpent' = [o \in Options |-> 0]
    BY <2>1, <2>5, <2>6 DEF TallyInv, tallyVars
  <2>8. First(BatchStart') = {}
    BY <2>4, FirstAre
  <2>9. SumOver(Spent', {}) = 0 /\ \A o : SumOver(Votes(o)', {}) = 0 /\ SumOver(SpentOn(o)', {}) = 0
    BY SumOverEmpty
  <2>10. totalSpentVoiceCredits' = SumOver(Spent', First(BatchStart'))
    BY <2>7, <2>8, <2>9
  <2>11. tallyResult' = [o \in Options |-> SumOver(Votes(o)', First(BatchStart'))]
    BY <2>7, <2>8, <2>9
  <2>12. perVoteOptionSpent' = [o \in Options |->
             IF mode' = "QV" THEN SumOver(SpentOn(o)', First(BatchStart')) ELSE 0]
    BY <2>7, <2>8, <2>9
  <2> QED
    BY <2>3, <2>10, <2>11, <2>12 DEF TallyInv, SumOver, First
<1>3. CASE Tally
  <2> DEFINE start == BatchStart
             next == BatchStart + TallyBatchSize
  <2>1. /\ ~HasUnprocessedMessages /\ numBatchesTallied' = numBatchesTallied + 1
        /\ tallyResult' = NewResults /\ totalSpentVoiceCredits' = NewSpent
        /\ perVoteOptionSpent' = NewPerVoteOption
        /\ UNCHANGED <<mode, messages, state, totalBatchesProcessed>>
    BY <1>3 DEF Tally, TallyVotes, processVars
  <2>2. start \in Nat /\ next \in Nat /\ BatchStart' = next
    BY <1>1, <2>1 DEF BatchStart
  <2>3. BatchOfBallots \in SUBSET Indices
    BY <1>1, NextBallots, SummandTypes
  <2>4. /\ totalSpentVoiceCredits = SumOver(Spent, First(start))
        /\ tallyResult = [o \in Options |-> SumOver(Votes(o), First(start))]
        /\ perVoteOptionSpent = [o \in Options |-> IF mode = "QV" THEN SumOver(SpentOn(o), First(start)) ELSE 0]
    BY DEF TallyInv
  <2>5. totalSpentVoiceCredits' = SumOver(Spent, First(next))
    <3>1. NewSpent = totalSpentVoiceCredits + SumOver(Spent, BatchOfBallots)
      BY <2>3, SumOfPart DEF NewSpent
    <3>2. SumOver(Spent, First(next)) = SumOver(Spent, First(start)) + SumOver(Spent, BatchOfBallots)
      BY <1>1, SummandTypes, NextBallots
    <3> QED
      BY <2>1, <2>4, <3>1, <3>2
  <2>6. tallyResult' = [o \in Options |-> SumOver(Votes(o), First(next))]
    <3>1. ASSUME NEW o \in Options
          PROVE  tallyResult[o] + Sum([i \in BatchOfBallots |-> state.ballots[i].votes[o]])
                    = SumOver(Votes(o), First(next))
      <4>1. Sum([i \in BatchOfBallots |-> state.ballots[i].votes[o]]) = SumOver(Votes(o), BatchOfBallots)
        BY <2>3, SumOfPart
      <4>2. SumOver(Votes(o), First(next)) = SumOver(Votes(o), First(start)) + SumOver(Votes(o), BatchOfBallots)
        BY <1>1, SummandTypes, NextBallots
      <4>3. tallyResult[o] = SumOver(Votes(o), First(start))
        BY <2>4
      <4> QED
        BY <4>1, <4>2, <4>3
    <3> QED
      BY <2>1, <3>1 DEF NewResults
  <2>7. perVoteOptionSpent' = [o \in Options |-> IF mode = "QV" THEN SumOver(SpentOn(o), First(next)) ELSE 0]
    <3>1. CASE mode = "QV"
      <4>1. ASSUME NEW o \in Options
            PROVE  perVoteOptionSpent[o] + Sum([i \in BatchOfBallots |-> Cost(state.ballots[i].votes[o])])
                      = SumOver(SpentOn(o), First(next))
        <5>1. Sum([i \in BatchOfBallots |-> Cost(state.ballots[i].votes[o])]) = SumOver(SpentOn(o), BatchOfBallots)
          BY <2>3, SumOfPart
        <5>2. SumOver(SpentOn(o), First(next))
                 = SumOver(SpentOn(o), First(start)) + SumOver(SpentOn(o), BatchOfBallots)
          BY <1>1, SummandTypes, NextBallots
        <5>3. perVoteOptionSpent[o] = SumOver(SpentOn(o), First(start))
          BY <2>4, <3>1
        <5> QED
          BY <5>1, <5>2, <5>3
      <4> QED
        BY <2>1, <3>1, <4>1 DEF NewPerVoteOption
    <3>2. CASE mode # "QV"
      BY <2>1, <2>4, <3>2 DEF NewPerVoteOption
    <3> QED
      BY <3>1, <3>2
  <2>8. Spent' = Spent /\ \A o : Votes(o)' = Votes(o) /\ SpentOn(o)' = SpentOn(o)
    BY <2>1 DEF Spent, Votes, SpentOn, BallotCost, Cost
  <2>9. numBatchesTallied' \in Nat /\ ~HasUnprocessedMessages'
    BY <1>1, <2>1 DEF HasUnprocessedMessages, TotalBatches
  <2> HIDE DEF start, next
  <2>10. totalSpentVoiceCredits' = SumOver(Spent', First(BatchStart'))
    BY <2>2, <2>5, <2>8
  <2>11. tallyResult' = [o \in Options |-> SumOver(Votes(o)', First(BatchStart'))]
    BY <2>2, <2>6, <2>8
  <2>12. perVoteOptionSpent' = [o \in Options |->
             IF mode' = "QV" THEN SumOver(SpentOn(o)', First(BatchStart')) ELSE 0]
    BY <2>1, <2>2, <2>7, <2>8
  <2> QED
    BY <2>9, <2>10, <2>11, <2>12 DEF TallyInv, SumOver, First
<1>4. CASE UNCHANGED vars
  BY <1>4 DEF vars, TallyInv, HasUnprocessedMessages, TotalBatches, BatchStart, First, Spent, Votes, SpentOn,
              BallotCost, Cost
<1> QED
  BY <1>2, <1>3, <1>4 DEF Generate

(* At the end everybody's ballot is counted. *)
LEMMA TallyIsWhole ==
    ASSUME StateInv, TallyInv, ~HasUntalliedBallots, mode # "FULL"
    PROVE  /\ \A o \in Options : tallyResult[o] = Sum([i \in Indices |-> state.ballots[i].votes[o]])
           /\ totalSpentVoiceCredits = Sum([i \in Indices \ {0} |-> Credits[mode] - state.leaves[i].credits])
<1>1. BatchStart \in Nat /\ BatchStart >= TotalSignups
  BY ConstantsAre DEF HasUntalliedBallots, BatchStart, TallyInv
<1>2. First(BatchStart) = Indices
  BY <1>1, FirstAre
<1>3. ASSUME NEW o \in Options
      PROVE  tallyResult[o] = Sum([i \in Indices |-> state.ballots[i].votes[o]])
  BY <1>2, SumOfPart DEF TallyInv
<1>4. Spent[0] = 0
  <2> DEFINE f == [o \in Options |-> Cost(EmptyBallot.votes[o])]
  <2>1. f \in [Options -> Int] /\ \A o \in Options : f[o] = 0
    BY DEF EmptyBallot, Cost
  <2> HIDE DEF f
  <2>2. Sum(f) = 0
    BY <2>1, SumZero, ConstantsAre
  <2>3. state.ballots[0] = EmptyBallot
    BY DEF StateInv, Conserved
  <2> QED
    BY <2>2, <2>3, ConstantsAre DEF Spent, BallotCost, f
<1>5. /\ SumOver(Spent, Indices) = Spent[0] + SumOver(Spent, Indices \ {0})
      /\ SumOver(Spent, Indices \ {0}) \in Int
  <2>1. Spent \in [Indices -> Int] /\ IsFiniteSet(Indices)
    BY SummandTypes, ConstantsAre DEF StateInv
  <2>2. Indices \in SUBSET Indices /\ 0 \in Indices /\ Indices \ {0} \in SUBSET Indices
    BY ConstantsAre
  <2> QED
    BY <2>1, <2>2, SumOverType
<1>6. [i \in Indices \ {0} |-> Spent[i]] = [i \in Indices \ {0} |-> Credits[mode] - state.leaves[i].credits]
  <2>1. ASSUME NEW i \in Indices \ {0}
        PROVE  Spent[i] = Credits[mode] - state.leaves[i].credits
    <3>1. state.leaves[i].credits + BallotCost(state.ballots[i]) = Credits[mode]
      BY DEF StateInv, Conserved
    <3>2. state.leaves[i].credits \in Nat /\ Spent[i] \in Nat
      BY SummandTypes, StateFields DEF StateInv
    <3>3. Spent[i] = BallotCost(state.ballots[i])
      BY DEF Spent
    <3> QED
      BY <3>1, <3>2, <3>3
  <2> QED
    BY <2>1
<1>7. totalSpentVoiceCredits = SumOver(Spent, Indices \ {0})
  BY <1>2, <1>4, <1>5 DEF TallyInv
<1> QED
  BY <1>3, <1>6, <1>7 DEF SumOver

LEMMA CountsFollow ==
    ASSUME StateInv, TallyInv, mode # "FULL"
    PROVE  CountsAddUp
<1>1. CreditsConserved
  BY DEF StateInv, Conserved, BallotCost, CreditsConserved
<1>2. TallyAddsUp
  BY TallyIsWhole DEF TallyAddsUp
<1> QED
  BY <1>1, <1>2 DEF CountsAddUp

LEMMA GenerateIsNext ==
    ASSUME [Generate]_vars
    PROVE  [Next]_vars
  BY DEF Generate, Next, Tally

(* Credits and votes add up in every ballot and in the tally (Poll.ts processMessage, tallyVotes),
   in the modes that let a voter have votes for several options: with mode FULL, a message whose
   votes are none replaces votes that are paid for. *)
THEOREM CreditsAndVotesAddUp == GeneratorSpec => [](mode # "FULL" => CountsAddUp)
<1>1. Init => StateInv /\ TallyInv
  BY StateInvStarts, TallyInvStarts
<1>2. StateInv /\ TallyInv /\ [Generate]_vars => (StateInv /\ TallyInv)'
  BY StateInvNext, TallyInvNext, GenerateIsNext
<1>3. StateInv /\ TallyInv => (mode # "FULL" => CountsAddUp)
  BY CountsFollow
<1> QED
  BY <1>1, <1>2, <1>3, PTL DEF GeneratorSpec

(* The types, in every order in which ProofGenerator.ts calls the poll. *)
THEOREM PollTypes == GeneratorSpec => []TypeOK
<1>1. Init => StateInv /\ TallyInv /\ MessagesInv
  BY StateInvStarts, TallyInvStarts, MessagesInvStarts
<1>2. StateInv /\ TallyInv /\ MessagesInv /\ [Generate]_vars => (StateInv /\ TallyInv /\ MessagesInv)'
  BY StateInvNext, TallyInvNext, MessagesInvNext, GenerateIsNext
<1>3. StateInv /\ TallyInv /\ MessagesInv => TypeOK
  <2> SUFFICES ASSUME StateInv, TallyInv, MessagesInv
               PROVE  TypeOK
    OBVIOUS
  <2>1. state \in States /\ numBatchesTallied \in Nat /\ BatchStart \in Nat
    BY ConstantsAre DEF StateInv, TallyInv, BatchStart
  <2>2. ASSUME NEW f \in [Indices -> Nat]
        PROVE  SumOver(f, First(BatchStart)) \in Nat
    <3>1. First(BatchStart) \in SUBSET Indices /\ IsFiniteSet(First(BatchStart))
      BY <2>1, FirstAre, FS_Subset, ConstantsAre
    <3>2. [i \in First(BatchStart) |-> f[i]] \in [First(BatchStart) -> Nat]
      BY <3>1
    <3> QED
      BY <3>1, <3>2, SumType DEF SumOver
  <2>3. totalSpentVoiceCredits \in Nat /\ tallyResult \in [Options -> Nat]
    BY <2>1, <2>2, SummandTypes DEF TallyInv
  <2> QED
    BY <2>1, <2>3, TypesFollow
<1> QED
  BY <1>1, <1>2, <1>3, PTL DEF GeneratorSpec

-----------------------------------------------------------------------------
(* Roots and paths: sequences of leaves, and what is left of them without one. *)

LEMMA Reinserted ==
    ASSUME NEW S, NEW r \in Seq(S), NEW k \in 1..Len(r), NEW x \in S
    PROVE  InsertAt(RemoveAt(r, k), k, x) = [r EXCEPT ![k] = x]
<1> DEFINE a == SubSeq(r, 1, k - 1)
           b == SubSeq(r, k + 1, Len(r))
           p == a \o b
           n == Len(r)
<1>1. n \in Nat /\ k \in Nat /\ k >= 1 /\ k <= n
  OBVIOUS
<1>2. a \in Seq(S) /\ Len(a) = k - 1 /\ \A i \in 1..(k - 1) : a[i] = r[i]
  OBVIOUS
<1>3. b \in Seq(S) /\ Len(b) = n - k /\ \A i \in 1..(n - k) : b[i] = r[k + i]
  OBVIOUS
<1> HIDE DEF a, b, n
<1>4. p \in Seq(S) /\ Len(p) = n - 1 /\ (\A i \in 1..(k - 1) : p[i] = r[i]) /\ \A i \in k..(n - 1) : p[i] = r[i + 1]
  <2>1. /\ p \in Seq(S) /\ Len(p) = (k - 1) + (n - k)
        /\ \A i \in 1..((k - 1) + (n - k)) : p[i] = IF i <= k - 1 THEN a[i] ELSE b[i - (k - 1)]
    <3>1. a \in Seq(S) /\ b \in Seq(S)
      BY <1>2, <1>3
    <3>2. /\ a \o b \in Seq(S) /\ Len(a \o b) = Len(a) + Len(b)
          /\ \A i \in 1..(Len(a) + Len(b)) : (a \o b)[i] = IF i <= Len(a) THEN a[i] ELSE b[i - Len(a)]
      BY <3>1, ConcatProperties
    <3> QED
      BY <1>2, <1>3, <3>2
  <2> HIDE DEF p
  <2>2. (k - 1) + (n - k) = n - 1
    BY <1>1
  <2>3. \A i \in 1..(k - 1) : p[i] = r[i]
    BY <1>1, <1>2, <2>1
  <2>4. ASSUME NEW i \in k..(n - 1)
        PROVE  p[i] = r[i + 1]
    <3>1. i \in 1..((k - 1) + (n - k)) /\ ~(i <= k - 1) /\ i - (k - 1) \in 1..(n - k) /\ k + (i - (k - 1)) = i + 1
      BY <1>1
    <3> QED
      BY <1>3, <2>1, <3>1
  <2> QED
    BY <2>1, <2>2, <2>3, <2>4
<1> HIDE DEF p
<1> DEFINE c == SubSeq(p, 1, k - 1)
           d == SubSeq(p, k, Len(p))
<1>5. c \in Seq(S) /\ Len(c) = k - 1 /\ \A i \in 1..(k - 1) : c[i] = r[i]
  BY <1>1, <1>4
<1>6. d \in Seq(S) /\ Len(d) = n - k /\ \A i \in 1..(n - k) : d[i] = r[k + i]
  BY <1>1, <1>4
<1> HIDE DEF c, d
<1> DEFINE q == c \o <<x>> \o d
<1>7. q \in Seq(S) /\ Len(q) = n /\ (\A i \in 1..(k - 1) : q[i] = r[i]) /\ q[k] = x
      /\ \A i \in (k + 1)..n : q[i] = r[i]
  <2> DEFINE e == c \o <<x>>
  <2>1. <<x>> \in Seq(S) /\ Len(<<x>>) = 1 /\ <<x>>[1] = x
    OBVIOUS
  <2>2. /\ e \in Seq(S) /\ Len(e) = (k - 1) + 1
        /\ \A i \in 1..((k - 1) + 1) : e[i] = IF i <= k - 1 THEN c[i] ELSE <<x>>[i - (k - 1)]
    BY <1>5, <2>1, ConcatProperties
  <2> HIDE DEF e
  <2>3. Len(e) = k /\ e[k] = x /\ \A i \in 1..(k - 1) : e[i] = r[i]
    <3>1. (k - 1) + 1 = k /\ k \in 1..k /\ ~(k <= k - 1) /\ k - (k - 1) = 1
      BY <1>1
    <3>2. \A i \in 1..(k - 1) : i \in 1..k /\ i <= k - 1
      BY <1>1
    <3> QED
      BY <1>5, <2>1, <2>2, <3>1, <3>2
  <2>4. /\ e \o d \in Seq(S) /\ Len(e \o d) = k + (n - k)
        /\ \A i \in 1..(k + (n - k)) : (e \o d)[i] = IF i <= k THEN e[i] ELSE d[i - k]
    <3>1. e \in Seq(S) /\ d \in Seq(S)
      BY <1>6, <2>2
    <3>2. /\ e \o d \in Seq(S) /\ Len(e \o d) = Len(e) + Len(d)
          /\ \A i \in 1..(Len(e) + Len(d)) : (e \o d)[i] = IF i <= Len(e) THEN e[i] ELSE d[i - Len(e)]
      BY <3>1, ConcatProperties
    <3> QED
      BY <1>6, <2>3, <3>2
  <2>5. q = e \o d
    BY DEF e
  <2> HIDE DEF q
  <2>6. k + (n - k) = n
    BY <1>1
  <2>7. ASSUME NEW i \in (k + 1)..n
        PROVE  q[i] = r[i]
    <3>1. i \in 1..n /\ ~(i <= k) /\ i - k \in 1..(n - k) /\ k + (i - k) = i
      BY <1>1
    <3> QED
      BY <1>6, <2>4, <2>5, <2>6, <3>1
  <2>8. (\A i \in 1..(k - 1) : q[i] = r[i]) /\ q[k] = x
    <3>1. k \in 1..n /\ k <= k /\ \A i \in 1..(k - 1) : i \in 1..n /\ i <= k
      BY <1>1
    <3> QED
      BY <2>3, <2>4, <2>5, <2>6, <3>1
  <2> QED
    BY <2>4, <2>5, <2>6, <2>7, <2>8
<1>8. InsertAt(RemoveAt(r, k), k, x) = q
  BY DEF InsertAt, RemoveAt, q, c, d, p, a, b, n
<1> HIDE DEF q
<1>9. q = [r EXCEPT ![k] = x]
  BY <1>1, <1>7 DEF n
<1> QED
  BY <1>8, <1>9

IsInOrder(r, S, f, size, zero) ==
    /\ r \in Seq(S) /\ Len(r) = size
    /\ r = [k \in 1..size |-> IF k - 1 \in DOMAIN f THEN f[k - 1] ELSE zero]
    /\ \A i \in DOMAIN f : i + 1 \in 1..size /\ r[i + 1] = f[i]

LEMMA InOrderIs ==
    ASSUME NEW S, NEW n \in Nat, NEW f \in [0..(n - 1) -> S],
           NEW size \in Nat, size >= n, NEW zero \in S
    PROVE  IsInOrder(InOrder(f, size, zero), S, f, size, zero)
<1> DEFINE r == [k \in 1..size |-> IF k - 1 \in DOMAIN f THEN f[k - 1] ELSE zero]
<1>1. \A k \in 1..size : (IF k - 1 \in DOMAIN f THEN f[k - 1] ELSE zero) \in S
  OBVIOUS
<1>2. r \in [1..size -> S]
  BY <1>1
<1>3. InOrder(f, size, zero) = r
  BY DEF InOrder
<1>4. r \in Seq(S) /\ Len(r) = size
  <2> HIDE DEF r
  <2>1. r \in Seq(S)
    BY <1>2, SeqDef
  <2>2. DOMAIN r = 1..size
    BY <1>2
  <2> QED
    BY <2>1, <2>2, LenProperties
<1>5. ASSUME NEW i \in DOMAIN f
      PROVE  i + 1 \in 1..size /\ r[i + 1] = f[i]
  <2>1. i + 1 \in 1..size /\ (i + 1) - 1 = i
    OBVIOUS
  <2> QED
    BY <2>1
<1> HIDE DEF r
<1>6. r = [k \in 1..size |-> IF k - 1 \in DOMAIN f THEN f[k - 1] ELSE zero]
  BY DEF r
<1> QED
  BY <1>3, <1>4, <1>5, <1>6 DEF IsInOrder

Leaf == [key : Keys \union {PadKey}, credits : Nat]
CircuitBallot == [nonce : Nat, votes : Seq(Nat)]

(* There is a depth at which the tree has room for every leaf. *)
LEMMA TreeFits ==
    LET size == TreeSize[ActualStateTreeDepth] IN size \in Nat /\ size >= TotalSignups
<1> DEFINE n == TotalSignups
           F == [p \in (1..n) \X Nat |-> 2 * p[2]]
           Rec(h) == h = [d \in 0..n |-> IF d = 0 THEN 1 ELSE 2 * h[d - 1]]
<1>1. n \in Nat \ {0}
  BY ConstantsAre
<1>2. F \in [(1..n) \X Nat -> Nat] /\ \A k \in 1..n : \A x \in Nat : F[<<k, x>>] = 2 * x
  OBVIOUS
<1> HIDE DEF n, F
<1>3. PICK g : IsIteration(g, Nat, n, 1, F)
  <2>1. 1 \in Nat /\ n \in Nat
    BY <1>1
  <2> QED
    BY <1>2, <2>1, Iterated
<1>4. g \in [0..n -> Nat] /\ g[0] = 1 /\ \A k \in 1..n : g[k] = F[<<k, g[k - 1]>>]
  BY <1>3 DEF IsIteration
<1>5. \A k \in 1..n : g[k] = 2 * g[k - 1]
  <2> SUFFICES ASSUME NEW k \in 1..n
               PROVE  g[k] = 2 * g[k - 1]
    OBVIOUS
  <2>1. k - 1 \in 0..n
    BY <1>1
  <2> QED
    BY <1>2, <1>4, <2>1
<1>6. Rec(g)
  <2>1. \A k \in 0..n : g[k] = IF k = 0 THEN 1 ELSE 2 * g[k - 1]
    BY <1>1, <1>4, <1>5
  <2> QED
    BY <1>4, <2>1
<1>7. TreeSize = CHOOSE h : Rec(h)
  BY DEF TreeSize, n
<1>8. Rec(TreeSize)
  <2> HIDE DEF Rec
  <2> QED
    BY <1>6, <1>7
<1> DEFINE t == TreeSize
<1> HIDE DEF t
<1>9. t = [d \in 0..n |-> IF d = 0 THEN 1 ELSE 2 * t[d - 1]]
  BY <1>8 DEF t
<1>10. \A d \in 1..n : t[d] = 2 * t[d - 1]
  <2> SUFFICES ASSUME NEW d \in 1..n
               PROVE  t[d] = 2 * t[d - 1]
    OBVIOUS
  <2>1. d \in 0..n /\ d # 0
    BY <1>1
  <2> QED
    BY <1>9, <2>1
<1> DEFINE N == {d \in Nat : d <= n => t[d] \in Nat /\ t[d] > d}
<1>11. N = Nat
  <2>1. 0 \in N
    BY <1>1, <1>9
  <2>2. ASSUME NEW d \in N
        PROVE  d + 1 \in N
    <3>1. d + 1 <= n => d + 1 \in 1..n /\ d <= n /\ (d + 1) - 1 = d
      BY <1>1
    <3>2. d + 1 <= n => t[d + 1] = 2 * t[d]
      BY <1>10, <3>1
    <3> QED
      BY <3>1, <3>2
  <2> HIDE DEF N
  <2>3. N \in SUBSET Nat
    BY DEF N
  <2> QED
    BY <2>1, <2>2, <2>3, Induction
<1>12. \A d \in 0..n : t[d] \in Nat /\ t[d] > d
  BY <1>1, <1>11
<1> DEFINE Fits == {d \in 1..n : t[d] >= n}
           depth == ActualStateTreeDepth
<1>13. PICK d \in Fits : \A m \in Fits : d <= m
  <2>1. n \in Fits
    BY <1>1, <1>12
  <2>2. Fits \in SUBSET Nat
    BY <1>1
  <2> QED
    BY <2>1, <2>2, Smallest
<1>14. d \in 1..n /\ t[d] >= n /\ (d = 1 \/ t[d - 1] < n)
  <2>1. d \in 1..n /\ t[d] >= n
    OBVIOUS
  <2>2. ASSUME d # 1
        PROVE  t[d - 1] < n
    <3>1. d - 1 \in 1..n /\ d - 1 \in 0..n /\ ~(d <= d - 1)
      BY <1>1, <2>1, <2>2
    <3>2. d - 1 \notin Fits
      BY <1>13, <3>1
    <3> QED
      BY <1>1, <1>12, <3>1, <3>2
  <2> QED
    BY <2>1, <2>2
<1> DEFINE Right(e) == e \in 1..n /\ t[e] >= n /\ (e = 1 \/ t[e - 1] < n)
<1>15. Right(d) /\ depth = CHOOSE e \in 1..n : t[e] >= n /\ (e = 1 \/ t[e - 1] < n)
  BY <1>14 DEF ActualStateTreeDepth, n, t
<1>16. depth \in 1..n /\ t[depth] >= n
  <2> HIDE DEF depth
  <2> QED
    BY <1>14, <1>15
<1> QED
  BY <1>1, <1>12, <1>16 DEF n, t

LEMMA VotesRootIs ==
    ASSUME NEW votes \in [Options -> Nat]
    PROVE  /\ VotesRoot(votes) \in Seq(Nat) /\ Len(VotesRoot(votes)) = MaxVoteOptions
           /\ VotesRoot(votes) = [k \in 1..MaxVoteOptions |-> votes[k - 1]]
           /\ \A o \in Options : o + 1 \in 1..MaxVoteOptions /\ VotesRoot(votes)[o + 1] = votes[o]
<1>1. MaxVoteOptions \in Nat /\ DOMAIN votes = 0..(MaxVoteOptions - 1) /\ \A o \in DOMAIN votes : votes[o] \in Nat
  BY ConstantsAre
<1> DEFINE r == InOrder(votes, MaxVoteOptions, 0)
<1>2. /\ r \in Seq(Nat) /\ Len(r) = MaxVoteOptions
      /\ r = [k \in 1..MaxVoteOptions |-> IF k - 1 \in DOMAIN votes THEN votes[k - 1] ELSE 0]
      /\ \A o \in DOMAIN votes : o + 1 \in 1..MaxVoteOptions /\ r[o + 1] = votes[o]
  <2>1. PICK n \in Nat : n = MaxVoteOptions
    BY <1>1
  <2>2. votes \in [0..(n - 1) -> Nat] /\ n \in Nat /\ n >= n /\ 0 \in Nat
    BY <1>1, <2>1
  <2>3. IsInOrder(InOrder(votes, n, 0), Nat, votes, n, 0)
    BY <2>2, InOrderIs
  <2> HIDE DEF r
  <2> QED
    BY <2>1, <2>3 DEF IsInOrder, r
<1>3. r = [k \in 1..MaxVoteOptions |-> votes[k - 1]]
  <2> HIDE DEF r
  <2>1. \A k \in 1..MaxVoteOptions : k - 1 \in DOMAIN votes
    BY <1>1
  <2> QED
    BY <1>2, <2>1
<1> QED
  BY <1>1, <1>2, <1>3, ConstantsAre DEF VotesRoot

LEMMA BallotInputsAre ==
    ASSUME NEW ballot \in Ballots
    PROVE  /\ BallotInputs(ballot) \in CircuitBallot
           /\ BallotInputs(ballot) = [nonce |-> ballot.nonce, votes |-> VotesRoot(ballot.votes)]
<1>1. ballot.nonce \in Nat /\ ballot.votes \in [Options -> Nat]
  BY DEF Ballots
<1>2. VotesRoot(ballot.votes) \in Seq(Nat)
  BY <1>1, VotesRootIs
<1> QED
  BY <1>1, <1>2 DEF BallotInputs, CircuitBallot

LEMMA StateRootIs ==
    ASSUME NEW st \in States
    PROVE  LET size == TreeSize[ActualStateTreeDepth]
           IN  /\ size \in Nat /\ StateRoot(st) \in Seq(Leaf) /\ Len(StateRoot(st)) = size
               /\ StateRoot(st) = [k \in 1..size |-> IF k - 1 \in Indices THEN st.leaves[k - 1] ELSE st.leaves[0]]
               /\ \A i \in Indices : i + 1 \in 1..size /\ StateRoot(st)[i + 1] = st.leaves[i]
<1> DEFINE size == TreeSize[ActualStateTreeDepth]
<1>1. size \in Nat /\ size >= TotalSignups
  BY TreeFits
<1>2. st.leaves \in [Indices -> Leaf] /\ DOMAIN st.leaves = Indices /\ \A i \in Indices : st.leaves[i] \in Leaf
  BY StateFields DEF Leaf
<1>3. TotalSignups \in Nat /\ Indices = 0..(TotalSignups - 1) /\ st.leaves[0] \in Leaf
  BY <1>2, ConstantsAre
<1> HIDE DEF size
<1> DEFINE r == InOrder(st.leaves, size, st.leaves[0])
<1>4. /\ r \in Seq(Leaf) /\ Len(r) = size
      /\ r = [k \in 1..size |-> IF k - 1 \in DOMAIN st.leaves THEN st.leaves[k - 1] ELSE st.leaves[0]]
      /\ \A i \in DOMAIN st.leaves : i + 1 \in 1..size /\ r[i + 1] = st.leaves[i]
  <2>1. PICK n \in Nat : n = TotalSignups
    BY <1>3
  <2>2. PICK f \in [0..(n - 1) -> Leaf] : f = st.leaves
    BY <1>2, <1>3, <2>1
  <2>3. PICK zero \in Leaf : zero = st.leaves[0]
    BY <1>3
  <2>4. IsInOrder(InOrder(f, size, zero), Leaf, f, size, zero)
    BY <1>1, <2>1, InOrderIs
  <2> HIDE DEF r
  <2> QED
    BY <2>2, <2>3, <2>4 DEF IsInOrder, r
<1> QED
  BY <1>1, <1>2, <1>4 DEF StateRoot, size

LEMMA BallotRootIs ==
    ASSUME NEW st \in States
    PROVE  /\ BallotRoot(st) \in Seq(CircuitBallot) /\ Len(BallotRoot(st)) = MaxLeaves
           /\ BallotRoot(st) = [k \in 1..MaxLeaves |->
                  IF k - 1 \in Indices THEN BallotInputs(st.ballots[k - 1]) ELSE BallotInputs(EmptyBallot)]
           /\ \A i \in Indices : i + 1 \in 1..MaxLeaves /\ BallotRoot(st)[i + 1] = BallotInputs(st.ballots[i])
<1> DEFINE f == [i \in Indices |-> BallotInputs(st.ballots[i])]
           zero == BallotInputs(EmptyBallot)
<1>1. EmptyBallot \in Ballots /\ \A i \in Indices : st.ballots[i] \in Ballots
  BY StateFields DEF EmptyBallot, Ballots
<1>2. zero \in CircuitBallot /\ DOMAIN f = Indices /\ \A i \in Indices : f[i] \in CircuitBallot
                                                                      /\ f[i] = BallotInputs(st.ballots[i])
  BY <1>1, BallotInputsAre
<1>3. TotalSignups \in Nat /\ Indices = 0..(TotalSignups - 1) /\ MaxLeaves \in Nat /\ MaxLeaves >= TotalSignups
  BY ConstantsAre
<1>4. BallotRoot(st) = InOrder(f, MaxLeaves, zero)
  BY DEF BallotRoot
<1> HIDE DEF f, zero
<1> DEFINE r == InOrder(f, MaxLeaves, zero)
<1>5. /\ r \in Seq(CircuitBallot) /\ Len(r) = MaxLeaves
      /\ r = [k \in 1..MaxLeaves |-> IF k - 1 \in DOMAIN f THEN f[k - 1] ELSE zero]
      /\ \A i \in DOMAIN f : i + 1 \in 1..MaxLeaves /\ r[i + 1] = f[i]
  <2>1. PICK n \in Nat : n = TotalSignups
    BY <1>3
  <2>2. f \in [0..(n - 1) -> CircuitBallot]
    BY <1>2, <1>3, <2>1 DEF f
  <2>3. IsInOrder(InOrder(f, MaxLeaves, zero), CircuitBallot, f, MaxLeaves, zero)
    BY <1>2, <1>3, <2>1, <2>2, InOrderIs
  <2> HIDE DEF r
  <2> QED
    BY <2>3 DEF IsInOrder, r
<1>6. r = [k \in 1..MaxLeaves |->
              IF k - 1 \in Indices THEN BallotInputs(st.ballots[k - 1]) ELSE BallotInputs(EmptyBallot)]
  <2> HIDE DEF r
  <2>1. \A k \in 1..MaxLeaves :
          (IF k - 1 \in DOMAIN f THEN f[k - 1] ELSE zero) =
          (IF k - 1 \in Indices THEN BallotInputs(st.ballots[k - 1]) ELSE BallotInputs(EmptyBallot))
    BY <1>2 DEF zero
  <2> QED
    BY <1>5, <2>1
<1> QED
  BY <1>2, <1>4, <1>5, <1>6

(* A changed leaf changes the root there and nowhere else. *)
LEMMA RootsChange ==
    ASSUME NEW st \in States, NEW next \in States, NEW i \in Indices \ {0},
           \A j \in Indices \ {i} : next.leaves[j] = st.leaves[j] /\ next.ballots[j] = st.ballots[j]
    PROVE  /\ StateRoot(next) = InsertAt(PathOf(StateRoot(st), i), i + 1, next.leaves[i])
           /\ BallotRoot(next) = InsertAt(PathOf(BallotRoot(st), i), i + 1, BallotInputs(next.ballots[i]))
<1>1. i \in Nat /\ i + 1 - 1 = i /\ 0 \in Indices \ {i}
  BY ConstantsAre
<1>2. StateRoot(next) = InsertAt(PathOf(StateRoot(st), i), i + 1, next.leaves[i])
  <2> DEFINE size == TreeSize[ActualStateTreeDepth]
             r == StateRoot(st)
             q == StateRoot(next)
  <2>1. /\ size \in Nat /\ r \in Seq(Leaf) /\ Len(r) = size /\ i + 1 \in 1..size
        /\ r = [k \in 1..size |-> IF k - 1 \in Indices THEN st.leaves[k - 1] ELSE st.leaves[0]]
    BY StateRootIs
  <2>2. q = [k \in 1..size |-> IF k - 1 \in Indices THEN next.leaves[k - 1] ELSE next.leaves[0]]
    BY StateRootIs
  <2>3. next.leaves[i] \in Leaf
    BY StateFields DEF Leaf
  <2> HIDE DEF size, r, q
  <2>4. InsertAt(RemoveAt(r, i + 1), i + 1, next.leaves[i]) = [r EXCEPT ![i + 1] = next.leaves[i]]
    <3>1. PICK k \in 1..Len(r) : k = i + 1
      BY <2>1
    <3>2. PICK y \in Leaf : y = next.leaves[i]
      BY <2>3
    <3>3. r \in Seq(Leaf)
      BY <2>1
    <3>4. InsertAt(RemoveAt(r, k), k, y) = [r EXCEPT ![k] = y]
      BY <3>3, Reinserted
    <3> QED
      BY <3>1, <3>2, <3>4
  <2>5. \A k \in 1..size : q[k] = [r EXCEPT ![i + 1] = next.leaves[i]][k]
    <3> SUFFICES ASSUME NEW k \in 1..size
                 PROVE  q[k] = [r EXCEPT ![i + 1] = next.leaves[i]][k]
      OBVIOUS
    <3>1. CASE k = i + 1
      BY <1>1, <2>1, <2>2, <3>1
    <3>2. CASE k # i + 1
      <4>1. k - 1 # i /\ k \in Nat
        BY <1>1, <2>1, <3>2
      <4> QED
        BY <1>1, <2>1, <2>2, <3>2, <4>1
    <3> QED
      BY <3>1, <3>2
  <2>6. q = [r EXCEPT ![i + 1] = next.leaves[i]]
    BY <2>1, <2>2, <2>5
  <2> QED
    BY <2>4, <2>6 DEF PathOf, r, q
<1>3. BallotRoot(next) = InsertAt(PathOf(BallotRoot(st), i), i + 1, BallotInputs(next.ballots[i]))
  <2> DEFINE r == BallotRoot(st)
             q == BallotRoot(next)
             x == BallotInputs(next.ballots[i])
             size == MaxLeaves
  <2>1. /\ size \in Nat /\ r \in Seq(CircuitBallot) /\ Len(r) = size /\ i + 1 \in 1..size
        /\ r = [k \in 1..size |->
                  IF k - 1 \in Indices THEN BallotInputs(st.ballots[k - 1]) ELSE BallotInputs(EmptyBallot)]
    BY BallotRootIs, ConstantsAre
  <2>2. q = [k \in 1..size |->
                  IF k - 1 \in Indices THEN BallotInputs(next.ballots[k - 1]) ELSE BallotInputs(EmptyBallot)]
    BY BallotRootIs
  <2>3. x \in CircuitBallot
    BY StateFields, BallotInputsAre
  <2> HIDE DEF size, r, q
  <2>4. InsertAt(RemoveAt(r, i + 1), i + 1, x) = [r EXCEPT ![i + 1] = x]
    <3>1. PICK k \in 1..Len(r) : k = i + 1
      BY <2>1
    <3>2. PICK y \in CircuitBallot : y = x
      BY <2>3
    <3>3. r \in Seq(CircuitBallot)
      BY <2>1
    <3>4. InsertAt(RemoveAt(r, k), k, y) = [r EXCEPT ![k] = y]
      BY <3>3, Reinserted
    <3> QED
      BY <3>1, <3>2, <3>4
  <2>5. \A k \in 1..size : q[k] = [r EXCEPT ![i + 1] = x][k]
    <3> SUFFICES ASSUME NEW k \in 1..size
                 PROVE  q[k] = [r EXCEPT ![i + 1] = x][k]
      OBVIOUS
    <3>1. CASE k = i + 1
      BY <1>1, <2>1, <2>2, <3>1
    <3>2. CASE k # i + 1
      <4>1. k - 1 # i /\ k \in Nat
        BY <1>1, <2>1, <3>2
      <4>2. [r EXCEPT ![i + 1] = x][k] = r[k]
        BY <2>1, <3>2
      <4> QED
        BY <1>1, <2>1, <2>2, <4>1, <4>2
    <3> QED
      BY <3>1, <3>2
  <2>6. q = [r EXCEPT ![i + 1] = x]
    BY <2>1, <2>2, <2>5
  <2> QED
    BY <2>4, <2>6 DEF PathOf, r, q
<1> QED
  BY <1>2, <1>3

LEMMA VotesChange ==
    ASSUME NEW votes \in [Options -> Nat], NEW o \in Options, NEW w \in Nat
    PROVE  VotesRoot([votes EXCEPT ![o] = w]) = InsertAt(PathOf(VotesRoot(votes), o), o + 1, w)
<1> DEFINE r == VotesRoot(votes)
           next == [votes EXCEPT ![o] = w]
           q == VotesRoot(next)
           size == MaxVoteOptions
<1>1. next \in [Options -> Nat] /\ o \in Nat /\ size \in Nat
  BY ConstantsAre
<1>2. r \in Seq(Nat) /\ Len(r) = size /\ o + 1 \in 1..size /\ r = [k \in 1..size |-> votes[k - 1]]
  BY VotesRootIs
<1>3. q = [k \in 1..size |-> next[k - 1]]
  BY <1>1, VotesRootIs
<1> HIDE DEF r, q, size
<1>4. InsertAt(RemoveAt(r, o + 1), o + 1, w) = [r EXCEPT ![o + 1] = w]
  <2>1. PICK k \in 1..Len(r) : k = o + 1
    BY <1>2
  <2>2. r \in Seq(Nat)
    BY <1>2
  <2>3. InsertAt(RemoveAt(r, k), k, w) = [r EXCEPT ![k] = w]
    BY <2>2, Reinserted
  <2> QED
    BY <2>1, <2>3
<1>5. \A k \in 1..size : q[k] = [r EXCEPT ![o + 1] = w][k]
  <2> SUFFICES ASSUME NEW k \in 1..size
               PROVE  q[k] = [r EXCEPT ![o + 1] = w][k]
    OBVIOUS
  <2>1. k - 1 \in Options
    BY <1>1, ConstantsAre DEF size
  <2>2. CASE k = o + 1
    BY <1>1, <1>2, <1>3, <2>2
  <2>3. CASE k # o + 1
    <3>1. k - 1 # o
      BY <1>1, <2>3
    <3> QED
      BY <1>2, <1>3, <2>1, <2>3, <3>1
  <2> QED
    BY <2>2, <2>3
<1>6. q = [r EXCEPT ![o + 1] = w]
  BY <1>2, <1>3, <1>5
<1> QED
  BY <1>4, <1>6 DEF PathOf, r, q

(* What was taken out and is put back gives the root. *)
LEMMA PathsLead ==
    ASSUME NEW st \in States, NEW i \in Indices
    PROVE  /\ InsertAt(PathOf(StateRoot(st), i), i + 1, st.leaves[i]) = StateRoot(st)
           /\ InsertAt(PathOf(BallotRoot(st), i), i + 1, BallotInputs(st.ballots[i])) = BallotRoot(st)
           /\ \A o \in Options :
                 InsertAt(PathOf(VotesRoot(st.ballots[i].votes), o), o + 1, st.ballots[i].votes[o])
                    = VotesRoot(st.ballots[i].votes)
<1>1. InsertAt(PathOf(StateRoot(st), i), i + 1, st.leaves[i]) = StateRoot(st)
  <2> DEFINE r == StateRoot(st)
  <2>1. r \in Seq(Leaf) /\ i + 1 \in 1..Len(r) /\ r[i + 1] = st.leaves[i] /\ st.leaves[i] \in Leaf
    BY StateRootIs, StateFields DEF Leaf
  <2> HIDE DEF r
  <2>2. InsertAt(RemoveAt(r, i + 1), i + 1, st.leaves[i]) = [r EXCEPT ![i + 1] = st.leaves[i]]
    <3>1. PICK k \in 1..Len(r) : k = i + 1
      BY <2>1
    <3>2. PICK y \in Leaf : y = st.leaves[i]
      BY <2>1
    <3>3. InsertAt(RemoveAt(r, k), k, y) = [r EXCEPT ![k] = y]
      BY <2>1, Reinserted
    <3> QED
      BY <3>1, <3>2, <3>3
  <2>3. [r EXCEPT ![i + 1] = st.leaves[i]] = r
    BY <2>1
  <2> QED
    BY <2>2, <2>3 DEF PathOf, r
<1>2. InsertAt(PathOf(BallotRoot(st), i), i + 1, BallotInputs(st.ballots[i])) = BallotRoot(st)
  <2> DEFINE r == BallotRoot(st)
             x == BallotInputs(st.ballots[i])
  <2>1. r \in Seq(CircuitBallot) /\ i + 1 \in 1..Len(r) /\ r[i + 1] = x /\ x \in CircuitBallot
    BY BallotRootIs, StateFields, BallotInputsAre
  <2> HIDE DEF r, x
  <2>2. InsertAt(RemoveAt(r, i + 1), i + 1, x) = [r EXCEPT ![i + 1] = x]
    <3>1. PICK k \in 1..Len(r) : k = i + 1
      BY <2>1
    <3>2. InsertAt(RemoveAt(r, k), k, x) = [r EXCEPT ![k] = x]
      BY <2>1, Reinserted
    <3> QED
      BY <3>1, <3>2
  <2>3. [r EXCEPT ![i + 1] = x] = r
    BY <2>1
  <2> QED
    BY <2>2, <2>3 DEF PathOf, r, x
<1>3. ASSUME NEW o \in Options
      PROVE  InsertAt(PathOf(VotesRoot(st.ballots[i].votes), o), o + 1, st.ballots[i].votes[o])
                = VotesRoot(st.ballots[i].votes)
  <2>1. PICK votes \in [Options -> Nat] : votes = st.ballots[i].votes
    BY StateFields
  <2>2. votes[o] \in Nat /\ [votes EXCEPT ![o] = votes[o]] = votes
    OBVIOUS
  <2>3. PICK w \in Nat : w = votes[o]
    BY <2>2
  <2>4. VotesRoot([votes EXCEPT ![o] = w]) = InsertAt(PathOf(VotesRoot(votes), o), o + 1, w)
    BY VotesChange
  <2> QED
    BY <2>1, <2>2, <2>3, <2>4
<1> QED
  BY <1>1, <1>2, <1>3

-----------------------------------------------------------------------------
(* One message in the circuit. *)

\* What SingleMessageProcessor comes to in a mode whose votes have a price.
Accepted(w, c) ==
    /\ c.index < TotalSignups /\ c.option < VoteOptions
    /\ c.nonce = w.ballot.nonce + 1 /\ c.signer = w.leaf.key
    /\ Cost(w.weight) + w.leaf.credits >= Cost(c.weight)

Outcome(roots, w, c) ==
    LET i == IF c.index < TotalSignups THEN c.index ELSE 0
        o == IF c.option < VoteOptions THEN c.option ELSE 0
        leaf == [key |-> IF Accepted(w, c) THEN c.key ELSE w.leaf.key,
                 credits |-> IF Accepted(w, c) THEN w.leaf.credits + Cost(w.weight) - Cost(c.weight)
                             ELSE w.leaf.credits]
        ballot == [nonce |-> IF Accepted(w, c) THEN c.nonce ELSE w.ballot.nonce,
                   votes |-> IF Accepted(w, c) THEN InsertAt(w.weightPath, o + 1, c.weight)
                             ELSE w.ballot.votes]
    IN  [holds |-> /\ roots.holds
                   /\ InsertAt(w.leafPath, i + 1, w.leaf) = roots.state
                   /\ InsertAt(w.ballotPath, i + 1, w.ballot) = roots.ballots
                   /\ InsertAt(w.weightPath, o + 1, w.weight) = w.ballot.votes,
         state |-> InsertAt(w.leafPath, i + 1, leaf),
         ballots |-> InsertAt(w.ballotPath, i + 1, ballot)]

LEMMA OutcomeQv ==
    ASSUME mode = "QV", NEW in, in.totalSignups = TotalSignups, in.voteOptions = VoteOptions,
           NEW roots, NEW w, NEW c
    PROVE  SingleMessageProcessorQv(in, roots, w, c) = Outcome(roots, w, c)
<1>1. \A x : Cost(x) = x * x
  BY DEF Cost
<1> HIDE DEF Cost
<1>2. Accepted(w, c) <=> MessageValidatorQv(in, w.leaf, w.ballot, w.weight, c).isValid
  BY <1>1 DEF Accepted, MessageValidatorQv, Validate, SufficientSquares, VerifySignature
<1> QED
  BY <1>1, <1>2 DEF SingleMessageProcessorQv, ProcessSingle, StateLeafAndBallotTransformerQv, Transform,
     MessageValidatorQv, Validate, Squared, Outcome, BinaryMerkleRoot, MerkleTreeInclusionProof,
     QuinaryTreeInclusionProof

LEMMA OutcomeNonQv ==
    ASSUME mode = "NON_QV", NEW in, in.totalSignups = TotalSignups, in.voteOptions = VoteOptions,
           NEW roots, NEW w, NEW c
    PROVE  SingleMessageProcessorNonQv(in, roots, w, c) = Outcome(roots, w, c)
<1>1. \A x : Cost(x) = x
  BY DEF Cost
<1> HIDE DEF Cost
<1>2. Accepted(w, c) <=> MessageValidatorNonQv(in, w.leaf, w.ballot, w.weight, c).isValid
  BY <1>1 DEF Accepted, MessageValidatorNonQv, Validate, Sufficient, VerifySignature
<1>3. Cost(w.weight) = AsGiven(w.weight) /\ Cost(c.weight) = AsGiven(c.weight)
  BY <1>1 DEF AsGiven
<1> QED
  BY <1>2, <1>3 DEF SingleMessageProcessorNonQv, ProcessSingle, StateLeafAndBallotTransformerNonQv, Transform,
     MessageValidatorNonQv, Validate, Outcome, BinaryMerkleRoot, MerkleTreeInclusionProof,
     QuinaryTreeInclusionProof

(* Where there are no votes, every path is the same. *)
LEMMA NoVotes ==
    LET none == [n \in 1..MaxVoteOptions |-> 0]
    IN  /\ VotesRoot(EmptyBallot.votes) = none
        /\ InOrder([o \in {0} |-> EmptyBallot.votes[o]], MaxVoteOptions, 0) = none
        /\ \A o \in Options : PathOf(none, o) = PathOf(none, 0) /\ InsertAt(PathOf(none, o), o + 1, 0) = none
<1> DEFINE none == [n \in 1..MaxVoteOptions |-> 0]
           size == MaxVoteOptions
<1>1. size \in Nat \ {0} /\ Options = 0..(size - 1) /\ \A o \in Options : EmptyBallot.votes[o] = 0
  BY ConstantsAre DEF EmptyBallot
<1>2. none \in Seq(Nat) /\ Len(none) = size /\ \A n \in 1..size : none[n] = 0
  BY <1>1
<1>3. VotesRoot(EmptyBallot.votes) = none
  <2>1. EmptyBallot.votes \in [Options -> Nat]
    BY DEF EmptyBallot
  <2>2. VotesRoot(EmptyBallot.votes) = [k \in 1..size |-> EmptyBallot.votes[k - 1]]
    BY <2>1, VotesRootIs
  <2>3. \A k \in 1..size : EmptyBallot.votes[k - 1] = 0
    BY <1>1
  <2> QED
    BY <2>2, <2>3
<1>4. InOrder([o \in {0} |-> EmptyBallot.votes[o]], size, 0) = none
  <2>1. \A n \in 1..size : n - 1 \in {0} => EmptyBallot.votes[n - 1] = 0
    BY <1>1
  <2> QED
    BY <2>1 DEF InOrder
<1> HIDE DEF none, size
<1>5. ASSUME NEW o \in Options
      PROVE  /\ PathOf(none, o) \in Seq(Nat) /\ Len(PathOf(none, o)) = size - 1
             /\ \A n \in 1..(size - 1) : PathOf(none, o)[n] = 0
  <2>1. PICK k \in 1..size : k = o + 1
    BY <1>1
  <2> DEFINE a == SubSeq(none, 1, k - 1)
             b == SubSeq(none, k + 1, Len(none))
  <2>2. k \in Nat /\ size \in Nat /\ k >= 1 /\ k <= size
    BY <1>1, <2>1
  <2>3. a \in Seq(Nat) /\ Len(a) = k - 1 /\ \A n \in 1..(k - 1) : a[n] = 0
    BY <1>2, <2>2
  <2>4. b \in Seq(Nat) /\ Len(b) = size - k /\ \A n \in 1..(size - k) : b[n] = 0
    BY <1>2, <2>2
  <2>5. PathOf(none, o) = a \o b
    BY <2>1 DEF PathOf, RemoveAt
  <2> HIDE DEF a, b
  <2>6. /\ a \o b \in Seq(Nat) /\ Len(a \o b) = Len(a) + Len(b)
        /\ \A n \in 1..(Len(a) + Len(b)) : (a \o b)[n] = IF n <= Len(a) THEN a[n] ELSE b[n - Len(a)]
    BY <2>3, <2>4, ConcatProperties
  <2>7. Len(a) + Len(b) = size - 1
    BY <2>2, <2>3, <2>4
  <2>8. ASSUME NEW n \in 1..(size - 1)
        PROVE  (a \o b)[n] = 0
    <3>1. CASE n <= Len(a)
      BY <2>2, <2>3, <2>6, <2>7, <3>1
    <3>2. CASE ~(n <= Len(a))
      <4>1. n - Len(a) \in 1..(size - k)
        BY <2>2, <2>3, <3>2
      <4> QED
        BY <2>4, <2>6, <2>7, <3>2, <4>1
    <3> QED
      BY <3>1, <3>2
  <2> QED
    BY <2>5, <2>6, <2>7, <2>8
<1>6. ASSUME NEW o \in Options
      PROVE  PathOf(none, o) = PathOf(none, 0)
  <2>1. PICK p \in Seq(Nat) : p = PathOf(none, o)
    BY <1>5
  <2>2. PICK q \in Seq(Nat) : q = PathOf(none, 0)
    BY <1>5, ConstantsAre
  <2>3. Len(p) = size - 1 /\ Len(q) = size - 1 /\ \A n \in 1..(size - 1) : p[n] = 0 /\ q[n] = 0
    BY <1>5, <2>1, <2>2, ConstantsAre
  <2>4. Len(p) = Len(q) /\ \A n \in 1..Len(p) : p[n] = q[n]
    BY <2>3
  <2>5. p = q
    BY <2>4, SeqEqual
  <2> QED
    BY <2>1, <2>2, <2>5
<1>7. ASSUME NEW o \in Options
      PROVE  InsertAt(PathOf(none, o), o + 1, 0) = none
  <2>1. PICK k \in 1..Len(none) : k = o + 1
    BY <1>1, <1>2
  <2>2. none \in Seq(Nat) /\ 0 \in Nat
    BY <1>2
  <2>3. InsertAt(RemoveAt(none, k), k, 0) = [none EXCEPT ![k] = 0]
    BY <2>2, Reinserted
  <2>4. [none EXCEPT ![k] = 0] = none
    BY <1>1, <1>2
  <2> QED
    BY <2>1, <2>3, <2>4 DEF PathOf
<1> QED
  BY <1>3, <1>4, <1>6, <1>7 DEF none, size

(* The witness of a slot is what the roots hold at the index and the option the circuit takes. *)
NamedLeaf(c) == IF c.index < TotalSignups THEN c.index ELSE 0
NamedOption(c) == IF c.option < VoteOptions THEN c.option ELSE 0

LEMMA WitnessIs ==
    ASSUME NEW st, Conserved(st), messages \in Seq(Message), NEW index \in Nat \ {0},
           NEW s \in 1..MessageBatchSize
    PROVE  LET c == Slot(index, s)
               i == NamedLeaf(c)
               o == NamedOption(c)
               w == Witness(st, index, s)
           IN  /\ i \in Indices /\ o \in Options
               /\ w.leaf = st.leaves[i] /\ w.leafPath = PathOf(StateRoot(st), i)
               /\ w.ballot = BallotInputs(st.ballots[i]) /\ w.ballotPath = PathOf(BallotRoot(st), i)
               /\ w.weight = st.ballots[i].votes[o]
               /\ w.weightPath = PathOf(VotesRoot(st.ballots[i].votes), o)
<1> DEFINE c == Slot(index, s)
           i == NamedLeaf(c)
           o == NamedOption(c)
           w == Witness(st, index, s)
<1>1. c \in Message /\ c.index \in Nat /\ c.option \in Nat
  BY SlotType DEF Message
<1>2. i \in Indices /\ o \in Options /\ (c.index \in Indices => i = c.index) /\ (c.index \notin Indices => i = 0)
  BY <1>1, ConstantsAre DEF NamedLeaf, NamedOption
<1>3. ASSUME w = BlankWitness(st), i = 0
      PROVE  /\ w.leaf = st.leaves[i] /\ w.leafPath = PathOf(StateRoot(st), i)
             /\ w.ballot = BallotInputs(st.ballots[i]) /\ w.ballotPath = PathOf(BallotRoot(st), i)
             /\ w.weight = st.ballots[i].votes[o]
             /\ w.weightPath = PathOf(VotesRoot(st.ballots[i].votes), o)
  <2> DEFINE none == [n \in 1..MaxVoteOptions |-> 0]
  <2>1. st.ballots[0] = EmptyBallot
    BY DEF Conserved
  <2>2. /\ VotesRoot(EmptyBallot.votes) = none
        /\ InOrder([q \in {0} |-> EmptyBallot.votes[q]], MaxVoteOptions, 0) = none
        /\ PathOf(none, o) = PathOf(none, 0)
    BY <1>2, NoVotes
  <2>3. EmptyBallot.votes[o] = 0 /\ EmptyBallot.votes[0] = 0
    BY <1>2, ConstantsAre DEF EmptyBallot
  <2> HIDE DEF none, o, i
  <2>4. w = WitnessAt(st, 0, 0, none)
    BY <1>3, <2>1, <2>2 DEF BlankWitness
  <2> QED
    BY <1>3, <2>1, <2>2, <2>3, <2>4 DEF WitnessAt
<1>4. CASE Position(index, s) > Len(messages)
  <2>1. c = EmptyCommand
    <3>1. Position(index, s) \in Nat /\ Len(messages) \in Nat
      BY SlotType
    <3> QED
      BY <1>4, <3>1 DEF Slot
  <2>2. w = BlankWitness(st) /\ i = 0
    BY <1>4, <2>1, ConstantsAre DEF Witness, NamedLeaf, EmptyCommand
  <2> QED
    BY <1>2, <1>3, <2>2
<1>5. CASE c.index \notin Indices
  <2>1. w = BlankWitness(st) /\ i = 0
    BY <1>2, <1>5 DEF Witness
  <2> QED
    BY <1>2, <1>3, <2>1
<1>6. CASE ~(Position(index, s) > Len(messages)) /\ c.index \in Indices
  <2>1. w = WitnessAt(st, c.index, o, VotesRoot(st.ballots[c.index].votes))
    BY <1>6 DEF Witness, NamedOption
  <2>2. w = WitnessAt(st, i, o, VotesRoot(st.ballots[i].votes))
    BY <1>2, <1>6, <2>1
  <2> HIDE DEF w, i, o
  <2>3. /\ w.leaf = st.leaves[i] /\ w.leafPath = PathOf(StateRoot(st), i)
        /\ w.ballot = BallotInputs(st.ballots[i]) /\ w.ballotPath = PathOf(BallotRoot(st), i)
        /\ w.weight = st.ballots[i].votes[o]
        /\ w.weightPath = PathOf(VotesRoot(st.ballots[i].votes), o)
    BY <2>2 DEF WitnessAt
  <2> QED
    BY <1>2, <2>3 DEF w, i, o
<1> QED
  BY <1>4, <1>5, <1>6

(* The circuit takes a message as the node does. *)
LEMMA AcceptedIsValid ==
    ASSUME NEW st, Conserved(st), mode # "FULL", NEW c \in Message,
           NEW w, w.leaf = st.leaves[NamedLeaf(c)], w.ballot = BallotInputs(st.ballots[NamedLeaf(c)]),
           w.weight = st.ballots[NamedLeaf(c)].votes[NamedOption(c)]
    PROVE  Accepted(w, c) <=> IsValid(st, c)
<1> DEFINE i == NamedLeaf(c)
           o == NamedOption(c)
<1>1. st \in States /\ st.leaves[0].key = PadKey
  BY ConstantsAre DEF Conserved, InitialState
<1>2. /\ c.index \in Nat /\ c.option \in Nat /\ c.weight \in Nat /\ c.nonce \in Nat
      /\ c.signer \in Keys \union {NoSigner}
  BY DEF Message
<1>3. w.ballot.nonce = st.ballots[i].nonce
  BY DEF BallotInputs
<1>4. i \in Indices /\ o \in Options /\ (c.index < TotalSignups <=> c.index \in Indices)
      /\ (c.index < TotalSignups => i = c.index) /\ (c.option < VoteOptions => o = c.option)
  BY <1>2, ConstantsAre DEF NamedLeaf, NamedOption
<1> HIDE DEF i, o
<1>5. /\ st.leaves[i].credits \in Nat /\ Cost(st.ballots[i].votes[o]) \in Nat /\ Cost(c.weight) \in Nat
  <2>1. st.leaves[i].credits \in Nat /\ st.ballots[i].votes[o] \in Nat
    BY <1>1, <1>4, StateFields
  <2> QED
    BY <1>2, <2>1, CostType
<1>6. w.leaf = st.leaves[i] /\ w.weight = st.ballots[i].votes[o]
  BY DEF i, o
<1>7. ASSUME c.index = 0
      PROVE  c.signer # w.leaf.key
  <2>1. i = 0
    BY <1>4, <1>7, ConstantsAre
  <2> QED
    BY <1>1, <1>2, <1>6, <2>1, ConstantsAre
<1>8. ASSUME c.index \in Indices \ {0}, c.option < VoteOptions
      PROVE  (Cost(w.weight) + w.leaf.credits >= Cost(c.weight))
                <=> CreditsLeft(st.leaves[c.index], st.ballots[c.index].votes[c.option], c.weight) >= 0
  <2>1. i = c.index /\ o = c.option
    BY <1>4, <1>8
  <2> QED
    BY <1>5, <1>6, <2>1 DEF CreditsLeft
<1>9. ASSUME c.index \in Indices \ {0}
      PROVE  w.leaf = st.leaves[c.index] /\ w.ballot.nonce = st.ballots[c.index].nonce
  BY <1>3, <1>4, <1>6, <1>9
<1>10. CASE c.index \in Indices \ {0}
  <2>1. c.index < TotalSignups
    BY <1>4, <1>10
  <2> QED
    BY <1>8, <1>9, <1>10, <2>1 DEF Accepted, IsValid
<1>11. CASE c.index \notin Indices \ {0}
  <2>1. ~IsValid(st, c)
    BY <1>11 DEF IsValid
  <2>2. ~Accepted(w, c)
    BY <1>4, <1>7, <1>11 DEF Accepted
  <2> QED
    BY <2>1, <2>2
<1> QED
  BY <1>10, <1>11

Roots(st) == [holds |-> TRUE, state |-> StateRoot(st), ballots |-> BallotRoot(st)]

LEMMA SingleApplies ==
    ASSUME NEW st, Conserved(st), mode # "FULL", messages \in Seq(Message), NEW index \in Nat \ {0},
           NEW s \in 1..MessageBatchSize
    PROVE  Outcome(Roots(st), Witness(st, index, s), Slot(index, s)) = Roots(ProcessMessage(st, Slot(index, s)))
<1>1. PICK c \in Message : c = Slot(index, s)
  BY SlotType
<1>2. PICK w : w = Witness(st, index, s)
  OBVIOUS
<1> DEFINE i == NamedLeaf(c)
           o == NamedOption(c)
           next == ProcessMessage(st, c)
<1>3. /\ i \in Indices /\ o \in Options
      /\ w.leaf = st.leaves[i] /\ w.leafPath = PathOf(StateRoot(st), i)
      /\ w.ballot = BallotInputs(st.ballots[i]) /\ w.ballotPath = PathOf(BallotRoot(st), i)
      /\ w.weight = st.ballots[i].votes[o]
      /\ w.weightPath = PathOf(VotesRoot(st.ballots[i].votes), o)
  BY <1>1, <1>2, WitnessIs
<1>4. st \in States
  BY DEF Conserved
<1>5. /\ InsertAt(w.leafPath, i + 1, w.leaf) = StateRoot(st)
      /\ InsertAt(w.ballotPath, i + 1, w.ballot) = BallotRoot(st)
      /\ InsertAt(w.weightPath, o + 1, w.weight) = VotesRoot(st.ballots[i].votes)
  <2> HIDE DEF i, o
  <2> QED
    BY <1>3, <1>4, PathsLead
<1>6. w.ballot.votes = VotesRoot(st.ballots[i].votes) /\ w.ballot.nonce = st.ballots[i].nonce
      /\ w.ballot = [nonce |-> w.ballot.nonce, votes |-> w.ballot.votes]
  BY <1>3 DEF BallotInputs
<1>7. w.leaf = [key |-> w.leaf.key, credits |-> w.leaf.credits]
  <2> HIDE DEF i
  <2>1. w.leaf \in [key : Keys \union {PadKey}, credits : Nat]
    BY <1>3, <1>4, StateFields
  <2> QED
    BY <2>1
<1>8. Accepted(w, c) <=> IsValid(st, c)
  BY <1>3, AcceptedIsValid
<1>9. i = (IF c.index < TotalSignups THEN c.index ELSE 0) /\ o = (IF c.option < VoteOptions THEN c.option ELSE 0)
  BY DEF NamedLeaf, NamedOption
<1>10. CASE ~IsValid(st, c)
  <2>1. ~Accepted(w, c) /\ next = st
    BY <1>8, <1>10 DEF ProcessMessage
  <2> HIDE DEF i, o, next
  <2>2. Outcome(Roots(st), w, c) = [holds |-> TRUE,
              state |-> InsertAt(w.leafPath, i + 1, [key |-> w.leaf.key, credits |-> w.leaf.credits]),
              ballots |-> InsertAt(w.ballotPath, i + 1, [nonce |-> w.ballot.nonce, votes |-> w.ballot.votes])]
    BY <1>5, <1>6, <1>9, <2>1 DEF Outcome, Roots
  <2>3. Outcome(Roots(st), w, c) = Roots(st)
    BY <1>5, <1>6, <1>7, <2>2 DEF Roots
  <2> QED
    BY <1>1, <1>2, <2>1, <2>3 DEF next
<1>11. CASE IsValid(st, c)
  <2> DEFINE left == CreditsLeft(st.leaves[i], st.ballots[i].votes[o], c.weight)
             votes == st.ballots[i].votes
             after == [votes EXCEPT ![o] = c.weight]
  <2>1. Accepted(w, c) /\ c.index \in Indices \ {0} /\ c.option < VoteOptions /\ c.weight \in Nat
        /\ c.nonce = st.ballots[c.index].nonce + 1
    BY <1>8, <1>11 DEF IsValid, Message
  <2>2. i = c.index /\ o = c.option
    BY <1>9, <2>1, ConstantsAre
  <2>3. /\ i \in Indices \ {0} /\ next \in States
        /\ next.leaves[i] = [key |-> c.key, credits |-> left]
        /\ next.ballots[i] = [nonce |-> c.nonce, votes |-> after]
        /\ \A j \in Indices \ {i} : next.leaves[j] = st.leaves[j] /\ next.ballots[j] = st.ballots[j]
    <3>1. LET k == c.index
              to == ProcessMessage(st, c)
              rest == CreditsLeft(st.leaves[k], st.ballots[k].votes[c.option], c.weight)
          IN  /\ k \in Indices \ {0} /\ to \in States
              /\ to.leaves[k] = [key |-> c.key, credits |-> rest]
              /\ to.ballots[k] = [nonce |-> st.ballots[k].nonce + 1, votes |-> VotesWith(st.ballots[k].votes, c)]
              /\ \A j \in Indices \ {k} : to.leaves[j] = st.leaves[j] /\ to.ballots[j] = st.ballots[j]
      BY <1>4, <1>11, ValidMessage
    <3>2. VotesWith(st.ballots[c.index].votes, c) = [st.ballots[c.index].votes EXCEPT ![c.option] = c.weight]
      BY DEF VotesWith
    <3> HIDE DEF i, o
    <3> QED
      BY <2>1, <2>2, <3>1, <3>2
  <2> HIDE DEF i, o, next
  <2>4. /\ StateRoot(next) = InsertAt(w.leafPath, i + 1, [key |-> c.key, credits |-> left])
        /\ BallotRoot(next) = InsertAt(w.ballotPath, i + 1, BallotInputs(next.ballots[i]))
    BY <1>3, <1>4, <2>3, RootsChange
  <2>5. VotesRoot(after) = InsertAt(w.weightPath, o + 1, c.weight)
    <3>1. votes \in [Options -> Nat]
      BY <1>3, <1>4, StateFields
    <3> QED
      BY <1>3, <2>1, <3>1, VotesChange
  <2>6. BallotInputs(next.ballots[i]) = [nonce |-> c.nonce, votes |-> InsertAt(w.weightPath, o + 1, c.weight)]
    BY <2>3, <2>5 DEF BallotInputs
  <2>7. left = w.leaf.credits + Cost(w.weight) - Cost(c.weight)
    BY <1>3 DEF CreditsLeft
  <2> HIDE DEF left, after, votes
  <2>8. Outcome(Roots(st), w, c) = [holds |-> TRUE,
              state |-> InsertAt(w.leafPath, i + 1, [key |-> c.key,
                                                     credits |-> w.leaf.credits + Cost(w.weight) - Cost(c.weight)]),
              ballots |-> InsertAt(w.ballotPath, i + 1,
                                   [nonce |-> c.nonce, votes |-> InsertAt(w.weightPath, o + 1, c.weight)])]
    BY <1>5, <1>6, <1>9, <2>1 DEF Outcome, Roots
  <2>9. Outcome(Roots(st), w, c) = Roots(next)
    BY <2>4, <2>6, <2>7, <2>8 DEF Roots
  <2> QED
    BY <1>1, <1>2, <2>9 DEF next
<1> QED
  BY <1>10, <1>11

-----------------------------------------------------------------------------
(* The hashes of the batches: each is the messages up to the end of its batch. *)

Prefix(m, n) == SubSeq(m, 1, IF n <= Len(m) THEN n ELSE Len(m))

HashInv ==
    /\ \A j \in 1..Len(batchHashes) : batchHashes[j] = Prefix(messages, (j - 1) * MessageBatchSize)
    /\ totalBatchesProcessed > 0 => Len(batchHashes) = TotalBatches + 1

LEMMA PaddedHashesAre ==
    ASSUME BatchInv, HashInv
    PROVE  /\ Len(PaddedHashes) = TotalBatches + 1
           /\ \A j \in 1..(TotalBatches + 1) : PaddedHashes[j] = Prefix(messages, (j - 1) * MessageBatchSize)
<1> DEFINE n == Len(messages)
           B == MessageBatchSize
<1>1. /\ batchHashes \in Seq(Seq(Message)) /\ messages \in Seq(Message) /\ n \in Nat
      /\ totalBatchesProcessed \in Nat /\ B \in Nat \ {0}
      /\ TotalBatches \in Nat \ {0} /\ TotalBatches * B >= n /\ TotalBatches * B \in Nat
  BY TotalBatchesIs, ConstantsAre DEF BatchInv
<1>2. Len(PaddedHashes) = TotalBatches + 1
  <2>1. CASE totalBatchesProcessed = 0
    BY <2>1, BatchIndexIs
  <2>2. CASE totalBatchesProcessed > 0
    <3>1. PaddedHashes = batchHashes
      BY <2>2, BatchIndexIs
    <3> QED
      BY <2>2, <3>1 DEF HashInv
  <2> QED
    BY <1>1, <2>1, <2>2
<1>3. CASE PaddedHashes = batchHashes
  BY <1>2, <1>3 DEF HashInv
<1>4. CASE PaddedHashes # batchHashes
  <2>1. PaddedHashes = Append(batchHashes, messages)
    BY <1>4 DEF PaddedHashes
  <2>2. Len(batchHashes) = TotalBatches
    <3>1. Len(PaddedHashes) = Len(batchHashes) + 1 /\ Len(batchHashes) \in Nat
      BY <1>1, <2>1
    <3> QED
      BY <1>1, <1>2, <3>1
  <2>3. SUFFICES ASSUME NEW j \in 1..(TotalBatches + 1)
                 PROVE  PaddedHashes[j] = Prefix(messages, (j - 1) * B)
    BY <1>2
  <2>4. CASE j = TotalBatches + 1
    <3>1. PaddedHashes[j] = messages
      BY <1>1, <2>1, <2>2, <2>4
    <3>2. j - 1 = TotalBatches
      BY <1>1, <2>4
    <3>3. Prefix(messages, TotalBatches * B) = SubSeq(messages, 1, n)
      <4>1. TotalBatches * B <= n => TotalBatches * B = n
        BY <1>1
      <4> QED
        BY <4>1 DEF Prefix
    <3>4. SubSeq(messages, 1, n) = messages
      BY <1>1
    <3> QED
      BY <3>1, <3>2, <3>3, <3>4
  <2>5. CASE j \in 1..TotalBatches
    <3>1. PaddedHashes[j] = batchHashes[j]
      BY <1>1, <2>1, <2>2, <2>5
    <3> QED
      BY <2>2, <2>5, <3>1 DEF HashInv
  <2> QED
    BY <1>1, <2>4, <2>5
<1> QED
  BY <1>3, <1>4

LEMMA HashInvStarts ==
    ASSUME Init
    PROVE  HashInv
<1>1. EmptyCommand \in Message /\ MessageBatchSize \in Nat \ {0}
  BY ConstantsAre
<1>2. messages = <<EmptyCommand>> /\ Len(messages) = 1 /\ messages \in Seq(Message) /\ totalBatchesProcessed = 0
  BY <1>1 DEF Init
<1>3. Prefix(messages, 0) = <<>>
  BY <1>2 DEF Prefix
<1>4. Prefix(messages, 1) = messages
  <2>1. messages \in Seq(Message)
    BY <1>2
  <2>2. SubSeq(messages, 1, Len(messages)) = messages
    BY <2>1
  <2> QED
    BY <1>2, <2>2 DEF Prefix
<1>5. CASE MessageBatchSize = 1
  <2>1. batchHashes = <<<<>>>> \o <<messages>>
    BY <1>5 DEF Init
  <2>2. Len(batchHashes) = 2 /\ batchHashes[1] = <<>> /\ batchHashes[2] = messages
    BY <1>2, <2>1
  <2>3. \A j \in 1..2 : j = 1 \/ j = 2
    OBVIOUS
  <2>4. (1 - 1) * MessageBatchSize = 0 /\ (2 - 1) * MessageBatchSize = 1
    BY <1>5
  <2> QED
    BY <1>2, <1>3, <1>4, <2>2, <2>3, <2>4 DEF HashInv
<1>6. CASE MessageBatchSize # 1
  <2>1. batchHashes = <<<<>>>> \o <<>>
    BY <1>6 DEF Init
  <2>2. Len(batchHashes) = 1 /\ batchHashes[1] = <<>>
    BY <2>1
  <2>3. \A j \in 1..1 : j = 1
    OBVIOUS
  <2>4. (1 - 1) * MessageBatchSize = 0
    BY <1>1
  <2> QED
    BY <1>2, <1>3, <2>2, <2>3, <2>4 DEF HashInv
<1> QED
  BY <1>5, <1>6

LEMMA HashInvNext ==
    ASSUME BatchInv, HashInv, [Next]_vars
    PROVE  HashInv'
<1> DEFINE B == MessageBatchSize
<1>1. /\ BatchInv' /\ batchHashes \in Seq(Seq(Message)) /\ messages \in Seq(Message)
      /\ totalBatchesProcessed \in Nat /\ B \in Nat \ {0} /\ TotalBatches \in Nat
      /\ currentMessageBatchIndex \in Nat
  BY BatchInvNext, TotalBatchesIs, ConstantsAre DEF BatchInv
<1>2. CASE Publish
  <2>1. PICK c \in Commands : PublishMessage(c)
    BY <1>2 DEF Publish
  <2>2. messages' = Append(messages, c) /\ totalBatchesProcessed = 0 /\ totalBatchesProcessed' = 0 /\ c \in Message
    BY <2>1, ConstantsAre DEF PublishMessage, processVars
  <2>3. /\ Len(batchHashes) = currentMessageBatchIndex + 1
        /\ currentMessageBatchIndex * B <= Len(messages)
    BY <2>2 DEF BatchInv
  <2>4. messages' \in Seq(Message) /\ Len(messages') = Len(messages) + 1 /\ Len(messages) \in Nat
        /\ \A p \in 1..Len(messages) : messages'[p] = messages[p]
    BY <1>1, <2>2
  <2>5. ASSUME NEW k \in Nat, k <= Len(messages)
        PROVE  Prefix(messages', k) = Prefix(messages, k)
    <3>1. SubSeq(messages', 1, k) = SubSeq(messages, 1, k)
      BY <1>1, <2>4, <2>5
    <3>2. k <= Len(messages')
      BY <2>4, <2>5
    <3> QED
      BY <2>5, <3>1, <3>2 DEF Prefix
  <2>6. ASSUME NEW j \in 1..Len(batchHashes)
        PROVE  Prefix(messages', (j - 1) * B) = batchHashes[j]
    <3>1. (j - 1) * B <= currentMessageBatchIndex * B
      <4>1. j - 1 \in Nat /\ j - 1 <= currentMessageBatchIndex
        BY <1>1, <2>3
      <4> QED
        BY <1>1, <4>1
    <3>2. (j - 1) * B \in Nat /\ currentMessageBatchIndex * B \in Nat
      BY <1>1, <2>3
    <3>3. PICK k \in Nat : k = (j - 1) * B
      BY <3>2
    <3>4. k <= Len(messages)
      BY <2>3, <2>4, <3>1, <3>2, <3>3
    <3>5. Prefix(messages', k) = Prefix(messages, k)
      BY <2>5, <3>4
    <3> QED
      BY <3>3, <3>5 DEF HashInv
  <2>7. CASE batchHashes' = batchHashes
    BY <2>2, <2>6, <2>7 DEF HashInv
  <2>8. CASE batchHashes' # batchHashes
    <3> DEFINE i == currentMessageBatchIndex
    <3>1. batchHashes' = Append(batchHashes, messages') /\ i' = i + 1
      BY <2>1, <2>8 DEF PublishMessage
    <3>2. Len(messages') = i * B + B
      <4>1. (i + 1) * B <= Len(messages') /\ Len(messages) < i * B + B
        BY <1>1, <2>2, <3>1 DEF BatchInv
      <4>2. (i + 1) * B = i * B + B /\ i * B \in Nat
        BY <1>1
      <4> QED
        BY <1>1, <2>4, <4>1, <4>2
    <3>3. Prefix(messages', i * B + B) = messages'
      <4>1. SubSeq(messages', 1, Len(messages')) = messages'
        BY <2>4
      <4> QED
        BY <3>2, <4>1 DEF Prefix
    <3>4. /\ Len(batchHashes') = i + 2 /\ batchHashes'[i + 2] = messages'
          /\ \A j \in 1..(i + 1) : batchHashes'[j] = batchHashes[j]
      BY <1>1, <2>3, <3>1
    <3>5. ((i + 2) - 1) * B = i * B + B
      BY <1>1
    <3> HIDE DEF i
    <3>6. \A j \in 1..(i + 2) : batchHashes'[j] = Prefix(messages', (j - 1) * B)
      <4>1. \A j \in 1..(i + 2) : j \in 1..(i + 1) \/ j = i + 2
        BY <1>1 DEF i
      <4>2. \A j \in 1..(i + 1) : batchHashes'[j] = Prefix(messages', (j - 1) * B)
        BY <2>3, <2>6, <3>4 DEF i
      <4>3. batchHashes'[i + 2] = Prefix(messages', ((i + 2) - 1) * B)
        BY <3>3, <3>4, <3>5
      <4> QED
        BY <4>1, <4>2, <4>3
    <3> QED
      BY <2>2, <3>4, <3>6 DEF HashInv
  <2> QED
    BY <2>7, <2>8
<1>3. CASE ProcessMessages
  <2>1. /\ batchHashes' = PaddedHashes /\ messages' = messages
        /\ totalBatchesProcessed' = totalBatchesProcessed + 1
    BY <1>3 DEF ProcessMessages
  <2>2. TotalBatches' = TotalBatches
    BY <2>1 DEF TotalBatches
  <2>3. Len(PaddedHashes) = TotalBatches + 1 /\ \A j \in 1..(TotalBatches + 1) : PaddedHashes[j] = Prefix(messages, (j - 1) * B)
    BY PaddedHashesAre
  <2> QED
    BY <2>1, <2>2, <2>3 DEF HashInv, Prefix
<1>4. CASE TallyVotes \/ UNCHANGED vars
  BY <1>4 DEF TallyVotes, vars, processVars, HashInv, Prefix, TotalBatches
<1> QED
  BY <1>2, <1>3, <1>4 DEF Next

(* A recursion from n down has one solution. *)
LEMMA SameDownwards ==
    ASSUME NEW n \in Nat, NEW g, NEW h, g[n + 1] = h[n + 1],
           \A k \in 1..n : g[k + 1] = h[k + 1] => g[k] = h[k]
    PROVE  \A k \in 1..(n + 1) : g[k] = h[k]
<1> DEFINE N == {m \in Nat : m <= n => g[n + 1 - m] = h[n + 1 - m]}
<1>1. 0 \in N
  OBVIOUS
<1>2. ASSUME NEW m \in N
      PROVE  m + 1 \in N
  <2>1. m + 1 <= n => n - m \in 1..n /\ (n - m) + 1 = n + 1 - m /\ n + 1 - (m + 1) = n - m /\ m <= n
    OBVIOUS
  <2> QED
    BY <2>1
<1>3. N = Nat
  <2> HIDE DEF N
  <2>1. N \in SUBSET Nat
    BY DEF N
  <2> QED
    BY <1>1, <1>2, <2>1, Induction
<1> SUFFICES ASSUME NEW k \in 1..(n + 1)
             PROVE  g[k] = h[k]
  OBVIOUS
<1>4. PICK m \in Nat : m = n + 1 - k
  OBVIOUS
<1>5. m \in N /\ m <= n /\ n + 1 - m = k
  BY <1>3, <1>4
<1> QED
  BY <1>5

(* The circuits' inputs, without what no proof needs. *)
AreMessageInputs(in) ==
    LET index == BatchIndex
        core == NodeStates(index)
    IN  /\ in.totalSignups = TotalSignups /\ in.voteOptions = VoteOptions
        /\ in.index = (index - 1) * MessageBatchSize
        /\ in.batchEndIndex = IF index * MessageBatchSize > Len(messages) THEN Len(messages)
                              ELSE index * MessageBatchSize
        /\ in.inputBatchHash = PaddedHashes[index] /\ in.outputBatchHash = PaddedHashes[index + 1]
        /\ \A n \in 1..MessageBatchSize :
              /\ in.messages[n] = Slot(index, MessageBatchSize - n + 1)
              /\ in.witnesses[n] = Witness(core[MessageBatchSize - n], index, MessageBatchSize - n + 1)
        /\ in.currentStateRoot = StateRoot(state) /\ in.currentBallotRoot = BallotRoot(state)
        /\ in.currentSbSalt = SaltsAtStart[index]
        /\ in.currentSbCommitment = <<in.currentStateRoot, in.currentBallotRoot, in.currentSbSalt>>
        /\ in.newSbCommitment = <<StateRoot(core[MessageBatchSize]), BallotRoot(core[MessageBatchSize]), in.newSbSalt>>

LEMMA MessageInputsAre ==
    ASSUME BatchIndex \in Nat \ {0}
    PROVE  AreMessageInputs(MessageInputs)
<1> DEFINE in == MessageInputs
           index == BatchIndex
           core == NodeStates(index)
           B == MessageBatchSize
<1>1. index > 0
  OBVIOUS
<1>2. /\ in.totalSignups = TotalSignups /\ in.voteOptions = VoteOptions
      /\ in.index = IF index > 0 THEN (index - 1) * B ELSE 0
      /\ in.batchEndIndex = IF index * B > Len(messages) THEN Len(messages) ELSE index * B
      /\ in.inputBatchHash = PaddedHashes[index] /\ in.outputBatchHash = PaddedHashes[index + 1]
  BY DEF MessageInputs
<1>3. \A n \in 1..B : in.messages[n] = Slot(index, B - n + 1)
  BY DEF MessageInputs
<1>4. \A n \in 1..B : in.witnesses[n] = Witness(core[B - n], index, B - n + 1)
  <2> SUFFICES ASSUME NEW n \in 1..B
               PROVE  in.witnesses[n] = Witness(core[B - n], index, B - n + 1)
    OBVIOUS
  <2>1. B \in Nat /\ n \in Int
    BY ConstantsAre
  <2>2. PICK m \in Int : m = B - n + 1 /\ m - 1 = B - n
    BY <2>1
  <2>3. in.witnesses[n] = Witness(core[m - 1], index, m)
    BY <2>2 DEF MessageInputs
  <2> QED
    BY <2>2, <2>3
<1>5. /\ in.currentStateRoot = StateRoot(state) /\ in.currentBallotRoot = BallotRoot(state)
      /\ in.currentSbSalt = SaltsAtStart[index]
      /\ in.currentSbCommitment = <<StateRoot(state), BallotRoot(state), SaltsAtStart[index]>>
      /\ in.newSbCommitment = <<StateRoot(core[B]), BallotRoot(core[B]), in.newSbSalt>>
  BY DEF MessageInputs
<1> HIDE DEF in, index, core
<1> QED
  BY <1>1, <1>2, <1>3, <1>4, <1>5 DEF AreMessageInputs, in, index, core

(* The messages of a batch lead from hash to hash. *)
LEMMA ChainHashIs ==
    ASSUME BatchInv, HashInv, HasUnprocessedMessages, NEW in, AreMessageInputs(in)
    PROVE  ChainHash(in) = in.outputBatchHash
<1> DEFINE B == MessageBatchSize
           index == BatchIndex
           low == (index - 1) * B
           len == Len(messages)
<1>1. /\ index \in Nat \ {0} /\ B \in Nat \ {0} /\ len \in Nat /\ messages \in Seq(Message)
      /\ TotalBatches \in Nat /\ index \in 1..TotalBatches
  <2>1. index = TotalBatches - totalBatchesProcessed /\ index \in Nat \ {0} /\ TotalBatches \in Nat
        /\ totalBatchesProcessed \in Nat
    BY BatchIndexIs, TotalBatchesIs DEF BatchInv
  <2> QED
    BY <2>1, ConstantsAre DEF BatchInv
<1>2. low \in Nat /\ index * B = low + B
  BY <1>1
<1>3. /\ in.index = low
      /\ in.batchEndIndex = (IF low + B > len THEN len ELSE low + B)
      /\ \A n \in 1..B : in.messages[n] = Slot(index, B - n + 1)
      /\ in.inputBatchHash = PaddedHashes[index] /\ in.outputBatchHash = PaddedHashes[index + 1]
  BY <1>2 DEF AreMessageInputs
<1>4. in.inputBatchHash = Prefix(messages, low) /\ in.outputBatchHash = Prefix(messages, low + B)
  <2>1. index \in 1..(TotalBatches + 1) /\ index + 1 \in 1..(TotalBatches + 1) /\ (index + 1) - 1 = index
    BY <1>1
  <2>2. \A j \in 1..(TotalBatches + 1) : PaddedHashes[j] = Prefix(messages, (j - 1) * B)
    BY PaddedHashesAre
  <2> QED
    BY <1>2, <1>3, <2>1, <2>2
<1>5. ASSUME NEW n \in 1..B, low + n <= len
      PROVE  in.messages[n] = messages[low + n]
  <2>1. Position(index, B - n + 1) = low + n
    BY <1>1, <1>2 DEF Position
  <2> QED
    BY <1>3, <1>5, <2>1 DEF Slot
<1> HIDE DEF B, index, low, len
<1> DEFINE Chain(h) == h = [n \in 0..B |->
                IF n = 0 THEN in.inputBatchHash
                ELSE IF in.index + n - 1 < in.batchEndIndex THEN Append(h[n - 1], in.messages[n])
                ELSE h[n - 1]]
           g == [n \in 0..B |-> Prefix(messages, low + n)]
<1>6. ASSUME NEW n \in 1..B
      PROVE  Prefix(messages, low + n) =
                IF in.index + n - 1 < in.batchEndIndex THEN Append(Prefix(messages, low + (n - 1)), in.messages[n])
                ELSE Prefix(messages, low + (n - 1))
  <2>1. in.index + n - 1 < in.batchEndIndex <=> low + n <= len
    BY <1>1, <1>2, <1>3
  <2>2. CASE low + n <= len
    <3>1. PICK k \in Nat : k = low + n
      BY <1>1, <1>2
    <3>2. k - 1 = low + (n - 1) /\ k >= 1 /\ k <= len /\ k - 1 \in Nat
      BY <1>1, <1>2, <2>2, <3>1
    <3>3. SubSeq(messages, 1, k) = Append(SubSeq(messages, 1, k - 1), messages[k])
      BY <1>1, <3>2 DEF len
    <3>4. Prefix(messages, k) = SubSeq(messages, 1, k) /\ Prefix(messages, k - 1) = SubSeq(messages, 1, k - 1)
      BY <1>1, <3>2 DEF Prefix, len
    <3>5. in.messages[n] = messages[k]
      BY <1>5, <2>2, <3>1
    <3> QED
      BY <2>1, <2>2, <3>1, <3>2, <3>3, <3>4, <3>5
  <2>3. CASE ~(low + n <= len)
    <3>1. low + (n - 1) <= len => low + (n - 1) = len
      BY <1>1, <1>2, <2>3
    <3>2. Prefix(messages, low + n) = SubSeq(messages, 1, len)
      BY <2>3 DEF Prefix, len
    <3>3. Prefix(messages, low + (n - 1)) = SubSeq(messages, 1, len)
      BY <3>1 DEF Prefix, len
    <3> QED
      BY <2>1, <2>3, <3>2, <3>3
  <2> QED
    BY <2>2, <2>3
<1>7. Chain(g)
  <2>1. ASSUME NEW n \in 0..B
        PROVE  g[n] = IF n = 0 THEN in.inputBatchHash
                      ELSE IF in.index + n - 1 < in.batchEndIndex THEN Append(g[n - 1], in.messages[n])
                      ELSE g[n - 1]
    <3>1. CASE n = 0
      BY <1>1, <1>2, <1>4, <3>1
    <3>2. CASE n # 0
      <4>1. n \in 1..B /\ n - 1 \in 0..B
        BY <1>1, <3>2
      <4>2. g[n] = Prefix(messages, low + n) /\ g[n - 1] = Prefix(messages, low + (n - 1))
        BY <4>1
      <4> HIDE DEF g
      <4> QED
        BY <1>6, <3>2, <4>1, <4>2
    <3> QED
      BY <3>1, <3>2
  <2> QED
    BY <2>1
<1>8. PICK h : h = (CHOOSE x : Chain(x))
  OBVIOUS
<1>9. Chain(h)
  <2> HIDE DEF Chain
  <2> QED
    BY <1>7, <1>8
<1>10. ChainHash(in) = h[B]
  BY <1>8 DEF ChainHash, B
<1>11. h[B] = Prefix(messages, low + B)
  <2>1. h[0] = in.inputBatchHash
    BY <1>1, <1>9
  <2>2. ASSUME NEW n \in 1..B
        PROVE  h[n] = IF in.index + n - 1 < in.batchEndIndex THEN Append(h[n - 1], in.messages[n]) ELSE h[n - 1]
    <3>1. n \in 0..B /\ n # 0
      BY <1>1
    <3> QED
      BY <1>9, <3>1
  <2> HIDE DEF Chain
  <2> DEFINE N == {n \in Nat : n <= B => h[n] = Prefix(messages, low + n)}
  <2>3. 0 \in N
    BY <1>2, <1>4, <2>1
  <2>4. ASSUME NEW n \in N
        PROVE  n + 1 \in N
    <3>1. n + 1 <= B => n + 1 \in 1..B /\ (n + 1) - 1 = n /\ n <= B
      BY <1>1
    <3>2. n + 1 <= B => h[n + 1] = Prefix(messages, low + (n + 1))
      <4> SUFFICES ASSUME n + 1 <= B
                   PROVE  h[n + 1] = Prefix(messages, low + (n + 1))
        OBVIOUS
      <4>1. PICK m \in 1..B : m = n + 1 /\ m - 1 = n
        BY <3>1
      <4>2. h[m - 1] = Prefix(messages, low + (m - 1))
        BY <3>1, <4>1
      <4>3. h[m] = Prefix(messages, low + m)
        BY <1>6, <2>2, <4>2
      <4> QED
        BY <4>1, <4>3
    <3> QED
      BY <3>2
  <2>5. N = Nat
    <3> HIDE DEF N
    <3>1. N \in SUBSET Nat
      BY DEF N
    <3> QED
      BY <2>3, <2>4, <3>1, Induction
  <2> QED
    BY <1>1, <2>5
<1> QED
  BY <1>4, <1>10, <1>11

(* The states of a batch keep their credits. *)
LEMMA NodeStatesConserved ==
    ASSUME messages \in Seq(Message), mode # "FULL", Conserved(state), NEW index \in Nat \ {0}
    PROVE  /\ NodeStates(index)[0] = state
           /\ \A s \in 0..MessageBatchSize : Conserved(NodeStates(index)[s])
           /\ \A s \in 1..MessageBatchSize :
                 NodeStates(index)[s] = ProcessMessage(NodeStates(index)[s - 1], Slot(index, s))
<1> DEFINE Same == {st \in States : Conserved(st)}
<1>1. state \in Same /\ \A st \in Same : \A c \in Message : ProcessMessage(st, c) \in Same
  <2>1. \A st : Conserved(st) => st \in States
    BY DEF Conserved
  <2> QED
    BY <2>1, ProcessMessageKeeps
<1> HIDE DEF Same
<1>2. /\ NodeStates(index) \in [0..MessageBatchSize -> Same] /\ NodeStates(index)[0] = state
      /\ \A s \in 1..MessageBatchSize :
             NodeStates(index)[s] = ProcessMessage(NodeStates(index)[s - 1], Slot(index, s))
  BY <1>1, NodeStatesAre
<1> QED
  BY <1>2 DEF Same

(* The roots the circuit goes through, from the last message of the batch down. *)
RootsOfBatch(index) ==
    [n \in 1..(MessageBatchSize + 1) |-> Roots(NodeStates(index)[MessageBatchSize + 1 - n])]

LEMMA RootsOfBatchAre ==
    ASSUME BatchInv, mode # "FULL", Conserved(state), HasUnprocessedMessages,
           NEW in, AreMessageInputs(in)
    PROVE  LET r == RootsOfBatch(BatchIndex)
           IN  /\ r[MessageBatchSize + 1] = [holds |-> TRUE, state |-> in.currentStateRoot,
                                             ballots |-> in.currentBallotRoot]
               /\ \A n \in 1..MessageBatchSize : r[n] = Outcome(r[n + 1], in.witnesses[n], in.messages[n])
               /\ r[1].holds
               /\ in.newSbCommitment = <<r[1].state, r[1].ballots, in.newSbSalt>>
<1> DEFINE B == MessageBatchSize
           index == BatchIndex
           core == NodeStates(index)
           r == RootsOfBatch(index)
<1>1. index \in Nat \ {0} /\ B \in Nat \ {0} /\ messages \in Seq(Message)
  BY BatchIndexIs, ConstantsAre DEF BatchInv
<1>2. /\ core[0] = state /\ \A s \in 0..B : Conserved(core[s])
      /\ \A s \in 1..B : core[s] = ProcessMessage(core[s - 1], Slot(index, s))
  BY <1>1, NodeStatesConserved
<1>3. /\ \A n \in 1..B : in.messages[n] = Slot(index, B - n + 1)
                         /\ in.witnesses[n] = Witness(core[B - n], index, B - n + 1)
      /\ in.currentStateRoot = StateRoot(state) /\ in.currentBallotRoot = BallotRoot(state)
      /\ in.newSbCommitment = <<StateRoot(core[B]), BallotRoot(core[B]), in.newSbSalt>>
  BY DEF AreMessageInputs
<1>4. \A n \in 1..(B + 1) : r[n] = Roots(core[B + 1 - n])
  BY DEF RootsOfBatch
<1> HIDE DEF r, core, index, B
<1>5. r[B + 1] = Roots(state)
  <2>1. B + 1 \in 1..(B + 1) /\ B + 1 - (B + 1) = 0
    BY <1>1
  <2> QED
    BY <1>2, <1>4, <2>1
<1>6. r[1] = Roots(core[B])
  <2>1. 1 \in 1..(B + 1) /\ B + 1 - 1 = B
    BY <1>1
  <2> QED
    BY <1>4, <2>1
<1>7. ASSUME NEW n \in 1..B
      PROVE  r[n] = Outcome(r[n + 1], in.witnesses[n], in.messages[n])
  <2>1. PICK s \in 1..MessageBatchSize : s = B - n + 1
    BY <1>1 DEF B
  <2>2. s \in 1..B /\ s - 1 = B - n /\ s - 1 \in 0..B /\ B + 1 - n = s /\ B + 1 - (n + 1) = s - 1
        /\ n \in 1..(B + 1) /\ n + 1 \in 1..(B + 1)
    BY <1>1, <2>1 DEF B
  <2>3. r[n] = Roots(core[s]) /\ r[n + 1] = Roots(core[s - 1])
    BY <1>4, <2>2
  <2>4. in.messages[n] = Slot(index, s) /\ in.witnesses[n] = Witness(core[s - 1], index, s)
    BY <1>3, <2>1, <2>2
  <2>5. PICK st : st = core[s - 1]
    OBVIOUS
  <2>6. Conserved(st)
    BY <1>2, <2>2, <2>5
  <2>7. Outcome(Roots(st), Witness(st, index, s), Slot(index, s)) = Roots(ProcessMessage(st, Slot(index, s)))
    BY <1>1, <2>6, SingleApplies
  <2>8. core[s] = ProcessMessage(st, Slot(index, s))
    BY <1>2, <2>2, <2>5
  <2> QED
    BY <2>3, <2>4, <2>5, <2>7, <2>8
<1>8. Roots(state) = [holds |-> TRUE, state |-> in.currentStateRoot, ballots |-> in.currentBallotRoot]
  BY <1>3 DEF Roots
<1>9. r[1].holds /\ in.newSbCommitment = <<r[1].state, r[1].ballots, in.newSbSalt>>
  BY <1>3, <1>6 DEF Roots
<1> QED
  BY <1>5, <1>7, <1>8, <1>9 DEF r, index, B

LEMMA BatchIsProvable ==
    ASSUME BatchInv, HashInv, mode \in {"QV", "NON_QV"}, Conserved(state), HasUnprocessedMessages,
           NEW in, AreMessageInputs(in)
    PROVE  MessageCircuit(in)
<1> DEFINE B == MessageBatchSize
           r == RootsOfBatch(BatchIndex)
           start == [holds |-> TRUE, state |-> in.currentStateRoot, ballots |-> in.currentBallotRoot]
<1>1. B \in Nat
  BY ConstantsAre
<1>2. /\ in.totalSignups = TotalSignups /\ in.voteOptions = VoteOptions
      /\ in.currentSbCommitment = <<in.currentStateRoot, in.currentBallotRoot, in.currentSbSalt>>
  BY DEF AreMessageInputs
<1>3. in.voteOptions <= MaxVoteOptions /\ in.totalSignups <= MaxLeaves
  BY <1>2, ConstantsAre
<1>4. ChainHash(in) = in.outputBatchHash
  BY ChainHashIs
<1>5. /\ r[B + 1] = start /\ \A n \in 1..B : r[n] = Outcome(r[n + 1], in.witnesses[n], in.messages[n])
      /\ r[1].holds /\ in.newSbCommitment = <<r[1].state, r[1].ballots, in.newSbSalt>>
  BY RootsOfBatchAre
<1>6. r = [n \in 1..(B + 1) |-> r[n]]
  BY DEF RootsOfBatch
<1>7. CASE mode = "QV"
  <2> DEFINE Rec(h) == h = [n \in 1..(B + 1) |->
                 IF n = B + 1 THEN start ELSE SingleMessageProcessorQv(in, h[n + 1], in.witnesses[n], in.messages[n])]
  <2>1. \A roots, w, c : SingleMessageProcessorQv(in, roots, w, c) = Outcome(roots, w, c)
    BY <1>2, <1>7, OutcomeQv
  <2> HIDE DEF r, start, B
  <2>2. Rec(r)
    <3>1. ASSUME NEW n \in 1..(B + 1)
          PROVE  r[n] = IF n = B + 1 THEN start
                        ELSE SingleMessageProcessorQv(in, r[n + 1], in.witnesses[n], in.messages[n])
      <4>1. CASE n = B + 1
        BY <1>5, <4>1
      <4>2. CASE n # B + 1
        <5>1. n \in 1..B
          BY <1>1, <4>2
        <5>2. r[n] = Outcome(r[n + 1], in.witnesses[n], in.messages[n])
          BY <1>5, <5>1
        <5> QED
          BY <2>1, <4>2, <5>2
      <4> QED
        BY <4>1, <4>2
    <3> QED
      BY <1>6, <3>1
  <2>3. PICK h : h = (CHOOSE x : Rec(x))
    OBVIOUS
  <2>4. Rec(h)
    <3> HIDE DEF Rec
    <3> QED
      BY <2>2, <2>3
  <2>5. h[1] = r[1]
    <3>1. h[B + 1] = r[B + 1]
      BY <1>1, <1>5, <2>4
    <3>2. ASSUME NEW n \in 1..B
          PROVE  h[n] = Outcome(h[n + 1], in.witnesses[n], in.messages[n])
      <4>1. n \in 1..(B + 1) /\ n # B + 1
        BY <1>1
      <4> QED
        BY <2>1, <2>4, <4>1
    <3> HIDE DEF Rec
    <3>3. \A n \in 1..B : h[n + 1] = r[n + 1] => h[n] = r[n]
      BY <1>5, <3>2
    <3>4. \A n \in 1..(B + 1) : h[n] = r[n]
      BY <1>1, <3>1, <3>3, SameDownwards
    <3> QED
      BY <1>1, <3>4
  <2>6. MessageProcessorQv(in)
    <3>1. (CHOOSE x : Rec(x))[1] = r[1]
      BY <2>3, <2>5
    <3> QED
      BY <1>2, <1>3, <1>4, <1>5, <3>1 DEF MessageProcessorQv, ProcessBatch, start, B
  <2> QED
    BY <1>7, <2>6 DEF MessageCircuit
<1>8. CASE mode = "NON_QV"
  <2> DEFINE Rec(h) == h = [n \in 1..(B + 1) |->
                 IF n = B + 1 THEN start ELSE SingleMessageProcessorNonQv(in, h[n + 1], in.witnesses[n], in.messages[n])]
  <2>1. \A roots, w, c : SingleMessageProcessorNonQv(in, roots, w, c) = Outcome(roots, w, c)
    BY <1>2, <1>8, OutcomeNonQv
  <2> HIDE DEF r, start, B
  <2>2. Rec(r)
    <3>1. ASSUME NEW n \in 1..(B + 1)
          PROVE  r[n] = IF n = B + 1 THEN start
                        ELSE SingleMessageProcessorNonQv(in, r[n + 1], in.witnesses[n], in.messages[n])
      <4>1. CASE n = B + 1
        BY <1>5, <4>1
      <4>2. CASE n # B + 1
        <5>1. n \in 1..B
          BY <1>1, <4>2
        <5>2. r[n] = Outcome(r[n + 1], in.witnesses[n], in.messages[n])
          BY <1>5, <5>1
        <5> QED
          BY <2>1, <4>2, <5>2
      <4> QED
        BY <4>1, <4>2
    <3> QED
      BY <1>6, <3>1
  <2>3. PICK h : h = (CHOOSE x : Rec(x))
    OBVIOUS
  <2>4. Rec(h)
    <3> HIDE DEF Rec
    <3> QED
      BY <2>2, <2>3
  <2>5. h[1] = r[1]
    <3>1. h[B + 1] = r[B + 1]
      BY <1>1, <1>5, <2>4
    <3>2. ASSUME NEW n \in 1..B
          PROVE  h[n] = Outcome(h[n + 1], in.witnesses[n], in.messages[n])
      <4>1. n \in 1..(B + 1) /\ n # B + 1
        BY <1>1
      <4> QED
        BY <2>1, <2>4, <4>1
    <3> HIDE DEF Rec
    <3>3. \A n \in 1..B : h[n + 1] = r[n + 1] => h[n] = r[n]
      BY <1>5, <3>2
    <3>4. \A n \in 1..(B + 1) : h[n] = r[n]
      BY <1>1, <3>1, <3>3, SameDownwards
    <3> QED
      BY <1>1, <3>4
  <2>6. MessageProcessorNonQv(in)
    <3>1. (CHOOSE x : Rec(x))[1] = r[1]
      BY <2>3, <2>5
    <3> QED
      BY <1>2, <1>3, <1>4, <1>5, <3>1 DEF MessageProcessorNonQv, ProcessBatch, start, B
  <2> QED
    BY <1>8, <2>6 DEF MessageCircuit
<1> QED
  BY <1>7, <1>8

-----------------------------------------------------------------------------
(* The commitments the contract has, and their salts. *)

SbInv ==
    /\ totalBatchesProcessed = 0 => sbCommitment = <<StateRoot(state), BallotRoot(state), 0>>
    /\ totalBatchesProcessed > 0 =>
          sbCommitment = <<StateRoot(state), BallotRoot(state), sbSalts[currentMessageBatchIndex]>>

LEMMA SbInvStarts ==
    ASSUME Init
    PROVE  SbInv
  BY DEF Init, SbInv

LEMMA SbInvNext ==
    ASSUME BatchInv, SbInv, [Next]_vars
    PROVE  SbInv'
<1>1. totalBatchesProcessed \in Nat
  BY DEF BatchInv
<1>2. CASE Publish
  <2>1. totalBatchesProcessed = 0 /\ UNCHANGED processVars
    BY <1>2 DEF Publish, PublishMessage
  <2> QED
    BY <2>1 DEF SbInv, processVars
<1>3. CASE ProcessMessages
  <2> DEFINE next == BatchIndex - 1
             salt == MessageInputs.newSbSalt
  <2>1. BatchIndex \in Nat \ {0}
    BY <1>3, BatchIndexIs DEF ProcessMessages
  <2>2. MessageInputs.newSbCommitment = <<StateRoot(NodeStates(BatchIndex)[MessageBatchSize]),
                                          BallotRoot(NodeStates(BatchIndex)[MessageBatchSize]), salt>>
    BY <2>1, MessageInputsAre DEF AreMessageInputs
  <2>3. /\ state' = NodeStates(BatchIndex)[MessageBatchSize]
        /\ sbSalts' = With(SaltsAtStart, next, salt)
        /\ sbCommitment' = MessageInputs.newSbCommitment
        /\ totalBatchesProcessed' = totalBatchesProcessed + 1
        /\ currentMessageBatchIndex' = next
    BY <1>3, <2>1 DEF ProcessMessages
  <2>4. sbSalts'[currentMessageBatchIndex'] = salt
    <3> HIDE DEF next, salt
    <3> QED
      BY <2>3 DEF With
  <2>5. totalBatchesProcessed' # 0
    BY <1>1, <2>3
  <2> HIDE DEF next, salt
  <2>6. sbCommitment' = <<StateRoot(state'), BallotRoot(state'), sbSalts'[currentMessageBatchIndex']>>
    BY <2>2, <2>3, <2>4
  <2> QED
    BY <2>5, <2>6 DEF SbInv
<1>4. CASE TallyVotes \/ UNCHANGED vars
  BY <1>4 DEF TallyVotes, vars, processVars, SbInv
<1> QED
  BY <1>2, <1>3, <1>4 DEF Next

LEMMA StartsFromCommitment ==
    ASSUME BatchInv, SbInv, HasUnprocessedMessages
    PROVE  MessageInputs.currentSbCommitment = sbCommitment
<1>1. BatchIndex \in Nat \ {0} /\ totalBatchesProcessed \in Nat
  BY BatchIndexIs DEF BatchInv
<1>2. MessageInputs.currentSbCommitment = <<StateRoot(state), BallotRoot(state), SaltsAtStart[BatchIndex]>>
  BY <1>1, MessageInputsAre DEF AreMessageInputs
<1>3. CASE totalBatchesProcessed = 0
  <2>1. SaltsAtStart = With(sbSalts, BatchIndex, 0)
    BY <1>3 DEF SaltsAtStart
  <2>2. SaltsAtStart[BatchIndex] = 0
    BY <2>1 DEF With
  <2> QED
    BY <1>2, <1>3, <2>2 DEF SbInv
<1>4. CASE totalBatchesProcessed > 0
  <2>1. SaltsAtStart = sbSalts /\ BatchIndex = currentMessageBatchIndex
    BY <1>1, <1>4 DEF SaltsAtStart, BatchIndex
  <2> QED
    BY <1>2, <1>4, <2>1 DEF SbInv
<1> QED
  BY <1>1, <1>3, <1>4

ResultInv ==
    /\ numBatchesTallied = 0 => tallyCommitment = <<>>
    /\ numBatchesTallied > 0 =>
          tallyCommitment = TallyCommitment(tallyResult, BatchStart, resultSalts[BatchStart - TallyBatchSize])

LEMMA ResultInvStarts ==
    ASSUME Init
    PROVE  ResultInv
  BY DEF Init, ResultInv

LEMMA ResultInvNext ==
    ASSUME StateInv, TallyInv, ResultInv, [Generate]_vars
    PROVE  ResultInv'
<1>1. /\ totalBatchesProcessed \in Nat /\ TotalBatches \in Nat \ {0}
      /\ numBatchesTallied \in Nat /\ TallyBatchSize \in Nat \ {0} /\ BatchStart \in Nat
  BY TotalBatchesIs, ConstantsAre DEF StateInv, BatchInv, TallyInv, BatchStart
<1>2. CASE Publish \/ ProcessMessages
  <2>1. UNCHANGED tallyVars
    BY <1>2 DEF Publish, PublishMessage, ProcessMessages
  <2>2. HasUnprocessedMessages
    BY <1>1, <1>2 DEF Publish, PublishMessage, ProcessMessages, HasUnprocessedMessages
  <2>3. numBatchesTallied = 0 /\ numBatchesTallied' = 0
    BY <1>1, <2>1, <2>2 DEF TallyInv, tallyVars
  <2> QED
    BY <2>1, <2>3 DEF ResultInv, tallyVars
<1>3. CASE Tally
  <2>1. /\ numBatchesTallied' = numBatchesTallied + 1 /\ tallyResult' = NewResults
        /\ resultSalts' = With(resultSalts, BatchStart, TallyInputs.newSalt)
        /\ tallyCommitment' = TallyInputs.newTallyCommitment
        /\ mode' = mode /\ state' = state
    BY <1>3 DEF Tally, TallyVotes, processVars
  <2>2. TallyInputs.newTallyCommitment
           = TallyCommitment(NewResults, BatchStart + TallyBatchSize, TallyInputs.newSalt)
    BY DEF TallyInputs
  <2>3. BatchStart' = BatchStart + TallyBatchSize /\ BatchStart' - TallyBatchSize = BatchStart
    BY <1>1, <2>1 DEF BatchStart
  <2>4. resultSalts'[BatchStart' - TallyBatchSize] = TallyInputs.newSalt
    BY <2>1, <2>3 DEF With
  <2>5. ASSUME NEW n
        PROVE  SpentSubtotal(n)' = SpentSubtotal(n) /\ PerVoteOptionSpent(n)' = PerVoteOptionSpent(n)
    BY <2>1 DEF SpentSubtotal, PerVoteOptionSpent, First, Cost
  <2>6. PICK n : n = BatchStart + TallyBatchSize
    OBVIOUS
  <2>7. tallyCommitment' = TallyCommitment(NewResults, n, TallyInputs.newSalt)
    BY <2>1, <2>2, <2>6
  <2>8. tallyCommitment' = <<<<VotesRoot(tallyResult'), TallyInputs.newSalt>>, <<SpentSubtotal(n)', TallyInputs.newSalt>>>>
            \o (IF mode' # "QV" THEN <<>> ELSE <<<<VotesRoot(PerVoteOptionSpent(n)'), TallyInputs.newSalt>>>>)
    BY <2>1, <2>5, <2>7 DEF TallyCommitment
  <2>9. SpentSubtotal(BatchStart)' = SpentSubtotal(n)' /\ PerVoteOptionSpent(BatchStart)' = PerVoteOptionSpent(n)'
    BY <2>3, <2>6 DEF SpentSubtotal, PerVoteOptionSpent, First
  <2>10. TallyCommitment(tallyResult, BatchStart, resultSalts[BatchStart - TallyBatchSize])' = tallyCommitment'
    BY <2>4, <2>8, <2>9 DEF TallyCommitment
  <2>11. numBatchesTallied' # 0
    BY <1>1, <2>1
  <2> QED
    BY <2>10, <2>11 DEF ResultInv
<1>4. CASE UNCHANGED vars
  BY <1>4 DEF vars, ResultInv, BatchStart, TallyCommitment, SpentSubtotal, PerVoteOptionSpent, First, Cost
<1> QED
  BY <1>2, <1>3, <1>4 DEF Generate

-----------------------------------------------------------------------------
(* The tally of a batch in the circuit: the sums over its slots are those over its ballots. *)

(* What slot b of the next batch of ballots holds. *)
BallotAt(b) == IF BatchStart + b - 1 \in Indices THEN state.ballots[BatchStart + b - 1] ELSE EmptyBallot

Renames(D, E, I, p, f, h) ==
    /\ IsFiniteSet(D) /\ IsFiniteSet(E) /\ I \in SUBSET E /\ p \in [D -> I]
    /\ \A x, y \in D : p[x] = p[y] => x = y
    /\ \A i \in I : \E x \in D : i = p[x]
    /\ f \in [E -> Int] /\ h \in [D -> Int] /\ \A x \in D : h[x] = f[p[x]]

LEMMA SumMoved ==
    ASSUME NEW D, NEW E, NEW I, NEW p, NEW f, NEW h, Renames(D, E, I, p, f, h)
    PROVE  Sum(h) = SumOver(f, I)
<1>1. /\ IsFiniteSet(D) /\ IsFiniteSet(E) /\ f \in [E -> Int] /\ h \in [D -> Int]
      /\ (\A x, y \in D : p[x] = p[y] => x = y) /\ \A x \in D : h[x] = f[p[x]]
  BY DEF Renames
<1>2. {p[x] : x \in D} = I /\ p \in [D -> E]
  BY DEF Renames
<1>3. Sum(h) = SumOver(f, {p[x] : x \in D})
  BY <1>1, <1>2, SumRenamed
<1> QED
  BY <1>2, <1>3

LEMMA BatchSum ==
    ASSUME numBatchesTallied \in Nat, NEW f \in [Indices -> Nat], NEW h \in [1..TallyBatchSize -> Nat],
           \A b \in 1..TallyBatchSize :
               h[b] = IF BatchStart + b - 1 \in Indices THEN f[BatchStart + b - 1] ELSE 0
    PROVE  Sum(h) = SumOver(f, BatchOfBallots)
<1> DEFINE T == TallyBatchSize
           start == BatchStart
           A == {b \in 1..T : start + b - 1 \in Indices}
           C == (1..T) \ A
           g == [b \in A |-> h[b]]
           p == [b \in A |-> start + b - 1]
<1>1. T \in Nat /\ start \in Nat /\ IsFiniteSet(1..T) /\ h \in [1..T -> Int] /\ f \in [Indices -> Int]
      /\ IsFiniteSet(Indices)
  <2>1. T \in Nat /\ start \in Nat
    BY ConstantsAre DEF BatchStart
  <2>2. IsFiniteSet(1..T)
    BY <2>1, FS_Interval
  <2> QED
    BY <2>1, <2>2, ConstantsAre
<1>2. A \in SUBSET (1..T) /\ C \in SUBSET (1..T) /\ A \cap C = {} /\ A \cup C = 1..T /\ IsFiniteSet(A) /\ IsFiniteSet(C)
  <2>1. A \in SUBSET (1..T) /\ C \in SUBSET (1..T) /\ A \cap C = {} /\ A \cup C = 1..T
    OBVIOUS
  <2> QED
    BY <1>1, <2>1, FS_Subset
<1>3. SumOver(h, C) = 0
  <2>1. \A b \in C : h[b] = 0
    OBVIOUS
  <2> DEFINE k == [b \in C |-> h[b]]
  <2>2. k \in [C -> Int] /\ \A b \in C : k[b] = 0
    BY <1>1, <1>2, <2>1
  <2> HIDE DEF k
  <2>3. Sum(k) = 0
    BY <1>2, <2>2, SumZero
  <2> QED
    BY <2>3 DEF SumOver, k
<1>4. g \in [A -> Int]
  BY <1>1, <1>2
<1>5. \A b \in A : g[b] = f[p[b]]
  OBVIOUS
<1>6. \A b, c \in A : p[b] = p[c] => b = c
  BY <1>1
<1>7. p \in [A -> BatchOfBallots] /\ \A i \in BatchOfBallots : \E b \in A : i = p[b]
  <2>1. ASSUME NEW b \in A
        PROVE  p[b] \in BatchOfBallots
    <3>1. p[b] = start + b - 1 /\ p[b] \in Indices /\ b \in 1..T
      OBVIOUS
    <3>2. start <= start + b - 1 /\ start + b - 1 < start + T
      BY <1>1, <3>1
    <3> QED
      BY <3>1, <3>2 DEF BatchOfBallots
  <2>2. ASSUME NEW i \in BatchOfBallots
        PROVE  \E b \in A : i = p[b]
    <3>1. i \in Indices /\ start <= i /\ i < start + T /\ i \in Nat
      BY ConstantsAre DEF BatchOfBallots
    <3>2. PICK b \in 1..T : start + b - 1 = i
      <4>1. i - start + 1 \in 1..T /\ start + (i - start + 1) - 1 = i
        BY <1>1, <3>1
      <4> QED
        BY <4>1
    <3> QED
      BY <3>1, <3>2
  <2> QED
    BY <2>1, <2>2
<1>8. Sum(g) = SumOver(h, A)
  BY DEF SumOver
<1> HIDE DEF A, C, g, p, T, start
<1>9. Sum(g) = SumOver(f, BatchOfBallots)
  <2>1. BatchOfBallots \in SUBSET Indices
    BY DEF BatchOfBallots
  <2>2. Renames(A, Indices, BatchOfBallots, p, f, g)
    BY <1>1, <1>2, <1>4, <1>5, <1>6, <1>7, <2>1 DEF Renames
  <2> QED
    BY <2>2, SumMoved
<1>10. SumOver(h, A \cup C) = SumOver(h, A) + SumOver(h, C)
  BY <1>1, <1>2, SumSplit
<1>11. SumOver(h, 1..T) = Sum(h) /\ SumOver(h, A) \in Int
  BY <1>1, <1>2, SumOverType
<1>12. SumOver(h, A \cup C) = SumOver(h, 1..T)
  BY <1>2
<1>13. SumOver(h, A) = SumOver(f, BatchOfBallots)
  BY <1>8, <1>9
<1> QED
  BY <1>3, <1>10, <1>11, <1>12, <1>13

(* The sum over options, which the circuit counts from 1. *)
LEMMA OptionSum ==
    ASSUME NEW f \in [Options -> Nat], NEW h \in [1..MaxVoteOptions -> Nat],
           \A n \in 1..MaxVoteOptions : h[n] = f[n - 1]
    PROVE  Sum(h) = Sum(f)
<1> DEFINE D == 1..MaxVoteOptions
           p == [n \in D |-> n - 1]
<1>1. MaxVoteOptions \in Nat /\ Options = 0..(MaxVoteOptions - 1) /\ IsFiniteSet(Options)
  BY ConstantsAre
<1>2. IsFiniteSet(D) /\ f \in [Options -> Int] /\ h \in [D -> Int]
  BY <1>1, FS_Interval
<1>3. p \in [D -> Options] /\ (\A n, m \in D : p[n] = p[m] => n = m) /\ \A n \in D : h[n] = f[p[n]]
  BY <1>1
<1>4. \A o \in Options : \E n \in D : o = p[n]
  <2> SUFFICES ASSUME NEW o \in Options
               PROVE  \E n \in D : o = p[n]
    OBVIOUS
  <2>1. o + 1 \in D /\ o = p[o + 1]
    BY <1>1
  <2> QED
    BY <2>1
<1> HIDE DEF D, p
<1>5. Renames(D, Options, Options, p, f, h)
  BY <1>1, <1>2, <1>3, <1>4 DEF Renames
<1>6. Sum(h) = SumOver(f, Options)
  BY <1>5, SumMoved
<1>7. Sum(f) = SumOver(f, Options)
  BY <1>1, <1>2, SumOverType
<1> QED
  BY <1>6, <1>7

AreTallyInputs(in) ==
    /\ in.stateRoot = StateRoot(state) /\ in.ballotRoot = BallotRoot(state)
    /\ in.sbSalt = sbSalts[currentMessageBatchIndex]
    /\ in.sbCommitment = <<in.stateRoot, in.ballotRoot, in.sbSalt>>
    /\ in.index = BatchStart /\ in.totalSignups = TotalSignups
    /\ in.ballots = [b \in 1..TallyBatchSize |-> BallotInputs(BallotAt(b))]
    /\ in.ballotPath = PathOf(Subroots(BallotRoot(state)), numBatchesTallied)
    /\ \A b \in 1..TallyBatchSize : in.votes[b] = VotesRoot(BallotAt(b).votes)
    /\ in.currentResults = VotesRoot(tallyResult) /\ in.currentSpent = totalSpentVoiceCredits
    /\ in.currentPerOption = VotesRoot(perVoteOptionSpent)
    /\ in.currentSalt = IF BatchStart = 0 THEN 0 ELSE resultSalts[BatchStart - TallyBatchSize]
    /\ in.currentTallyCommitment =
          IF BatchStart = 0 THEN <<>> ELSE TallyCommitment(tallyResult, BatchStart, in.currentSalt)
    /\ in.newTallyCommitment = TallyCommitment(NewResults, BatchStart + TallyBatchSize, in.newSalt)

LEMMA TallyInputsAre ==
    AreTallyInputs(TallyInputs)
<1> DEFINE in == TallyInputs
<1>1. /\ in.stateRoot = StateRoot(state) /\ in.ballotRoot = BallotRoot(state)
      /\ in.sbSalt = sbSalts[currentMessageBatchIndex]
      /\ in.sbCommitment = <<StateRoot(state), BallotRoot(state), sbSalts[currentMessageBatchIndex]>>
      /\ in.index = BatchStart /\ in.totalSignups = TotalSignups
  BY DEF TallyInputs
<1>2. in.ballots = [b \in 1..TallyBatchSize |-> BallotInputs(BallotAt(b))]
  BY DEF TallyInputs, BallotAt
<1>3. \A b \in 1..TallyBatchSize : in.votes[b] = VotesRoot(BallotAt(b).votes)
  BY DEF TallyInputs, BallotAt, BallotInputs
<1>4. /\ in.ballotPath = PathOf(Subroots(BallotRoot(state)), numBatchesTallied)
      /\ in.currentResults = VotesRoot(tallyResult) /\ in.currentSpent = totalSpentVoiceCredits
      /\ in.currentPerOption = VotesRoot(perVoteOptionSpent)
      /\ in.currentSalt = IF BatchStart = 0 THEN 0 ELSE resultSalts[BatchStart - TallyBatchSize]
  BY DEF TallyInputs
<1>5. /\ in.currentTallyCommitment =
             IF BatchStart = 0 THEN <<>> ELSE TallyCommitment(tallyResult, BatchStart, in.currentSalt)
      /\ in.newTallyCommitment = TallyCommitment(NewResults, BatchStart + TallyBatchSize, in.newSalt)
  BY DEF TallyInputs
<1> HIDE DEF in
<1> QED
  BY <1>1, <1>2, <1>3, <1>4, <1>5 DEF AreTallyInputs, in

LEMMA BallotAtType ==
    ASSUME state \in States, numBatchesTallied \in Nat, NEW b \in 1..TallyBatchSize
    PROVE  BallotAt(b) \in Ballots /\ BatchStart + b - 1 \in Nat
<1>1. EmptyBallot \in Ballots
  BY DEF EmptyBallot, Ballots
<1>2. BatchStart + b - 1 \in Nat
  BY ConstantsAre DEF BatchStart
<1> QED
  BY <1>1, <1>2, StateFields DEF BallotAt

(* The ballots are those of the tree. *)
LEMMA BallotsExist ==
    ASSUME state \in States, numBatchesTallied \in Nat, HasUntalliedBallots, NEW in, AreTallyInputs(in)
    PROVE  LeafExists(in.ballots, in.index \div TallyBatchSize, in.ballotPath, in.ballotRoot)
<1> DEFINE T == TallyBatchSize
           R == BallotRoot(state)
           q == Subroots(R)
           groups == MaxLeaves \div T
           n == numBatchesTallied
<1>1. /\ T \in Nat \ {0} /\ n \in Nat /\ groups \in Nat /\ MaxLeaves = groups * T /\ MaxLeaves \in Nat
      /\ n * T \in Nat /\ n * T < MaxLeaves
  <2>1. T \in Nat \ {0} /\ MaxLeaves \in Nat /\ MaxLeaves % T = 0 /\ TotalSignups <= MaxLeaves /\ TotalSignups \in Nat
    BY ConstantsAre
  <2>2. groups \in Nat /\ MaxLeaves = groups * T + (MaxLeaves % T)
    BY <2>1, DivMod
  <2>3. groups * T \in Nat /\ n * T \in Nat
    BY <2>1, <2>2
  <2> QED
    BY <2>1, <2>2, <2>3 DEF HasUntalliedBallots
<1> HIDE DEF T, R, q, groups
<1>2. n + 1 \in 1..groups /\ (n + 1) * T <= MaxLeaves /\ (n + 1) * T = n * T + T
  <2>1. ~(groups <= n)
    <3>1. groups <= n => groups * T <= n * T
      BY <1>1
    <3> QED
      BY <1>1, <3>1
  <2>2. n + 1 <= groups
    BY <1>1, <2>1
  <2>3. (n + 1) * T <= groups * T
    BY <1>1, <2>2
  <2>4. (n + 1) * T = n * T + T
    BY <1>1
  <2> QED
    BY <1>1, <2>2, <2>3, <2>4
<1>3. q = [b \in 1..groups |-> SubSeq(R, (b - 1) * T + 1, b * T)]
  BY DEF q, R, groups, T, Subroots
<1> DEFINE S == {q[b] : b \in 1..groups}
<1>4. q \in Seq(S) /\ Len(q) = groups
  <2>1. q \in [1..groups -> S]
    BY <1>3
  <2>2. q \in Seq(S)
    BY <1>1, <2>1, SeqDef
  <2>3. DOMAIN q = 1..groups
    BY <1>3
  <2> HIDE DEF S
  <2> QED
    BY <1>1, <2>2, <2>3, LenProperties
<1>5. q[n + 1] = in.ballots
  <2>1. q[n + 1] = SubSeq(R, n * T + 1, n * T + T)
    <3>1. (n + 1) - 1 = n
      BY <1>1
    <3> QED
      BY <1>2, <1>3, <3>1
  <2>2. /\ R \in Seq(CircuitBallot) /\ Len(R) = MaxLeaves
        /\ R = [k \in 1..MaxLeaves |->
                  IF k - 1 \in Indices THEN BallotInputs(state.ballots[k - 1]) ELSE BallotInputs(EmptyBallot)]
    BY BallotRootIs DEF R
  <2>3. ASSUME NEW b \in 1..T
        PROVE  n * T + b \in 1..MaxLeaves /\ R[n * T + b] = BallotInputs(BallotAt(b))
    <3>1. PICK k \in 1..MaxLeaves : k = n * T + b /\ k - 1 = n * T + b - 1
      BY <1>1, <1>2
    <3>2. R[k] = IF k - 1 \in Indices THEN BallotInputs(state.ballots[k - 1]) ELSE BallotInputs(EmptyBallot)
      BY <2>2
    <3>3. R[k] = BallotInputs(BallotAt(b))
      BY <3>1, <3>2 DEF BallotAt, BatchStart, T
    <3> QED
      BY <3>1, <3>3
  <2>4. PICK low \in Nat : low = n * T
    BY <1>1
  <2>5. SubSeq(R, low + 1, low + T) = [b \in 1..T |-> R[low + b]]
    <3>1. R \in Seq(CircuitBallot) /\ low + T <= Len(R)
      BY <1>1, <1>2, <2>2, <2>4
    <3>2. /\ SubSeq(R, low + 1, low + T) \in Seq(CircuitBallot)
          /\ Len(SubSeq(R, low + 1, low + T)) = T
          /\ \A b \in 1..T : SubSeq(R, low + 1, low + T)[b] = R[low + b]
      BY <1>1, <3>1
    <3> QED
      BY <3>2
  <2>6. in.ballots = [b \in 1..T |-> BallotInputs(BallotAt(b))]
    BY DEF AreTallyInputs, T
  <2>7. [b \in 1..T |-> R[low + b]] = [b \in 1..T |-> BallotInputs(BallotAt(b))]
    BY <2>3, <2>4
  <2> QED
    BY <2>1, <2>4, <2>5, <2>6, <2>7
<1>6. InsertAt(RemoveAt(q, n + 1), n + 1, in.ballots) = q
  <2>1. PICK k \in 1..Len(q) : k = n + 1
    BY <1>2, <1>4
  <2>2. PICK x \in S : x = q[k]
    BY <1>4
  <2> HIDE DEF S
  <2>3. InsertAt(RemoveAt(q, k), k, x) = [q EXCEPT ![k] = x]
    BY <1>4, Reinserted
  <2>4. [q EXCEPT ![k] = x] = q
    BY <1>3, <2>2
  <2> QED
    BY <1>5, <2>1, <2>2, <2>3, <2>4
<1>7. BatchStart \div T = n
  <2>1. BatchStart = n * T
    BY DEF BatchStart, T
  <2>2. (n * T) \div T = n
    BY <1>1
  <2> QED
    BY <2>1, <2>2
<1>8. in.index = BatchStart /\ in.ballotPath = PathOf(q, n) /\ in.ballotRoot = R
  BY DEF AreTallyInputs, q, R
<1> QED
  BY <1>6, <1>7, <1>8 DEF LeafExists, MerkleTreeInclusionProof, PathOf, q, T

(* What the slots of a batch add, for every option and in all. *)
LEMMA BatchAdds ==
    ASSUME state \in States, numBatchesTallied \in Nat, NEW in, AreTallyInputs(in)
    PROVE  /\ \A n \in 1..MaxVoteOptions :
                 /\ n - 1 \in Options
                 /\ Sum([b \in 1..TallyBatchSize |-> in.votes[b][n]]) = SumOver(Votes(n - 1), BatchOfBallots)
                 /\ Sum([b \in 1..TallyBatchSize |-> Cost(in.votes[b][n])])
                       = SumOver(SpentOn(n - 1), BatchOfBallots)
           /\ Sum([b \in 1..TallyBatchSize |-> Sum([n \in 1..MaxVoteOptions |-> Cost(in.votes[b][n])])])
                 = SumOver(Spent, BatchOfBallots)
<1> DEFINE T == TallyBatchSize
           at(b) == BatchStart + b - 1
<1>1. \A n \in 1..MaxVoteOptions : n - 1 \in Options
  BY ConstantsAre
<1>2. ASSUME NEW b \in 1..T
      PROVE  /\ BallotAt(b).votes \in [Options -> Nat]
             /\ \A n \in 1..MaxVoteOptions : in.votes[b][n] = BallotAt(b).votes[n - 1]
             /\ at(b) \in Indices => BallotAt(b) = state.ballots[at(b)]
             /\ at(b) \notin Indices => BallotAt(b) = EmptyBallot
  <2>1. BallotAt(b) \in Ballots
    BY BallotAtType
  <2>2. BallotAt(b).votes \in [Options -> Nat]
    BY <2>1 DEF Ballots
  <2>3. VotesRoot(BallotAt(b).votes) = [k \in 1..MaxVoteOptions |-> BallotAt(b).votes[k - 1]]
    BY <2>2, VotesRootIs
  <2>4. in.votes[b] = VotesRoot(BallotAt(b).votes)
    BY DEF AreTallyInputs
  <2> QED
    BY <2>2, <2>3, <2>4 DEF BallotAt
<1>3. /\ Spent \in [Indices -> Nat]
      /\ \A o \in Options : Votes(o) \in [Indices -> Nat] /\ SpentOn(o) \in [Indices -> Nat]
  BY SummandTypes
<1>4. \A o \in Options : EmptyBallot.votes[o] = 0 /\ Cost(EmptyBallot.votes[o]) = 0
  BY DEF EmptyBallot, Cost
<1>5. ASSUME NEW n \in 1..MaxVoteOptions
      PROVE  Sum([b \in 1..T |-> in.votes[b][n]]) = SumOver(Votes(n - 1), BatchOfBallots)
  <2> DEFINE h == [b \in 1..T |-> in.votes[b][n]]
  <2>1. PICK o \in Options : o = n - 1
    BY <1>1
  <2>2. ASSUME NEW b \in 1..T
        PROVE  h[b] \in Nat /\ h[b] = IF BatchStart + b - 1 \in Indices THEN Votes(o)[BatchStart + b - 1] ELSE 0
    <3>1. h[b] = BallotAt(b).votes[o] /\ h[b] \in Nat
      BY <1>2, <2>1
    <3>2. at(b) \in Indices => Votes(o)[at(b)] = state.ballots[at(b)].votes[o]
      BY DEF Votes
    <3> QED
      BY <1>2, <1>4, <3>1, <3>2
  <2>3. h \in [1..TallyBatchSize -> Nat]
    BY <2>2
  <2> HIDE DEF h
  <2>4. PICK f \in [Indices -> Nat] : f = Votes(o)
    BY <1>3
  <2>5. Sum(h) = SumOver(f, BatchOfBallots)
    BY <2>2, <2>3, <2>4, BatchSum
  <2> QED
    BY <2>1, <2>4, <2>5 DEF h
<1>6. ASSUME NEW n \in 1..MaxVoteOptions
      PROVE  Sum([b \in 1..T |-> Cost(in.votes[b][n])]) = SumOver(SpentOn(n - 1), BatchOfBallots)
  <2> DEFINE h == [b \in 1..T |-> Cost(in.votes[b][n])]
  <2>1. PICK o \in Options : o = n - 1
    BY <1>1
  <2>2. ASSUME NEW b \in 1..T
        PROVE  h[b] \in Nat /\ h[b] = IF BatchStart + b - 1 \in Indices THEN SpentOn(o)[BatchStart + b - 1] ELSE 0
    <3>1. h[b] = Cost(BallotAt(b).votes[o]) /\ h[b] \in Nat
      <4>1. in.votes[b][n] = BallotAt(b).votes[o] /\ BallotAt(b).votes[o] \in Nat
        BY <1>2, <2>1
      <4> QED
        BY <4>1, CostType
    <3>2. at(b) \in Indices => SpentOn(o)[at(b)] = Cost(state.ballots[at(b)].votes[o])
      BY DEF SpentOn
    <3> HIDE DEF h
    <3> QED
      BY <1>2, <1>4, <3>1, <3>2
  <2>3. h \in [1..TallyBatchSize -> Nat]
    BY <2>2
  <2> HIDE DEF h
  <2>4. PICK f \in [Indices -> Nat] : f = SpentOn(o)
    BY <1>3
  <2>5. Sum(h) = SumOver(f, BatchOfBallots)
    BY <2>2, <2>3, <2>4, BatchSum
  <2> QED
    BY <2>1, <2>4, <2>5 DEF h
<1>7. Sum([b \in 1..T |-> Sum([n \in 1..MaxVoteOptions |-> Cost(in.votes[b][n])])]) = SumOver(Spent, BatchOfBallots)
  <2> DEFINE k(b) == [n \in 1..MaxVoteOptions |-> Cost(in.votes[b][n])]
             h == [b \in 1..T |-> Sum(k(b))]
  <2>1. ASSUME NEW b \in 1..T
        PROVE  Sum(k(b)) = BallotCost(BallotAt(b)) /\ Sum(k(b)) \in Nat
    <3> DEFINE c == [o \in Options |-> Cost(BallotAt(b).votes[o])]
               d == k(b)
    <3>1. c \in [Options -> Nat]
      BY <1>2, CostType
    <3>2. \A n \in 1..MaxVoteOptions : d[n] = c[n - 1] /\ d[n] \in Nat
      <4> SUFFICES ASSUME NEW n \in 1..MaxVoteOptions
                   PROVE  d[n] = c[n - 1] /\ d[n] \in Nat
        OBVIOUS
      <4>1. in.votes[b][n] = BallotAt(b).votes[n - 1] /\ BallotAt(b).votes[n - 1] \in Nat /\ n - 1 \in Options
        BY <1>1, <1>2
      <4> QED
        BY <4>1, CostType
    <3>3. d \in [1..MaxVoteOptions -> Nat]
      BY <3>2
    <3> HIDE DEF c, d
    <3>4. Sum(d) = Sum(c)
      BY <3>1, <3>2, <3>3, OptionSum
    <3>5. Sum(c) = BallotCost(BallotAt(b))
      BY DEF c, BallotCost
    <3>6. Sum(c) \in Nat
      BY <3>1, SumType, ConstantsAre
    <3> QED
      BY <3>4, <3>5, <3>6 DEF d
  <2> HIDE DEF k
  <2>2. BallotCost(EmptyBallot) = 0
    <3> DEFINE c == [o \in Options |-> Cost(EmptyBallot.votes[o])]
    <3>1. c \in [Options -> Int] /\ \A o \in Options : c[o] = 0
      BY <1>4
    <3> HIDE DEF c
    <3>2. Sum(c) = 0
      BY <3>1, SumZero, ConstantsAre
    <3> QED
      BY <3>2 DEF BallotCost, c
  <2>3. ASSUME NEW b \in 1..T
        PROVE  h[b] \in Nat /\ h[b] = IF BatchStart + b - 1 \in Indices THEN Spent[BatchStart + b - 1] ELSE 0
    <3>1. h[b] = BallotCost(BallotAt(b)) /\ h[b] \in Nat
      BY <2>1
    <3>2. at(b) \in Indices => Spent[at(b)] = BallotCost(state.ballots[at(b)])
      BY DEF Spent
    <3> HIDE DEF h
    <3> QED
      BY <1>2, <2>2, <3>1, <3>2
  <2>4. h \in [1..TallyBatchSize -> Nat]
    BY <2>3
  <2> HIDE DEF h
  <2>5. PICK f \in [Indices -> Nat] : f = Spent
    BY <1>3
  <2>6. Sum(h) = SumOver(f, BatchOfBallots)
    BY <2>3, <2>4, <2>5, BatchSum
  <2> QED
    BY <2>5, <2>6 DEF h, k
<1> QED
  BY <1>1, <1>5, <1>6, <1>7

-----------------------------------------------------------------------------
(* The totals of a batch in the circuit are those of the node. *)

LEMMA CircuitTotals ==
    ASSUME NEW in, NEW current
    PROVE  /\ TotalPerOption(AsGiven, in, current)
                 = [n \in 1..MaxVoteOptions |->
                       Kept(in, current[n]) + Sum([b \in 1..TallyBatchSize |-> in.votes[b][n]])]
           /\ mode = "QV" => TotalPerOption(Squared, in, current)
                 = [n \in 1..MaxVoteOptions |->
                       Kept(in, current[n]) + Sum([b \in 1..TallyBatchSize |-> Cost(in.votes[b][n])])]
           /\ mode = "QV" => TotalSpent(Squared, in)
                 = Kept(in, in.currentSpent) +
                      Sum([b \in 1..TallyBatchSize |-> Sum([n \in 1..MaxVoteOptions |-> Cost(in.votes[b][n])])])
           /\ mode # "QV" => TotalSpent(AsGiven, in)
                 = Kept(in, in.currentSpent) +
                      Sum([b \in 1..TallyBatchSize |-> Sum([n \in 1..MaxVoteOptions |-> Cost(in.votes[b][n])])])
<1>1. TotalPerOption(AsGiven, in, current)
         = [n \in 1..MaxVoteOptions |->
               Kept(in, current[n]) + Sum([b \in 1..TallyBatchSize |-> in.votes[b][n]])]
  BY DEF TotalPerOption, AsGiven, Sum
<1>2. ASSUME mode = "QV"
      PROVE  TotalPerOption(Squared, in, current)
                = [n \in 1..MaxVoteOptions |->
                      Kept(in, current[n]) + Sum([b \in 1..TallyBatchSize |-> Cost(in.votes[b][n])])]
  BY <1>2 DEF TotalPerOption, Squared, Sum, Cost
<1>3. ASSUME mode = "QV"
      PROVE  TotalSpent(Squared, in)
                = Kept(in, in.currentSpent) +
                     Sum([b \in 1..TallyBatchSize |-> Sum([n \in 1..MaxVoteOptions |-> Cost(in.votes[b][n])])])
  BY <1>3 DEF TotalSpent, Squared, Sum, Cost
<1>4. ASSUME mode # "QV"
      PROVE  TotalSpent(AsGiven, in)
                = Kept(in, in.currentSpent) +
                     Sum([b \in 1..TallyBatchSize |-> Sum([n \in 1..MaxVoteOptions |-> Cost(in.votes[b][n])])])
  BY <1>4 DEF TotalSpent, AsGiven, Sum, Cost
<1> QED
  BY <1>1, <1>2, <1>3, <1>4

LEMMA PartType ==
    ASSUME NEW f \in [Indices -> Nat], NEW s \in SUBSET Indices
    PROVE  SumOver(f, s) \in Nat
<1> DEFINE g == [x \in s |-> f[x]]
<1>1. IsFiniteSet(s)
  BY ConstantsAre, FS_Subset
<1>2. g \in [s -> Nat]
  OBVIOUS
<1> HIDE DEF g
<1>3. Sum(g) \in Nat
  BY <1>1, <1>2, SumType
<1> QED
  BY <1>3 DEF SumOver, g

(* What a summand comes to with the next batch, and that there is nothing to keep before the first. *)
LEMMA NextTotal ==
    ASSUME numBatchesTallied \in Nat, NEW in, AreTallyInputs(in), NEW f \in [Indices -> Nat]
    PROVE  /\ SumOver(f, First(BatchStart)) \in Nat
           /\ Kept(in, SumOver(f, First(BatchStart))) = SumOver(f, First(BatchStart))
           /\ SumOver(f, First(BatchStart + TallyBatchSize))
                 = SumOver(f, First(BatchStart)) + SumOver(f, BatchOfBallots)
<1>1. BatchStart \in Nat /\ in.index = BatchStart
  BY NextBallots DEF AreTallyInputs
<1>2. SumOver(f, First(BatchStart)) \in Nat
  <2>1. First(BatchStart) \in SUBSET Indices /\ IsFiniteSet(Indices)
    BY <1>1, FirstAre, ConstantsAre
  <2> QED
    BY <2>1, PartType
<1>3. BatchStart = 0 => SumOver(f, First(BatchStart)) = 0
  BY FirstAre, SumOverEmpty
<1>4. Kept(in, SumOver(f, First(BatchStart))) = SumOver(f, First(BatchStart))
  BY <1>1, <1>3 DEF Kept
<1> QED
  BY <1>2, <1>4, NextBallots

LEMMA SubtotalsAre ==
    ASSUME NEW n \in Nat
    PROVE  /\ SpentSubtotal(n) = SumOver(Spent, First(n))
           /\ PerVoteOptionSpent(n) = [o \in Options |-> SumOver(SpentOn(o), First(n))]
<1>1. First(n) \in SUBSET Indices
  BY FirstAre
<1> QED
  BY <1>1, SumOfPart DEF SpentSubtotal, PerVoteOptionSpent

AreTotals(W, kept, new, added) ==
    /\ W \in [Options -> [Indices -> Nat]]
    /\ kept = [o \in Options |-> SumOver(W[o], First(BatchStart))]
    /\ new = [o \in Options |-> SumOver(W[o], First(BatchStart + TallyBatchSize))]
    /\ \A n \in 1..MaxVoteOptions : added[n] = SumOver(W[n - 1], BatchOfBallots)

(* Option by option: what the circuit has is the root of what the node has. *)
LEMMA OptionTotals ==
    ASSUME numBatchesTallied \in Nat, NEW in, AreTallyInputs(in),
           NEW W, NEW kept, NEW new, NEW added, AreTotals(W, kept, new, added)
    PROVE  [n \in 1..MaxVoteOptions |-> Kept(in, VotesRoot(kept)[n]) + added[n]] = VotesRoot(new)
<1>1. ASSUME NEW o \in Options
      PROVE  /\ kept[o] \in Nat /\ Kept(in, kept[o]) = kept[o] /\ new[o] \in Nat
             /\ new[o] = kept[o] + SumOver(W[o], BatchOfBallots)
  <2>1. PICK f \in [Indices -> Nat] : f = W[o]
    BY DEF AreTotals
  <2>2. kept[o] = SumOver(f, First(BatchStart)) /\ new[o] = SumOver(f, First(BatchStart + TallyBatchSize))
    BY <2>1 DEF AreTotals
  <2>3. SumOver(f, BatchOfBallots) \in Nat
    <3>1. BatchOfBallots \in SUBSET Indices /\ f \in [Indices -> Nat] /\ IsFiniteSet(Indices)
      BY NextBallots, ConstantsAre
    <3> QED
      BY <3>1, PartType
  <2>4. /\ kept[o] \in Nat /\ Kept(in, kept[o]) = kept[o]
        /\ new[o] = kept[o] + SumOver(f, BatchOfBallots)
    BY <2>2, NextTotal
  <2> QED
    BY <2>1, <2>3, <2>4
<1>2. kept \in [Options -> Nat] /\ new \in [Options -> Nat]
  BY <1>1 DEF AreTotals
<1>3. VotesRoot(new) = [n \in 1..MaxVoteOptions |-> new[n - 1]]
  BY <1>2, VotesRootIs
<1>4. VotesRoot(kept) = [n \in 1..MaxVoteOptions |-> kept[n - 1]]
  BY <1>2, VotesRootIs
<1>5. ASSUME NEW n \in 1..MaxVoteOptions
      PROVE  Kept(in, VotesRoot(kept)[n]) + added[n] = new[n - 1]
  <2>1. PICK o \in Options : o = n - 1
    BY ConstantsAre
  <2>2. VotesRoot(kept)[n] = kept[o]
    BY <1>4, <2>1
  <2>3. added[n] = SumOver(W[o], BatchOfBallots)
    BY <2>1 DEF AreTotals
  <2> QED
    BY <1>1, <2>1, <2>2, <2>3
<1> QED
  BY <1>3, <1>5

LEMMA BatchStarts ==
    ASSUME numBatchesTallied \in Nat
    PROVE  /\ BatchStart \in Nat /\ BatchStart + TallyBatchSize \in Nat
           /\ BatchOfBallots \in SUBSET Indices
<1>1. BatchStart \in Nat /\ TallyBatchSize \in Nat
  BY ConstantsAre DEF BatchStart
<1> QED
  BY <1>1 DEF BatchOfBallots

LEMMA Three ==
    ASSUME NEW a, NEW b, NEW c
    PROVE  <<a, b>> \o <<c>> = <<a, b, c>>
<1> DEFINE S == {a, b, c}
<1>1. <<a, b>> \in Seq(S) /\ <<c>> \in Seq(S)
  OBVIOUS
<1>2. PICK p \in Seq(S), q \in Seq(S) : p = <<a, b>> /\ q = <<c>>
  BY <1>1
<1>3. Len(p) = 2 /\ Len(q) = 1 /\ p[1] = a /\ p[2] = b /\ q[1] = c
  BY <1>2
<1> HIDE DEF S
<1>4. /\ p \o q \in Seq(S) /\ Len(p \o q) = 3
      /\ \A n \in 1..3 : (p \o q)[n] = IF n <= 2 THEN p[n] ELSE q[n - 2]
  BY <1>2, <1>3, ConcatProperties
<1>5. p \o q = [n \in 1..3 |-> IF n <= 2 THEN p[n] ELSE q[n - 2]]
  <2>1. PICK r \in Seq(S) : r = p \o q
    BY <1>4
  <2>2. Len(r) = 3 /\ r \in [1..3 -> S]
    BY <1>4, <2>1, LenProperties
  <2>3. \A n \in 1..3 : r[n] = IF n <= 2 THEN p[n] ELSE q[n - 2]
    BY <1>4, <2>1, LenProperties
  <2> QED
    BY <2>1, <2>2, <2>3
<1>6. <<a, b, c>> = [n \in 1..3 |-> IF n <= 2 THEN p[n] ELSE q[n - 2]]
  BY <1>3
<1> QED
  BY <1>2, <1>5, <1>6

LEMMA TallyInputsAreRight ==
    ASSUME state \in States, numBatchesTallied \in Nat, HasUntalliedBallots, NEW in, AreTallyInputs(in)
    PROVE  TallyInputsHold(in)
<1>1. in.sbCommitment = <<in.stateRoot, in.ballotRoot, in.sbSalt>>
  BY DEF AreTallyInputs
<1>2. in.index <= in.totalSignups
  <2>1. BatchStart \in Nat /\ BatchStart < TotalSignups /\ TotalSignups \in Nat
    BY ConstantsAre, BatchStarts DEF HasUntalliedBallots, BatchStart
  <2> QED
    BY <2>1 DEF AreTallyInputs
<1>3. LeafExists(in.ballots, in.index \div TallyBatchSize, in.ballotPath, in.ballotRoot)
  BY BallotsExist
<1>4. ASSUME NEW b \in 1..TallyBatchSize
      PROVE  in.votes[b] = in.ballots[b].votes
  <2>1. in.ballots[b] = BallotInputs(BallotAt(b)) /\ in.votes[b] = VotesRoot(BallotAt(b).votes)
    BY DEF AreTallyInputs
  <2> QED
    BY <2>1 DEF BallotInputs
<1> QED
  BY <1>1, <1>2, <1>3, <1>4 DEF TallyInputsHold

(* The results, and what is spent in all and on every option. *)
LEMMA ResultsAre ==
    ASSUME state \in States, TallyInv
    PROVE  NewResults = [o \in Options |-> SumOver(Votes(o), First(BatchStart + TallyBatchSize))]
<1>1. numBatchesTallied \in Nat /\ BatchOfBallots \in SUBSET Indices
  <2>1. numBatchesTallied \in Nat
    BY DEF TallyInv
  <2> QED
    BY <2>1, BatchStarts
<1>2. ASSUME NEW o \in Options
      PROVE  NewResults[o] = SumOver(Votes(o), First(BatchStart + TallyBatchSize))
  <2>1. NewResults[o] = tallyResult[o] + SumOver(Votes(o), BatchOfBallots)
    BY <1>1, SumOfPart DEF NewResults
  <2>2. tallyResult[o] = SumOver(Votes(o), First(BatchStart))
    BY DEF TallyInv
  <2>3. PICK f \in [Indices -> Nat] : f = Votes(o)
    BY SummandTypes
  <2>4. SumOver(f, First(BatchStart + TallyBatchSize)) = SumOver(f, First(BatchStart)) + SumOver(f, BatchOfBallots)
    BY <1>1, NextBallots
  <2> QED
    BY <2>1, <2>2, <2>3, <2>4
<1>3. NewResults = [o \in Options |-> NewResults[o]]
  BY DEF NewResults
<1> QED
  BY <1>2, <1>3

LEMMA ResultsOfCircuit ==
    ASSUME state \in States, TallyInv, NEW in, AreTallyInputs(in)
    PROVE  TotalPerOption(AsGiven, in, in.currentResults) = VotesRoot(NewResults)
<1> DEFINE W == [o \in Options |-> Votes(o)]
           added == [n \in 1..MaxVoteOptions |-> Sum([b \in 1..TallyBatchSize |-> in.votes[b][n]])]
<1>1. numBatchesTallied \in Nat /\ in.currentResults = VotesRoot(tallyResult)
  BY DEF TallyInv, AreTallyInputs
<1>2. W \in [Options -> [Indices -> Nat]]
  BY SummandTypes
<1>3. tallyResult = [o \in Options |-> SumOver(W[o], First(BatchStart))]
  BY DEF TallyInv
<1>4. NewResults = [o \in Options |-> SumOver(W[o], First(BatchStart + TallyBatchSize))]
  BY ResultsAre
<1>5. \A n \in 1..MaxVoteOptions : added[n] = SumOver(W[n - 1], BatchOfBallots)
  BY <1>1, BatchAdds
<1>6. TotalPerOption(AsGiven, in, in.currentResults)
         = [n \in 1..MaxVoteOptions |-> Kept(in, in.currentResults[n]) + added[n]]
  <2>1. PICK current : current = in.currentResults
    OBVIOUS
  <2>2. TotalPerOption(AsGiven, in, current)
           = [n \in 1..MaxVoteOptions |->
                 Kept(in, current[n]) + Sum([b \in 1..TallyBatchSize |-> in.votes[b][n]])]
    BY CircuitTotals, ZenonT(60)
  <2>3. TotalPerOption(AsGiven, in, current) = [n \in 1..MaxVoteOptions |-> Kept(in, current[n]) + added[n]]
    BY <2>2
  <2> QED
    BY <2>1, <2>3
<1> HIDE DEF W, added
<1>7. [n \in 1..MaxVoteOptions |-> Kept(in, VotesRoot(tallyResult)[n]) + added[n]] = VotesRoot(NewResults)
  <2>1. PICK kept, new : kept = tallyResult /\ new = NewResults
    OBVIOUS
  <2>2. /\ kept = [o \in Options |-> SumOver(W[o], First(BatchStart))]
        /\ new = [o \in Options |-> SumOver(W[o], First(BatchStart + TallyBatchSize))]
    BY <1>3, <1>4, <2>1
  <2>3. [n \in 1..MaxVoteOptions |-> Kept(in, VotesRoot(kept)[n]) + added[n]] = VotesRoot(new)
    <3>1. AreTotals(W, kept, new, added)
      BY <1>2, <1>5, <2>2 DEF AreTotals
    <3> QED
      BY <1>1, <3>1, OptionTotals
  <2> QED
    BY <2>1, <2>3
<1> QED
  BY <1>1, <1>6, <1>7

LEMMA SpentPerOptionOfCircuit ==
    ASSUME state \in States, TallyInv, NEW in, AreTallyInputs(in), mode = "QV"
    PROVE  /\ TotalPerOption(Squared, in, in.currentPerOption)
                 = VotesRoot(PerVoteOptionSpent(BatchStart + TallyBatchSize))
           /\ perVoteOptionSpent = PerVoteOptionSpent(BatchStart)
<1> DEFINE W == [o \in Options |-> SpentOn(o)]
           added == [n \in 1..MaxVoteOptions |-> Sum([b \in 1..TallyBatchSize |-> Cost(in.votes[b][n])])]
           next == PerVoteOptionSpent(BatchStart + TallyBatchSize)
<1>1. /\ numBatchesTallied \in Nat /\ in.currentPerOption = VotesRoot(perVoteOptionSpent)
      /\ BatchStart \in Nat /\ BatchStart + TallyBatchSize \in Nat
  <2>1. numBatchesTallied \in Nat
    BY DEF TallyInv
  <2> QED
    BY <2>1, BatchStarts DEF AreTallyInputs
<1>2. W \in [Options -> [Indices -> Nat]]
  BY SummandTypes
<1>3. perVoteOptionSpent = [o \in Options |-> SumOver(W[o], First(BatchStart))]
  BY DEF TallyInv
<1>4. next = [o \in Options |-> SumOver(W[o], First(BatchStart + TallyBatchSize))]
  BY <1>1, SubtotalsAre
<1>5. \A n \in 1..MaxVoteOptions : added[n] = SumOver(W[n - 1], BatchOfBallots)
  BY <1>1, BatchAdds
<1>6. TotalPerOption(Squared, in, in.currentPerOption)
         = [n \in 1..MaxVoteOptions |-> Kept(in, in.currentPerOption[n]) + added[n]]
  <2>1. PICK current : current = in.currentPerOption
    OBVIOUS
  <2>2. TotalPerOption(Squared, in, current)
           = [n \in 1..MaxVoteOptions |->
                 Kept(in, current[n]) + Sum([b \in 1..TallyBatchSize |-> Cost(in.votes[b][n])])]
    BY CircuitTotals, ZenonT(60)
  <2>3. TotalPerOption(Squared, in, current) = [n \in 1..MaxVoteOptions |-> Kept(in, current[n]) + added[n]]
    BY <2>2
  <2> QED
    BY <2>1, <2>3
<1>7. perVoteOptionSpent = PerVoteOptionSpent(BatchStart)
  BY <1>1, <1>3, SubtotalsAre
<1> HIDE DEF W, added, next
<1>8. [n \in 1..MaxVoteOptions |-> Kept(in, VotesRoot(perVoteOptionSpent)[n]) + added[n]] = VotesRoot(next)
  <2>1. PICK kept, new : kept = perVoteOptionSpent /\ new = next
    OBVIOUS
  <2>2. /\ kept = [o \in Options |-> SumOver(W[o], First(BatchStart))]
        /\ new = [o \in Options |-> SumOver(W[o], First(BatchStart + TallyBatchSize))]
    BY <1>3, <1>4, <2>1
  <2>3. [n \in 1..MaxVoteOptions |-> Kept(in, VotesRoot(kept)[n]) + added[n]] = VotesRoot(new)
    <3>1. AreTotals(W, kept, new, added)
      BY <1>2, <1>5, <2>2 DEF AreTotals
    <3> QED
      BY <1>1, <3>1, OptionTotals
  <2> QED
    BY <2>1, <2>3
<1> QED
  BY <1>1, <1>6, <1>7, <1>8 DEF next

LEMMA SpentOfCircuit ==
    ASSUME state \in States, TallyInv, NEW in, AreTallyInputs(in)
    PROVE  /\ mode = "QV" => TotalSpent(Squared, in) = SpentSubtotal(BatchStart + TallyBatchSize)
           /\ mode # "QV" => TotalSpent(AsGiven, in) = SpentSubtotal(BatchStart + TallyBatchSize)
           /\ totalSpentVoiceCredits = SpentSubtotal(BatchStart)
<1>1. /\ numBatchesTallied \in Nat /\ in.currentSpent = totalSpentVoiceCredits
      /\ BatchStart \in Nat /\ BatchStart + TallyBatchSize \in Nat
  <2>1. numBatchesTallied \in Nat
    BY DEF TallyInv
  <2> QED
    BY <2>1, BatchStarts DEF AreTallyInputs
<1>2. PICK f \in [Indices -> Nat] : f = Spent
  BY SummandTypes
<1>3. totalSpentVoiceCredits = SumOver(f, First(BatchStart))
  BY <1>2 DEF TallyInv
<1>4. SpentSubtotal(BatchStart) = SumOver(f, First(BatchStart))
  BY <1>1, <1>2, SubtotalsAre
<1>5. SpentSubtotal(BatchStart + TallyBatchSize) = SumOver(f, First(BatchStart + TallyBatchSize))
  BY <1>1, <1>2, SubtotalsAre
<1>6. Sum([b \in 1..TallyBatchSize |-> Sum([n \in 1..MaxVoteOptions |-> Cost(in.votes[b][n])])])
         = SumOver(f, BatchOfBallots)
  BY <1>1, <1>2, BatchAdds
<1>7. /\ Kept(in, SumOver(f, First(BatchStart))) = SumOver(f, First(BatchStart))
      /\ SumOver(f, First(BatchStart + TallyBatchSize))
            = SumOver(f, First(BatchStart)) + SumOver(f, BatchOfBallots)
  BY <1>1, NextTotal
<1>8. Kept(in, in.currentSpent) +
         Sum([b \in 1..TallyBatchSize |-> Sum([n \in 1..MaxVoteOptions |-> Cost(in.votes[b][n])])])
            = SpentSubtotal(BatchStart + TallyBatchSize)
  BY <1>1, <1>3, <1>5, <1>6, <1>7
<1> QED
  BY <1>3, <1>4, <1>8, CircuitTotals

(* The results of a batch are proved from those committed to before it. *)
LEMMA TallyIsProvable ==
    ASSUME state \in States, TallyInv, HasUntalliedBallots, NEW in, AreTallyInputs(in)
    PROVE  TallyCircuit(in)
<1>1. TallyInputsHold(in)
  BY TallyInputsAreRight DEF TallyInv
<1>2. /\ in.index = BatchStart /\ in.currentResults = VotesRoot(tallyResult)
      /\ in.currentSpent = totalSpentVoiceCredits /\ in.currentPerOption = VotesRoot(perVoteOptionSpent)
      /\ in.currentTallyCommitment =
            IF BatchStart = 0 THEN <<>> ELSE TallyCommitment(tallyResult, BatchStart, in.currentSalt)
      /\ in.newTallyCommitment = TallyCommitment(NewResults, BatchStart + TallyBatchSize, in.newSalt)
  BY DEF AreTallyInputs
<1>3. TotalPerOption(AsGiven, in, in.currentResults) = VotesRoot(NewResults)
  BY ResultsOfCircuit
<1>4. totalSpentVoiceCredits = SpentSubtotal(BatchStart)
  BY SpentOfCircuit
<1>5. CASE mode = "QV"
  <2>1. \A r, n, salt : TallyCommitment(r, n, salt) =
            <<<<VotesRoot(r), salt>>, <<SpentSubtotal(n), salt>>, <<VotesRoot(PerVoteOptionSpent(n)), salt>>>>
    BY <1>5, Three DEF TallyCommitment
  <2>2. TotalSpent(Squared, in) = SpentSubtotal(BatchStart + TallyBatchSize)
    BY <1>5, SpentOfCircuit
  <2>3. /\ TotalPerOption(Squared, in, in.currentPerOption)
              = VotesRoot(PerVoteOptionSpent(BatchStart + TallyBatchSize))
        /\ perVoteOptionSpent = PerVoteOptionSpent(BatchStart)
    BY <1>5, SpentPerOptionOfCircuit
  <2>4. ResultCommitmentVerifierQv(in, TotalPerOption(AsGiven, in, in.currentResults),
            TotalSpent(Squared, in), TotalPerOption(Squared, in, in.currentPerOption))
    BY <1>2, <1>3, <1>4, <2>1, <2>2, <2>3 DEF ResultCommitmentVerifierQv
  <2> QED
    BY <1>1, <1>5, <2>4 DEF TallyCircuit, VoteTallyQv
<1>6. CASE mode # "QV"
  <2>1. \A r, n, salt : TallyCommitment(r, n, salt) = <<<<VotesRoot(r), salt>>, <<SpentSubtotal(n), salt>>>>
    BY <1>6 DEF TallyCommitment
  <2>2. TotalSpent(AsGiven, in) = SpentSubtotal(BatchStart + TallyBatchSize)
    BY <1>6, SpentOfCircuit
  <2>3. ResultCommitmentVerifierNonQv(in, TotalPerOption(AsGiven, in, in.currentResults), TotalSpent(AsGiven, in))
    BY <1>2, <1>3, <1>4, <2>1, <2>2 DEF ResultCommitmentVerifierNonQv
  <2> QED
    BY <1>1, <1>6, <2>3 DEF TallyCircuit, VoteTallyNonQv
<1> QED
  BY <1>5, <1>6

-----------------------------------------------------------------------------
(* The commitments from which the tally starts are those the contract has. *)

LEMMA TallyStartsFromCommitments ==
    ASSUME BatchInv, SbInv, TallyInv, ResultInv, ~HasUnprocessedMessages, NEW in, AreTallyInputs(in)
    PROVE  in.sbCommitment = sbCommitment /\ in.currentTallyCommitment = tallyCommitment
<1>1. /\ totalBatchesProcessed \in Nat /\ TotalBatches \in Nat \ {0} /\ numBatchesTallied \in Nat
      /\ TallyBatchSize \in Nat \ {0}
  BY TotalBatchesIs, ConstantsAre DEF BatchInv, TallyInv
<1>2. totalBatchesProcessed > 0
  BY <1>1 DEF HasUnprocessedMessages
<1>3. in.sbCommitment = sbCommitment
  BY <1>2 DEF SbInv, AreTallyInputs
<1>4. in.currentTallyCommitment =
         IF BatchStart = 0 THEN <<>>
         ELSE TallyCommitment(tallyResult, BatchStart, resultSalts[BatchStart - TallyBatchSize])
  BY DEF AreTallyInputs
<1>5. CASE numBatchesTallied = 0
  <2>1. BatchStart = 0
    BY <1>1, <1>5 DEF BatchStart
  <2> QED
    BY <1>3, <1>4, <1>5, <2>1 DEF ResultInv
<1>6. CASE numBatchesTallied > 0
  <2>1. BatchStart # 0
    BY <1>1, <1>6 DEF BatchStart
  <2> QED
    BY <1>3, <1>4, <1>6, <2>1 DEF ResultInv
<1> QED
  BY <1>1, <1>5, <1>6

ProofInv == StateInv /\ TallyInv /\ HashInv /\ SbInv /\ ResultInv

\* What InputsAreProvable says of the tally.
ResultsAreProvable ==
    /\ TallyInputs.sbCommitment = sbCommitment
    /\ TallyInputs.currentTallyCommitment = tallyCommitment
    /\ TallyCircuit(TallyInputs)

LEMMA ResultsFollow ==
    ASSUME ProofInv, ~HasUnprocessedMessages, HasUntalliedBallots
    PROVE  ResultsAreProvable
<1>1. BatchInv /\ SbInv /\ TallyInv /\ ResultInv /\ state \in States
  BY DEF ProofInv, StateInv
<1>2. PICK in : in = TallyInputs
  OBVIOUS
<1>3. AreTallyInputs(in)
  BY <1>2, TallyInputsAre
<1>4. in.sbCommitment = sbCommitment /\ in.currentTallyCommitment = tallyCommitment
  BY <1>1, <1>3, TallyStartsFromCommitments
<1>5. TallyCircuit(in)
  BY <1>1, <1>3, TallyIsProvable
<1> QED
  BY <1>2, <1>4, <1>5 DEF ResultsAreProvable

LEMMA InputsFollow ==
    ASSUME ProofInv, mode # "FULL"
    PROVE  InputsAreProvable
<1>1. BatchInv /\ state \in States /\ Conserved(state) /\ numBatchesTallied \in Nat
  BY DEF ProofInv, StateInv, TallyInv
<1>2. mode \in {"QV", "NON_QV"}
  BY <1>1, ConstantsAre DEF BatchInv
<1>3. ASSUME HasUnprocessedMessages
      PROVE  MessageInputs.currentSbCommitment = sbCommitment /\ MessageCircuit(MessageInputs)
  <2>1. MessageInputs.currentSbCommitment = sbCommitment
    BY <1>1, <1>3, StartsFromCommitment DEF ProofInv
  <2>2. PICK in : in = MessageInputs
    OBVIOUS
  <2>3. BatchIndex \in Nat \ {0}
    BY <1>1, <1>3, BatchIndexIs
  <2>4. AreMessageInputs(in)
    BY <2>2, <2>3, MessageInputsAre
  <2>5. MessageCircuit(in)
    BY <1>1, <1>2, <1>3, <2>4, BatchIsProvable DEF ProofInv
  <2> QED
    BY <2>1, <2>2, <2>5
<1>4. (~HasUnprocessedMessages /\ HasUntalliedBallots) => ResultsAreProvable
  BY ResultsFollow
<1> QED
  BY <1>3, <1>4 DEF InputsAreProvable, ResultsAreProvable

LEMMA ProofInvNext ==
    ASSUME ProofInv, [Generate]_vars
    PROVE  ProofInv'
<1>1. StateInv /\ TallyInv /\ HashInv /\ SbInv /\ ResultInv /\ BatchInv /\ [Next]_vars
  BY GenerateIsNext DEF ProofInv, StateInv
<1>2. StateInv' /\ TallyInv'
  BY <1>1, StateInvNext, TallyInvNext
<1>3. HashInv' /\ SbInv'
  BY <1>1, HashInvNext, SbInvNext
<1>4. ResultInv'
  BY <1>1, ResultInvNext
<1> QED
  BY <1>2, <1>3, <1>4 DEF ProofInv

LEMMA ProofInvHolds ==
    GeneratorSpec => []ProofInv
<1>1. Init => ProofInv
  BY StateInvStarts, TallyInvStarts, HashInvStarts, SbInvStarts, ResultInvStarts DEF ProofInv
<1>2. ProofInv /\ [Generate]_vars => ProofInv'
  BY ProofInvNext
<1> QED
  BY <1>1, <1>2, PTL DEF GeneratorSpec

(* For every batch of messages and of ballots, the inputs that the node computes (Poll.ts
   processMessages, tallyVotes) satisfy the circuit of the poll's mode, and start from the
   commitments the contract holds: whatever was published, the coordinator can prove the poll to
   its end.  Mode FULL is left out: its circuit changes the votes of one option where the node
   takes those of all the others back. *)
THEOREM InputsHaveProofs == GeneratorSpec => [](mode # "FULL" => InputsAreProvable)
<1>1. ProofInv => (mode # "FULL" => InputsAreProvable)
  BY InputsFollow
<1> QED
  BY <1>1, ProofInvHolds, PTL

(* In every mode, FULL included, the results of the ballots have a proof once all messages are
   processed, from the commitments the contract holds (Poll.ts tallyVotes, VoteTally.circom). *)
THEOREM ResultsHaveProofs ==
    GeneratorSpec => []((~HasUnprocessedMessages /\ HasUntalliedBallots) => ResultsAreProvable)
<1>1. ProofInv => ((~HasUnprocessedMessages /\ HasUntalliedBallots) => ResultsAreProvable)
  BY ResultsFollow
<1> QED
  BY <1>1, ProofInvHolds, PTL

==============================================================================
