----------------------------- MODULE TreeCache -----------------------------
(***************************************************************************)
(* From sign-up to the witness of joinPoll: the backend's snapshot of the  *)
(* sign-up tree (apps/backend/src/trees), fed by a subgraph that lags and  *)
(* may follow an abandoned fork, and the voters that ask it for a proof    *)
(* and fall back to the subgraph and to the chain's logs                   *)
(* (packages/sdk/ts/user/joinWitness.ts, browser/joinPoll.ts).             *)
(*                                                                         *)
(* A block signs up at most one key.  The hash of a block stands for the   *)
(* chain up to it, and a root of the tree for the keys below it.           *)
(***************************************************************************)
EXTENDS SequencesExt, Naturals

CONSTANTS
    Keys,           \* keys that sign up,
    Clients,        \* those whose voters go on to join the poll
    NoOne,          \* a block without a sign-up
    PageSize,       \* leaves in a page of the subgraph
    MaxHeight,      \* for model checking: blocks,
    MaxReorgs,      \* blocks replaced by others,
    MaxFaults       \* and requests that fail

ASSUME TreeCacheAssumption ==
    /\ Clients \subseteq Keys
    /\ NoOne \notin Keys
    /\ {MaxHeight, MaxReorgs, MaxFaults} \subseteq Nat
    /\ PageSize \in Nat \ {0}

VARIABLES
    chain,      \* the blocks as the RPC node has them
    was,        \* the sign-ups of every chain there has been
    reorgs,
    indexed,    \* the blocks as the subgraph has them
    cache,      \* the published snapshot
    loading,    \* the one refresh under way
    request,    \* of each voter
    faults

vars == <<chain, was, reorgs, indexed, cache, loading, request, faults>>

SignedUp(blocks) ==
    LET keys[n \in 0..Len(blocks)] ==
            IF n = 0 THEN <<>>
            ELSE IF blocks[n] = NoOne THEN keys[n - 1] ELSE Append(keys[n - 1], blocks[n])
    IN  keys[Len(blocks)]
OnChain == SignedUp(chain)

\* getStateRootOnIndexedSignUp at the index of these leaves has their root.  The slip:
\* any root will do.
AnyRootMatches(leaves) == TRUE
HistoricalRootMatches(leaves) == IsPrefix(leaves, OnChain)

\* hash is the pinned block; there is none without a snapshot.
Snapshot(leaves, hash) == [leaves |-> leaves, hash |-> hash]
NoSnapshot == Snapshot(<<>>, <<>>)
IsCached == cache # NoSnapshot

\* Where a refresh is, the block it pinned and the leaves it has.
NotLoading == [at |-> "none", head |-> <<>>, leaves |-> <<>>]
Started == [NotLoading EXCEPT !.at = "meta"]
Refreshed == IF loading.at = "none" THEN Started ELSE loading
\* A refresh that failed is forgotten.  The slip: it is not.
NeverForgotten == [NotLoading EXCEPT !.at = "failed"]
AfterFailure == NotLoading

\* snapshot: what the service goes on with; pending: what the refresh it started has
\* come to; root: the leaves of the proof the voter works with; seen: the reorgs there
\* had been when they were validated.
Idle == [at |-> "idle", snapshot |-> NoSnapshot, settled |-> FALSE, pending |-> NoSnapshot,
         root |-> <<>>, seen |-> 0]

-----------------------------------------------------------------------------
\* The chain and its index.

Mine(key) ==
    /\ Len(chain) < MaxHeight
    /\ ~Contains(chain, key)
    /\ chain' = Append(chain, key)
    /\ was' = was \cup {SignedUp(chain')}
    /\ UNCHANGED <<reorgs, indexed, cache, loading, request, faults>>

\* The blocks after a common one are replaced by as many others, some of them empty.
Reorg(from, fork) ==
    /\ reorgs < MaxReorgs
    /\ chain' = SubSeq(chain, 1, from) \o fork
    /\ chain' # chain
    /\ IsInjective(SignedUp(chain'))
    /\ was' = was \cup {SignedUp(chain')}
    /\ reorgs' = reorgs + 1
    /\ UNCHANGED <<indexed, cache, loading, request, faults>>

\* The subgraph takes the next block, or gives one up that the chain no longer has.
Index ==
    /\ indexed # chain
    /\ indexed' = IF IsStrictPrefix(indexed, chain) THEN Append(indexed, chain[Len(indexed) + 1])
                  ELSE Front(indexed)
    /\ UNCHANGED <<chain, was, reorgs, cache, loading, request, faults>>

\* Queries are by the number of a block, and fail while it is not indexed.
IsIndexed(hash) == Len(hash) <= Len(indexed)
LeavesAt(hash) == SignedUp(SubSeq(indexed, 1, Len(hash)))
LeafPage(cursor, hash) ==
    LET leaves == LeavesAt(hash)
        last == IF cursor + PageSize < Len(leaves) THEN cursor + PageSize ELSE Len(leaves)
    IN  SubSeq(leaves, cursor + 1, last)

-----------------------------------------------------------------------------
\* Answers of the service.  An error is answered as "unproved".

\* A proof from the snapshot, or one more refresh when the key is not there.
Answered(key, r, snapshot) ==
    IF Contains(snapshot.leaves, key)
    THEN [Idle EXCEPT !.at = "proved", !.root = snapshot.leaves]
    ELSE [r EXCEPT !.at = "again", !.snapshot = NoSnapshot, !.settled = FALSE, !.pending = NoSnapshot]
Unproved == [Idle EXCEPT !.at = "unproved"]

\* A refresh is over: it came to snapshot, NoSnapshot when it failed.  Those who wait go
\* on; those who still validate what they have will find it.
Settled(key, snapshot) ==
    LET r == request[key]
    IN  CASE r.at = "wait" -> IF snapshot = NoSnapshot THEN Unproved ELSE Answered(key, r, snapshot)
          [] r.at = "again" -> IF Contains(snapshot.leaves, key) THEN Answered(key, r, snapshot) ELSE Unproved
          [] r.at = "validate" /\ ~r.settled -> [r EXCEPT !.settled = TRUE, !.pending = snapshot]
          [] OTHER -> r

Requests(snapshot) == [key \in Clients |-> Settled(key, snapshot)]
WantsAnother(requests) == \E key \in Clients : requests[key].at = "again" /\ request[key].at # "again"

\* The snapshot is swapped, and a request that misses its key starts the next refresh.
Publish(snapshot) ==
    /\ cache' = snapshot
    /\ request' = Requests(snapshot)
    /\ loading' = IF WantsAnother(Requests(snapshot)) THEN Started ELSE NotLoading

FailLoading ==
    /\ cache' = NoSnapshot
    /\ request' = Requests(NoSnapshot)
    /\ loading' = AfterFailure

-----------------------------------------------------------------------------
\* refreshSnapshot, await by await.  ok is whether the awaited request succeeds.

Goto(at, leaves) ==
    /\ loading' = [loading EXCEPT !.at = at, !.leaves = leaves]
    /\ UNCHANGED <<cache, request>>

\* Startup and the timer.
Tick ==
    /\ loading.at = "none"
    /\ loading' = Started
    /\ UNCHANGED <<chain, was, reorgs, indexed, cache, request, faults>>

ReadMeta(ok) ==
    /\ loading.at = "meta"
    /\ IF ~ok THEN Goto("retain", <<>>)
       ELSE /\ loading' =
                 [at |-> IF ~IsCached \/ Len(cache.hash) >= Len(indexed) THEN "full"
                         ELSE IF cache.leaves = <<>> THEN "extra" ELSE "prefix",
                  head |-> indexed, leaves |-> <<>>]
            /\ UNCHANGED <<cache, request>>

\* verifyCachedPrefix looks at the last leaf only.
VerifyCachedPrefix(ok) ==
    /\ loading.at = "prefix"
    /\ LET size == Len(cache.leaves)
           leaves == LeavesAt(loading.head)
       IN  IF ok /\ IsIndexed(loading.head) /\ Len(leaves) >= size /\ leaves[size] = cache.leaves[size]
           THEN Goto("extra", cache.leaves)
           ELSE Goto("full", <<>>)

ReadPage(ok) ==
    /\ loading.at \in {"extra", "full"}
    /\ IF ok /\ IsIndexed(loading.head)
       THEN LET page == LeafPage(Len(loading.leaves), loading.head)
            IN  Goto(IF Len(page) = PageSize THEN loading.at
                     ELSE IF loading.at = "extra" THEN "extraRoot" ELSE "fullRoot",
                     loading.leaves \o page)
       ELSE Goto(IF loading.at = "extra" THEN "full" ELSE "retain", <<>>)

\* publishSnapshot.
CheckRoot(ok) ==
    /\ loading.at \in {"extraRoot", "fullRoot"}
    /\ IF ok /\ HistoricalRootMatches(loading.leaves) THEN Publish(Snapshot(loading.leaves, loading.head))
       ELSE Goto(IF loading.at = "extraRoot" THEN "full" ELSE "retain", <<>>)

\* A failed refresh keeps the old snapshot if it is still true, and serves it.
Retain(ok) ==
    /\ loading.at = "retain"
    /\ IF IsCached /\ ok /\ HistoricalRootMatches(cache.leaves) THEN Publish(cache) ELSE FailLoading

Load(ok) == ReadMeta(ok) \/ VerifyCachedPrefix(ok) \/ ReadPage(ok) \/ CheckRoot(ok) \/ Retain(ok)
-----------------------------------------------------------------------------
\* getInclusionProof and the voter behind it.

Become(key, r) == request' = [request EXCEPT ![key] = r]

\* A voter that is signed up asks the service.
Ask(key) ==
    /\ request[key].at = "idle"
    /\ Contains(OnChain, key)
    /\ IF IsCached THEN Become(key, [Idle EXCEPT !.at = "head", !.snapshot = cache]) /\ UNCHANGED loading
       ELSE Become(key, [Idle EXCEPT !.at = "wait"]) /\ loading' = Refreshed
    /\ UNCHANGED cache

\* What is not stale is served as it is, unless the key is missing.
CompareHead(key, ok) ==
    LET r == request[key]
    IN  /\ r.at = "head"
        /\ IF ok /\ r.snapshot.hash = indexed
           THEN /\ Become(key, Answered(key, r, r.snapshot))
                /\ loading' = IF Contains(r.snapshot.leaves, key) THEN loading ELSE Refreshed
           ELSE /\ Become(key, [r EXCEPT !.at = "validate"])
                /\ loading' = Refreshed
        /\ UNCHANGED cache

\* A stale one is served while its root is still there.  Otherwise it is what the refresh
\* comes to, or came to meanwhile.
Validate(key, ok) ==
    LET r == request[key]
        usable == IF ok /\ HistoricalRootMatches(r.snapshot.leaves) THEN r.snapshot ELSE r.pending
    IN  /\ r.at = "validate"
        /\ IF usable # NoSnapshot
           THEN /\ Become(key, Answered(key, r, usable))
                /\ loading' = IF Contains(usable.leaves, key) THEN loading ELSE Refreshed
           ELSE /\ Become(key, IF r.settled THEN Unproved ELSE [r EXCEPT !.at = "wait"])
                /\ UNCHANGED loading
        /\ UNCHANGED cache

\* Is this witness, read from a source, good for the registry as it is now?
IsValidated(key, root) == HistoricalRootMatches(root) /\ Contains(root, key)
Witness(root) == [Idle EXCEPT !.at = "proving", !.root = root, !.seen = reorgs]

\* Each source is validated; the next one is tried when it fails, and the last one's
\* failure is the voter's, who will try again.
UseService(key, ok) ==
    /\ request[key].at \in {"proved", "unproved"}
    /\ Become(key, IF ok /\ request[key].at = "proved" /\ IsValidated(key, request[key].root)
                   THEN Witness(request[key].root) ELSE [Idle EXCEPT !.at = "subgraph"])
    /\ UNCHANGED <<cache, loading>>

UseSubgraph(key, ok) ==
    /\ request[key].at = "subgraph"
    /\ Become(key, IF ok /\ IsValidated(key, SignedUp(indexed))
                   THEN Witness(SignedUp(indexed)) ELSE [Idle EXCEPT !.at = "rpc"])
    /\ UNCHANGED <<cache, loading>>

UseEvents(key, ok) ==
    /\ request[key].at = "rpc"
    /\ Become(key, IF ok /\ IsValidated(key, OnChain) THEN Witness(OnChain) ELSE Idle)
    /\ UNCHANGED <<cache, loading>>

\* stateRootIndex goes with the proof.  The slips: the index of the latest root, and the
\* size of the tree with its pad leaf.
LatestIndex(root) == Len(OnChain)
SizeOfTree(root) == Len(root) + 1
PinnedIndex(root) == Len(root)

\* The contract reads the root at the index again.
SubmitJoin(key) ==
    /\ request[key].at = "proving"
    /\ LET index == PinnedIndex(request[key].root)
       IN  Become(key, [request[key] EXCEPT !.at =
               IF index <= Len(OnChain) /\ SubSeq(OnChain, 1, index) = request[key].root
               THEN "joined" ELSE "refused"])
    /\ UNCHANGED <<cache, loading>>

TryAgain(key) ==
    /\ request[key].at = "refused"
    /\ Become(key, Idle)
    /\ UNCHANGED <<cache, loading>>

Await(key, ok) ==
    \/ CompareHead(key, ok)
    \/ Validate(key, ok)
    \/ UseService(key, ok)
    \/ UseSubgraph(key, ok)
    \/ UseEvents(key, ok)

ClientStep(key) ==
    /\ Ask(key) \/ Await(key, TRUE) \/ SubmitJoin(key) \/ TryAgain(key)
    /\ UNCHANGED <<chain, was, reorgs, indexed, faults>>

LoadStep == Load(TRUE) /\ UNCHANGED <<chain, was, reorgs, indexed, faults>>

Fault ==
    /\ faults < MaxFaults
    /\ faults' = faults + 1
    /\ Load(FALSE) \/ \E key \in Clients : Await(key, FALSE)
    /\ UNCHANGED <<chain, was, reorgs, indexed>>

-----------------------------------------------------------------------------
\* The registry is deployed in the first block, before the backend starts.
Init ==
    /\ chain = <<NoOne>>
    /\ indexed = <<NoOne>>
    /\ was = {<<>>}
    /\ reorgs = 0
    /\ cache = NoSnapshot
    /\ loading = NotLoading
    /\ request = [key \in Clients |-> Idle]
    /\ faults = 0

Next ==
    \/ \E key \in Keys : Mine(key)
    \/ \E from \in 1..(Len(chain) - 1) : \E fork \in [1..(Len(chain) - from) -> Keys \cup {NoOne}] : Reorg(from, fork)
    \/ Index
    \/ Tick
    \/ LoadStep
    \/ \E key \in Clients : ClientStep(key)
    \/ Fault

\* The subgraph keeps up, the backend runs on, and voters who fail try again.
Spec ==
    /\ Init
    /\ [][Next]_vars
    /\ WF_vars(Index)
    /\ WF_vars(Tick)
    /\ WF_vars(LoadStep)
    /\ \A key \in Clients : WF_vars(ClientStep(key))

-----------------------------------------------------------------------------
(* "Serve a validated snapshot" (service.ts:261): the published leaves have been the
   registry's, though their pages may come from two forks and a snapshot grows by what
   follows its last leaf only. *)
CacheWasOnChain == \E leaves \in was : IsPrefix(cache.leaves, leaves)

(* "Pin the index, or a concurrent signup invalidates the proof"
   (docs/blog/2026-09-11-maci-state-tree-scaling.md): other voters' sign-ups never make the
   contract refuse a join; only a reorganization after the validation does. *)
OnlyReorgsRefuse == \A key \in Clients : request[key].at = "refused" => request[key].seen < reorgs

(* Once the chain stops changing the snapshot becomes that of the chain and stays it. *)
EventuallyFresh == <>[](cache.leaves = OnChain)

(* A voter whose sign-up lasts joins the poll, whatever fails on the way. *)
EventuallyJoined ==
    \A key \in Clients : <>[]Contains(OnChain, key) => <>(request[key].at = "joined")

(* Both: neither a reorganization nor a failure is the cache's or a voter's last word. *)
FreshAndJoined == EventuallyFresh /\ EventuallyJoined

(* "A lagging snapshot is only servable while it is still historically true" (the blog): a
   proof that is served is one of the registry's now. *)
ServedIsOnChain ==
    [][\A key \in Clients :
          (request'[key].at = "proved" /\ request[key].at # "proved") =>
              IsPrefix(request'[key].root, OnChain)]_vars

(* The provenance of a snapshot is the block its leaves are of. *)
ProvenanceHolds == cache.leaves = SignedUp(cache.hash)
=============================================================================
