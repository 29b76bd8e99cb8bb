----------------------------- MODULE CoreState -----------------------------
(***************************************************************************)
(* packages/core/ts/MaciState.ts and the lock it keeps for its polls       *)
(* (Poll.ts, processMessages): callers process the batches of several      *)
(* polls in any order.  What a batch does to its poll is module CorePoll.  *)
(***************************************************************************)
EXTENDS Naturals

CONSTANTS
    Polls,              \* polls of one MaciState
    MaxMessages,        \* bound: messages of a poll
    MessageBatchSize

VARIABLES
    messages,           \* messages.length of each poll, all published before
    totalBatchesProcessed,
    pollBeingProcessed,
    currentPollBeingProcessed   \* undefined, Nobody, before any poll is

vars == <<messages, totalBatchesProcessed, pollBeingProcessed, currentPollBeingProcessed>>

Nobody == "undefined"

TotalBatches(p) ==
    IF messages[p] <= MessageBatchSize
    THEN 1
    ELSE (messages[p] \div MessageBatchSize) + (IF messages[p] % MessageBatchSize > 0 THEN 1 ELSE 0)

HasUnprocessedMessages(p) == totalBatchesProcessed[p] < TotalBatches(p)

\* The first batch takes the lock whoever has it, before the check.
Lock(p) ==
    IF totalBatchesProcessed[p] = 0
    THEN [taken |-> TRUE, by |-> p]
    ELSE [taken |-> pollBeingProcessed, by |-> currentPollBeingProcessed]

\* The last batch gives the lock back.
Released(p, done) == done * MessageBatchSize >= messages[p]

ProcessMessages(p) ==
    /\ HasUnprocessedMessages(p)
    /\ Lock(p).taken => Lock(p).by = p
    /\ totalBatchesProcessed' = [totalBatchesProcessed EXCEPT ![p] = @ + 1]
    /\ currentPollBeingProcessed' = Lock(p).by
    /\ pollBeingProcessed' =
           (Lock(p).taken /\ ~Released(p, totalBatchesProcessed[p] + 1))
    /\ UNCHANGED messages

-----------------------------------------------------------------------------
Init ==
    /\ messages \in [Polls -> 1..MaxMessages]
    /\ totalBatchesProcessed = [p \in Polls |-> 0]
    /\ pollBeingProcessed = FALSE
    /\ currentPollBeingProcessed = Nobody

Next == \E p \in Polls : ProcessMessages(p)

\* processAllMessages is tried again for every poll until it does not throw.
Spec == Init /\ [][Next]_vars /\ \A p \in Polls : WF_vars(ProcessMessages(p))

-----------------------------------------------------------------------------
(* Every poll gets processed, however the callers take turns. *)
EventuallyProcessed == \A p \in Polls : <>[](~HasUnprocessedMessages(p))

(* Poll.ts:636-639, "Prevent other polls from being processed until this poll has been
   fully processed": no batch of one poll comes between two of another. *)
OneAtATime ==
    [][\A p, q \in Polls :
          (p # q /\ totalBatchesProcessed'[q] # totalBatchesProcessed[q])
            => totalBatchesProcessed[p] \in {0, TotalBatches(p)}]_vars
=============================================================================
