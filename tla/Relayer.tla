------------------------------ MODULE Relayer ------------------------------
(***************************************************************************)
(* apps/relayer/ts/message and messageBatch: voters hand their encrypted   *)
(* messages to the relayer, which saves them in MongoDB; a cron job puts   *)
(* the saved messages in a batch, adds it to IPFS, saves the batch and     *)
(* relays its hashes to the Poll contract (sdk/ts/relayer/messages.ts).    *)
(* A run of the job goes on after its awaits, so the next may overtake it; *)
(* a run that fails is abandoned where it is.                              *)
(*                                                                         *)
(* A batch is the sequence of its messages, and stands for its CID, which  *)
(* is a hash of its content.                                               *)
(***************************************************************************)
EXTENDS Naturals, Sequences, FiniteSets, SequencesExt

CONSTANTS
    Messages,   \* messages of all voters
    Polls,      \* polls of one MACI contract
    PollOf,     \* the poll a message is meant for
    Limit,      \* MESSAGES_LIMIT of a query
    MaxRuns,    \* runs of the job in flight at once, for model checking
    MaxFaults,  \* calls that fail, for model checking
    MaxCopies   \* copies of one batch in a row that are kept, for model checking

ASSUME RelayerAssumption ==
    /\ PollOf \in [Messages -> Polls]
    /\ Limit \in Nat \ {0}
    /\ MaxRuns \in Nat \ {0}
    /\ MaxFaults \in Nat
    /\ MaxCopies \in Nat \ {0}

VARIABLES
    saved,      \* the message collection, in the order of insertion
    ipfs,       \* batches that can be read from IPFS
    batches,    \* the message batch collection
    open,       \* polls whose voting period has not ended
    announced,  \* batches whose hash a poll has emitted (IpfsHashAdded)
    relayed,    \* of each poll, the messages relayed to it, all copies, in order
    runs,       \* runs of publishMessages in flight: set of [id, pc, batch]
    faults

relayerVars == <<saved, ipfs, batches, open, announced, relayed, runs, faults>>

-----------------------------------------------------------------------------
\* saveMessages: the messages of one request, all for one poll.
Save(ms) ==
    /\ \A i \in DOMAIN ms : ms[i] \notin ToSet(saved) /\ PollOf[ms[i]] = PollOf[ms[1]]
    /\ saved' = saved \o ms
    /\ UNCHANGED <<ipfs, batches, open, announced, relayed, runs, faults>>

Close(p) ==
    /\ p \in open
    /\ open' = open \ {p}
    /\ UNCHANGED <<saved, ipfs, batches, announced, relayed, runs, faults>>

(* publishMessages: the first messages that have no messageBatch.  No code sets
   that field, so these are the first of all. *)
FoundOne == SubSeq(saved, 1, 1)   \* slips
FoundNewestFirst == Reverse(saved)
Found == SubSeq(saved, 1, IF Len(saved) < Limit THEN Len(saved) ELSE Limit)

FreeIds == (1..MaxRuns) \ {r.id : r \in runs}

Find ==
    /\ FreeIds # {}
    /\ saved # <<>>
    /\ runs' = runs \cup {[id |-> CHOOSE i \in FreeIds : \A j \in FreeIds : i <= j,
                           pc |-> "add", batch |-> Found]}
    /\ UNCHANGED <<saved, ipfs, batches, open, announced, relayed, faults>>

Goto(r, pc) == (runs \ {r}) \cup {[r EXCEPT !.pc = pc]}

\* saveMessageBatches, step by step.
Add(r) ==
    /\ r.pc = "add"
    /\ ipfs' = ipfs \cup {r.batch}
    /\ runs' = Goto(r, "create")
    /\ UNCHANGED <<saved, batches, open, announced, relayed, faults>>

Create(r) ==
    /\ r.pc = "create"
    /\ batches' = batches \cup {r.batch}
    /\ runs' = Goto(r, "relay")
    /\ UNCHANGED <<saved, ipfs, open, announced, relayed, faults>>

\* The poll relayed to: that of the first message, by uniqBy on the MACI address.
Target(batch) == PollOf[batch[1]]

\* The chain ends with the batch, MaxCopies times: one more changes no order.
EndsWithCopies(chain, batch) ==
    /\ MaxCopies * Len(batch) <= Len(chain)
    /\ \A i \in 0..(MaxCopies * Len(batch) - 1) :
          chain[Len(chain) - i] = batch[Len(batch) - (i % Len(batch))]

(* Poll.relayMessagesBatch puts every message of the batch on the chain, those that
   the poll has had already once more. *)
Relay(r) ==
    /\ r.pc = "relay"
    /\ Target(r.batch) \in open
    /\ announced' = announced \cup {r.batch}
    /\ relayed' = [relayed EXCEPT ![Target(r.batch)] =
                      IF EndsWithCopies(@, r.batch) THEN @ ELSE @ \o r.batch]
    /\ runs' = runs \ {r}
    /\ UNCHANGED <<saved, ipfs, batches, open, faults>>

\* A call that throws ends the run; the next one starts anew.
Fail(r) ==
    /\ \/ r.pc = "relay" /\ Target(r.batch) \notin open /\ UNCHANGED faults
       \/ faults < MaxFaults /\ faults' = faults + 1
    /\ runs' = runs \ {r}
    /\ UNCHANGED <<saved, ipfs, batches, open, announced, relayed>>

Advance(r) == Add(r) \/ Create(r) \/ Relay(r) \/ Fail(r)

-----------------------------------------------------------------------------
RelayerInit ==
    /\ saved = <<>>
    /\ ipfs = {}
    /\ batches = {}
    /\ open = Polls
    /\ announced = {}
    /\ relayed = [p \in Polls |-> <<>>]
    /\ runs = {}
    /\ faults = 0

Requests == {ms \in [1..1 -> Messages] \cup [1..2 -> Messages] : IsInjective(ms)}

RelayerNext ==
    \/ \E ms \in Requests : Save(ms)
    \/ \E p \in Polls : Close(p)
    \/ Find
    \/ \E r \in runs : Advance(r)

\* The cron job goes on being run, and every call ends.
RelayerSpec ==
    /\ RelayerInit
    /\ [][RelayerNext]_relayerVars
    /\ WF_relayerVars(Find)
    /\ \A i \in 1..MaxRuns : WF_relayerVars(\E r \in runs : r.id = i /\ Advance(r))

-----------------------------------------------------------------------------
(* README.md, "if ... batch hashes are pushed on chain without the messages actually
   being stored on ipfs, then polls can't be finalized": whatever fails or
   overtakes, a batch announced on chain can be read. *)
AnnouncedIsReadable == announced \subseteq ipfs \cap batches

(* Whichever run relays it, a message is on the chain only behind every message that
   was accepted before it. *)
NoneIsPassedOver ==
    \A p \in Polls : \A i \in DOMAIN relayed[p] : \A k, l \in DOMAIN saved :
        k < l /\ saved[l] = relayed[p][i] => \E j \in 1..(i - 1) : relayed[p][j] = saved[k]

(* Both: what the coordinator is told of can be read, and has no gaps. *)
ReadableWithoutGaps == AnnouncedIsReadable /\ NoneIsPassedOver

(* message.controller.ts:28, "Saves messages batch and then send them onchain": a
   message that was accepted reaches its poll, unless the poll closes. *)
EventuallyRelayed ==
    \A m \in Messages :
        m \in ToSet(saved) ~> (m \in ToSet(relayed[PollOf[m]]) \/ PollOf[m] \notin open)

\* Of two messages on the chain the one accepted later comes last.
EndsAsAccepted(p) ==
    \A i \in DOMAIN relayed[p] : \A k, l \in DOMAIN saved :
        k < l /\ saved[k] = relayed[p][i] /\ saved[l] \in ToSet(relayed[p])
            => \E j \in (i + 1)..Len(relayed[p]) : relayed[p][j] = saved[l]

(* A run that was overtaken leaves an older message last, which then counts in place of
   the voter's later one; a later run makes it good, unless the poll closes. *)
OrderIsRestored == \A p \in Polls : ~EndsAsAccepted(p) ~> (EndsAsAccepted(p) \/ p \notin open)

(* README.md, "user messages are properly processed and recorded": a voter's last
   message is the last one on the chain. *)
NewestIsLast == \A p \in Polls : EndsAsAccepted(p)

(* The same passage: a message is relayed to no poll but its own. *)
RelayedWhereSent == \A p \in Polls : \A m \in ToSet(relayed[p]) : PollOf[m] = p
=============================================================================
