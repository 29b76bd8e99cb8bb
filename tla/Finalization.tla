---------------------------- MODULE Finalization ----------------------------
(***************************************************************************)
(* apps/coordinator/ts/scheduler/scheduler.service.ts: the coordinator's   *)
(* service that finalizes polls once their voting period is over.  A poll  *)
(* is asked for through the API, recorded in Redis, and given a timer; the *)
(* timer's callback merges the poll, generates the proofs and submits      *)
(* them, rescheduling itself after a failure.  Node.js runs every          *)
(* asynchronous call of the service as a task that other tasks may         *)
(* interleave with at its awaits: one action here is what a task does from *)
(* one await to the next.  Redis, the chain and the files outlive a crash; *)
(* tasks and timers do not.                                                *)
(*                                                                         *)
(* The polls are ones whose last batch is not full; what a submission run  *)
(* makes of the chain is module Submission's, here one step for messages,  *)
(* one for ballots and one for results.                                    *)
(***************************************************************************)
EXTENDS Naturals, FiniteSets, Functions

CONSTANTS
    Polls,          \* polls of one MACI contract
    FirstStages,    \* stages a poll may be in at the start
    MaxTasks,       \* tasks in flight at once, for model checking
    MaxRequests,    \* API requests, for model checking
    MaxFaults,      \* failing calls, for model checking
    MaxCrashes,     \* crashes of the process, for model checking
    FaultPoints,    \* program counters at which a call may fail
    Overlap,        \* may API requests overlap the service's own tasks?
    CrashAnywhere   \* may a crash lose a record or cut a submission?

None == "none"
Stages == <<"far", "near", "ended", "merged", "processing", "tallied", "finalized">>
StageSet == {Stages[i] : i \in DOMAIN Stages}

ASSUME FinalizationAssumption ==
    /\ FirstStages \subseteq {"far", "near"}
    /\ {MaxTasks, MaxRequests, MaxFaults, MaxCrashes} \subseteq Nat
    /\ {Overlap, CrashAnywhere} \subseteq BOOLEAN
    /\ FaultPoints \subseteq {"read", "merge", "generate", "submit", "process", "tally", "results", "restore"}

VARIABLES
    stage,      \* the poll on chain; "far": its end is more than 2^31 ms away
    redis,      \* the records stored, a function of the polls that have one
    listed,     \* polls the SchedulerRegistry has a timeout of, run or not
    pending,    \* timeouts that have not run: set of [poll, rec, listed]
    tasks,      \* asynchronous calls in flight: set of [id, poll, kind, pc, rec]
    restoring,  \* polls onModuleInit has read but not begun to restore
    proofFiles, \* the poll whose proofs ./proofs holds
    tallyFile,  \* the poll whose results ./tally.json holds
    asked,      \* polls registered, with success, and not deleted since
    requests, faults, crashes

service == <<listed, pending, tasks, restoring>>
counters == <<requests, faults, crashes>>
disk == <<proofFiles, tallyFile>>
vars == <<stage, redis, service, disk, asked, counters>>

Rec == [merged : BOOLEAN, proofsGenerated : BOOLEAN]
NewRec == [merged |-> FALSE, proofsGenerated |-> FALSE]

Finalizing == {"read", "merge", "saveMerged", "generate", "saveGenerated",
               "submit", "process", "tally", "results"}
Pcs == Finalizing \cup {"restore", "ask", "check", "lookup", "forget", "del", "put", "arm"}
Kinds == {"finalize", "retry", "done", "restore", "register", "status", "delete"}

Reached(p, s) ==
    LET place(x) == CHOOSE i \in DOMAIN Stages : Stages[i] = x
    IN  place(stage[p]) >= place(s)

-----------------------------------------------------------------------------
(* The store: RedisService's keys, set and delete. *)
Stored == DOMAIN redis
Set(p, rec) == [q \in Stored \cup {p} |-> IF q = p THEN rec ELSE redis[q]]
Erased(p) == Restrict(redis, Stored \ {p})

(* Tasks. *)
FreeIds == (1..MaxTasks) \ {t.id : t \in tasks}

Spawned(p, kind, pc, rec) ==
    tasks \cup {[id |-> CHOOSE i \in FreeIds : TRUE,
                 poll |-> p, kind |-> kind, pc |-> pc, rec |-> rec]}

Moved(t, new) == (tasks \ {t}) \cup {new}
Goto(t, pc) == Moved(t, [t EXCEPT !.pc = pc])
Ended(t) == tasks \ {t}

(* deleteScheduledPoll up to its await: the registry forgets the poll's timeout
   and clears it; timeouts the registry does not know keep running. *)
Unlist(p) ==
    /\ listed' = listed \ {p}
    /\ pending' = {x \in pending : ~(x.poll = p /\ x.listed)}

\* Delete and, unless the task's kind ends there, set up again with rec.
Reschedule(t, kind, rec) ==
    /\ Unlist(t.poll)
    /\ tasks' = Moved(t, [t EXCEPT !.kind = kind, !.pc = "del", !.rec = rec])

\* The process ends; on its next start the stored polls are to be restored.
Restarted ==
    /\ tasks' = {}
    /\ pending' = {}
    /\ listed' = {}
    /\ restoring' = Stored

MayFail(t) == t.pc \in FaultPoints /\ faults < MaxFaults

-----------------------------------------------------------------------------
(* The chain's clock, and the timers that run by it: setTimeout runs at once when
   the delay does not fit 31 bits. *)
Pass(p) ==
    /\ \/ stage[p] = "far" /\ stage' = [stage EXCEPT ![p] = "near"]
       \/ stage[p] = "near" /\ stage' = [stage EXCEPT ![p] = "ended"]
    /\ UNCHANGED <<redis, service, disk, asked, counters>>

Fire(x) ==
    /\ stage[x.poll] # "near"
    /\ Overlap \/ \A t \in tasks : t.kind \notin {"register", "status", "delete"}
    /\ FreeIds # {}
    /\ pending' = pending \ {x}
    /\ tasks' = Spawned(x.poll, "finalize", "read", x.rec)
    /\ UNCHANGED <<stage, redis, listed, restoring, disk, asked, counters>>

-----------------------------------------------------------------------------
\* A slip: the record is not corrected.
RecUncorrected(t) == t.rec

\* What finalizePoll compares with the chain, and the record it puts right.
VotingOver(p) == Reached(p, "ended")
RecFromChain(t) == [t.rec EXCEPT !.merged = Reached(t.poll, "merged")]

(* finalizePoll: the poll as the chain has it, which nothing catches the failure
   of, and the two early returns. *)
Read(t) ==
    /\ t.pc = "read"
    /\ \/ /\ ~VotingOver(t.poll)
          /\ Reschedule(t, "finalize", t.rec)
       \/ /\ VotingOver(t.poll)
          /\ Reached(t.poll, "merged") # t.rec.merged
          /\ Reschedule(t, "finalize", RecFromChain(t))
       \/ /\ VotingOver(t.poll)
          /\ Reached(t.poll, "merged") = t.rec.merged
          /\ tasks' = Goto(t, CASE ~t.rec.merged -> "merge"
                                [] t.rec.merged /\ ~t.rec.proofsGenerated -> "generate"
                                [] OTHER -> "submit")
          /\ UNCHANGED <<listed, pending>>
    /\ UNCHANGED <<stage, redis, restoring, disk, asked, counters>>

ReadFails(t) ==
    /\ t.pc = "read"
    /\ MayFail(t)
    /\ faults' = faults + 1
    /\ Restarted
    /\ UNCHANGED <<stage, redis, disk, asked, requests, crashes>>

\* proofService.merge: mergeSignups throws when the poll is merged already.
MergeDone(t) ==
    /\ t.pc = "merge"
    /\ stage[t.poll] = "ended"
    /\ stage' = [stage EXCEPT ![t.poll] = "merged"]
    /\ tasks' = Goto(t, "saveMerged")
    /\ UNCHANGED <<redis, listed, pending, restoring, disk, asked, counters>>

\* The transaction is mined and only its receipt is lost.
MergeUnconfirmed(t) ==
    /\ t.pc = "merge"
    /\ stage[t.poll] = "ended"
    /\ MayFail(t)
    /\ faults' = faults + 1
    /\ stage' = [stage EXCEPT ![t.poll] = "merged"]
    /\ Reschedule(t, "retry", t.rec)
    /\ UNCHANGED <<redis, restoring, disk, asked, requests, crashes>>

SaveMerged(t) ==
    /\ t.pc = "saveMerged"
    /\ redis' = Set(t.poll, [t.rec EXCEPT !.merged = TRUE])
    /\ tasks' = Moved(t, [t EXCEPT !.rec.merged = TRUE,
                                   !.pc = IF t.rec.proofsGenerated THEN "submit" ELSE "generate"])
    /\ UNCHANGED <<stage, listed, pending, restoring, disk, asked, counters>>

\* proofService.generate: one directory and one file for every poll.
Generate(t) ==
    /\ t.pc = "generate"
    /\ proofFiles' = t.poll
    /\ tallyFile' = t.poll
    /\ tasks' = Goto(t, "saveGenerated")
    /\ UNCHANGED <<stage, redis, listed, pending, restoring, asked, counters>>

SaveGenerated(t) ==
    /\ t.pc = "saveGenerated"
    /\ LET rec == [merged |-> TRUE, proofsGenerated |-> TRUE]
       IN  /\ redis' = Set(t.poll, rec)
           /\ tasks' = Moved(t, [t EXCEPT !.rec = rec, !.pc = "submit"])
    /\ UNCHANGED <<stage, listed, pending, restoring, disk, asked, counters>>

(* proofService.submit: the proofs are read at once and sent one by one; the tally
   file is read after the last of them. *)
Fits(t) ==
    CASE t.pc = "merge" -> stage[t.poll] = "ended"
      [] t.pc = "submit" -> proofFiles = t.poll
      [] t.pc = "process" -> stage[t.poll] = "merged"
      [] t.pc = "tally" -> stage[t.poll] = "processing"
      [] t.pc = "results" -> stage[t.poll] = "tallied" /\ tallyFile = t.poll
      [] OTHER -> TRUE

OpenProofs(t) ==
    /\ t.pc = "submit"
    /\ Fits(t)
    /\ tasks' = Goto(t, "process")
    /\ UNCHANGED <<stage, redis, listed, pending, restoring, disk, asked, counters>>

Submit(t) ==
    /\ Fits(t)
    /\ \/ /\ t.pc = "process"
          /\ stage' = [stage EXCEPT ![t.poll] = "processing"]
          /\ tasks' = Goto(t, "tally")
          /\ UNCHANGED <<listed, pending>>
       \/ /\ t.pc = "tally"
          /\ stage' = [stage EXCEPT ![t.poll] = "tallied"]
          /\ tasks' = Goto(t, "results")
          /\ UNCHANGED <<listed, pending>>
       \/ /\ t.pc = "results"
          /\ stage' = [stage EXCEPT ![t.poll] = "finalized"]
          /\ Reschedule(t, "done", t.rec)
    /\ UNCHANGED <<redis, restoring, disk, asked, counters>>

(* A step throws, by a fault or by what it finds: the handler deletes the poll and
   sets it up again at the step that failed. *)
RecAllDone(t) == [merged |-> TRUE, proofsGenerated |-> TRUE]   \* a slip
RecAfterFailure(t) ==
    CASE t.pc = "merge" -> t.rec
      [] t.pc = "generate" -> [t.rec EXCEPT !.merged = TRUE]
      [] OTHER -> [merged |-> TRUE, proofsGenerated |-> TRUE]

StepFails(t) ==
    /\ t.pc \in {"merge", "generate", "submit", "process", "tally", "results"}
    /\ \/ ~Fits(t) /\ UNCHANGED faults
       \/ Fits(t) /\ MayFail(t) /\ faults' = faults + 1
    /\ Reschedule(t, "retry", RecAfterFailure(t))
    /\ UNCHANGED <<stage, redis, restoring, disk, asked, requests, crashes>>

-----------------------------------------------------------------------------
(* deleteScheduledPoll from its await on, and setupPollFinalization. *)
Del(t) ==
    /\ t.pc = "del"
    /\ redis' = Erased(t.poll)
    /\ tasks' = IF t.kind \in {"finalize", "retry"} THEN Goto(t, "put") ELSE Ended(t)
    /\ UNCHANGED <<stage, listed, pending, restoring, disk, asked, counters>>

Put(t) ==
    /\ t.pc = "put"
    /\ redis' = Set(t.poll, t.rec)
    /\ tasks' = Goto(t, "arm")
    /\ UNCHANGED <<stage, listed, pending, restoring, disk, asked, counters>>

\* The timer is started first and only then looked for in the registry.
Arm(t) ==
    /\ t.pc = "arm"
    /\ LET known == t.poll \in listed
           timer == [poll |-> t.poll, rec |-> t.rec, listed |-> ~known]
       IN  \/ /\ ~(known /\ t.kind = "finalize")
              /\ pending' = pending \cup {timer}
              /\ listed' = listed \cup {t.poll}
              /\ tasks' = Ended(t)
              /\ asked' = IF t.kind = "register" /\ ~known THEN asked \cup {t.poll} ELSE asked
              /\ UNCHANGED restoring
           \* outside any try, so the throw ends the process
           \/ /\ known /\ t.kind = "finalize"
              /\ Restarted
              /\ UNCHANGED asked
    /\ UNCHANGED <<stage, redis, disk, counters>>

-----------------------------------------------------------------------------
(* The API, which listens once onModuleInit is over. *)
Request(p, kind) ==
    /\ requests < MaxRequests
    /\ restoring = {}
    /\ \A t \in tasks : t.kind # "restore"
    /\ Overlap \/ tasks = {}
    /\ FreeIds # {}
    /\ requests' = requests + 1
    /\ \/ /\ kind \in {"register", "status"}
          /\ tasks' = Spawned(p, kind, IF kind = "register" THEN "ask" ELSE "check", NewRec)
          /\ UNCHANGED <<listed, pending, asked>>
       \/ /\ kind = "delete"
          /\ tasks' = Spawned(p, kind, "del", NewRec)
          /\ Unlist(p)
          /\ asked' = asked \ {p}
    /\ UNCHANGED <<stage, redis, restoring, disk, faults, crashes>>

\* registerPoll asks the chain first; a poll that is tallied is an error.
Ask(t) ==
    /\ t.pc = "ask"
    /\ tasks' = IF Reached(t.poll, "tallied") THEN Ended(t) ELSE Goto(t, "check")
    /\ UNCHANGED <<stage, redis, listed, pending, restoring, disk, asked, counters>>

\* isPollScheduled asks again, for registerPoll too: a tallied poll is dropped.
Check(t) ==
    /\ t.pc = "check"
    /\ \/ /\ Reached(t.poll, "tallied")
          /\ Reschedule(t, "delete", t.rec)
       \/ /\ ~Reached(t.poll, "tallied")
          /\ tasks' = Goto(t, "lookup")
          /\ UNCHANGED <<listed, pending>>
    /\ UNCHANGED <<stage, redis, restoring, disk, asked, counters>>

AfterLookup(t) == IF t.kind = "register" THEN Goto(t, "put") ELSE Ended(t)

\* A slip: what is stored is not looked at.
LookupNothing(t) ==
    /\ t.pc = "lookup"
    /\ tasks' = AfterLookup(t)
    /\ UNCHANGED <<stage, redis, listed, pending, restoring, disk, asked, counters>>

Lookup(t) ==
    /\ t.pc = "lookup"
    /\ tasks' = CASE t.poll \notin Stored -> AfterLookup(t)
                  [] t.poll \in Stored \ listed -> Goto(t, "forget")
                  [] OTHER -> Ended(t)
    /\ UNCHANGED <<stage, redis, listed, pending, restoring, disk, asked, counters>>

Forget(t) ==
    /\ t.pc = "forget"
    /\ redis' = Erased(t.poll)
    /\ tasks' = AfterLookup(t)
    /\ UNCHANGED <<stage, listed, pending, restoring, disk, asked, counters>>

-----------------------------------------------------------------------------
(* onModuleInit: restoreTimeouts, one task per stored poll; a failure is logged. *)
Restore(p) ==
    /\ FreeIds # {}
    /\ restoring' = restoring \ {p}
    /\ tasks' = Spawned(p, "restore", "restore", redis[p])
    /\ UNCHANGED <<stage, redis, listed, pending, disk, asked, counters>>

RestoreCheck(t) ==
    /\ t.pc = "restore"
    /\ \/ /\ Reached(t.poll, "tallied")
          /\ Reschedule(t, "delete", t.rec)
          /\ UNCHANGED faults
       \/ /\ ~Reached(t.poll, "tallied")
          /\ tasks' = Goto(t, "put")
          /\ UNCHANGED <<listed, pending, faults>>
       \/ /\ MayFail(t)
          /\ faults' = faults + 1
          /\ tasks' = Ended(t)
          /\ UNCHANGED <<listed, pending>>
    /\ UNCHANGED <<stage, redis, restoring, disk, asked, requests, crashes>>

(* A crash.  A run with CrashAnywhere = FALSE has those only that meet every
   unfinished poll's record in Redis and no submission under way. *)
RecordsKept == \A p \in asked : stage[p] # "finalized" => p \in Stored
BetweenSubmissions == \A p \in Polls : stage[p] \notin {"processing", "tallied"}

Crash ==
    /\ crashes < MaxCrashes
    /\ CrashAnywhere \/ (RecordsKept /\ BetweenSubmissions)
    /\ crashes' = crashes + 1
    /\ Restarted
    /\ UNCHANGED <<stage, redis, disk, asked, requests, faults>>

-----------------------------------------------------------------------------
Init ==
    /\ stage \in [Polls -> FirstStages]
    /\ redis = <<>>
    /\ listed = {}
    /\ pending = {}
    /\ tasks = {}
    /\ restoring = {}
    /\ proofFiles = None
    /\ tallyFile = None
    /\ asked = {}
    /\ requests = 0
    /\ faults = 0
    /\ crashes = 0

\* What a task does next, if nothing fails that need not.
Step(t) ==
    \/ Read(t) \/ MergeDone(t) \/ SaveMerged(t) \/ Generate(t) \/ SaveGenerated(t)
    \/ OpenProofs(t) \/ Submit(t) \/ StepFails(t)
    \/ Del(t) \/ Put(t) \/ Arm(t)
    \/ Ask(t) \/ Check(t) \/ Lookup(t) \/ Forget(t) \/ RestoreCheck(t)

Fault(t) == ReadFails(t) \/ MergeUnconfirmed(t)

Next ==
    \/ \E t \in tasks : Step(t) \/ Fault(t)
    \/ \E p \in Polls : Pass(p)
    \/ \E x \in pending : Fire(x)
    \/ \E p \in restoring : Restore(p)
    \/ \E p \in Polls, kind \in {"register", "status", "delete"} : Request(p, kind)
    \/ Crash

(* Time passes, every await ends, every timer runs and a start of the process
   restores what it read. *)
Fairness ==
    /\ \A p \in Polls : WF_vars(Pass(p))
    /\ \A i \in 1..MaxTasks : WF_vars(\E t \in tasks : t.id = i /\ Step(t))
    /\ \A p \in Polls : WF_vars(\E x \in pending : x.poll = p /\ Fire(x))
    /\ WF_vars(\E p \in restoring : Restore(p))

Spec == Init /\ [][Next]_vars /\ Fairness

-----------------------------------------------------------------------------
(* The type invariant: one task per id, at most MaxTasks of them. *)
TypeOK ==
    /\ stage \in [Polls -> StageSet]
    /\ Stored \subseteq Polls /\ redis \in [Stored -> Rec]
    /\ listed \subseteq Polls
    /\ pending \subseteq [poll : Polls, rec : Rec, listed : BOOLEAN]
    /\ tasks \subseteq [id : 1..MaxTasks, poll : Polls, kind : Kinds, pc : Pcs, rec : Rec]
    /\ \A t, u \in tasks : t.id = u.id => t = u
    /\ restoring \subseteq Polls
    /\ {proofFiles, tallyFile} \subseteq Polls \cup {None}
    /\ asked \subseteq Polls
    /\ {requests, faults, crashes} \subseteq Nat

\* What a record says was done was done, and the proofs it promises are there.
Truthful(p, rec) ==
    /\ rec.merged => Reached(p, "merged")
    /\ rec.proofsGenerated => rec.merged /\ proofFiles = p

(* With one poll, what Redis, a timer or a task carries of it is never ahead of the
   chain and the files, whatever fails, crashes or overlaps: no step is skipped
   after a restart that was not done (finalizePoll skips by the record alone). *)
RecordNeverAhead ==
    /\ \A p \in Stored : Truthful(p, redis[p])
    /\ \A x \in pending : Truthful(x.poll, x.rec)
    /\ \A t \in tasks : Truthful(t.poll, t.rec)

(* With requests that do not overlap the service's own work, a poll is pursued by one
   timer or finalization at a time: two would merge and submit against each other. *)
OnePursuer ==
    \A p \in Polls :
        Cardinality({x \in pending : x.poll = p})
          + Cardinality({t \in tasks : t.poll = p /\ t.kind \in {"finalize", "retry", "restore"}}) <= 1

(* With requests that do not overlap, a timer waiting to run is known to the registry,
   so that a delete reaches it, and its poll is stored, so that a restart does. *)
TimerIsRecorded ==
    \A x \in pending :
        /\ x.listed /\ x.poll \in listed
        /\ (x.poll \in Stored /\ redis[x.poll] = x.rec) \/ \E t \in tasks : t.poll = x.poll

(* Both: a poll is pursued once, by a timer that a delete and a restart can find. *)
OneRecordedPursuer == OnePursuer /\ TimerIsRecorded

(* A poll that was asked for is finalized, unless it is deleted: failures of a merge,
   of a generation and of a submission before its first transaction are retried,
   and a crash between them is made good by the restart. *)
EventuallyFinalized ==
    \A p \in Polls : p \in asked ~> (stage[p] = "finalized" \/ p \notin asked)

(* A finalized poll leaves nothing behind: its record and its timeout go. *)
EventuallyForgotten ==
    \A p \in Polls : stage[p] = "finalized" ~> (p \notin Stored /\ p \notin listed)

(* Both: whoever asks for a poll gets its results, and nothing else stays. *)
EventuallyDone == EventuallyFinalized /\ EventuallyForgotten

(* scheduler/README.md:3, "In case of the service being restarted, the scheduled polls
   are reloaded from the database and the timeouts are recreated": no crash loses
   a poll that was asked for. *)
ReloadsScheduledPolls == [][crashes' # crashes => RecordsKept]_vars

(* The same sentence, of a crash in the middle of the submission: a restart drops a
   poll's record only once the poll is finalized. *)
RestartedUntilFinalized ==
    [][\A t \in tasks : (t.pc = "restore" /\ \E u \in tasks' : u.id = t.id /\ u.kind = "delete")
                           => stage[t.poll] = "finalized"]_vars

(* scheduler/README.md:3, "scheduling polls finalization after the voting period ends":
   no finalization is run a whole timer range before the end. *)
RunsAfterTheEnd == \A t \in tasks : t.pc = "read" => stage[t.poll] # "far"
=============================================================================
