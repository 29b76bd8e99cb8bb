--------------------------- MODULE MCFinalization ---------------------------
(* Two regimes for the scheduler.  Apart: requests keep clear of the service's own work
   and crashes of records and submissions, which is what the promises are made for.
   Overlapping: requests, faults and crashes anywhere, and timers beyond their range. *)
EXTENDS Finalization

VARIABLE overlapping

Anyhow == INSTANCE Finalization WITH
    FirstStages <- {"far", "near"},
    MaxTasks <- 2, MaxRequests <- 3, MaxFaults <- 1, MaxCrashes <- 1,
    FaultPoints <- {"read", "merge", "generate", "submit", "process", "tally", "results", "restore"},
    Overlap <- TRUE, CrashAnywhere <- TRUE

TwoInit == overlapping \in BOOLEAN /\ IF overlapping THEN Anyhow!Init ELSE Init
TwoNext ==
    \/ ~overlapping /\ Next /\ UNCHANGED overlapping
    \/ overlapping /\ Anyhow!Next /\ UNCHANGED overlapping

TwoSpec == TwoInit /\ [][TwoNext]_<<vars, overlapping>> /\ (~overlapping => Fairness)

(* With requests kept apart, a poll is pursued once, by a timer that a delete and a
   restart can find. *)
PursuedOnce == ~overlapping => OneRecordedPursuer

(* With requests kept apart, whoever asks for a poll gets its results, and its record and
   its timeout are gone afterwards. *)
DoneOnce == ~overlapping => EventuallyDone
=============================================================================
