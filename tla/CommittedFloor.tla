--------------------------- MODULE CommittedFloor ---------------------------
(***************************************************************************)
(* How the committed floor reaches NATS: the committer thread of a node    *)
(* raises a pending floor and starts a flush task unless one is running    *)
(* (queue_tso_committed_floor_flush in committer.rs); the task publishes   *)
(* the floor with compare-and-swap (advance_committed_ts in                *)
(* timestamp_oracle.rs) and leaves when nothing is left to publish.        *)
(* A task is named after the commit that started it.                       *)
(***************************************************************************)
EXTENDS Integers, FiniteSets

CONSTANTS
  Proc,         \* processes (incarnations of a node)
  CommitTs,     \* the timestamps that will be committed, each by one node
  MaxFailures   \* bound on the calls to NATS that fail

ASSUME FloorAssumption == CommitTs \subseteq Nat \ {0} /\ MaxFailures \in Nat

VARIABLES
  kv, kvRev,  \* tso_max_committed in NATS KV (0: absent) and its revision
  by,         \* [CommitTs -> SUBSET Proc]: who committed it, nobody at first
  pending,    \* [Proc -> Nat]: pending_tso_committed_floor
  flag,       \* [Proc -> BOOLEAN]: tso_committed_floor_flush_in_flight
  queueing,   \* [Proc -> CommitTs or 0]: raised, the flag not yet swapped
  work,       \* [CommitTs -> the flush task that commit started]
  stopped,    \* nodes that crashed
  failures    \* calls that failed so far

entryVars == <<kv, kvRev>>
nodeVars == <<pending, flag, queueing>>
floorVars == <<entryVars, by, nodeVars, work, stopped, failures>>

FlushTask ==
  [pc : {"none", "load", "read", "swap", "check", "clear", "recheck",
         "retake", "done"},
   target : CommitTs \cup {0}, rev : Nat]

NoTask == [pc |-> "none", target |-> 0, rev |-> 0]

\* Between the swap that took the flag and the store that gives it back.
OwnsFlag(c) == work[c].pc \in {"load", "read", "swap", "check", "clear"}

FloorTypeOK ==
  /\ kv \in CommitTs \cup {0} /\ kvRev \in Nat
  /\ by \in [CommitTs -> SUBSET Proc]
  /\ pending \in [Proc -> CommitTs \cup {0}]
  /\ flag \in [Proc -> BOOLEAN]
  /\ queueing \in [Proc -> CommitTs \cup {0}]
  /\ work \in [CommitTs -> FlushTask]
  /\ stopped \subseteq Proc
  /\ failures \in 0..MaxFailures

FloorInit ==
  /\ kv = 0 /\ kvRev = 0
  /\ by = [c \in CommitTs |-> {}]
  /\ pending = [n \in Proc |-> 0]
  /\ flag = [n \in Proc |-> FALSE]
  /\ queueing = [n \in Proc |-> 0]
  /\ work = [c \in CommitTs |-> NoTask]
  /\ stopped = {}
  /\ failures = 0

----------------------------------------------------------------------------
(* The committer thread of node n. *)

\* A commit is published: the pending floor is raised under its lock.
Commit(n, c) ==
  /\ n \notin stopped /\ queueing[n] = 0
  /\ by[c] = {}
  /\ by' = [by EXCEPT ![c] = {n}]
  /\ pending' = [pending EXCEPT ![n] = IF c > @ THEN c ELSE @]
  /\ queueing' = [queueing EXCEPT ![n] = c]
  /\ UNCHANGED <<entryVars, flag, work, stopped, failures>>

\* flush_in_flight.swap(true): whoever finds it down spawns the task.
TakeFlag(n) ==
  LET c == queueing[n] IN
  /\ n \notin stopped /\ c # 0
  /\ flag' = [flag EXCEPT ![n] = TRUE]
  /\ work' = IF flag[n] THEN work ELSE [work EXCEPT ![c].pc = "load"]
  /\ queueing' = [queueing EXCEPT ![n] = 0]
  /\ UNCHANGED <<entryVars, by, pending, stopped, failures>>

(* The flush task c, running on node n. *)

Runs(c, n, pc) == n \in by[c] \ stopped /\ work[c].pc = pc

Load(c, n) ==
  /\ Runs(c, n, "load")
  /\ work' = [work EXCEPT ![c] = [NoTask EXCEPT !.pc = "read",
                                                !.target = pending[n]]]
  /\ UNCHANGED <<entryVars, by, nodeVars, stopped, failures>>

\* advance_committed_ts: read the entry; a floor that is high enough is left.
ReadEntry(c, n) ==
  /\ Runs(c, n, "read")
  /\ work' = [work EXCEPT ![c].pc = IF kv >= work[c].target THEN "check"
                                                            ELSE "swap",
                          ![c].rev = kvRev]
  /\ UNCHANGED <<entryVars, by, nodeVars, stopped, failures>>

\* Mutant: the entry is put whatever its revision.
WriteFloorBlindly(c) == kv' = work[c].target /\ kvRev' = kvRev + 1

\* kv.update at the revision read (kv.create if there was no entry).
WriteFloor(c) ==
  /\ work[c].rev = kvRev
  /\ kv' = work[c].target
  /\ kvRev' = kvRev + 1

SwapFloor(c, n) ==
  /\ Runs(c, n, "swap")
  /\ WriteFloor(c)
  /\ work' = [work EXCEPT ![c].pc = "check", ![c].rev = 0]
  /\ UNCHANGED <<by, nodeVars, stopped, failures>>

\* Mutant: somebody else's update is taken for this one.
ConflictIsDone(c, n) ==
  /\ Runs(c, n, "swap")
  /\ work[c].rev # kvRev
  /\ work' = [work EXCEPT ![c].pc = "check", ![c].rev = 0]
  /\ UNCHANGED <<entryVars, by, nodeVars, stopped, failures>>

\* Mutant: the swap is tried again at the revision that was read before.
ConflictSwapsAgain(c, n) ==
  /\ Runs(c, n, "swap")
  /\ work[c].rev # kvRev
  /\ UNCHANGED floorVars

\* The revision moved: read again.
Conflict(c, n) ==
  /\ Runs(c, n, "swap")
  /\ work[c].rev # kvRev
  /\ work' = [work EXCEPT ![c].pc = "read", ![c].rev = 0]
  /\ UNCHANGED <<entryVars, by, nodeVars, stopped, failures>>

\* A call fails, possibly after NATS applied it: an update is retried, and
\* when the read or the tenth attempt fails the task backs off and loads anew.
CallFails(c, n) ==
  /\ failures < MaxFailures
  /\ failures' = failures + 1
  /\ \/ /\ Runs(c, n, "swap")
        /\ WriteFloor(c) \/ UNCHANGED entryVars
        /\ \E pc \in {"read", "load"} :
             work' = [work EXCEPT ![c].pc = pc, ![c].rev = 0]
     \/ /\ Runs(c, n, "read")
        /\ work' = [work EXCEPT ![c].pc = "load"]
        /\ UNCHANGED entryVars
  /\ UNCHANGED <<by, nodeVars, stopped>>

\* A floor raised meanwhile is the next target.
CheckPending(c, n) ==
  /\ Runs(c, n, "check")
  /\ work' = [work EXCEPT ![c].pc = IF pending[n] > work[c].target
                                      THEN "load" ELSE "clear"]
  /\ UNCHANGED <<entryVars, by, nodeVars, stopped, failures>>

ClearFlag(c, n) ==
  /\ Runs(c, n, "clear")
  /\ flag' = [flag EXCEPT ![n] = FALSE]
  /\ work' = [work EXCEPT ![c].pc = "recheck"]
  /\ UNCHANGED <<entryVars, by, pending, queueing, stopped, failures>>

\* "Close the race with a commit that may have raised the pending floor while
\* the marker was still set."
Recheck(c, n) ==
  /\ Runs(c, n, "recheck")
  /\ work' = [work EXCEPT ![c].pc = IF pending[n] > work[c].target
                                      THEN "retake" ELSE "done"]
  /\ UNCHANGED <<entryVars, by, nodeVars, stopped, failures>>

\* Mutant: the flag is set without looking at its old value.
RetakeAlways(c, n) ==
  /\ Runs(c, n, "retake")
  /\ flag' = [flag EXCEPT ![n] = TRUE]
  /\ work' = [work EXCEPT ![c].pc = "load"]
  /\ UNCHANGED <<entryVars, by, pending, queueing, stopped, failures>>

Retake(c, n) ==
  /\ Runs(c, n, "retake")
  /\ flag' = [flag EXCEPT ![n] = TRUE]
  /\ work' = [work EXCEPT ![c].pc = IF flag[n] THEN "done" ELSE "load"]
  /\ UNCHANGED <<entryVars, by, pending, queueing, stopped, failures>>

Crash(n) ==
  /\ n \notin stopped
  /\ stopped' = stopped \cup {n}
  /\ UNCHANGED <<entryVars, by, nodeVars, work, failures>>

TaskNext(c, n) ==
  \/ Load(c, n) \/ ReadEntry(c, n) \/ SwapFloor(c, n) \/ Conflict(c, n)
  \/ CheckPending(c, n) \/ ClearFlag(c, n) \/ Recheck(c, n) \/ Retake(c, n)

FloorNext ==
  \E n \in Proc :
    \/ TakeFlag(n) \/ Crash(n)
    \/ \E c \in CommitTs : Commit(n, c) \/ TaskNext(c, n) \/ CallFails(c, n)

FloorSpec == FloorInit /\ [][FloorNext]_floorVars

\* The committer thread and a spawned task keep running while the process is
\* up; NATS answers again after a bounded number of failed calls.
FairFloorSpec ==
  /\ FloorSpec
  /\ \A n \in Proc : /\ WF_floorVars(TakeFlag(n))
                     /\ \A c \in CommitTs : WF_floorVars(TaskNext(c, n))

----------------------------------------------------------------------------
(* Properties. *)

\* The floor in NATS never falls, whichever nodes publish it concurrently and
\* whatever answers are lost (advance_committed_ts).
FloorNeverFalls == [][kv' >= kv]_floorVars

\* At most one task of a running node publishes (flush_in_flight).
OneFlusher ==
  \A c, d \in CommitTs :
    OwnsFlag(c) /\ OwnsFlag(d) /\ by[c] = by[d] => c = d

\* When no task of a running node is at work and none is about to be, the
\* node's pending floor is in NATS: no wake-up was lost.
NothingForgotten ==
  \A n \in Proc \ stopped :
    /\ queueing[n] = 0
    /\ \A c \in CommitTs : n \in by[c] => work[c].pc \in {"none", "done"}
    => kv >= pending[n]

\* Every committed timestamp is covered by the floor in NATS in the end, unless
\* the node that committed it crashes first.
FloorPublished ==
  \A c \in CommitTs : \A n \in Proc :
    n \in by[c] ~> kv >= c \/ n \in stopped
=============================================================================
