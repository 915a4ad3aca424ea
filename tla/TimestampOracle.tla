--------------------------- MODULE TimestampOracle ---------------------------
(***************************************************************************)
(* BatchTimestampOracle (timestamp_oracle.rs): every node reserves ranges  *)
(* of timestamps from one counter in NATS KV with compare-and-swap, and    *)
(* hands them out locally.  The committer thread assigns; one task per     *)
(* node, the holder of reservation_lock, talks to NATS; the Raft thread    *)
(* discards the batch when leadership changes, at any point in between.    *)
(***************************************************************************)
EXTENDS Integers, Sequences

CONSTANTS
  Node,       \* the nodes that run a committer
  BatchSize,  \* batch_size
  Start,      \* the counter's first value (the clock at the first connect)
  Floors,     \* the min_ts a caller may ask for
  MaxTs,      \* bound: the last timestamp a range may reach (u64::MAX)
  MaxIssued,  \* bound on the timestamps handed out
  MaxEpochs   \* bound on the leadership changes of a node's process

ASSUME OracleAssumption ==
  /\ BatchSize \in Nat \ {0}
  /\ Start \in Nat
  /\ Floors \subseteq Nat
  /\ MaxTs \in Nat /\ MaxIssued \in Nat /\ MaxEpochs \in Nat

VARIABLES
  counter,  \* tso_counter in NATS KV
  rev,      \* its revision
  kvFloor,  \* tso_max_committed in NATS KV
  batch,    \* [Node -> BatchState]
  task,     \* [Node -> the reservation under way]
  issued,   \* history: every timestamp handed out, in order, with its node
  mark,     \* history: Len(issued) when the node's epoch began
  floorAt   \* history: kvFloor when the node's epoch began

kvVars == <<counter, rev, kvFloor>>
hist == <<mark, floorAt>>
vars == <<kvVars, batch, task, issued, hist>>

BatchState == [current : Nat, upper : Nat, maxCommitted : Nat,
               refresh : BOOLEAN, epoch : Nat]

NewBatch == [current |-> 0, upper |-> 0, maxCommitted |-> 0,
             refresh |-> FALSE, epoch |-> 0]

\* Where ensure_reserved_batch_at_or_above stands: about to read the committed
\* floor, about to take the state lock with it, about to read the counter,
\* about to swap it, about to install the range that starts at low.  seen is
\* the value last read from NATS; low is min_next until the range is reserved.
Task == [pc : {"idle", "floor", "refresh", "counter", "swap", "install"},
         min : Nat, seen : Nat, rev : Nat, low : Nat, epoch : Nat]

Idle == [pc |-> "idle", min |-> 0, seen |-> 0, rev |-> 0, low |-> 0,
         epoch |-> 0]

TypeOK ==
  /\ counter \in Nat /\ rev \in Nat /\ kvFloor \in Nat
  /\ batch \in [Node -> BatchState]
  /\ task \in [Node -> Task]
  /\ issued \in Seq([node : Node, ts : Nat])
  /\ mark \in [Node -> Nat]
  /\ floorAt \in [Node -> Nat]

Init ==
  /\ counter = Start /\ rev = 0 /\ kvFloor = 0
  /\ batch = [n \in Node |-> NewBatch]
  /\ task = [n \in Node |-> Idle]
  /\ issued = << >>
  /\ mark = [n \in Node |-> 0]
  /\ floorAt = [n \in Node |-> 0]

----------------------------------------------------------------------------
Larger(a, b) == IF a >= b THEN a ELSE b

\* local_min_next_from_floor
MinNext(min, maxCommitted) == Larger(min, maxCommitted + 1)

\* Mutant: the position in the range is not looked at.
CandidateAtFloor(b, minNext) == minNext

\* next_ts_from_reserved_batch: the candidate, usable below the upper bound.
Candidate(b, minNext) == Larger(b.current, minNext)

Satisfies(b, minNext) == Candidate(b, minNext) < b.upper

\* try_assignable_from_reserved_batch
Assignable(b, min) ==
  ~b.refresh /\ Satisfies(b, MinNext(min, b.maxCommitted))

\* try_assign_from_reserved_batch, under the state lock: the blocking path of
\* the committer and its maintenance path both end here.
Assign(n, min) ==
  LET ts == Candidate(batch[n], MinNext(min, batch[n].maxCommitted)) IN
  /\ Len(issued) < MaxIssued
  /\ Assignable(batch[n], min)
  /\ batch' = [batch EXCEPT ![n] = [@ EXCEPT !.current = ts + 1]]
  /\ issued' = Append(issued, [node |-> n, ts |-> ts])
  /\ UNCHANGED <<kvVars, task, hist>>

(* ensure_reserved_batch_at_or_above, by the holder of reservation_lock. *)

Begin(n, min) ==
  /\ task[n].pc = "idle"
  /\ ~Assignable(batch[n], min)
  /\ task' = [task EXCEPT ![n] = [Idle EXCEPT !.pc = "floor", !.min = min]]
  /\ UNCHANGED <<kvVars, batch, issued, hist>>

\* max_committed_ts: read before the state lock is taken.
ReadFloor(n) ==
  /\ task[n].pc = "floor"
  /\ task' = [task EXCEPT ![n] = [@ EXCEPT !.pc = "refresh", !.seen = kvFloor]]
  /\ UNCHANGED <<kvVars, batch, issued, hist>>

\* refresh_committed_floor; then the batch may do after all.
RefreshFloor(n) ==
  LET b == [batch[n] EXCEPT !.maxCommitted = Larger(@, task[n].seen),
                            !.refresh = FALSE]
      minNext == MinNext(task[n].min, b.maxCommitted) IN
  /\ task[n].pc = "refresh"
  /\ batch' = [batch EXCEPT ![n] = b]
  /\ task' = [task EXCEPT ![n] =
       IF Satisfies(b, minNext)
         THEN Idle
         ELSE [@ EXCEPT !.pc = "counter", !.seen = 0, !.low = minNext,
                        !.epoch = b.epoch]]
  /\ UNCHANGED <<kvVars, issued, hist>>

\* reserve_batch_at_or_above: read the entry and its revision.
ReadCounter(n) ==
  /\ task[n].pc = "counter"
  /\ task' = [task EXCEPT ![n] = [@ EXCEPT !.pc = "swap", !.seen = counter,
                                           !.rev = rev]]
  /\ UNCHANGED <<kvVars, batch, issued, hist>>

\* batch_lower_bound
LowerBound(n) == Larger(task[n].seen, task[n].low)

\* Mutant: the counter is written whatever its revision.
SwapBlindly(n) ==
  /\ task[n].pc = "swap"
  /\ LowerBound(n) + BatchSize <= MaxTs
  /\ counter' = LowerBound(n) + BatchSize
  /\ rev' = rev + 1
  /\ task' = [task EXCEPT ![n] = [@ EXCEPT !.pc = "install", !.seen = 0,
                                           !.rev = 0, !.low = LowerBound(n)]]
  /\ UNCHANGED <<kvFloor, batch, issued, hist>>

\* kv.update with the revision that was read.
Swap(n) ==
  /\ task[n].pc = "swap"
  /\ rev = task[n].rev
  /\ LowerBound(n) + BatchSize <= MaxTs
  /\ counter' = LowerBound(n) + BatchSize
  /\ rev' = rev + 1
  /\ task' = [task EXCEPT ![n] = [@ EXCEPT !.pc = "install", !.seen = 0,
                                           !.rev = 0, !.low = LowerBound(n)]]
  /\ UNCHANGED <<kvFloor, batch, issued, hist>>

\* Any error of update is taken for a conflict and retried: the revision
\* moved, or the answer was lost and the swap may have been applied.
SwapFails(n) ==
  /\ task[n].pc = "swap"
  /\ \/ UNCHANGED <<counter, rev>>
     \/ /\ rev = task[n].rev
        /\ LowerBound(n) + BatchSize <= MaxTs
        /\ counter' = LowerBound(n) + BatchSize
        /\ rev' = rev + 1
  /\ task' = [task EXCEPT ![n] = [@ EXCEPT !.pc = "counter", !.seen = 0,
                                           !.rev = 0]]
  /\ UNCHANGED <<kvFloor, batch, issued, hist>>

\* The batch becomes [low, low + batch_size).
Reserved(b, low) == [b EXCEPT !.current = low, !.upper = low + BatchSize]

\* Mutant: the range is installed without looking at the epoch.
InstallAcrossEpochs(n) ==
  /\ task[n].pc = "install"
  /\ batch' = [batch EXCEPT ![n] = Reserved(@, task[n].low)]
  /\ task' = [task EXCEPT ![n] = Idle]
  /\ UNCHANGED <<kvVars, issued, hist>>

\* The range is installed unless leadership changed since RefreshFloor; then
\* it is leaked and the loop starts over.
Install(n) ==
  /\ task[n].pc = "install"
  /\ IF task[n].epoch = batch[n].epoch
       THEN /\ batch' = [batch EXCEPT ![n] = Reserved(@, task[n].low)]
            /\ task' = [task EXCEPT ![n] = Idle]
       ELSE /\ task' = [task EXCEPT ![n] =
                 IF Assignable(batch[n], task[n].min)
                   THEN Idle
                   ELSE [Idle EXCEPT !.pc = "floor", !.min = task[n].min]]
            /\ UNCHANGED batch
  /\ UNCHANGED <<kvVars, issued, hist>>

\* NATS cannot be read, the tenth swap failed, or the range would overflow.
ReserveFails(n) ==
  /\ task[n].pc \in {"floor", "counter", "swap"}
  /\ task' = [task EXCEPT ![n] = Idle]
  /\ UNCHANGED <<kvVars, batch, issued, hist>>

----------------------------------------------------------------------------
\* observe_committed_ts: a timestamp somebody was given has been committed.
Observe(n) ==
  \E i \in 1..Len(issued) :
    /\ issued[i].ts > batch[n].maxCommitted
    /\ batch' = [batch EXCEPT ![n] = [@ EXCEPT !.maxCommitted = issued[i].ts]]
    /\ UNCHANGED <<kvVars, task, issued, hist>>

\* advance_committed_ts of some node, in one step (CommittedFloor.tla has the
\* steps).
PublishFloor ==
  \E i \in 1..Len(issued) :
    /\ issued[i].ts > kvFloor
    /\ kvFloor' = issued[i].ts
    /\ UNCHANGED <<counter, rev, batch, task, issued, hist>>

NewEpoch(n) ==
  /\ mark' = [mark EXCEPT ![n] = Len(issued)]
  /\ floorAt' = [floorAt EXCEPT ![n] = kvFloor]

\* discard_reserved_batch: the node gained or lost leadership.
Discard(n) ==
  /\ batch[n].epoch < MaxEpochs
  /\ batch' = [batch EXCEPT ![n] = [@ EXCEPT !.current = 0, !.upper = 0,
                                             !.refresh = TRUE,
                                             !.epoch = batch[n].epoch + 1]]
  /\ NewEpoch(n)
  /\ UNCHANGED <<kvVars, task, issued>>

\* The process stops and connects anew: what it had reserved is leaked.
Restart(n) ==
  /\ batch' = [batch EXCEPT ![n] = NewBatch]
  /\ task' = [task EXCEPT ![n] = Idle]
  /\ mark' = [mark EXCEPT ![n] = Len(issued)]
  /\ floorAt' = [floorAt EXCEPT ![n] = 0]
  /\ UNCHANGED <<kvVars, issued>>

NodeNext(n) ==
  \/ \E min \in Floors : Assign(n, min) \/ Begin(n, min)
  \/ ReadFloor(n) \/ RefreshFloor(n) \/ ReadCounter(n) \/ Swap(n)
  \/ SwapFails(n) \/ Install(n) \/ ReserveFails(n)
  \/ Observe(n) \/ Discard(n) \/ Restart(n)

Next == PublishFloor \/ \E n \in Node : NodeNext(n)

Spec == Init /\ [][Next]_vars

----------------------------------------------------------------------------
(* Properties. *)

\* "No two calls -- across any node in the cluster -- ever return the same
\* timestamp" (the trait's contract; reserve_batch_at_or_above).
Unique ==
  \A i, j \in 1..Len(issued) : issued[i].ts = issued[j].ts => i = j

\* Timestamps grow on each node, across exhausted, replaced and discarded
\* batches and restarts (the trait's contract; ensure_reserved_batch).
NodeMonotone ==
  \A i, j \in 1..Len(issued) :
    i < j /\ issued[i].node = issued[j].node => issued[i].ts < issued[j].ts

\* What a node hands out after a leadership change lies above everything that
\* anybody had been given before it: a range reserved, or being reserved, in
\* the earlier epoch is not used (discard_batch_state_for_leadership_change).
Fenced ==
  \A i, j \in 1..Len(issued) :
    i <= mark[issued[j].node] /\ mark[issued[j].node] < j
      => issued[i].ts < issued[j].ts

----------------------------------------------------------------------------
(* What comments and documents of the code say and the model refutes; the  *)
(* README tells how.                                                        *)

\* "Force the next assignment to refresh the global committed floor before
\* reserving or consuming any batch" (BatchState.refresh_committed_floor): once
\* the flag is down, the node knows the floor of the start of its epoch.
FloorIsRefreshed ==
  \A n \in Node : ~batch[n].refresh => batch[n].maxCommitted >= floorAt[n]
=============================================================================
