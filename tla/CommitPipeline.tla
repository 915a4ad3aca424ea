--------------------------- MODULE CommitPipeline ---------------------------
(***************************************************************************)
(* The committer of one partition's leader: how it assigns timestamps,     *)
(* what it queues in persistence_writes (a FuturesOrdered: the writes run  *)
(* side by side, their results are taken in order), what it publishes, and *)
(* how the repeatable timestamp and the read barrier close timestamps      *)
(* while commits, replica deltas and prepared transactions are in flight   *)
(* (committer.rs, snapshot_manager.rs, write_log.rs).                      *)
(*                                                                         *)
(* A snapshot is abstracted to the set of commits whose effects it holds,  *)
(* a commit to its timestamp.                                              *)
(***************************************************************************)
EXTENDS Integers, Sequences, FiniteSets, SequencesExt, FiniteSetsExt

CONSTANTS
  MaxTs,        \* bound on timestamps
  Txn,          \* two-phase transactions this partition participates in
  MaxQueue,     \* bound on the writes in flight
  MaxClosed,    \* MAX_CLOSED_READ_TIMESTAMPS
  MaxRejects,   \* bound on the proposals Raft or a cancellation rejects
  MaxRestarts   \* bound on restarts of the process

ASSUME PipelineAssumption ==
  /\ MaxTs \in Nat \ {0} /\ MaxQueue \in Nat \ {0} /\ MaxClosed \in Nat \ {0}
  /\ MaxRejects \in Nat /\ MaxRestarts \in Nat

VARIABLES
  lastAssigned,   \* last_assigned_ts
  barrierFloor,   \* read_barrier_floor
  closed,         \* closed_read_timestamps
  latest, snap,   \* snapshot_manager.latest(): timestamp and contents
  repeatable,     \* snapshot_manager.persisted_max_repeatable_ts
  queue,          \* persistence_writes, with the snapshots queued for them
  prepared,       \* [Txn -> prepared write; ts = 0: none]
  bumping,        \* next_bump_wait = None
  recovering,     \* redo records recover_two_phase_redo_records has yet to stage
  stopped,        \* why the committer's loop ended ("no": it has not)
  global,         \* MaxRepeatableTimestamp in persistence
  disk,           \* commits whose documents are in persistence
  redo,           \* [Txn -> origin commit timestamp of its redo record or 0]
  issued,         \* timestamps the oracle has handed out
  answered,       \* the highest timestamp a client was told is closed
  carried,        \* <<origin, local>> timestamps of the transactions written
  alone,          \* no two transactions were ever prepared at once
  rejects, restarts

volatile == <<lastAssigned, barrierFloor, closed, latest, snap, repeatable,
              queue, prepared, bumping, recovering, stopped>>
durable == <<global, disk, redo>>
history == <<answered, carried, alone, rejects, restarts>>
vars == <<volatile, durable, issued, history>>

Ts == 1..MaxTs
Kinds == {"commit", "delta", "prepared", "rollback", "bump", "barrier"}

NoPrepare == [ts |-> 0, holds |-> {}]
Unresolved == {t \in Txn : prepared[t].ts # 0}
PreparedTs == {prepared[t].ts : t \in Unresolved}

\* pending_writes: the local commits in flight.
Pending == {i \in DOMAIN queue : queue[i].kind = "commit"}
PendingTs == {queue[i].ts : i \in Pending}

\* queued_snapshots: one per local commit or replica delta in flight.
Queued == {i \in DOMAIN queue : queue[i].kind \in {"commit", "delta"}}
QueuedTs == {queue[i].ts : i \in Queued}

\* The entries that write documents.
Writes == {i \in DOMAIN queue : queue[i].kind \in {"commit", "delta", "prepared"}}

\* prepared_commit_waiters and prepared_rollback_waiters.
InFlight(t, kind) ==
  \E i \in DOMAIN queue : queue[i].kind = kind /\ queue[i].txn = {t}

----------------------------------------------------------------------------
(* Timestamps. *)

LocalCommitFloor == Max({latest, lastAssigned}) + 1

ExplicitPrepareCommitFloor == Max({barrierFloor, latest} \cup QueuedTs) + 1

ReplayedPrepareCommitFloor == Max({latest} \cup PreparedTs) + 1

\* next_commit_ts: the oracle answers at or after the floor, never twice.
NextTs(ts, floor) == ts >= floor /\ ts \notin issued

\* Mutant: writes in flight are not taken into account.
SnapshotOfReaders == snap

\* base_snapshot_for_new_writes, with the queued snapshot of the last queued
\* write (its own copy, taken when it was queued), else the latest snapshot.
BaseSnapshot ==
  IF Queued # {} THEN queue[Max(Queued)].queued ELSE snap

Entry(kind, ts, txn, holds) ==
  [kind |-> kind, ts |-> ts, txn |-> txn, holds |-> holds, queued |-> holds,
   state |-> "flying"]

Running == stopped = "no" /\ recovering = {}
Enqueue(e) == Len(queue) < MaxQueue /\ queue' = Append(queue, e)

Init ==
  /\ lastAssigned = 0 /\ barrierFloor = 0 /\ closed = {}
  /\ latest = 0 /\ snap = {} /\ repeatable = 0
  /\ queue = <<>>
  /\ prepared = [t \in Txn |-> NoPrepare]
  /\ bumping = FALSE /\ recovering = {} /\ stopped = "no"
  /\ global = 0 /\ disk = {} /\ redo = [t \in Txn |-> 0]
  /\ issued = {}
  /\ answered = 0 /\ carried = {} /\ alone = TRUE
  /\ rejects = 0 /\ restarts = 0

----------------------------------------------------------------------------
(* Admission: the messages the committer takes. *)

\* start_commit: refused while a prepared transaction is unresolved.
StartCommit(ts) ==
  /\ Running
  /\ Unresolved = {}
  /\ NextTs(ts, LocalCommitFloor)
  /\ Enqueue(Entry("commit", ts, {}, BaseSnapshot \cup {ts}))
  /\ lastAssigned' = ts
  /\ issued' = issued \cup {ts}
  /\ UNCHANGED <<barrierFloor, closed, latest, snap, repeatable, prepared,
                 bumping, recovering, stopped, durable, history>>

\* apply_replica_delta of another partition's commit, translated upwards;
\* refused at or above an unresolved prepare.
ApplyDelta(origin) ==
  LET ts == Max({origin, latest + 1, lastAssigned + 1}) IN
  /\ Running
  /\ origin \notin issued
  /\ ts \in Ts
  /\ \A p \in PreparedTs : ts < p
  /\ Enqueue(Entry("delta", ts, {}, BaseSnapshot \cup {ts}))
  /\ lastAssigned' = ts
  /\ issued' = issued \cup {origin}
  /\ UNCHANGED <<barrierFloor, closed, latest, snap, repeatable, prepared,
                 bumping, recovering, stopped, durable, history>>

\* prepare_admission_blocker_ts: a prepare waits while this holds.
PrepareBlocked == Pending # {} \/ \E t \in Txn : InFlight(t, "prepared")

\* stage_prepared_transaction for a live prepare at the coordinator's
\* timestamp (below the floor it is refused); then its redo record is written.
Prepare(t, ts) ==
  /\ Running
  /\ ~PrepareBlocked
  /\ redo[t] = 0 /\ prepared[t].ts = 0
  /\ ts \notin issued \cup PreparedTs
  /\ ts >= ExplicitPrepareCommitFloor
  /\ prepared' = [prepared EXCEPT ![t] = [ts |-> ts,
                                          holds |-> BaseSnapshot \cup {ts}]]
  /\ redo' = [redo EXCEPT ![t] = ts]
  /\ lastAssigned' = Max({lastAssigned, ts})
  /\ issued' = issued \cup {ts}
  /\ alone' = (alone /\ Unresolved = {})
  /\ UNCHANGED <<barrierFloor, closed, latest, snap, repeatable, queue,
                 bumping, recovering, stopped, global, disk, answered, carried,
                 rejects, restarts>>

\* Mutant: a prepared transaction overtakes its predecessors.
MayOvertake(t) == prepared[t].ts # 0

\* start_commit_prepared: only the lowest prepared timestamp may commit.
MayCommit(t) == prepared[t].ts # 0 /\ prepared[t].ts = Min(PreparedTs)

StartCommitPrepared(t) ==
  /\ Running
  /\ MayCommit(t)
  /\ ~InFlight(t, "prepared") /\ ~InFlight(t, "rollback")
  /\ Enqueue(Entry("prepared", prepared[t].ts, {t}, prepared[t].holds))
  /\ UNCHANGED <<lastAssigned, barrierFloor, closed, latest, snap, repeatable,
                 prepared, bumping, recovering, stopped, durable, issued,
                 history>>

StartRollbackPrepared(t) ==
  /\ Running
  /\ prepared[t].ts # 0
  /\ ~InFlight(t, "prepared") /\ ~InFlight(t, "rollback")
  /\ Enqueue(Entry("rollback", prepared[t].ts, {t}, {}))
  /\ UNCHANGED <<lastAssigned, barrierFloor, closed, latest, snap, repeatable,
                 prepared, bumping, recovering, stopped, durable, issued,
                 history>>

----------------------------------------------------------------------------
(* The repeatable timestamp and the read barrier. *)

\* try_next_max_repeatable_ts: the current one behind a prepared transaction,
\* right before the first pending write, else a fresh timestamp.
NextMaxRepeatable(ts) ==
  CASE Unresolved # {} -> ts = repeatable
    [] Unresolved = {} /\ Pending # {} -> ts = Min(PendingTs) - 1
    [] OTHER -> ts \in Ts /\ NextTs(ts, LocalCommitFloor)

TakesMaintenanceTs == Unresolved = {} /\ Pending = {}

TakeMaxRepeatable(ts) ==
  /\ NextMaxRepeatable(ts)
  /\ lastAssigned' = IF TakesMaintenanceTs THEN ts ELSE lastAssigned
  /\ issued' = IF TakesMaintenanceTs THEN issued \cup {ts} ELSE issued

\* bump_max_repeatable_ts, when the timer of next_bump_wait fires.
Bump(ts) ==
  /\ Running /\ ~bumping
  /\ TakeMaxRepeatable(ts)
  /\ Enqueue(Entry("bump", ts, {}, {}))
  /\ bumping' = TRUE
  /\ UNCHANGED <<barrierFloor, closed, latest, snap, repeatable, prepared,
                 recovering, stopped, durable, answered, carried, alone, rejects,
                 restarts>>

\* idle_remote_read_frontier_heartbeat_ts: only the timestamp is taken here.
Heartbeat(ts) ==
  /\ Running
  /\ TakeMaxRepeatable(ts)
  /\ UNCHANGED <<barrierFloor, closed, latest, snap, repeatable, queue,
                 prepared, bumping, recovering, stopped, durable, history>>

\* A latest read barrier must reach everything assigned so far.
CloseMinimum == Max({lastAssigned, latest} \cup QueuedTs \cup PreparedTs)

ClosesAtOnce(ts, include) ==
  \/ ~include /\ ts \in closed
  \/ /\ \A p \in PreparedTs : p > ts
     /\ \/ ~include /\ ts <= latest
        \/ CloseMinimum <= ts /\ ts \in closed

\* The lowest certificates go first when there are too many.
Remember(ts) ==
  IF Cardinality(closed \cup {ts}) > MaxClosed
  THEN (closed \cup {ts}) \ {Min(closed \cup {ts})} ELSE closed \cup {ts}

\* close_read_timestamp answering Closed without a write; an exact read of a
\* timestamp behind the latest snapshot is remembered.
CloseAtOnce(ts, include) ==
  /\ Running
  /\ ClosesAtOnce(ts, include)
  /\ closed' = Remember(ts)
  /\ answered' = Max({answered, ts})
  /\ UNCHANGED <<lastAssigned, barrierFloor, latest, snap, repeatable, queue,
                 prepared, bumping, recovering, stopped, durable, issued,
                 carried, alone, rejects, restarts>>

\* Neither Blocked by a prepared transaction nor told to RetryAt.
NeedsBarrier(ts, include) ==
  /\ ~ClosesAtOnce(ts, include)
  /\ \A p \in PreparedTs : p > ts
  /\ CloseMinimum <= ts

\* Mutant: commits are not fenced when the barrier is queued.
CloseWithoutFence(ts, include) ==
  /\ Running
  /\ NeedsBarrier(ts, include)
  /\ Enqueue(Entry("barrier", ts, {}, {}))
  /\ barrierFloor' = ts
  /\ UNCHANGED <<lastAssigned, closed, latest, snap, repeatable, prepared,
                 bumping, recovering, stopped, durable, issued, history>>

CloseWithBarrier(ts, include) ==
  /\ Running
  /\ NeedsBarrier(ts, include)
  /\ Enqueue(Entry("barrier", ts, {}, {}))
  /\ lastAssigned' = ts
  /\ barrierFloor' = ts
  /\ UNCHANGED <<closed, latest, snap, repeatable, prepared, bumping,
                 recovering, stopped, durable, issued, history>>

----------------------------------------------------------------------------
(* The writes in flight, each a future of its own: they end in any order. *)

Persist(i) ==
  LET e == queue[i] IN
  /\ stopped = "no"
  /\ e.state = "flying"
  /\ queue' = [queue EXCEPT ![i].state = "written"]
  /\ disk' = IF e.kind \in {"commit", "delta", "prepared"}
             THEN disk \cup {e.ts} ELSE disk
  /\ global' = IF e.kind \in {"delta", "bump", "barrier"} THEN e.ts ELSE global
  /\ carried' = IF e.kind = "prepared"
                THEN carried \cup {<<redo[t], e.ts>> : t \in e.txn}
                ELSE carried
  /\ UNCHANGED <<lastAssigned, barrierFloor, closed, latest, snap, repeatable,
                 prepared, bumping, recovering, stopped, redo, issued, answered,
                 alone, rejects, restarts>>

\* The proposal is cancelled or Raft refuses it: nothing is written.
Reject(i) ==
  /\ stopped = "no"
  /\ rejects < MaxRejects
  /\ queue[i].state = "flying"
  /\ queue[i].kind \in {"commit", "prepared", "rollback"}
  /\ queue' = [queue EXCEPT ![i].state = "rejected"]
  /\ rejects' = rejects + 1
  /\ UNCHANGED <<lastAssigned, barrierFloor, closed, latest, snap, repeatable,
                 prepared, bumping, recovering, stopped, durable, issued,
                 answered, carried, alone, restarts>>

----------------------------------------------------------------------------
(* Publication: the results are taken in the order of the queue. *)

HeadIs(kinds, state) ==
  queue # <<>> /\ Head(queue).kind \in kinds /\ Head(queue).state = state

Forget(t) ==
  /\ prepared' = [prepared EXCEPT ![t] = NoPrepare]
  /\ redo' = [redo EXCEPT ![t] = 0]

\* publish_commit, publish_prepared_commit and the ReplicaDelta branch: a
\* write that is not above the latest snapshot ends the committer.
PublishWrite ==
  LET e == Head(queue) IN
  /\ stopped = "no"
  /\ HeadIs({"commit", "delta", "prepared"}, "written")
  /\ IF latest < e.ts
     THEN latest' = e.ts /\ snap' = e.holds /\ stopped' = stopped
     ELSE latest' = latest /\ snap' = snap /\ stopped' = "late"
  /\ queue' = Tail(queue)
  /\ IF e.kind = "prepared" /\ latest < e.ts
     THEN \A t \in e.txn : Forget(t)
     ELSE UNCHANGED <<prepared, redo>>
  /\ UNCHANGED <<lastAssigned, barrierFloor, closed, repeatable, bumping,
                 recovering, global, disk, issued, history>>

\* recompute_pending_snapshots: the pending writes are rebased on the latest
\* snapshot; the snapshots queued for them are not.
Rebased(q) ==
  [i \in DOMAIN q |->
     IF q[i].kind = "commit"
     THEN [q[i] EXCEPT !.holds =
             snap \cup {q[j].ts : j \in {k \in 1..i : q[k].kind = "commit"}}]
     ELSE q[i]]

\* RejectedBeforePersistence and PreparedRejectedBeforePersistence,
\* PreparedRollbackRejected.
DropRejected ==
  LET q == Tail(queue) IN
  /\ stopped = "no"
  /\ HeadIs({"commit", "prepared", "rollback"}, "rejected")
  /\ queue' = IF Head(queue).kind = "commit" THEN Rebased(q) ELSE q
  /\ UNCHANGED <<lastAssigned, barrierFloor, closed, latest, snap, repeatable,
                 prepared, bumping, recovering, stopped, durable, issued,
                 history>>

\* PreparedRollback.
PublishRollback ==
  /\ stopped = "no"
  /\ HeadIs({"rollback"}, "written")
  /\ \A t \in Head(queue).txn : Forget(t)
  /\ queue' = Tail(queue)
  /\ UNCHANGED <<lastAssigned, barrierFloor, closed, latest, snap, repeatable,
                 bumping, recovering, stopped, global, disk, issued, history>>

BehindPrepare(ts) == \E p \in PreparedTs : p <= ts

\* MaxRepeatableTimestamp behind an unresolved prepare: the bump is skipped,
\* the barrier answers Blocked; either way the timer is set again.
SkipRepeatable ==
  /\ stopped = "no"
  /\ HeadIs({"bump", "barrier"}, "written")
  /\ BehindPrepare(Head(queue).ts)
  /\ queue' = Tail(queue)
  /\ bumping' = FALSE
  /\ UNCHANGED <<lastAssigned, barrierFloor, closed, latest, snap, repeatable,
                 prepared, recovering, stopped, durable, issued, history>>

\* ensure_leader_for_read_barrier fails: the timer is left alone.
BarrierLosesLeader ==
  /\ stopped = "no"
  /\ HeadIs({"barrier"}, "written")
  /\ ~BehindPrepare(Head(queue).ts)
  /\ queue' = Tail(queue)
  /\ UNCHANGED <<lastAssigned, barrierFloor, closed, latest, snap, repeatable,
                 prepared, bumping, recovering, stopped, durable, issued,
                 history>>

\* publish_max_repeatable_ts: a timestamp below the current one is an error
\* that ends the committer (bump_persisted_max_repeatable_ts).
PublishRepeatable ==
  LET e == Head(queue) IN
  /\ stopped = "no"
  /\ HeadIs({"bump", "barrier"}, "written")
  /\ ~BehindPrepare(e.ts)
  /\ queue' = Tail(queue)
  /\ IF e.ts < repeatable
     THEN /\ stopped' = "regressed"
          /\ UNCHANGED <<repeatable, latest, closed, bumping, answered>>
     ELSE /\ repeatable' = e.ts
          /\ latest' = Max({latest, e.ts})
          /\ closed' = IF e.kind = "barrier" THEN Remember(e.ts) ELSE closed
          /\ answered' = IF e.kind = "barrier" THEN Max({answered, e.ts})
                                              ELSE answered
          /\ bumping' = FALSE
          /\ UNCHANGED stopped
  /\ UNCHANGED <<lastAssigned, barrierFloor, snap, prepared, recovering,
                 durable, issued, carried, alone, rejects, restarts>>

----------------------------------------------------------------------------
(* Restart: the snapshot is loaded from persistence at the idle repeatable  *)
(* timestamp, then the redo records are staged again.                       *)

\* new_idle_repeatable_ts.
IdleRepeatableTs(clock) == Max({clock, global} \cup disk)

\* Mutant: recovery does not look for what was written.
NeverCommitted(t) == FALSE

\* redo_entry_is_already_committed, at the timestamp in the redo record.
AlreadyCommitted(t) == redo[t] \in disk

Restart(clock) ==
  LET now == IdleRepeatableTs(clock) IN
  /\ restarts < MaxRestarts
  /\ restarts' = restarts + 1
  /\ latest' = now /\ repeatable' = now /\ global' = now
  /\ barrierFloor' = now
  /\ snap' = disk
  /\ lastAssigned' = 0 /\ closed' = {} /\ queue' = <<>>
  /\ prepared' = [t \in Txn |-> NoPrepare]
  /\ bumping' = FALSE /\ stopped' = "no"
  /\ redo' = [t \in Txn |-> IF AlreadyCommitted(t) THEN 0 ELSE redo[t]]
  /\ recovering' = {t \in Txn : redo'[t] # 0}
  /\ UNCHANGED <<disk, issued, answered, carried, alone, rejects>>

\* stage_two_phase_redo_entry, with allow_explicit_ts_rewrite.
Recover(t) ==
  LET ts == Max({redo[t], ReplayedPrepareCommitFloor}) IN
  /\ stopped = "no"
  /\ t \in recovering
  /\ ts \in Ts
  /\ prepared' = [prepared EXCEPT ![t] = [ts |-> ts, holds |-> snap \cup {ts}]]
  /\ lastAssigned' = Max({lastAssigned, ts})
  /\ recovering' = recovering \ {t}
  /\ alone' = (alone /\ Unresolved = {})
  /\ UNCHANGED <<barrierFloor, closed, latest, snap, repeatable, queue,
                 bumping, stopped, durable, issued, answered, carried, rejects,
                 restarts>>

Next ==
  \/ \E ts \in Ts : StartCommit(ts)
  \/ \E ts \in Ts : ApplyDelta(ts)
  \/ \E t \in Txn, ts \in Ts : Prepare(t, ts)
  \/ \E t \in Txn : StartCommitPrepared(t)
  \/ \E t \in Txn : StartRollbackPrepared(t)
  \/ \E ts \in 0..MaxTs : Bump(ts)
  \/ \E ts \in 0..MaxTs : Heartbeat(ts)
  \/ \E ts \in Ts, include \in BOOLEAN : CloseAtOnce(ts, include)
  \/ \E ts \in Ts, include \in BOOLEAN : CloseWithBarrier(ts, include)
  \/ \E i \in DOMAIN queue : Persist(i)
  \/ \E i \in DOMAIN queue : Reject(i)
  \/ PublishWrite
  \/ DropRejected
  \/ PublishRollback
  \/ SkipRepeatable
  \/ BarrierLosesLeader
  \/ PublishRepeatable
  \/ \E clock \in 0..MaxTs : Restart(clock)
  \/ \E t \in Txn : Recover(t)

Spec == Init /\ [][Next]_vars
----------------------------------------------------------------------------
(* Properties. *)

\* The type invariant: every counter is bounded by MaxTs, every entry of the
\* queue is a write start_commit, apply_replica_delta, start_commit_prepared,
\* start_rollback_prepared or enqueue_max_repeatable_ts pushed.
TypeOK ==
  /\ {lastAssigned, barrierFloor, latest, repeatable, global, answered}
       \subseteq 0..MaxTs
  /\ closed \subseteq Ts /\ snap \subseteq Ts /\ disk \subseteq Ts /\ issued \subseteq Ts
  /\ queue \in Seq([kind : Kinds, ts : 0..MaxTs, txn : SUBSET Txn,
                     holds : SUBSET Ts, queued : SUBSET Ts,
                     state : {"flying", "written", "rejected"}])
  /\ prepared \in [Txn -> [ts : 0..MaxTs, holds : SUBSET Ts]]
  /\ redo \in [Txn -> 0..MaxTs]
  /\ bumping \in BOOLEAN /\ recovering \subseteq Txn
  /\ stopped \in {"no", "late", "regressed"}
  /\ carried \subseteq Ts \X Ts /\ alone \in BOOLEAN
  /\ rejects \in 0..MaxRejects /\ restarts \in 0..MaxRestarts

\* Whatever was admitted, a write that has reached persistence is above the
\* latest snapshot when its turn to be published comes: the checks of
\* publish_commit_from_updates and SnapshotManager::push never end the
\* committer with a transaction on disk that no reader can see.
NeverTooLate == stopped # "late"

\* Once a reader was told that a timestamp is closed, or that it is
\* repeatable, nothing reaches persistence at or below it as long as the
\* process lives (close_read_timestamp, publish_max_repeatable_ts).
ClosedStaysClosed ==
  [][restarts' = 0 => \A c \in disk' \ disk : c > answered /\ c > repeatable]_vars

\* The latest snapshot holds the effects of exactly the writes published so
\* far, although each was computed from the snapshot that was expected to
\* precede it (base_snapshot_for_new_writes), as long as nothing was rejected
\* and no two transactions were prepared at once.
SnapshotIsComplete ==
  stopped = "no" /\ alone /\ rejects = 0 =>
    snap = disk \ {queue[i].ts : i \in Writes}

\* A prepared transaction that was written at the timestamp it was prepared
\* at is not carried out again, wherever the process stops between the write
\* and the deletion of its redo record (recover_two_phase_redo_records).
CarriedOutOnce ==
  \A a, b \in carried : a[1] = b[1] /\ a[1] = a[2] => b = a

----------------------------------------------------------------------------
(* What comments and documents of the code say and the model refutes; the  *)
(* README tells how.                                                       *)

\* ClosedStaysClosed across restarts.
ClosedForGood ==
  [][\A c \in disk' \ disk : c > answered /\ c > repeatable]_vars

\* SnapshotIsComplete whatever is rejected and prepared.
SnapshotAlwaysComplete ==
  stopped = "no" => snap = disk \ {queue[i].ts : i \in Writes}

\* A transaction is written at one timestamp, rewritten by a recovery or not.
NeverTwice == \A a, b \in carried : a[1] = b[1] => a[2] = b[2]

\* The repeatable timestamp never goes backwards: bumps and read barriers are
\* published in the order of their timestamps (next_bump_wait in go).
NeverRegresses == stopped # "regressed"

\* Everything admitted while a background bump is in flight is above the
\* timestamp the bump took (bump_max_repeatable_ts).
BumpFencesCommits ==
  [][\A c \in (QueuedTs \cup PreparedTs)' \ (QueuedTs \cup PreparedTs) :
        \A i \in DOMAIN queue : queue[i].kind = "bump" => c > queue[i].ts]_vars
=============================================================================
