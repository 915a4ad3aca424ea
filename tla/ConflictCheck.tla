--------------------------- MODULE ConflictCheck ----------------------------
(***************************************************************************)
(* Optimistic concurrency control in one partition's committer: what a     *)
(* commit, a two-phase prepare and a read-only participant compare their   *)
(* reads with (commit_has_conflict in committer.rs; WriteLog,              *)
(* PendingWrites and PreparedWrites in write_log.rs), and what moves       *)
(* between these three places meanwhile.                                   *)
(*                                                                         *)
(* A document or an index key is a member of Key; values are left out: a   *)
(* transaction is its read set, its write set and its timestamps.          *)
(***************************************************************************)
EXTENDS Integers, FiniteSets, FiniteSetsExt

CONSTANTS
  Txn,     \* the transactions
  Key,     \* what this partition owns
  MaxTs    \* bound on timestamps

ASSUME ConflictCheckAssumption == MaxTs \in Nat \ {0}

VARIABLES
  txn,        \* [Txn -> a transaction]
  latest,     \* the latest snapshot's timestamp
  assigned,   \* last_assigned_ts
  barrier,    \* read_barrier_floor
  log,        \* the published transactions the write log still holds
  purged,     \* purged_ts of the write log
  overtaken   \* a prepare was admitted below a reader validated before it

vars == <<txn, latest, assigned, barrier, log, purged, overtaken>>

Ts == 1..MaxTs
Kinds == {"local", "prepare", "validate"}
States == {"idle", "running", "pending", "prepared", "validated",
           "committed", "aborted"}

In(state) == {t \in Txn : txn[t].state = state}
TsOf(T) == {txn[t].ts : t \in T}

Init ==
  /\ txn = [t \in Txn |-> [kind |-> "local", state |-> "idle", reads |-> {},
                           writes |-> {}, begin |-> 0, ts |-> 0]]
  /\ latest = 0 /\ assigned = 0 /\ barrier = 0
  /\ log = {} /\ purged = 0
  /\ overtaken = FALSE

Becomes(t, state, ts) ==
  txn' = [txn EXCEPT ![t] = [txn[t] EXCEPT !.state = state, !.ts = ts]]

\* A transaction reads at a timestamp the partition has published, or has
\* closed for a reader elsewhere.
Begin(t, kind, begin, reads, writes) ==
  /\ txn[t].state = "idle"
  /\ begin <= latest
  /\ kind = "validate" => writes = {}
  /\ txn' = [txn EXCEPT ![t] = [kind |-> kind, state |-> "running",
                                reads |-> reads, writes |-> writes,
                                begin |-> begin, ts |-> 0]]
  /\ UNCHANGED <<latest, assigned, barrier, log, purged, overtaken>>

----------------------------------------------------------------------------
(* The check. *)

Overlaps(t, T) == \E u \in T \ {t} : txn[u].writes \cap txn[t].reads # {}

\* WriteLog::iter fails when part of the range was trimmed.
OutOfRetention(t) == txn[t].begin + 1 <= purged

\* WriteLog::is_stale.
LogIsStale(t, ts) ==
  Overlaps(t, {u \in log : txn[u].ts \in (txn[t].begin + 1)..ts})

\* Mutant: writes on their way to persistence are not compared.
PendingNeverStale(t, ts) == FALSE

\* PendingWrites::is_stale, from the beginning of time.
PendingIsStale(t, ts) ==
  Overlaps(t, {u \in In("pending") : txn[u].ts <= ts})

\* Mutant: two-phase intents are not compared.
PreparedNeverStale(t, ts) == FALSE

\* PreparedWrites::is_stale, from the transaction's begin timestamp.
PreparedIsStale(t, ts) ==
  Overlaps(t, {u \in In("prepared") : txn[u].ts \in (txn[t].begin + 1)..ts})

\* commit_has_conflict; an error and a conflict both refuse the transaction.
HasConflict(t, ts) ==
  \/ OutOfRetention(t)
  \/ LogIsStale(t, ts)
  \/ PendingIsStale(t, ts)
  \/ PreparedIsStale(t, ts)

Unused(ts) == ts \notin TsOf(Txn)

----------------------------------------------------------------------------
(* A transaction of this partition alone. *)

\* validate_commit: refused while any two-phase transaction is unresolved.
\* The timestamp is taken before the reads are checked.
ValidateCommit(t, ts) ==
  /\ txn[t].state = "running" /\ txn[t].kind = "local"
  /\ In("prepared") = {}
  /\ Unused(ts) /\ ts > latest /\ ts > assigned
  /\ assigned' = ts
  /\ IF HasConflict(t, ts) THEN Becomes(t, "aborted", 0)
                           ELSE Becomes(t, "pending", ts)
  /\ UNCHANGED <<latest, barrier, log, purged, overtaken>>

\* publish_commit: the pending writes are published in timestamp order.
PublishCommit(t) ==
  /\ txn[t].state = "pending" /\ txn[t].ts = Min(TsOf(In("pending")))
  /\ Becomes(t, "committed", txn[t].ts)
  /\ latest' = txn[t].ts
  /\ log' = log \cup {t}
  /\ UNCHANGED <<assigned, barrier, purged, overtaken>>

\* RejectedBeforePersistence.
RejectCommit(t) ==
  /\ txn[t].state = "pending" /\ txn[t].ts = Min(TsOf(In("pending")))
  /\ Becomes(t, "aborted", 0)
  /\ UNCHANGED <<latest, assigned, barrier, log, purged, overtaken>>

----------------------------------------------------------------------------
(* A participant of a transaction that spans partitions. *)

\* explicit_prepare_commit_floor (nothing is queued when nothing is pending).
PrepareFloor == Max({barrier, latest}) + 1

\* Somebody's reads were validated beyond ts.
Overtakes(ts) == \E u \in Txn : ts < txn[u].ts

\* stage_prepared_transaction at the coordinator's timestamp; while a local
\* write is pending the prepare waits.
StagePrepared(t, ts) ==
  /\ txn[t].state = "running" /\ txn[t].kind = "prepare"
  /\ In("pending") = {}
  /\ Unused(ts) /\ ts >= PrepareFloor
  /\ assigned' = Max({assigned, ts})
  /\ IF HasConflict(t, ts)
     THEN Becomes(t, "aborted", 0) /\ overtaken' = overtaken
     ELSE Becomes(t, "prepared", ts) /\ overtaken' = (overtaken \/ Overtakes(ts))
  /\ UNCHANGED <<latest, barrier, log, purged>>

\* validate_participant_reads: nothing is kept but last_assigned_ts, and that
\* only when the reads are good.
ValidateReads(t, ts) ==
  /\ txn[t].state = "running" /\ txn[t].kind = "validate"
  /\ Unused(ts) /\ ts >= PrepareFloor
  /\ IF HasConflict(t, ts)
     THEN Becomes(t, "aborted", 0) /\ assigned' = assigned
     ELSE Becomes(t, "validated", ts) /\ assigned' = Max({assigned, ts})
  /\ UNCHANGED <<latest, barrier, log, purged, overtaken>>

\* start_commit_prepared and publish_prepared_commit: lowest timestamp first.
CommitPrepared(t) ==
  /\ txn[t].state = "prepared" /\ txn[t].ts = Min(TsOf(In("prepared")))
  /\ Becomes(t, "committed", txn[t].ts)
  /\ latest' = txn[t].ts
  /\ log' = log \cup {t}
  /\ UNCHANGED <<assigned, barrier, purged, overtaken>>

RollbackPrepared(t) ==
  /\ txn[t].state = "prepared"
  /\ Becomes(t, "aborted", 0)
  /\ UNCHANGED <<latest, assigned, barrier, log, purged, overtaken>>

\* The decision on a transaction this partition only read for.
DecideValidated(t, outcome) ==
  /\ txn[t].state = "validated"
  /\ Becomes(t, outcome, IF outcome = "committed" THEN txn[t].ts ELSE 0)
  /\ UNCHANGED <<latest, assigned, barrier, log, purged, overtaken>>

----------------------------------------------------------------------------

\* A read barrier or a bump of the repeatable timestamp (CommitPipeline).
Close(ts) ==
  /\ In("pending") = {}
  /\ \A t \in In("prepared") : txn[t].ts > ts
  /\ ts >= Max({latest, assigned} \cup TsOf(In("prepared")))
  /\ latest' = ts /\ assigned' = ts /\ barrier' = ts
  /\ UNCHANGED <<txn, log, purged, overtaken>>

\* enforce_retention_policy drops the oldest entry.
EnforceRetention ==
  /\ log # {}
  /\ LET old == CHOOSE t \in log : txn[t].ts = Min(TsOf(log)) IN
     /\ log' = log \ {old}
     /\ purged' = txn[old].ts
  /\ UNCHANGED <<txn, latest, assigned, barrier, overtaken>>

Next ==
  \/ \E t \in Txn, kind \in Kinds, begin \in 0..MaxTs,
        reads \in SUBSET Key, writes \in SUBSET Key :
       Begin(t, kind, begin, reads, writes)
  \/ \E t \in Txn, ts \in Ts : ValidateCommit(t, ts)
  \/ \E t \in Txn : PublishCommit(t)
  \/ \E t \in Txn : RejectCommit(t)
  \/ \E t \in Txn, ts \in Ts : StagePrepared(t, ts)
  \/ \E t \in Txn, ts \in Ts : ValidateReads(t, ts)
  \/ \E t \in Txn : CommitPrepared(t)
  \/ \E t \in Txn : RollbackPrepared(t)
  \/ \E t \in Txn, outcome \in {"committed", "aborted"} :
       DecideValidated(t, outcome)
  \/ \E ts \in Ts : Close(ts)
  \/ EnforceRetention

Spec == Init /\ [][Next]_vars

----------------------------------------------------------------------------
(* Properties. *)

\* The type invariant of the committer's timestamps and of the transactions.
TypeOK ==
  /\ txn \in [Txn -> [kind : Kinds, state : States, reads : SUBSET Key,
                      writes : SUBSET Key, begin : 0..MaxTs, ts : 0..MaxTs]]
  /\ latest \in 0..MaxTs /\ assigned \in 0..MaxTs /\ barrier \in 0..MaxTs
  /\ purged \in 0..MaxTs
  /\ log \subseteq In("committed")
  /\ overtaken \in BOOLEAN

\* What t read at its begin timestamp is what it would have read at its
\* commit timestamp: no other transaction wrote it in between.
ReadsHold(t) ==
  \A u \in In("committed") \ {t} :
    txn[u].ts \in (txn[t].begin + 1)..(txn[t].ts)
      => txn[u].writes \cap txn[t].reads = {}

\* Every committed transaction is serializable at its commit timestamp,
\* two-phase participants included, as long as prepares reach the participant
\* in the order of their timestamps, whatever else is pending, published,
\* rejected, rolled back, closed or trimmed meanwhile (commit_has_conflict).
CurrentWhenInOrder ==
  ~overtaken => \A t \in In("committed") : ReadsHold(t)

\* A commit of this partition alone is serializable at its timestamp even
\* when prepares overtake each other (validate_commit).
LocalReadsAreCurrent ==
  \A t \in In("committed") : txn[t].kind = "local" => ReadsHold(t)

----------------------------------------------------------------------------
(* What comments and documents of the code say and the model refutes; the  *)
(* README tells how.                                                        *)

Missed(t, u) ==
  txn[u].ts > txn[t].begin /\ txn[u].writes \cap txn[t].reads # {}

\* Committed transactions are serializable in some order: no two of them each
\* missed what the other wrote (stage_prepared_transaction).
NoWriteSkew ==
  \A t, u \in In("committed") : t # u => ~(Missed(t, u) /\ Missed(u, t))
=============================================================================
