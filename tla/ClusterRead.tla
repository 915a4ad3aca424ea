----------------------------- MODULE ClusterRead ----------------------------
(***************************************************************************)
(* One cluster read against one two-phase transaction. Every partition is  *)
(* replicated; every replica installs the partition's log in a timeline of *)
(* its own (apply_replica_delta, stage_prepared_transaction in             *)
(* committer.rs). The reader asks every partition's leader to close one    *)
(* timestamp (cluster_safe_read_ts, cluster_read_ts_at in database.rs) and *)
(* then reads every partition at it (owner_read_service.rs).               *)
(*                                                                         *)
(* The pipeline of a committer is CommitPipeline's subject: here a write   *)
(* or a barrier is admitted and published in one step.                     *)
(***************************************************************************)
EXTENDS Integers, Sequences, FiniteSets, FiniteSetsExt

CONSTANTS
  Partition,     \* the participants of the transaction
  Replica,       \* the replicas of every partition
  Home,          \* the partition whose leader coordinates the read
  FirstLeader,   \* the replica that leads every partition at first
  MaxTs,         \* bound on timestamps
  MaxWrites,     \* bound on the writes outside the transaction
  MaxFailovers,  \* bound on leader changes
  Kinds          \* the kinds of read the client makes

ASSUME ClusterReadAssumption ==
  /\ Home \in Partition /\ FirstLeader \in Replica
  /\ MaxTs \in Nat \ {0} /\ MaxWrites \in Nat /\ MaxFailovers \in Nat
  /\ Kinds \subseteq {"latest", "exact"}

VARIABLES
  log,        \* [Partition -> Seq of committed Raft entries]
  leader,     \* [Partition -> Replica]
  replica,    \* [Partition \X Replica -> its committer's state]
  txn,        \* the transaction: its timestamp and what was decided
  read,       \* the cluster read
  writes, failovers

vars == <<log, leader, replica, txn, read, writes, failovers>>

Ts == 1..MaxTs
Node == Partition \X Replica
Leader(p) == <<p, leader[p]>>

\* applied: entries applied; latest: the latest snapshot; assigned:
\* last_assigned_ts; floor: read_barrier_floor; closed: certificates;
\* origin, prep: the prepared transaction's origin and local timestamps (0:
\* none); at: where this timeline shows the transaction (0: nowhere).
Fresh == [applied |-> 0, latest |-> 0, assigned |-> 0, floor |-> 0,
          closed |-> {}, origin |-> 0, prep |-> 0, at |-> 0]

\* A leader serves once it has applied the log it leads.
Serves(n) == n = Leader(n[1]) /\ replica[n].applied = Len(log[n[1]])

\* led: who led when the read started (and Home's leader coordinates it);
\* began: how many leaders had changed until then.
NoRead == [phase |-> "idle", kind |-> "latest", ts |-> 0, began |-> 0,
           led |-> [p \in Partition |-> FirstLeader],
           answer |-> [p \in Partition |-> "none"],
           retry |-> 0, saw |-> [p \in Partition |-> "nothing"]]

Init ==
  /\ log = [p \in Partition |-> <<>>]
  /\ leader = [p \in Partition |-> FirstLeader]
  /\ replica = [n \in Node |-> Fresh]
  /\ txn = [ts |-> 0, state |-> "none"]
  /\ read = NoRead
  /\ writes = 0 /\ failovers = 0

----------------------------------------------------------------------------
(* The leader of partition p appends an entry and installs it. *)

Propose(n, kind, ts, state) ==
  /\ log' = [log EXCEPT ![n[1]] = Append(@, [kind |-> kind, ts |-> ts])]
  /\ replica' = [replica EXCEPT ![n] = [state EXCEPT !.applied = @ + 1]]

\* A commit of p alone, at a timestamp of the oracle above the local floor;
\* refused while the transaction is prepared.
Commit(p, ts) ==
  LET n == Leader(p) r == replica[n] IN
  /\ Serves(n)
  /\ writes < MaxWrites /\ writes' = writes + 1
  /\ r.prep = 0
  /\ ts > r.latest /\ ts > r.assigned
  /\ Propose(n, "data", ts, [r EXCEPT !.latest = ts, !.assigned = ts])
  /\ UNCHANGED <<leader, txn, read, failovers>>

\* The coordinator takes the transaction's timestamp.
Begin(ts) ==
  /\ txn.state = "none"
  /\ txn' = [ts |-> ts, state |-> "preparing"]
  /\ UNCHANGED <<log, leader, replica, read, writes, failovers>>

\* explicit_prepare_commit_floor.
PrepareFloor(r) == Max({r.floor, r.latest}) + 1

\* handle_prepare_remote on p's leader; too low a timestamp is refused and
\* the coordinator gives up (its retries are TwoPhase's subject).
Prepare(p) ==
  LET n == Leader(p) r == replica[n] IN
  /\ txn.state = "preparing" /\ Serves(n)
  /\ r.prep = 0 /\ r.at = 0
  /\ IF txn.ts >= PrepareFloor(r)
     THEN /\ Propose(n, "prepare", txn.ts,
                     [r EXCEPT !.prep = txn.ts, !.origin = txn.ts,
                               !.assigned = Max({@, txn.ts})])
          /\ UNCHANGED txn
     ELSE /\ txn' = [txn EXCEPT !.state = "aborted"]
          /\ UNCHANGED <<log, replica>>
  /\ UNCHANGED <<leader, read, writes, failovers>>

PreparedIn(p) == \E i \in DOMAIN log[p] : log[p][i].kind = "prepare"

Decide ==
  /\ txn.state = "preparing"
  /\ \A p \in Partition : PreparedIn(p)
  /\ txn' = [txn EXCEPT !.state = "committed"]
  /\ UNCHANGED <<log, leader, replica, read, writes, failovers>>

\* start_commit_prepared and publish_prepared_commit: the entry carries the
\* timestamp at which this leader has the transaction prepared.  A timestamp
\* that is not above the latest snapshot cannot be published, and the
\* committer ends (publish_commit_from_updates).
CommitPrepared(p) ==
  LET n == Leader(p) r == replica[n] IN
  /\ txn.state = "committed" /\ Serves(n)
  /\ r.prep # 0 /\ r.prep > r.latest
  /\ Propose(n, "commit", r.prep,
             [r EXCEPT !.latest = r.prep, !.prep = 0, !.origin = 0,
                       !.at = IF @ = 0 THEN r.prep ELSE @])
  /\ UNCHANGED <<leader, txn, read, writes, failovers>>

RollbackPrepared(p) ==
  LET n == Leader(p) r == replica[n] IN
  /\ txn.state = "aborted" /\ Serves(n)
  /\ r.prep # 0
  /\ Propose(n, "rollback", 0, [r EXCEPT !.prep = 0, !.origin = 0])
  /\ UNCHANGED <<leader, txn, read, writes, failovers>>

----------------------------------------------------------------------------
(* Every replica. *)

\* Another partition's delta, or the clock of a restart, moves the timeline
\* of one replica on; refused behind an unresolved prepare.
Advance(n, ts) ==
  LET r == replica[n] IN
  /\ writes < MaxWrites /\ writes' = writes + 1
  /\ r.prep = 0
  /\ ts = Max({r.latest, r.assigned}) + 1
  /\ replica' = [replica EXCEPT ![n] = [r EXCEPT !.latest = ts, !.assigned = ts]]
  /\ UNCHANGED <<log, leader, txn, read, failovers>>

\* replica_delta_timestamps.
LocalApplyTs(r, ts) == Max({ts, r.latest + 1, r.assigned + 1})

\* Mutant: the commit is looked up under the local timestamp.
MatchesLocal(r, e) == r.prep # 0 /\ r.prep = e.ts

\* local_prepared_commit_ts_for_origin and
\* remove_prepared_transaction_at_origin_ts.
Matches(r, e) == r.prep # 0 /\ r.origin = e.ts

\* The state of a replica after applying an entry. A prepare below the
\* replayed floor is rewritten; a commit is matched with the prepare of the
\* same origin timestamp, and takes the prepared timestamp when it is still
\* above everything assigned here.
Applied(r, e) ==
  CASE e.kind = "data" ->
         LET ts == LocalApplyTs(r, e.ts) IN
         [r EXCEPT !.latest = ts, !.assigned = ts]
    [] e.kind = "prepare" ->
         LET ts == Max({e.ts, r.latest + 1}) IN
         [r EXCEPT !.prep = ts, !.origin = e.ts, !.assigned = Max({@, ts})]
    [] e.kind = "commit" ->
         LET known == Matches(r, e)
             ts == IF known /\ r.prep > r.latest /\ r.prep > r.assigned
                   THEN r.prep ELSE LocalApplyTs(r, e.ts) IN
         [r EXCEPT !.latest = ts, !.assigned = ts,
                   !.at = IF @ = 0 THEN ts ELSE @,
                   !.prep = IF known THEN 0 ELSE @,
                   !.origin = IF known THEN 0 ELSE @]
    [] OTHER -> [r EXCEPT !.prep = 0, !.origin = 0]

\* apply_replica_delta (FullRaftState), the apply of a two-phase prepare and
\* of a rollback, on a replica that did not propose the entry.
Apply(n) ==
  LET r == replica[n]
      after == Applied(r, log[n[1]][r.applied + 1]) IN
  /\ r.applied < Len(log[n[1]])
  /\ {after.latest, after.prep} \subseteq 0..MaxTs
  /\ replica' = [replica EXCEPT ![n] = [after EXCEPT !.applied = @ + 1]]
  /\ UNCHANGED <<log, leader, txn, read, writes, failovers>>

\* A new leader knows the log; certificates and floors stay where they were.
Failover(p, l) ==
  /\ failovers < MaxFailovers
  /\ l # leader[p]
  /\ leader' = [leader EXCEPT ![p] = l]
  /\ failovers' = failovers + 1
  /\ UNCHANGED <<log, replica, txn, read, writes>>

----------------------------------------------------------------------------
(* The read. *)

Blocks(r, ts) == r.prep # 0 /\ r.prep <= ts

\* close_read_timestamp: the answer and the state it leaves behind.
Close(r, ts, kind) ==
  LET minimum == Max({r.assigned, r.latest, r.prep})
      exact == kind = "exact"
      keep == [r EXCEPT !.closed = @ \cup {ts}] IN
  CASE exact /\ ts \in r.closed -> <<"closed", ts, r>>
    [] ~(exact /\ ts \in r.closed) /\ Blocks(r, ts) -> <<"blocked", r.prep, r>>
    [] ~Blocks(r, ts) /\ exact /\ ts \notin r.closed /\ ts <= r.latest ->
         <<"closed", ts, keep>>
    [] OTHER ->
         CASE minimum > ts -> <<"retry", minimum, r>>
           [] minimum <= ts /\ ts \in r.closed -> <<"closed", ts, r>>
           [] OTHER -> <<"closed", ts, [keep EXCEPT !.latest = ts,
                                                    !.assigned = ts,
                                                    !.floor = ts]>>

\* A latest read starts at the coordinator's own readable timestamp, an
\* exact one at the client's.
Ask(kind, ts) ==
  /\ read.phase = "idle"
  /\ kind = "latest" => ts = replica[Leader(Home)].latest
  /\ read' = [NoRead EXCEPT !.phase = "closing", !.kind = kind, !.ts = ts,
                            !.led = leader, !.began = failovers]
  /\ UNCHANGED <<log, leader, replica, txn, writes, failovers>>

\* The coordinator's own committer refuses once it does not lead.
HomeLost ==
  /\ read.phase = "closing" /\ read.answer[Home] = "none"
  /\ leader[Home] # read.led[Home]
  /\ read' = [read EXCEPT !.phase = "failed"]
  /\ UNCHANGED <<log, leader, replica, txn, writes, failovers>>

\* One owner answers, in any order with the others.
CloseAt(p) ==
  LET n == Leader(p) out == Close(replica[n], read.ts, read.kind) IN
  /\ read.phase = "closing" /\ read.answer[p] = "none"
  /\ Serves(n) /\ (p = Home => leader[p] = read.led[p])
  /\ replica' = [replica EXCEPT ![n] = out[3]]
  /\ read' = [read EXCEPT !.answer = [@ EXCEPT ![p] = out[1]],
                          !.retry = IF out[1] = "retry" THEN Max({@, out[2]})
                                                        ELSE @]
  /\ UNCHANGED <<log, leader, txn, writes, failovers>>

Answers == {read.answer[p] : p \in Partition}

\* Mutant: an exact read does not wait for a blocked owner.
ExactIgnoresBlocked ==
  read' = CASE "retry" \in Answers ->
                 [read EXCEPT !.phase = IF read.kind = "latest" THEN "closing"
                                                                ELSE "failed",
                              !.ts = read.retry, !.retry = 0,
                              !.answer = NoRead.answer]
            [] "retry" \notin Answers /\ "blocked" \in Answers /\ read.kind = "latest" ->
                 [read EXCEPT !.answer = NoRead.answer]
            [] OTHER -> [read EXCEPT !.phase = "reading"]

\* Mutant: a latest read does not wait for a blocked owner.
LatestIgnoresBlocked ==
  read' = CASE "retry" \in Answers ->
                 [read EXCEPT !.phase = IF read.kind = "latest" THEN "closing"
                                                                ELSE "failed",
                              !.ts = read.retry, !.retry = 0,
                              !.answer = NoRead.answer]
            [] "retry" \notin Answers /\ "blocked" \in Answers /\ read.kind = "exact" ->
                 [read EXCEPT !.answer = NoRead.answer]
            [] OTHER -> [read EXCEPT !.phase = "reading"]

\* Mutant: a refused candidate is asked for again.
KeepsCandidate ==
  read' = IF Answers = {"closed"} THEN [read EXCEPT !.phase = "reading"]
                                  ELSE [read EXCEPT !.answer = NoRead.answer]

\* close_cluster_read_timestamp: a RetryAt outweighs a Blocked; a latest read
\* goes on at the highest RetryAt, an exact one fails; both wait when blocked.
Concluded ==
  read' = CASE "retry" \in Answers ->
                 [read EXCEPT !.phase = IF read.kind = "latest" THEN "closing"
                                                                ELSE "failed",
                              !.ts = read.retry, !.retry = 0,
                              !.answer = NoRead.answer]
            [] "retry" \notin Answers /\ "blocked" \in Answers ->
                 [read EXCEPT !.answer = NoRead.answer]
            [] OTHER -> [read EXCEPT !.phase = "reading"]

Conclude ==
  /\ read.phase = "closing" /\ "none" \notin Answers
  /\ Concluded
  /\ UNCHANGED <<log, leader, replica, txn, writes, failovers>>

Sees(r, ts) == IF r.at # 0 /\ r.at <= ts THEN "new" ELSE "old"

\* read_index_ranges: a remote owner certifies the timestamp again before it
\* serves, else the query fails; the coordinator reads its own partition from
\* its own timeline.
ReadFrom(p) ==
  LET n == IF p = Home THEN <<p, read.led[p]>> ELSE Leader(p)
      out == IF p = Home THEN <<"closed", read.ts, replica[n]>>
                         ELSE Close(replica[n], read.ts, "exact") IN
  /\ read.phase = "reading" /\ read.saw[p] = "nothing"
  /\ p = Home \/ Serves(n)
  /\ replica' = [replica EXCEPT ![n] = out[3]]
  /\ read' = IF out[1] = "closed"
             THEN [read EXCEPT !.saw = [@ EXCEPT ![p] = Sees(out[3], read.ts)]]
             ELSE [read EXCEPT !.phase = "failed"]
  /\ UNCHANGED <<log, leader, txn, writes, failovers>>

Finish ==
  /\ read.phase = "reading" /\ \A p \in Partition : read.saw[p] # "nothing"
  /\ read' = [read EXCEPT !.phase = "done"]
  /\ UNCHANGED <<log, leader, replica, txn, writes, failovers>>

Work == Decide \/ \E p \in Partition : \/ Prepare(p) \/ CommitPrepared(p)
                                         \/ RollbackPrepared(p)
Reading == HomeLost \/ Conclude \/ Finish \/ \E p \in Partition : CloseAt(p) \/ ReadFrom(p)

Next ==
  \/ \E p \in Partition, ts \in Ts : Commit(p, ts)
  \/ \E ts \in Ts : Begin(ts)
  \/ \E p \in Partition : Prepare(p)
  \/ Decide
  \/ \E p \in Partition : CommitPrepared(p)
  \/ \E p \in Partition : RollbackPrepared(p)
  \/ \E n \in Node, ts \in Ts : Advance(n, ts)
  \/ \E n \in Node : Apply(n)
  \/ \E p \in Partition, l \in Replica : Failover(p, l)
  \/ \E kind \in Kinds, ts \in 0..MaxTs : Ask(kind, ts)
  \/ \E p \in Partition : CloseAt(p)
  \/ HomeLost
  \/ Conclude
  \/ \E p \in Partition : ReadFrom(p)
  \/ Finish

Spec == Init /\ [][Next]_vars

\* A started transaction is driven to its end by its coordinator or the
\* watchers, and the reader retries until it is answered.
Fairness == WF_vars(Reading) /\ WF_vars(Work)

FairSpec == Spec /\ Fairness

----------------------------------------------------------------------------
(* Properties. *)

\* The type invariant of the replicas, the logs and the read.
TypeOK ==
  /\ log \in [Partition -> Seq([kind : {"data", "prepare", "commit", "rollback"},
                                ts : 0..MaxTs])]
  /\ leader \in [Partition -> Replica]
  /\ replica \in [Node -> [applied : Nat, latest : 0..MaxTs,
                           assigned : 0..MaxTs, floor : 0..MaxTs,
                           closed : SUBSET (0..MaxTs), origin : 0..MaxTs,
                           prep : 0..MaxTs, at : 0..MaxTs]]
  /\ txn \in [ts : 0..MaxTs,
              state : {"none", "preparing", "committed", "aborted"}]
  /\ read \in [phase : {"idle", "closing", "reading", "done", "failed"},
               kind : {"latest", "exact"}, ts : 0..MaxTs,
               led : [Partition -> Replica], began : 0..MaxFailovers,
               answer : [Partition -> {"none", "closed", "retry", "blocked"}],
               retry : 0..MaxTs,
               saw : [Partition -> {"nothing", "old", "new"}]]
  /\ writes \in 0..MaxWrites /\ failovers \in 0..MaxFailovers

Whole(r) == \A p, q \in Partition : r.saw[p] = r.saw[q]

\* A latest read during which no partition changes its leader never sees one
\* half of the transaction: whatever the owners answered, in whichever order,
\* and whoever led before, the timestamp they closed lies before or after the
\* whole transaction (cluster_safe_read_ts).
SteadyReadIsWhole ==
  read.phase = "done" /\ read.kind = "latest" /\ read.began = failovers
    => Whole(read)

\* A read at a timestamp the client names does not see one half of the
\* transaction either, as long as every partition keeps its first leader
\* (cluster_read_ts_at).
ExactReadIsWhole ==
  read.phase = "done" /\ read.kind = "exact" /\ failovers = 0 => Whole(read)

\* Nor does a replica that shows the transaction, at a timestamp of its own,
\* hold an intent of it any more, although the commit entry carries the
\* leader's timestamp (remove_prepared_transaction_at_origin_ts).
IntentIsResolved ==
  failovers = 0 => \A n \in Node : replica[n].at # 0 => replica[n].prep = 0

\* Every read is answered or refused: as long as the leaders stay, RetryAt and
\* Blocked answers cannot keep a reader going round for ever.
ReadEnds ==
  read.phase = "closing" ~> read.phase \in {"done", "failed"} \/ failovers # 0

----------------------------------------------------------------------------
(* What comments and documents of the code say and the model refutes; the  *)
(* README tells how.                                                       *)

HomeSteady == read.led[Home] = leader[Home]

\* SteadyReadIsWhole of a read during which the other owners may change
\* leaders.
LatestReadIsWhole ==
  read.phase = "done" /\ read.kind = "latest" /\ HomeSteady => Whole(read)

\* ExactReadIsWhole and IntentIsResolved after a change of leaders.
ExactReadStaysWhole ==
  read.phase = "done" /\ read.kind = "exact" /\ HomeSteady => Whole(read)
IntentAlwaysResolved ==
  \A n \in Node : replica[n].at # 0 => replica[n].prep = 0
=============================================================================
