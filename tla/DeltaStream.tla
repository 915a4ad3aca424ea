----------------------------- MODULE DeltaStream ----------------------------
(***************************************************************************)
(* How the commits of one partition reach a node of another one. Every     *)
(* replica of the source partition records each delta it applies in an     *)
(* outbox of its own; the leader's replay task publishes its records in    *)
(* order and clears them (committer.rs). The stream is JetStream with one  *)
(* durable consumer per node and one unacknowledged message at a time      *)
(* (nats_distributed_log.rs, replica.rs); the consumer's committer drops   *)
(* duplicates (AppliedDataDeltaIds).                                       *)
(*                                                                         *)
(* Delta number d is the d-th commit of the source partition; all of them  *)
(* write the same document, so the document's value is the last delta      *)
(* applied. Frontier heartbeats carry no data and are left out.            *)
(***************************************************************************)
EXTENDS Integers, Sequences, FiniteSets, SequencesExt, FiniteSetsExt

CONSTANTS
  Node,         \* the replicas of the source partition
  FirstLeader,  \* the one that leads at first
  Window,       \* MAX_APPLIED_DATA_ORIGIN_TIMESTAMPS_PER_PARTITION
  MaxCommits,   \* bound on commits
  MaxStream,    \* bound on messages published
  MaxFailovers, \* bound on leader changes
  MaxFailures,  \* bound on crashes, lost acknowledgements and refusals
  MaxTrims      \* bound on messages the stream drops for their age

ASSUME DeltaStreamAssumption ==
  /\ FirstLeader \in Node
  /\ {Window, MaxCommits, MaxStream} \subseteq Nat \ {0}
  /\ {MaxFailovers, MaxFailures, MaxTrims} \subseteq Nat

VARIABLES
  committed,  \* number of deltas in the source partition's Raft log
  leader,
  applied,    \* [Node -> number of deltas applied]
  outbox,     \* [Node -> the records in raft_nats_outbox/]
  batch,      \* [Node -> what the replay task has loaded and not yet cleared]
  sent,       \* [Node -> the first of the batch is published, not cleared]
  stream,     \* messages ever published: the number of the delta of each
  trimmed,    \* how many of them the stream has dropped
  consumer,   \* the durable consumer and the task that reads it
  memory,     \* applied_data_delta_ids of the running process
  durable,    \* AppliedDataDeltaIds in persistence
  document,   \* the delta whose value the document has in persistence
  seen,       \* the deltas ever applied
  failovers, failures

source == <<committed, leader, applied, outbox>>
task == <<batch, sent>>
sink == <<consumer, memory, durable, document, seen>>
vars == <<source, task, stream, trimmed, sink, failovers, failures>>

Delta == 1..MaxCommits
NoIds == [origins |-> {}, messages |-> {}]

Init ==
  /\ committed = 0 /\ leader = FirstLeader
  /\ applied = [n \in Node |-> 0]
  /\ outbox = [n \in Node |-> {}]
  /\ batch = [n \in Node |-> <<>>] /\ sent = [n \in Node |-> FALSE]
  /\ stream = <<>> /\ trimmed = 0
  /\ consumer = [state |-> "off", floor |-> 0, at |-> 0]
  /\ memory = NoIds /\ durable = NoIds
  /\ document = 0 /\ seen = {}
  /\ failovers = 0 /\ failures = 0

----------------------------------------------------------------------------
(* The source partition. *)

Ready(n) == n = leader /\ applied[n] = committed

\* A commit and its outbox record reach persistence together.
Commit(n) ==
  /\ Ready(n) /\ committed < MaxCommits
  /\ committed' = committed + 1
  /\ applied' = [applied EXCEPT ![n] = committed + 1]
  /\ outbox' = [outbox EXCEPT ![n] = @ \cup {committed + 1}]
  /\ UNCHANGED <<leader, task, stream, trimmed, sink, failovers, failures>>

\* apply_replica_delta (FullRaftState) records the delta too.
Apply(n) ==
  /\ applied[n] < committed
  /\ applied' = [applied EXCEPT ![n] = @ + 1]
  /\ outbox' = [outbox EXCEPT ![n] = @ \cup {applied[n] + 1}]
  /\ UNCHANGED <<committed, leader, task, stream, trimmed, sink, failovers,
                 failures>>

Failover(n) ==
  /\ n # leader /\ failovers < MaxFailovers
  /\ leader' = n
  /\ failovers' = failovers + 1
  /\ UNCHANGED <<committed, applied, outbox, task, stream, trimmed, sink,
                 failures>>

----------------------------------------------------------------------------
(* The replay task, one at a time on a node. It goes on when leadership is  *)
(* lost.                                                                    *)

\* Mutant: the records come in the order of the map they were read from.
LoadUnsorted(n) ==
  /\ Ready(n) /\ batch[n] = <<>> /\ outbox[n] # {}
  /\ \E s \in SetToSeqs(outbox[n]) : batch' = [batch EXCEPT ![n] = s]
  /\ UNCHANGED <<source, sent, stream, trimmed, sink, failovers, failures>>

\* The records of S, each once and in the order of their timestamps.
InOrder(S) ==
  {s \in [1..Cardinality(S) -> S] :
     /\ \A d \in S : \E i \in DOMAIN s : s[i] = d
     /\ \A i, j \in DOMAIN s : i < j => s[i] < s[j]}

\* spawn_raft_nats_outbox_replay and load_raft_nats_outbox_records.
Load(n) ==
  /\ Ready(n) /\ batch[n] = <<>> /\ outbox[n] # {}
  /\ \E s \in InOrder(outbox[n]) : batch' = [batch EXCEPT ![n] = s]
  /\ UNCHANGED <<source, sent, stream, trimmed, sink, failovers, failures>>

\* publish_envelope, acknowledged by the stream.
Publish(n) ==
  /\ batch[n] # <<>> /\ ~sent[n]
  /\ Len(stream) < MaxStream
  /\ stream' = Append(stream, Head(batch[n]))
  /\ sent' = [sent EXCEPT ![n] = TRUE]
  /\ UNCHANGED <<source, batch, trimmed, sink, failovers, failures>>

\* The publish fails or its acknowledgement is lost: the pass ends, the
\* record stays.
PublishFails(n, stored) ==
  /\ batch[n] # <<>> /\ ~sent[n]
  /\ failures < MaxFailures /\ failures' = failures + 1
  /\ stored => Len(stream) < MaxStream
  /\ stream' = IF stored THEN Append(stream, Head(batch[n])) ELSE stream
  /\ batch' = [batch EXCEPT ![n] = <<>>]
  /\ UNCHANGED <<source, sent, trimmed, sink, failovers>>

\* clear_raft_nats_outbox_record.
Clear(n) ==
  /\ sent[n]
  /\ outbox' = [outbox EXCEPT ![n] = @ \ {Head(batch[n])}]
  /\ batch' = [batch EXCEPT ![n] = Tail(@)]
  /\ sent' = [sent EXCEPT ![n] = FALSE]
  /\ UNCHANGED <<committed, leader, applied, stream, trimmed, sink, failovers,
                 failures>>

\* max_age: the oldest message goes.
Trim ==
  /\ trimmed < Len(stream) /\ trimmed < MaxTrims
  /\ trimmed' = trimmed + 1
  /\ UNCHANGED <<source, task, stream, sink, failovers, failures>>

----------------------------------------------------------------------------
(* The consumer. *)

Is(state) == consumer.state = state
Now(state) == consumer' = [consumer EXCEPT !.state = state]

\* retention_gap, for a consumer that starts from the beginning; an empty
\* stream has none.
RetentionGap == trimmed < Len(stream) /\ consumer.floor < trimmed

\* subscribe_subjects; a gap stops the consumer for good.
Subscribe ==
  /\ Is("off")
  /\ Now(IF RetentionGap THEN "poisoned" ELSE "waiting")
  /\ UNCHANGED <<source, task, stream, trimmed, memory, durable, document,
                 seen, failovers, failures>>

\* Mutant: only the message itself is recognised when it comes again.
DuplicateMessage(at) == at \in memory.messages

Duplicate(at) ==
  at \in memory.messages \/ stream[at] \in memory.origins

\* prune_origin_timestamps_below_watermarks: the lowest goes (the watermark
\* is never below it).
Pruned(origins) ==
  IF Cardinality(origins) > Window THEN origins \ {Min(origins)} ELSE origins

With(ids, at) ==
  [origins |-> Pruned(ids.origins \cup {stream[at]}),
   messages |-> ids.messages \cup {at}]

\* Mutant: a duplicate is skipped and not acknowledged.
DeliverAndDrop ==
  LET at == Max({consumer.floor, trimmed}) + 1 IN
  /\ Is("waiting") /\ at <= Len(stream)
  /\ IF Duplicate(at)
     THEN UNCHANGED <<consumer, memory>>
     ELSE /\ consumer' = [consumer EXCEPT !.state = "queued", !.at = at]
          /\ memory' = With(memory, at)
  /\ UNCHANGED <<source, task, stream, trimmed, durable, document, seen,
                 failovers, failures>>

\* apply_replica_delta (CrossPartitionReplica): a duplicate is skipped and
\* acknowledged; anything else is remembered at once and queued.
Deliver ==
  LET at == Max({consumer.floor, trimmed}) + 1 IN
  /\ Is("waiting") /\ at <= Len(stream)
  /\ IF Duplicate(at)
     THEN /\ consumer' = [consumer EXCEPT !.state = "applied", !.at = at]
          /\ UNCHANGED memory
     ELSE /\ consumer' = [consumer EXCEPT !.state = "queued", !.at = at]
          /\ memory' = With(memory, at)
  /\ UNCHANGED <<source, task, stream, trimmed, durable, document, seen,
                 failovers, failures>>

\* RetryableReplicaApplyError: the message is refused and comes again after
\* the consumer has subscribed anew.
Refuse ==
  /\ Is("waiting") /\ Max({consumer.floor, trimmed}) < Len(stream)
  /\ failures < MaxFailures /\ failures' = failures + 1
  /\ Now("off")
  /\ UNCHANGED <<source, task, stream, trimmed, memory, durable, document,
                 seen, failovers>>

\* The documents are written, whatever is there already.
WriteDocuments ==
  /\ Is("queued")
  /\ Now("written")
  /\ document' = stream[consumer.at]
  /\ seen' = seen \cup {stream[consumer.at]}
  /\ UNCHANGED <<source, task, stream, trimmed, memory, durable, failovers,
                 failures>>

\* The ReplicaDelta branch of go: only now are the ids written.
PublishDelta ==
  /\ Is("written")
  /\ Now("applied")
  /\ durable' = memory
  /\ UNCHANGED <<source, task, stream, trimmed, memory, document, seen,
                 failovers, failures>>

\* The message is acknowledged once it is applied or skipped.
Ack ==
  /\ Is("applied")
  /\ consumer' = [consumer EXCEPT !.state = "waiting", !.floor = consumer.at]
  /\ UNCHANGED <<source, task, stream, trimmed, memory, durable, document,
                 seen, failovers, failures>>

AckFails ==
  /\ Is("applied")
  /\ failures < MaxFailures /\ failures' = failures + 1
  /\ Now("off")
  /\ UNCHANGED <<source, task, stream, trimmed, memory, durable, document,
                 seen, failovers>>

\* The consuming node restarts.
Crash ==
  /\ consumer.state # "poisoned"
  /\ failures < MaxFailures /\ failures' = failures + 1
  /\ Now("off")
  /\ memory' = durable
  /\ UNCHANGED <<source, task, stream, trimmed, durable, document, seen,
                 failovers>>

Replay(n) == Load(n) \/ Publish(n) \/ Clear(n)
Consume == Subscribe \/ Deliver \/ WriteDocuments \/ PublishDelta \/ Ack

Next ==
  \/ \E n \in Node : Commit(n)
  \/ \E n \in Node : Apply(n)
  \/ \E n \in Node : Failover(n)
  \/ \E n \in Node : Load(n)
  \/ \E n \in Node : Publish(n)
  \/ \E n \in Node, stored \in BOOLEAN : PublishFails(n, stored)
  \/ \E n \in Node : Clear(n)
  \/ Trim
  \/ Subscribe
  \/ Deliver
  \/ Refuse
  \/ WriteDocuments
  \/ PublishDelta
  \/ Ack
  \/ AckFails
  \/ Crash

Spec == Init /\ [][Next]_vars

\* The replay task is respawned every second on the leader and the consumer is
\* supervised; followers keep applying the log.
Fairness ==
  /\ \A n \in Node : WF_vars(Replay(n)) /\ WF_vars(Apply(n))
  /\ WF_vars(Consume)

FairSpec == Spec /\ Fairness

----------------------------------------------------------------------------
(* Properties. *)

\* The type invariant of the outboxes, the replay tasks and the consumer.
TypeOK ==
  /\ committed \in 0..MaxCommits /\ leader \in Node
  /\ applied \in [Node -> 0..committed]
  /\ outbox \in [Node -> SUBSET Delta]
  /\ \A n \in Node : batch[n] \in Seq(Delta) /\ (sent[n] => batch[n] # <<>>)
  /\ sent \in [Node -> BOOLEAN]
  /\ stream \in Seq(Delta) /\ trimmed \in 0..Len(stream)
  /\ consumer.state \in {"off", "waiting", "queued", "written", "applied",
                         "poisoned"}
  /\ consumer.floor \in 0..Len(stream) /\ consumer.at \in 0..Len(stream)
  /\ \A ids \in {memory, durable} :
       /\ ids.origins \subseteq Delta /\ Cardinality(ids.origins) <= Window
       /\ ids.messages \subseteq DOMAIN stream
  /\ document \in 0..MaxCommits /\ seen \subseteq Delta
  /\ failovers \in 0..MaxFailovers /\ failures \in 0..MaxFailures

\* As long as the stream drops nothing, the replica holds the newest value that
\* has reached it: however often a failover, a lost acknowledgement or a
\* restart makes a delta come again, an old one never overwrites a newer one
\* (apply_replica_delta).
NewestWins == trimmed = 0 => document = Max(seen \cup {0})

\* In the same circumstances no delta is missing below one that was
\* applied: a follower that is promoted publishes everything its predecessor
\* may not have, and in order (replay_raft_nats_outbox_once).
NoGap == trimmed = 0 => seen = 1..Max(seen \cup {0})

\* Every committed delta reaches the other partition's node in the end, unless
\* the stream drops a message.
AllArrive == \A d \in Delta : committed >= d ~> d \in seen \/ trimmed # 0

----------------------------------------------------------------------------
(* What comments and documents of the code say and the model refutes; the  *)
(* README tells how.                                                       *)

\* A consumer that would miss a message stops (retention_gap).
NoSilentGap == seen = 1..Max(seen \cup {0})
=============================================================================
