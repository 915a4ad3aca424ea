------------------------------ MODULE TwoPhase ------------------------------
(***************************************************************************)
(* Two-phase commit across partitions: the coordinator                     *)
(* (two_phase_coordinator.rs), the decision records in NATS KV             *)
(* (two_phase.rs), the participant side of the committer of each partition *)
(* (committer.rs), which runs on every replica of the partition's Raft     *)
(* group, and the transaction watcher that every replica runs              *)
(* (two_phase_watcher.rs).                                                 *)
(*                                                                         *)
(* A partition's Raft group is its committed log, an applied index per     *)
(* replica and the replica that is the READY leader, if there is one.  A   *)
(* transaction here is one attempt of coordinate_two_phase_commit: every   *)
(* retry draws a fresh id, so attempts share nothing.                      *)
(***************************************************************************)
EXTENDS Integers, Sequences, FiniteSets

CONSTANTS
  Txn,            \* transaction ids, one per prepare attempt
  Part,           \* partitions
  Rep,            \* replicas of each partition's Raft group
  NoLeader,       \* "no ready leader"
  Participants,   \* [Txn -> SUBSET Part]: the partitions written (stateful)
  ValidatesReads, \* subset of Txn: reads of partitions it does not write
  TS,             \* [Txn -> Nat]: the timestamp the oracle gave the attempt
  EarlyAck,       \* subset of Txn run in ParallelEarlyAck mode
  Deliveries,     \* prepare requests in flight per participant, at most
  MaxFailovers,   \* bound on the leadership losses of all partitions
  GraceCoversStragglers  \* see DeleteDecision

ASSUME TwoPhaseAssumption ==
  /\ NoLeader \notin Rep
  /\ Participants \in [Txn -> SUBSET Part]
  /\ ValidatesReads \subseteq Txn
  /\ TS \in [Txn -> Nat]
  /\ \A t, u \in Txn : TS[t] = TS[u] => t = u
  /\ EarlyAck \subseteq Txn
  /\ Deliveries \in Nat
  /\ MaxFailovers \in Nat
  /\ GraceCoversStragglers \in BOOLEAN

VARIABLES
  decisions,  \* [Txn -> decision record]: the NATS KV bucket
  log,        \* [Part -> Seq(entry)]: entries committed by the Raft group
  applied,    \* [Part -> [Rep -> Nat]]: entries applied by each replica
  prepared,   \* [Part -> [Rep -> SUBSET Txn]]: intents and durable redo
  leader,     \* [Part -> Rep \cup {NoLeader}]: the ready leader
  failovers,  \* leadership losses so far
  coord,      \* [Txn -> coordinator state]
  votes,      \* [Txn -> [Part -> vote]]
  inflight,   \* [Txn -> [Part -> 0..Deliveries]]: undelivered prepares
  answered,   \* [Txn -> SUBSET Part]: final calls that returned Ok
  acked,      \* transactions whose client saw success
  outcome     \* history: the first final decision ever recorded

raftVars  == <<log, applied, prepared, leader, failovers>>
coordVars == <<coord, votes, inflight, acked>>
vars == <<decisions, raftVars, coordVars, answered, outcome>>

----------------------------------------------------------------------------
(* TwoPhaseDecision: the record and its constructors. *)

Decision == [st : {"none", "staging", "committed", "rolledback"},
             participants : SUBSET Part, resolved : SUBSET Part]

NoDecision == [st |-> "none", participants |-> {}, resolved |-> {}]

NewDecision(st, parts) == [st |-> st, participants |-> parts, resolved |-> {}]

IsFinal(d) == d.st \in {"committed", "rolledback"}

Entry == [kind : {"prepare", "commit", "rollback"}, txn : Txn]

InLog(p, kind, t) ==
  \E i \in 1..Len(log[p]) : log[p][i] = [kind |-> kind, txn |-> t]

\* The log, applied to its end, leaves t prepared.
Staged(p, t) ==
  \E i \in 1..Len(log[p]) :
    /\ log[p][i] = [kind |-> "prepare", txn |-> t]
    /\ \A j \in (i + 1)..Len(log[p]) : log[p][j].txn # t

\* Replica r holds t's intent and no entry it has yet to apply removes it.
Holds(p, r, t) ==
  /\ t \in prepared[p][r]
  /\ \A i \in (applied[p][r] + 1)..Len(log[p]) : log[p][i].txn # t

\* explicit_prepare_commit_floor: the proposed timestamp lies above everything
\* this partition has committed.
AboveFloor(p, t) ==
  \A u \in Txn : InLog(p, "commit", u) => TS[u] < TS[t]

\* Mutant: a commit does not wait for prepared predecessors.
IgnoresPredecessors(p, t) == TRUE

\* prepared_writes.min_ts() of the leader is not below t's timestamp.
NoPredecessor(p, t) == \A u \in prepared[p][leader[p]] : TS[u] >= TS[t]

\* The ready leader l appends an entry, applies it, and replaces its intents.
LeaderAppends(p, l, entry, intents) ==
  /\ log' = [log EXCEPT ![p] = Append(@, entry)]
  /\ applied' = [applied EXCEPT ![p][l] = Len(log[p]) + 1]
  /\ prepared' = [prepared EXCEPT ![p][l] = intents]

LeaderLost(p) ==
  /\ failovers < MaxFailovers
  /\ leader' = [leader EXCEPT ![p] = NoLeader]
  /\ failovers' = failovers + 1

\* The first final decision for t, kept across garbage collection.
Record(t, st) ==
  outcome' = [outcome EXCEPT ![t] = IF @ = "pending" THEN st ELSE @]

CoordState == {"idle", "preparing", "staged", "committing", "cleanup",
               "rollingback", "done"}
VoteState == {"none", "yes", "no", "lost"}
Outcome == {"pending", "committed", "rolledback"}

TypeOK ==
  /\ decisions \in [Txn -> Decision]
  /\ log \in [Part -> Seq(Entry)]
  /\ applied \in [Part -> [Rep -> Nat]]
  /\ prepared \in [Part -> [Rep -> SUBSET Txn]]
  /\ leader \in [Part -> Rep \cup {NoLeader}]
  /\ failovers \in 0..MaxFailovers
  /\ coord \in [Txn -> CoordState]
  /\ votes \in [Txn -> [Part -> VoteState]]
  /\ inflight \in [Txn -> [Part -> 0..Deliveries]]
  /\ answered \in [Txn -> SUBSET Part]
  /\ acked \subseteq Txn
  /\ outcome \in [Txn -> Outcome]

Init ==
  /\ decisions = [t \in Txn |-> NoDecision]
  /\ log = [p \in Part |-> << >>]
  /\ applied = [p \in Part |-> [r \in Rep |-> 0]]
  /\ prepared = [p \in Part |-> [r \in Rep |-> {}]]
  /\ leader \in [Part -> Rep]
  /\ failovers = 0
  /\ coord = [t \in Txn |-> "idle"]
  /\ votes = [t \in Txn |-> [p \in Part |-> "none"]]
  /\ inflight = [t \in Txn |-> [p \in Part |-> 0]]
  /\ answered = [t \in Txn |-> {}]
  /\ acked = {}
  /\ outcome = [t \in Txn |-> "pending"]

----------------------------------------------------------------------------
(* The participant: prepare. *)

\* The coordinator hears of a reply only while it waits for that vote.
Vote(t, p, v) ==
  \/ /\ coord[t] = "preparing" /\ votes[t][p] = "none"
     /\ votes' = [votes EXCEPT ![t][p] = v]
  \/ UNCHANGED votes

\* Mutant: a request that was never sent is delivered.
DeliverAgain(t, p) ==
  /\ leader[p] # NoLeader
  /\ inflight' = [inflight EXCEPT ![t][p] = @ - 1]

Deliver(t, p) ==
  /\ inflight[t][p] > 0
  /\ leader[p] # NoLeader
  /\ inflight' = [inflight EXCEPT ![t][p] = @ - 1]

\* handle_prepare_remote on the ready leader, accepted: the intent is staged
\* (or found staged already: the request is a retry), the redo record is
\* persisted and the prepare entry reaches the Raft quorum.
PrepareAccepted(t, p) ==
  LET l == leader[p] IN
  /\ Deliver(t, p)
  /\ t \in prepared[p][l] \/ AboveFloor(p, t)
  /\ LeaderAppends(p, l, [kind |-> "prepare", txn |-> t],
                   prepared[p][l] \cup {t})
  /\ Vote(t, p, "yes")
  /\ UNCHANGED <<decisions, leader, failovers, coord, acked, answered, outcome>>

\* PrepareTimestampTooLow, an OCC conflict with the write log or another
\* intent, an ownership or read-frontier error, or a replica that is not the
\* ready leader: nothing is staged, and a retry's intent stays.
PrepareRefused(t, p) ==
  /\ inflight[t][p] > 0
  /\ inflight' = [inflight EXCEPT ![t][p] = @ - 1]
  /\ Vote(t, p, "no")
  /\ UNCHANGED <<decisions, raftVars, coord, acked, answered, outcome>>

\* Leadership is revoked while the committer waits for the quorum: the waiter
\* is Rejected, the leader drops its intent and its redo record, and the entry
\* may still be committed by the next leader.  A direct caller sees a definite
\* failure, a caller that was forwarded sees "Leader Prepare failed".
PrepareInterrupted(t, p) ==
  LET l == leader[p] IN
  /\ Deliver(t, p)
  /\ t \in prepared[p][l] \/ AboveFloor(p, t)
  /\ LeaderLost(p)
  /\ prepared' = [prepared EXCEPT ![p][l] = @ \ {t}]
  /\ \/ log' = [log EXCEPT ![p] = Append(@, [kind |-> "prepare", txn |-> t])]
     \/ UNCHANGED log
  /\ Vote(t, p, "no") \/ Vote(t, p, "lost")
  /\ UNCHANGED <<decisions, applied, coord, acked, answered, outcome>>

\* The leader stops between persist_two_phase_redo and the Raft proposal: the
\* restarted replica stages the intent again from its redo record.
PrepareCrash(t, p) ==
  LET l == leader[p] IN
  /\ Deliver(t, p)
  /\ AboveFloor(p, t)
  /\ LeaderLost(p)
  /\ prepared' = [prepared EXCEPT ![p][l] = @ \cup {t}]
  /\ Vote(t, p, "lost")
  /\ UNCHANGED <<decisions, log, applied, coord, acked, answered, outcome>>

(* The participant: commit and roll back. *)

\* start_commit_prepared .. publish_prepared_commit on the ready leader.
CommitPrepared(t, p) ==
  LET l == leader[p] IN
  /\ l # NoLeader
  /\ t \in prepared[p][l]
  /\ NoPredecessor(p, t)
  /\ LeaderAppends(p, l, [kind |-> "commit", txn |-> t], prepared[p][l] \ {t})
  /\ answered' = [answered EXCEPT ![t] = @ \cup {p}]
  /\ UNCHANGED <<leader, failovers>>

\* The commit proposal is Rejected because leadership was revoked: the intent
\* stays prepared, and the next leader may still commit the entry.
CommitInterrupted(t, p) ==
  LET l == leader[p] IN
  /\ l # NoLeader
  /\ t \in prepared[p][l]
  /\ NoPredecessor(p, t)
  /\ LeaderLost(p)
  /\ \/ log' = [log EXCEPT ![p] = Append(@, [kind |-> "commit", txn |-> t])]
     \/ UNCHANGED log
  /\ UNCHANGED <<applied, prepared, answered>>

\* start_rollback_prepared_through_raft.  The marker is appended whether or not
\* the leader holds the intent; one that no replica's state machine would
\* notice is left out of the log, which keeps the log bounded.
RollbackPrepared(t, p) ==
  LET l == leader[p] IN
  /\ l # NoLeader
  /\ IF Staged(p, t) \/ \E r \in Rep : Holds(p, r, t)
       THEN LeaderAppends(p, l, [kind |-> "rollback", txn |-> t],
                          prepared[p][l] \ {t})
       ELSE UNCHANGED <<log, applied, prepared>>
  /\ answered' = [answered EXCEPT ![t] = @ \cup {p}]
  /\ UNCHANGED <<leader, failovers>>

----------------------------------------------------------------------------
(* The coordinator. *)

Start(t) ==
  /\ coord[t] = "idle"
  /\ coord' = [coord EXCEPT ![t] = "preparing"]
  /\ inflight' = [inflight EXCEPT ![t] =
       [p \in Part |-> IF p \in Participants[t] THEN Deliveries ELSE 0]]
  /\ UNCHANGED <<decisions, raftVars, votes, acked, answered, outcome>>

\* Every address failed with a transport error, a timeout or "unavailable".
VoteLost(t, p) ==
  /\ coord[t] = "preparing"
  /\ p \in Participants[t]
  /\ votes[t][p] = "none"
  /\ votes' = [votes EXCEPT ![t][p] = "lost"]
  /\ UNCHANGED <<decisions, raftVars, coord, inflight, acked, answered, outcome>>

\* prepare_participants waits for every participant.
AllVoted(t) == \A p \in Participants[t] : votes[t][p] # "none"

AllYes(t) == \A p \in Participants[t] : votes[t][p] = "yes"

\* has_ambiguous_prepare widens the rollback to every stateful participant.
ToRollBack(t) ==
  IF \E p \in Participants[t] : votes[t][p] = "lost"
    THEN Participants[t]
    ELSE {p \in Participants[t] : votes[t][p] = "yes"}

\* Mutant: the coordinator goes on although the record is another writer's.
WriteDecisionRegardless(t, st, parts, next) ==
  /\ coord' = [coord EXCEPT ![t] = next]
  /\ IF decisions[t].st = "none"
       THEN /\ decisions' = [decisions EXCEPT ![t] = NewDecision(st, parts)]
            /\ answered' = [answered EXCEPT ![t] = {}]
            /\ IF st = "staging" THEN UNCHANGED outcome ELSE Record(t, st)
       ELSE UNCHANGED <<decisions, answered, outcome>>

\* write_decision_record: create if absent; a record that is already there is
\* another writer's, and the coordinator returns an error.
WriteDecision(t, st, parts, next) ==
  IF decisions[t].st = "none"
    THEN /\ decisions' = [decisions EXCEPT ![t] = NewDecision(st, parts)]
         /\ answered' = [answered EXCEPT ![t] = {}]
         /\ coord' = [coord EXCEPT ![t] = next]
         /\ IF st = "staging" THEN UNCHANGED outcome ELSE Record(t, st)
    ELSE /\ coord' = [coord EXCEPT ![t] = "done"]
         /\ UNCHANGED <<decisions, answered, outcome>>

\* Some participant failed; or all staged, but validate_remote_reads failed on
\* a partition that is only read and keeps no state for the transaction.
DecideRollback(t) ==
  /\ coord[t] = "preparing"
  /\ AllVoted(t)
  /\ ~AllYes(t) \/ t \in ValidatesReads
  /\ IF ToRollBack(t) = {}
       THEN /\ coord' = [coord EXCEPT ![t] = "done"]
            /\ UNCHANGED <<decisions, answered, outcome>>
       ELSE WriteDecision(t, "rolledback", ToRollBack(t), "rollingback")
  /\ UNCHANGED <<raftVars, votes, inflight, acked>>

\* Mutant: the coordinator commits once everybody has answered.
DecideCommitOnAnyVotes(t) ==
  /\ coord[t] = "preparing"
  /\ AllVoted(t)
  /\ WriteDecision(t, "committed", Participants[t], "committing")
  /\ UNCHANGED <<raftVars, votes, inflight, acked>>

DecideCommit(t) ==
  /\ coord[t] = "preparing"
  /\ AllYes(t)
  /\ IF t \in EarlyAck
       THEN WriteDecision(t, "staging", Participants[t], "staged")
       ELSE WriteDecision(t, "committed", Participants[t], "committing")
  /\ UNCHANGED <<raftVars, votes, inflight, acked>>

\* recover_staging_decision: every listed participant is staged, so the record
\* becomes the commit decision.  Called by the coordinator and by watchers.
RecoverStaging(t) ==
  /\ decisions[t].st = "staging"
  /\ decisions' = [decisions EXCEPT ![t] =
                     NewDecision("committed", decisions[t].participants)]
  /\ Record(t, "committed")

\* Mutant: the client is answered on the staging record alone.
EarlyAcknowledgeUndecided(t) ==
  /\ coord[t] = "staged"
  /\ coord' = [coord EXCEPT ![t] = "cleanup"]
  /\ acked' = acked \cup {t}
  /\ UNCHANGED <<decisions, outcome, raftVars, votes, inflight, answered>>

\* recover_complete_staging_decision, verify_committed_decision, the answer to
\* the client and the spawned clean-up.
EarlyAcknowledge(t) ==
  /\ coord[t] = "staged"
  /\ \/ RecoverStaging(t)
     \/ decisions[t].st = "committed" /\ UNCHANGED <<decisions, outcome>>
  /\ coord' = [coord EXCEPT ![t] = "cleanup"]
  /\ acked' = acked \cup {t}
  /\ UNCHANGED <<raftVars, votes, inflight, answered>>

\* commit_participants: one CommitPrepared call.
CoordinatorCommit(t, p) ==
  /\ coord[t] \in {"committing", "cleanup"}
  /\ p \in Participants[t]
  /\ CommitPrepared(t, p)
  /\ UNCHANGED <<decisions, coordVars, outcome>>

\* rollback_prepared_participants: one RollbackPrepared call.
CoordinatorRollback(t, p) ==
  /\ coord[t] = "rollingback"
  /\ p \in ToRollBack(t)
  /\ RollbackPrepared(t, p)
  /\ UNCHANGED <<decisions, coordVars, outcome>>

\* mark_participant_resolved by the coordinator, after the call returned Ok.
Mark(t, p) == decisions' = [decisions EXCEPT ![t].resolved = @ \cup {p}]

CoordinatorMark(t, p) ==
  /\ coord[t] \in {"committing", "cleanup", "rollingback"}
  /\ p \in answered[t] \ decisions[t].resolved
  /\ IsFinal(decisions[t]) /\ p \in decisions[t].participants
  /\ Mark(t, p)
  /\ UNCHANGED <<raftVars, coordVars, answered, outcome>>

\* Mutant: the client is answered once one participant has committed.
FinishCommitAfterOne(t) ==
  /\ coord[t] = "committing"
  /\ answered[t] # {}
  /\ coord' = [coord EXCEPT ![t] = "done"]
  /\ acked' = acked \cup {t}
  /\ UNCHANGED <<decisions, raftVars, votes, inflight, answered, outcome>>

\* Every participant answered with the coordinator's timestamp and was marked.
FinishCommit(t) ==
  /\ coord[t] = "committing"
  /\ Participants[t] \subseteq answered[t]
  /\ \A p \in Participants[t] :
       decisions[t].st # "none" => p \in decisions[t].resolved
  /\ coord' = [coord EXCEPT ![t] = "done"]
  /\ acked' = acked \cup {t}
  /\ UNCHANGED <<decisions, raftVars, votes, inflight, answered, outcome>>

\* The coordinator's node stops, or a commit, rollback or mark call fails and
\* the function returns: what is left is the watchers' work.
CoordinatorStops(t) ==
  /\ coord[t] \notin {"idle", "done"}
  /\ coord' = [coord EXCEPT ![t] = "done"]
  /\ UNCHANGED <<decisions, raftVars, votes, inflight, acked, answered, outcome>>

----------------------------------------------------------------------------
(* The watcher of a replica: it scans the decision records of transactions *)
(* that list its partition, and its own expired redo records.              *)

WatcherRecover(t) ==
  /\ RecoverStaging(t)
  /\ UNCHANGED <<raftVars, coordVars, answered>>

\* Mutant: a watcher skips the partitions that are marked resolved.
WatcherCommitUnresolved(t, p) ==
  /\ decisions[t].st = "committed"
  /\ p \in decisions[t].participants \ decisions[t].resolved
  /\ CommitPrepared(t, p)
  /\ UNCHANGED <<decisions, coordVars, outcome>>

WatcherCommit(t, p) ==
  /\ decisions[t].st = "committed"
  /\ p \in decisions[t].participants
  /\ CommitPrepared(t, p)
  /\ UNCHANGED <<decisions, coordVars, outcome>>

\* Either requester's commit proposal meets the loss of leadership.
CommitLost(t, p) ==
  /\ \/ decisions[t].st = "committed" /\ p \in decisions[t].participants
     \/ coord[t] \in {"committing", "cleanup"} /\ p \in Participants[t]
  /\ CommitInterrupted(t, p)
  /\ UNCHANGED <<decisions, coordVars, outcome>>

WatcherRollback(t, p) ==
  /\ decisions[t].st = "rolledback"
  /\ p \in decisions[t].participants
  /\ RollbackPrepared(t, p)
  /\ UNCHANGED <<decisions, coordVars, outcome>>

\* resolve_decision_for_local_partition marks the partition after Ok, and, for
\* a commit decision, after "unknown transaction" on ANY replica r: leadership
\* is not looked at before that answer.
WatcherMark(t, p, r) ==
  /\ IsFinal(decisions[t])
  /\ p \in decisions[t].participants \ decisions[t].resolved
  /\ \/ p \in answered[t]
     \/ decisions[t].st = "committed" /\ t \notin prepared[p][r]
  /\ Mark(t, p)
  /\ UNCHANGED <<raftVars, coordVars, answered, outcome>>

\* Mutant: the timeout's rollback decision overwrites the record.
ExpirePrepareOverwrites(t, p, r) ==
  /\ t \in prepared[p][r]
  /\ decisions' = [decisions EXCEPT ![t] =
                     NewDecision("rolledback", Participants[t])]
  /\ answered' = [answered EXCEPT ![t] = {}]
  /\ Record(t, "rolledback")
  /\ UNCHANGED <<raftVars, coordVars>>

\* Mutant: only the ready leader looks at its expired redo records.
ExpirePrepareLeaderOnly(t, p, r) ==
  /\ r = leader[p]
  /\ t \in prepared[p][r]
  /\ decisions[t].st = "none"
  /\ decisions' = [decisions EXCEPT ![t] =
                     NewDecision("rolledback", Participants[t])]
  /\ answered' = [answered EXCEPT ![t] = {}]
  /\ Record(t, "rolledback")
  /\ UNCHANGED <<raftVars, coordVars>>

\* rollback_expired_local_prepares: the redo record of replica r is older than
\* PREPARE_TIMEOUT_SECS and nobody has decided.
ExpirePrepare(t, p, r) ==
  /\ t \in prepared[p][r]
  /\ decisions[t].st = "none"
  /\ decisions' = [decisions EXCEPT ![t] =
                     NewDecision("rolledback", Participants[t])]
  /\ answered' = [answered EXCEPT ![t] = {}]
  /\ Record(t, "rolledback")
  /\ UNCHANGED <<raftVars, coordVars>>

\* RESOLVED_DECISION_GC_GRACE is there "for follower recovery": 60 seconds
\* after the last mark the coordinator has returned and, after a commit, every
\* replica of every participant has applied it.  The code only waits; whether
\* the wait is long enough is the constant GraceCoversStragglers.
CaughtUp(t) ==
  /\ coord[t] = "done"
  /\ decisions[t].st = "committed" =>
       \A p \in decisions[t].participants : \A r \in Rep :
         \E i \in 1..applied[p][r] :
           log[p][i] = [kind |-> "commit", txn |-> t]

DeleteDecision(t) ==
  /\ IsFinal(decisions[t])
  /\ decisions[t].participants \subseteq decisions[t].resolved
  /\ GraceCoversStragglers => CaughtUp(t)
  /\ decisions' = [decisions EXCEPT ![t] = NoDecision]
  /\ UNCHANGED <<raftVars, coordVars, answered, outcome>>

----------------------------------------------------------------------------
(* The Raft group. *)

\* Replica r applies its next committed entry (handle_raft_prepared_redo,
\* handle_raft_rollback, apply of a commit entry).
Apply(p, r) ==
  LET e == log[p][applied[p][r] + 1] IN
  /\ applied[p][r] < Len(log[p])
  /\ applied' = [applied EXCEPT ![p][r] = @ + 1]
  /\ prepared' = [prepared EXCEPT ![p][r] =
                    IF e.kind = "prepare" THEN @ \cup {e.txn} ELSE @ \ {e.txn}]
  /\ UNCHANGED <<decisions, log, leader, failovers, coordVars, answered, outcome>>

\* Revoked leadership, or the leader's node stops; redo survives a restart.
LoseLeadership(p) ==
  /\ leader[p] # NoLeader
  /\ LeaderLost(p)
  /\ UNCHANGED <<decisions, log, applied, prepared, coordVars, answered, outcome>>

\* on_leader_ready: the new leader has applied through its own term's barrier.
BecomeReady(p, r) ==
  /\ leader[p] = NoLeader
  /\ applied[p][r] = Len(log[p])
  /\ leader' = [leader EXCEPT ![p] = r]
  /\ UNCHANGED <<decisions, log, applied, prepared, failovers, coordVars, answered, outcome>>

----------------------------------------------------------------------------
CoordinatorNext(t) ==
  \/ Start(t) \/ DecideRollback(t) \/ DecideCommit(t) \/ EarlyAcknowledge(t)
  \/ FinishCommit(t) \/ CoordinatorStops(t)
  \/ \E p \in Part : \/ VoteLost(t, p) \/ CoordinatorCommit(t, p)
                     \/ CoordinatorRollback(t, p) \/ CoordinatorMark(t, p)

ParticipantNext(t, p) ==
  \/ PrepareAccepted(t, p) \/ PrepareRefused(t, p)
  \/ PrepareInterrupted(t, p) \/ PrepareCrash(t, p) \/ CommitLost(t, p)

WatcherNext(t) ==
  \/ WatcherRecover(t) \/ DeleteDecision(t)
  \/ \E p \in Part : \/ WatcherCommit(t, p) \/ WatcherRollback(t, p)
                     \/ \E r \in Rep : WatcherMark(t, p, r) \/ ExpirePrepare(t, p, r)

RaftNext(p) ==
  \/ LoseLeadership(p)
  \/ \E r \in Rep : Apply(p, r) \/ BecomeReady(p, r)

Next ==
  \/ \E t \in Txn : \/ CoordinatorNext(t) \/ WatcherNext(t)
                    \/ \E p \in Part : ParticipantNext(t, p)
  \/ \E p \in Part : RaftNext(p)

Spec == Init /\ [][Next]_vars
----------------------------------------------------------------------------
(* Fairness.  Every replica's watcher loop runs forever (every 10 seconds),  *)
(* the Raft group elects and applies as long as it has a quorum, and a       *)
(* coordinator's call returns because each of its RPCs has a deadline.       *)

Fairness ==
  /\ \A p \in Part : /\ WF_vars(\E r \in Rep : BecomeReady(p, r))
                      /\ \A r \in Rep : WF_vars(Apply(p, r))
  /\ \A t \in Txn :
       /\ WF_vars(CoordinatorStops(t))
       /\ WF_vars(WatcherRecover(t))
       /\ WF_vars(DeleteDecision(t))
       /\ \A p \in Part :
            /\ WF_vars(WatcherCommit(t, p))
            /\ WF_vars(WatcherRollback(t, p))
            /\ WF_vars(\E r \in Rep : WatcherMark(t, p, r))
            /\ \A r \in Rep : WF_vars(ExpirePrepare(t, p, r))

FairSpec == Spec /\ Fairness

----------------------------------------------------------------------------
(* Properties. *)

\* No transaction is committed by one participant and rolled back by another,
\* whatever the coordinator, the watchers of all replicas, late prepares and
\* failovers do (start_commit_prepared, start_rollback_prepared_through_raft).
Atomicity ==
  \A t \in Txn : \A p, q \in Part :
    ~(InLog(p, "commit", t) /\ InLog(q, "rollback", t))

\* A decision record never contradicts the first final decision taken for its
\* transaction, also when the record was deleted after the grace period and a
\* straggler's timeout creates it anew (write_decision_if_absent succeeds
\* over a deleted key).
DecisionAgreement ==
  \A t \in Txn : IsFinal(decisions[t]) => decisions[t].st = outcome[t]

\* Once the decision is commit, every partition written holds the transaction
\* in its Raft log, committed or still prepared: a timeout, a late prepare or
\* a new leader has not taken an intent away from under the decision.
CommitIsBacked ==
  \A t \in Txn : outcome[t] = "committed" =>
    \A p \in Participants[t] : InLog(p, "commit", t) \/ Staged(p, t)

\* A client that saw success has its writes: all of them published when the
\* coordinator waits for the participants, all of them at least prepared in
\* the Raft logs when it answers early.
AckedIsDurable ==
  \A t \in acked : \A p \in Participants[t] :
    InLog(p, "commit", t) \/ (t \in EarlyAck /\ Staged(p, t))

\* A partition publishes in timestamp order, each transaction once: prepared
\* predecessors are waited for, and a prepare below a published timestamp is
\* refused (min_prepared_ts check, explicit_prepare_commit_floor).
CommitsInOrder ==
  \A p \in Part : \A i, j \in 1..Len(log[p]) :
    /\ i < j
    /\ log[p][i].kind = "commit"
    /\ log[p][j].kind = "commit"
    => TS[log[p][i].txn] < TS[log[p][j].txn]

\* Every intent is resolved in the end, whoever crashed (the watcher's job).
EveryIntentResolves ==
  \A t \in Txn : \A p \in Part : \A r \in Rep :
    t \in prepared[p][r] ~> t \notin prepared[p][r]

\* A commit decision is carried out by every participant in the end.
CommitReachesAll ==
  \A t \in Txn : outcome[t] = "committed" ~>
    \A p \in Participants[t] : InLog(p, "commit", t)

\* TwoPhase implements AtomicCommit: one outcome, publication only after a
\* commit outcome, success reported only for a commit.
AC == INSTANCE AtomicCommit WITH
        visible <- [t \in Txn |-> {p \in Part : InLog(p, "commit", t)}]
ImplementsAtomicCommit == AC!Spec

----------------------------------------------------------------------------
(* What comments and documents of the code say and the model refutes; the  *)
(* README tells how.                                                        *)

\* two_phase_watcher.rs: '"unknown transaction" means it was already committed
\* or this participant never prepared' -- the ground on which a watcher marks
\* its partition resolved.
UnknownMeansSettled ==
  \A t \in Txn : \A p \in decisions[t].resolved :
    decisions[t].st = "committed" => ~Staged(p, t)

\* parallel-commits-design.md: a participant's acknowledgement means "this
\* intent is durable on a Raft quorum and a future leader can recover it", and
\* staging is "idempotent when the same stage request is delivered more than
\* once": a ready leader of a partition that voted yes holds the intent.
AcknowledgedIntentIsRecoverable ==
  \A t \in Txn : \A p \in Participants[t] :
    votes[t][p] = "yes" /\ Staged(p, t) /\ leader[p] # NoLeader
      => t \in prepared[p][leader[p]]
=============================================================================
