------------------------------ MODULE RaftNode ------------------------------
(***************************************************************************)
(* The loop that drives raft-rs for one partition (raft_node.rs): it takes *)
(* messages and proposals from a mailbox, handles a Ready, hands committed *)
(* entries to the state machine one at a time, answers the proposals that  *)
(* wait for their entry and tells the application when it leads and when   *)
(* its state has caught up.                                                *)
(*                                                                         *)
(* raft-rs is external: an election and a commit are single steps. Two     *)
(* facts about it matter and are kept: what a node answers leaves it only  *)
(* in a Ready, and a new leader sends each peer one append and nothing     *)
(* more until that peer has answered. Snapshots and configuration changes  *)
(* are left out: nothing outside the tests compacts the log or proposes a  *)
(* change.                                                                 *)
(***************************************************************************)
EXTENDS Integers, Sequences, FiniteSets, SequencesExt, FiniteSetsExt

CONSTANTS
  Node,        \* the voters of the partition
  Proposal,    \* what the committers propose
  NoOp,        \* the entry a new leader appends
  Stall,       \* a node may take messages of several terms in one drain
  MaxTerm,     \* bound on terms
  MaxCrashes   \* bound on crashes

ASSUME RaftNodeAssumption ==
  /\ IsFiniteSet(Node)
  /\ NoOp \notin Proposal
  /\ Stall \in BOOLEAN
  /\ MaxTerm \in Nat \ {0} /\ MaxCrashes \in Nat

VARIABLES
  raft,     \* [Node -> the RawNode: term, leader or not, log, committed,
            \*          spoke: the last term in which it handled a Ready]
  app,      \* [Node -> is_leader_flag, is_leader_ready_flag, the readiness
            \*          barrier, pending_proposals, the last committed entry
            \*          taken and scheduled, the entry being applied]
  disk,     \* [Node -> durable_applied_index and the state machine]
  hello,    \* [term -> the append its leader sends first]
  answer,   \* [Proposal -> what its proposer was told]
  chosen,   \* history: the committed log
  crashes

vars == <<raft, app, disk, hello, answer, chosen, crashes>>

Term == 1..MaxTerm
Quorum == {Q \in SUBSET Node : 2 * Cardinality(Q) > Cardinality(Node)}
NoBarrier == [term |-> 0, index |-> 0]
NoJob == [kind |-> "none", index |-> 0, data |-> NoOp]
Idle == [isLeader |-> FALSE, ready |-> FALSE, barrier |-> NoBarrier,
         pending |-> {}, taken |-> 0, scheduled |-> 0, job |-> NoJob,
         written |-> FALSE]
NoHello == [sent |-> FALSE, log |-> <<>>, commit |-> 0]

Init ==
  /\ raft = [n \in Node |-> [term |-> 0, leads |-> FALSE, log |-> <<>>,
                             commit |-> 0, spoke |-> 0]]
  /\ app = [n \in Node |-> Idle]
  /\ disk = [n \in Node |-> [applied |-> 0, data |-> <<>>]]
  /\ hello = [t \in Term |-> NoHello]
  /\ answer = [p \in Proposal |-> "unasked"]
  /\ chosen = <<>>
  /\ crashes = 0

----------------------------------------------------------------------------
(* raft-rs, as the loop uses it. *)

\* Nothing of what the node has received waits for a Ready.
Settled(n) ==
  /\ raft[n].leads = app[n].isLeader
  /\ raft[n].spoke = raft[n].term
  /\ raft[n].commit = app[n].taken

LastTerm(log) == IF log = <<>> THEN 0 ELSE Last(log).term

UpToDate(a, b) ==
  \/ LastTerm(a) > LastTerm(b)
  \/ LastTerm(a) = LastTerm(b) /\ Len(a) >= Len(b)

\* The requests for votes and the votes themselves leave in a Ready, so the
\* candidate and its voters have handled what came before.
Elect(n, Q) ==
  LET t == 1 + Max({raft[m].term : m \in Q})
  IN /\ n \in Q /\ t <= MaxTerm
     /\ \A m \in Q : /\ Settled(m) /\ ~app[m].isLeader
                     /\ UpToDate(raft[n].log, raft[m].log)
     /\ raft' = [m \in Node |->
                  IF m \notin Q THEN raft[m]
                  ELSE [raft[m] EXCEPT
                          !.term = t, !.spoke = t, !.leads = (m = n),
                          !.log = IF m = n THEN Append(@, [term |-> t, data |-> NoOp])
                                  ELSE @]]
     /\ UNCHANGED <<app, disk, hello, answer, chosen, crashes>>

\* A node whose loop does not stall handles a Ready between two terms.
MayTake(n, t) ==
  /\ t \in Term /\ hello[t].sent /\ raft[n].term <= t
  /\ raft[n].term < t => (Stall \/ Settled(n))

Heard(r, t) == [r EXCEPT !.term = t, !.leads = FALSE]

\* A heartbeat of a leader that has not heard from this node.
TakeHeartbeat(n, t) ==
  /\ MayTake(n, t) /\ raft[n].term < t
  /\ raft' = [raft EXCEPT ![n] = Heard(@, t)]
  /\ UNCHANGED <<app, disk, hello, answer, chosen, crashes>>

\* The first append of a leader: its last entry after the one before it.
TakeAppend(n, t) ==
  LET h == hello[t]
      prev == Len(h.log) - 1
      matches == /\ Len(raft[n].log) >= prev
                 /\ prev > 0 => raft[n].log[prev] = h.log[prev]
      log == IF Len(raft[n].log) > prev /\ raft[n].log[prev + 1] = h.log[prev + 1]
             THEN raft[n].log ELSE h.log
  IN /\ MayTake(n, t) /\ (raft[n].leads => raft[n].term < t)
     /\ matches
     /\ raft' = [raft EXCEPT ![n] = [Heard(@, t) EXCEPT
                   !.log = log,
                   !.commit = Max({raft[n].commit, Min({h.commit, Len(log)})})]]
     /\ raft' # raft
     /\ UNCHANGED <<app, disk, hello, answer, chosen, crashes>>

\* Later appends and heartbeats of a leader to a node that has answered it.
Replicate(l, n) ==
  /\ l # n /\ raft[l].leads /\ app[l].isLeader
  /\ raft[n].term = raft[l].term /\ raft[n].spoke = raft[n].term
  /\ raft' = [raft EXCEPT ![n] = [@ EXCEPT
                   !.log = raft[l].log,
                   !.commit = Max({raft[n].commit, raft[l].commit})]]
  /\ raft' # raft
  /\ UNCHANGED <<app, disk, hello, answer, chosen, crashes>>

\* What a quorum has answered is committed, when its last entry is of the
\* leader's term.
Agreed(l, Q) ==
  {k \in 1..Len(raft[l].log) :
     \A m \in Q : /\ raft[m].term = raft[l].term
                  /\ raft[m].spoke = raft[m].term
                  /\ Len(raft[m].log) >= k
                  /\ raft[m].log[k] = raft[l].log[k]}

AdvanceCommit(l, Q) ==
  /\ raft[l].leads /\ app[l].isLeader /\ l \in Q
  /\ LET k == Max({raft[l].commit} \cup Agreed(l, Q))
     IN /\ k > raft[l].commit /\ raft[l].log[k].term = raft[l].term
        /\ raft' = [raft EXCEPT ![l] = [@ EXCEPT !.commit = k]]
        /\ chosen' = IF k > Len(chosen) THEN SubSeq(raft[l].log, 1, k) ELSE chosen
  /\ UNCHANGED <<app, disk, hello, answer, crashes>>

\* check_quorum: a leader that does not hear from a quorum gives up.
StepDown(n) ==
  /\ raft[n].leads /\ app[n].isLeader
  /\ raft' = [raft EXCEPT ![n] = [@ EXCEPT !.leads = FALSE]]
  /\ UNCHANGED <<app, disk, hello, answer, chosen, crashes>>

----------------------------------------------------------------------------
(* The loop. *)

\* Mutant: the barrier is reached when it commits, applied or not.
ReadyWhenCommitted(n, a, applied) ==
  IF /\ a.isLeader /\ ~a.ready /\ a.barrier # NoBarrier
     /\ raft[n].term = a.barrier.term
     /\ raft[n].commit >= a.barrier.index
  THEN [a EXCEPT !.ready = TRUE, !.barrier = NoBarrier]
  ELSE a

MaybeMarkLeaderReady(n, a, applied) ==
  IF /\ a.isLeader /\ ~a.ready /\ a.barrier # NoBarrier
     /\ raft[n].term = a.barrier.term
     /\ raft[n].commit >= a.barrier.index
     /\ applied >= a.barrier.index
  THEN [a EXCEPT !.ready = TRUE, !.barrier = NoBarrier]
  ELSE a

BecomeLeader(n, a) ==
  [a EXCEPT !.isLeader = TRUE, !.ready = FALSE,
            !.barrier = [term |-> raft[n].term, index |-> Len(raft[n].log)]]

\* Mutant: every waiter is kept when leadership is lost.
KeepEveryWaiter(n) == app[n].pending

\* What the waiters are kept for, and what the others are told.
KeptWaiters(n) == {w \in app[n].pending : /\ w.index > disk[n].applied
                                          /\ w.index <= raft[n].commit}

Revoke(n, a) ==
  [a EXCEPT !.isLeader = FALSE, !.ready = FALSE, !.barrier = NoBarrier,
            !.pending = KeptWaiters(n)]

\* Mutant: a waiter that is dropped is told nothing.
ReleasedSilently(n, p) == FALSE

Released(n, p) == \E w \in app[n].pending \ KeptWaiters(n) : w.data = p

\* Mutant: a waiter whose entry is not yet committed is told that it is.
TellAllCommitted(n, p) == "committed"

Verdict(n, p) ==
  IF \E w \in app[n].pending : w.data = p /\ w.index <= disk[n].applied
  THEN "committed" ELSE "rejected"

\* One Ready: the change of SoftState, the messages, the committed entries
\* put aside for the state machine.
HandleReady(n) ==
  LET gains == raft[n].leads /\ ~app[n].isLeader
      loses == ~raft[n].leads /\ app[n].isLeader
      a == IF gains THEN BecomeLeader(n, app[n])
           ELSE IF loses THEN Revoke(n, app[n]) ELSE app[n]
      b == [a EXCEPT !.taken = raft[n].commit]
  IN /\ ~Settled(n)
     /\ app' = [app EXCEPT ![n] = MaybeMarkLeaderReady(n, b, disk[n].applied)]
     /\ raft' = [raft EXCEPT ![n] = [@ EXCEPT !.spoke = raft[n].term]]
     /\ hello' = IF gains
                 THEN [hello EXCEPT ![raft[n].term] =
                         [sent |-> TRUE, log |-> raft[n].log,
                          commit |-> raft[n].commit]]
                 ELSE hello
     /\ answer' = IF loses
                  THEN [p \in Proposal |-> IF Released(n, p) THEN Verdict(n, p)
                                           ELSE answer[p]]
                  ELSE answer
     /\ UNCHANGED <<disk, chosen, crashes>>

\* A proposal is taken by a ready leader and refused by any other node.
Propose(n, p) ==
  /\ answer[p] = "unasked"
  /\ LET index == Len(raft[n].log) + 1
     IN IF raft[n].leads /\ app[n].ready
        THEN /\ raft' = [raft EXCEPT ![n] = [@ EXCEPT
                           !.log = Append(raft[n].log,
                                          [term |-> raft[n].term, data |-> p])]]
             /\ app' = [app EXCEPT ![n] = [@ EXCEPT
                          !.pending = app[n].pending \cup
                                        {[index |-> index, data |-> p]}]]
             /\ answer' = [answer EXCEPT ![p] = "waiting"]
        ELSE /\ answer' = [answer EXCEPT ![p] = "rejected"]
             /\ UNCHANGED <<raft, app>>
  /\ UNCHANGED <<disk, hello, chosen, crashes>>

\* schedule_next_committed_entry: an empty entry only advances the applied
\* index; one whose proposer waits here is left to the proposer; any other
\* goes to the worker.
Schedule(n) ==
  LET i == app[n].scheduled + 1
      entry == raft[n].log[i]
      mine == {w \in app[n].pending : w.index = i}
      a == [app[n] EXCEPT !.scheduled = i]
  IN /\ app[n].job = NoJob /\ i <= app[n].taken
     /\ IF entry.data = NoOp
        THEN /\ disk' = [disk EXCEPT ![n] = [@ EXCEPT !.applied = i]]
             /\ app' = [app EXCEPT ![n] = MaybeMarkLeaderReady(n, a, i)]
             /\ UNCHANGED answer
        ELSE /\ \E w \in (IF mine = {} THEN {[index |-> i, data |-> entry.data]}
                          ELSE mine) :
                  app' = [app EXCEPT ![n] = [a EXCEPT
                            !.pending = @ \ mine,
                            !.job = [kind |-> IF mine = {} THEN "worker" ELSE "local",
                                     index |-> i, data |-> w.data]]]
             /\ answer' = [p \in Proposal |->
                             IF \E w \in mine : w.data = p THEN "committed"
                             ELSE answer[p]]
             /\ UNCHANGED disk
     /\ UNCHANGED <<raft, hello, chosen, crashes>>

\* Mutant: the worker applies an entry again after a restart.
WriteAgain(n) ==
  /\ app[n].job # NoJob /\ ~app[n].written
  /\ app' = [app EXCEPT ![n] = [@ EXCEPT !.written = TRUE]]
  /\ disk' = [disk EXCEPT ![n] = [@ EXCEPT !.data = Append(@, app[n].job.data)]]
  /\ UNCHANGED <<raft, hello, answer, chosen, crashes>>

\* The committer writes the entry's delta and its apply marker together; a
\* delta whose marker is there is not applied again.
Write(n) ==
  LET data == disk[n].data
      job == app[n].job
  IN
  /\ job # NoJob /\ ~app[n].written
  /\ app' = [app EXCEPT ![n] = [@ EXCEPT !.written = TRUE]]
  /\ disk' = [disk EXCEPT ![n] = [@ EXCEPT
                !.data = IF job.kind = "worker" /\ Contains(data, job.data)
                         THEN data ELSE Append(data, job.data)]]
  /\ UNCHANGED <<raft, hello, answer, chosen, crashes>>

\* The committer publishes in the order in which writes were queued, so what
\* the worker queues waits for every proposal that waits for Raft. Then the
\* entry is marked applied.
Finish(n) ==
  /\ app[n].written
  /\ app[n].job.kind = "worker" => app[n].pending = {}
  /\ disk' = [disk EXCEPT ![n] = [@ EXCEPT !.applied = app[n].job.index]]
  /\ app' = [app EXCEPT ![n] = MaybeMarkLeaderReady(n,
               [@ EXCEPT !.job = NoJob, !.written = FALSE], app[n].job.index)]
  /\ UNCHANGED <<raft, hello, answer, chosen, crashes>>

\* A crash loses the waiters; the log, the applied index and the state
\* machine survive.
Crash(n) ==
  /\ crashes < MaxCrashes /\ crashes' = crashes + 1
  /\ raft' = [raft EXCEPT ![n] = [@ EXCEPT !.leads = FALSE]]
  /\ app' = [app EXCEPT ![n] = [Idle EXCEPT !.taken = disk[n].applied,
                                            !.scheduled = disk[n].applied]]
  /\ answer' = [p \in Proposal |-> IF \E w \in app[n].pending : w.data = p
                                   THEN "lost" ELSE answer[p]]
  /\ UNCHANGED <<disk, hello, chosen>>

Next ==
  \E n \in Node :
    \/ \E Q \in Quorum : Elect(n, Q) \/ AdvanceCommit(n, Q)
    \/ \E t \in Term : TakeHeartbeat(n, t) \/ TakeAppend(n, t)
    \/ \E m \in Node : Replicate(n, m)
    \/ \E p \in Proposal : Propose(n, p)
    \/ StepDown(n) \/ HandleReady(n) \/ Schedule(n)
    \/ Write(n) \/ Finish(n) \/ Crash(n)

Spec == Init /\ [][Next]_vars

----------------------------------------------------------------------------
(* Properties. *)

Entry == [term : Term, data : Proposal \cup {NoOp}]
Waiter == [index : Nat \ {0}, data : Proposal]

\* The type invariant; the indices of a node are ordered: what is applied was
\* scheduled, what is scheduled was taken from a Ready, what is taken is
\* committed.
TypeOK ==
  /\ raft \in [Node -> [term : 0..MaxTerm, leads : BOOLEAN, log : Seq(Entry),
                        commit : Nat, spoke : 0..MaxTerm]]
  /\ \A n \in Node :
       /\ app[n].isLeader \in BOOLEAN /\ app[n].ready \in BOOLEAN
       /\ app[n].barrier \in [term : 0..MaxTerm, index : Nat]
       /\ app[n].pending \subseteq Waiter
       /\ app[n].job \in [kind : {"none", "worker", "local"}, index : Nat,
                          data : Proposal \cup {NoOp}]
       /\ disk[n].applied <= app[n].scheduled
       /\ app[n].scheduled <= app[n].taken
       /\ app[n].taken <= raft[n].commit
       /\ raft[n].commit <= Len(raft[n].log)
  /\ disk \in [Node -> [applied : Nat, data : Seq(Proposal)]]
  /\ answer \in [Proposal -> {"unasked", "waiting", "committed", "rejected", "lost"}]

\* What a state machine holds after the first e committed entries: the data of
\* those that are not empty, each once and in the order of the log.
Carries(data, e) ==
  \E at \in [1..Len(data) -> 1..e] :
    /\ \A j, k \in 1..Len(data) : j < k => at[j] < at[k]
    /\ \A i \in 1..e : chosen[i].data # NoOp => \E k \in 1..Len(data) : at[k] = i
    /\ \A k \in 1..Len(data) : /\ chosen[at[k]].data # NoOp
                               /\ data[k] = chosen[at[k]].data

\* A proposer is told that its proposal is committed only when the proposal
\* is in the committed log, so a client is never acknowledged a write that a
\* later leader has replaced (classify_committed_entry,
\* revoke_application_leadership).
HonestAnswer ==
  \A p \in Proposal :
    answer[p] = "committed" => \E i \in 1..Len(chosen) : chosen[i].data = p

\* Every node's state machine holds a prefix of the committed log, without gap,
\* repetition or reordering, whichever of the two paths applied an entry and
\* whenever the node crashed.
SameStateMachine ==
  \A n \in Node : \E e \in 0..Len(chosen) : Carries(disk[n].data, e)

\* A node that takes proposals as a leader has applied everything committed
\* before its term, so it never serves a state older than its predecessor's
\* (maybe_mark_leader_ready).
ReadyIsCurrent ==
  \A n \in Node :
    raft[n].leads /\ app[n].ready =>
      \A i \in 1..Len(chosen) :
        chosen[i].term < raft[n].term => i <= disk[n].applied

\* Outside a drain of its mailbox, a node keeps a waiter only for an entry that
\* is the waiter's own and that it may still commit as the leader or has
\* committed already, so no waiter waits for ever or is answered for an entry
\* of somebody else (revoke_application_leadership).
WaitersOwnTheirEntry ==
  \A n \in Node :
    Settled(n) => \A w \in app[n].pending :
                    /\ w.index <= Len(raft[n].log)
                    /\ raft[n].log[w.index].data = w.data
                    /\ app[n].isLeader \/ w.index <= raft[n].commit

\* Nobody waits for an answer that no node has kept a waiter for: whichever of
\* losing leadership, applying and crashing takes a waiter away answers it.
NobodyForgotten ==
  \A p \in Proposal : answer[p] = "waiting" =>
    \E n \in Node : \E w \in app[n].pending : w.data = p
=============================================================================
