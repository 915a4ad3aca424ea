---------------------------- MODULE ServingLease ----------------------------
(***************************************************************************)
(* The lease under which a leader serves reads and runs the coordinator's  *)
(* work (raft_node.rs). On a tick a ready leader may start a round: a      *)
(* ReadIndex whose heartbeats a quorum must answer. The lease the round    *)
(* earns ends a fixed time after the round was started. Followers do not   *)
(* vote before an election timeout has passed since they last heard from   *)
(* the leader (check_quorum of raft-rs), so a newer leader should come     *)
(* only after the lease has ended.                                         *)
(*                                                                         *)
(* Time is counted in ticks of 100 ms. The loop ticks at most once per     *)
(* interval and may be late; a tick may follow a heartbeat at once.        *)
(***************************************************************************)
EXTENDS Integers, FiniteSets, FiniteSetsExt

CONSTANTS
  Node,
  ElectionTick, HeartbeatTick,  \* of RaftNodeConfig
  MaxTime,      \* bound on time
  MaxTerm,      \* bound on terms
  MaxRestarts,  \* bound on restarts
  Downtime      \* the least time between a crash and the restart

\* RawNode::new refuses an election timeout that is no longer than the
\* heartbeat interval.
ASSUME ServingLeaseAssumption ==
  /\ IsFiniteSet(Node)
  /\ {ElectionTick, HeartbeatTick} \subseteq Nat \ {0}
  /\ HeartbeatTick < ElectionTick
  /\ {MaxTime, MaxTerm, MaxRestarts, Downtime} \subseteq Nat

VARIABLES
  now,
  raft,     \* [Node -> term, leads, knows: it knows a leader, elapsed: ticks
            \*          since it heard from it, ticked: it ticked in this interval,
            \*          down: how long it stays down]
  app,      \* [Node -> is_leader_flag, is_leader_ready_flag, the pending
            \*          round, the published end of the lease]
  restarts

vars == <<now, raft, app, restarts>>

Quorum == {Q \in SUBSET Node : 2 * Cardinality(Q) > Cardinality(Node)}
NoRound == [term |-> 0, until |-> 0, acks |-> {}]
Idle == [isLeader |-> FALSE, ready |-> FALSE, round |-> NoRound, until |-> 0]

\* leader_serving_lease_duration
LeaseDuration == Max({1, Min({2 * HeartbeatTick, ElectionTick - 1})})

Init ==
  /\ now = 0
  /\ raft = [n \in Node |-> [term |-> 0, leads |-> FALSE, knows |-> FALSE,
                             elapsed |-> 0, ticked |-> FALSE,
                             down |-> 0]]
  /\ app = [n \in Node |-> Idle]
  /\ restarts = 0

Pass ==
  /\ now < MaxTime /\ now' = now + 1
  /\ raft' = [n \in Node |-> [raft[n] EXCEPT !.ticked = FALSE,
                                              !.down = Max({0, @ - 1})]]
  /\ UNCHANGED <<app, restarts>>

----------------------------------------------------------------------------
(* The rounds. *)

NewRound(n) ==
  [term |-> raft[n].term, until |-> now + LeaseDuration, acks |-> {n}]

\* maybe_start_leader_serving_lease_round: one round at a time, and none
\* while the lease is not near its end.
StartRound(n, a) ==
  IF /\ raft[n].leads /\ a.isLeader /\ a.ready
     /\ a.round.term # raft[n].term
     /\ a.until <= now + HeartbeatTick
  THEN [a EXCEPT !.round = NewRound(n)]
  ELSE a

\* A follower counts the ticks since it heard from its leader; a leader's
\* tick may start a round.
Tick(n) ==
  /\ raft[n].down = 0 /\ ~raft[n].ticked
  /\ raft' = [raft EXCEPT ![n] = [@ EXCEPT !.ticked = TRUE,
                !.elapsed = IF raft[n].leads THEN 0
                            ELSE Min({ElectionTick, raft[n].elapsed + 1})]]
  /\ app' = [app EXCEPT ![n] = StartRound(n, @)]
  /\ UNCHANGED <<now, restarts>>

Hears(f, t) ==
  [raft EXCEPT ![f] = [@ EXCEPT !.term = t, !.leads = FALSE,
                                !.knows = TRUE, !.elapsed = 0]]

\* An append or a heartbeat reaches f. When a round is pending its context
\* comes with it and f's answer counts for it.
Contact(n, f) ==
  /\ f # n /\ raft[f].down = 0 /\ raft[n].leads /\ app[n].isLeader
  /\ raft[f].term <= raft[n].term
  /\ raft' = Hears(f, raft[n].term)
  /\ app' = IF app[n].round = NoRound THEN app
            ELSE [app EXCEPT ![n].round.acks = @ \cup {f}]
  /\ UNCHANGED <<now, restarts>>

\* Mutant: an answer is taken although the round's lease has ended, and the
\* lease is counted from now.
ConfirmLate(n) ==
  /\ app[n].round.acks \in Quorum
  /\ app' = [app EXCEPT ![n] = [@ EXCEPT !.round = NoRound,
               !.until = IF raft[n].leads /\ raft[n].term = app[n].round.term
                         THEN now + LeaseDuration ELSE app[n].until]]
  /\ UNCHANGED <<now, raft, restarts>>

\* process_leader_serving_lease_read_states: the answers of a quorum are
\* handled, at once or later.
Confirm(n) ==
  LET round == app[n].round
      good == /\ raft[n].leads /\ app[n].isLeader /\ app[n].ready
              /\ raft[n].term = round.term
              /\ now < round.until
              /\ round.until > app[n].until
  IN /\ round.acks \in Quorum
     /\ app' = [app EXCEPT ![n] = [@ EXCEPT !.round = NoRound,
                  !.until = IF good THEN round.until ELSE app[n].until]]
     /\ UNCHANGED <<now, raft, restarts>>

----------------------------------------------------------------------------
(* Leadership. *)

\* A candidate and its voters have not heard from a leader for an election
\* timeout, or know none. Votes leave in a Ready, after the leadership of
\* the voter, if it had one, was revoked.
Elect(n, Q) ==
  LET t == 1 + Max({raft[m].term : m \in Q})
  IN /\ n \in Q /\ t <= MaxTerm /\ raft[n].elapsed >= ElectionTick
     /\ \A m \in Q : /\ raft[m].down = 0
                     /\ ~raft[m].leads /\ ~app[m].isLeader
                     /\ raft[m].knows => raft[m].elapsed >= ElectionTick
     /\ raft' = [m \in Node |->
                  IF m \notin Q THEN raft[m]
                  ELSE [raft[m] EXCEPT !.term = t, !.leads = (m = n),
                                       !.knows = (m = n), !.elapsed = 0]]
     /\ UNCHANGED <<now, app, restarts>>

\* check_quorum: a leader that hears from no quorum gives up.
StepDown(n) ==
  /\ raft[n].leads /\ app[n].isLeader
  /\ raft' = [raft EXCEPT ![n] = [@ EXCEPT !.leads = FALSE, !.knows = FALSE,
                                           !.elapsed = 0]]
  /\ UNCHANGED <<now, app, restarts>>

\* The part of a Ready that notices a change of leadership.
HandleReady(n) ==
  /\ raft[n].leads # app[n].isLeader
  /\ app' = [app EXCEPT ![n] = [Idle EXCEPT !.isLeader = raft[n].leads]]
  /\ UNCHANGED <<now, raft, restarts>>

\* maybe_mark_leader_ready: the first entry of the term is committed, so a
\* quorum is in the term, and applied.
MarkReady(n) ==
  /\ raft[n].leads /\ app[n].isLeader /\ ~app[n].ready
  /\ \E Q \in Quorum : n \in Q /\ \A m \in Q : raft[m].term = raft[n].term
  /\ app' = [app EXCEPT ![n] = StartRound(n, [@ EXCEPT !.ready = TRUE])]
  /\ UNCHANGED <<now, raft, restarts>>

\* A node crashes and comes back; it knows its term and no leader.
Restart(n) ==
  /\ restarts < MaxRestarts /\ restarts' = restarts + 1
  /\ raft' = [raft EXCEPT ![n] = [@ EXCEPT !.leads = FALSE, !.knows = FALSE,
                                           !.elapsed = 0, !.down = Downtime]]
  /\ app' = [app EXCEPT ![n] = Idle]
  /\ UNCHANGED now

Next ==
  \/ Pass
  \/ \E n \in Node :
       \/ Tick(n) \/ Confirm(n) \/ StepDown(n)
       \/ HandleReady(n) \/ MarkReady(n) \/ Restart(n)
       \/ \E f \in Node : Contact(n, f)
       \/ \E Q \in Quorum : Elect(n, Q)

Spec == Init /\ [][Next]_vars

----------------------------------------------------------------------------
(* Properties. *)

\* has_leader_serving_lease
Serves(n) == app[n].isLeader /\ app[n].ready /\ app[n].until > now

\* The type invariant; no published lease outlasts a round begun now.
TypeOK ==
  /\ now \in 0..MaxTime
  /\ raft \in [Node -> [term : 0..MaxTerm, leads : BOOLEAN, knows : BOOLEAN,
                        elapsed : 0..ElectionTick, ticked : BOOLEAN,
                        down : 0..Downtime]]
  /\ app \in [Node -> [isLeader : BOOLEAN, ready : BOOLEAN,
                       round : [term : 0..MaxTerm, until : Nat, acks : SUBSET Node],
                       until : Nat]]
  /\ \A n \in Node : app[n].until <= now + LeaseDuration

\* While a node holds a serving lease no other node leads in a newer term,
\* so what it serves is not behind a write it has not seen, however late
\* its loop, the answers and the ticks of the others are.
NewestServes ==
  \A n \in Node :
    Serves(n) => \A m \in Node : raft[m].leads => raft[m].term <= raft[n].term
=============================================================================
