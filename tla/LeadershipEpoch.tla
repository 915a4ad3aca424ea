-------------------------- MODULE LeadershipEpoch ---------------------------
(***************************************************************************)
(* The tokens under which the schedulers and crons of the coordinator run  *)
(* (raft_partition.rs). The Raft loop stores what it knows of leadership   *)
(* in several atomics, one store at a time; a worker loads them one at a   *)
(* time to take a token and, at each boundary of its work, to check it.    *)
(* The cluster genesis gate only opens and is taken to be open.            *)
(***************************************************************************)
EXTENDS Integers, Sequences

CONSTANTS
  MaxReigns,  \* bound on the terms this node leads
  MaxChecks   \* bound on the checks of a token

ASSUME LeadershipEpochAssumption == {MaxReigns, MaxChecks} \subseteq Nat

VARIABLES
  shared,   \* is_leader, leader_ready, the lease valid or not, leader_term
  stores,   \* the stores the current callback has still to make
  raftTerm, \* history: the term this node leads, 0 when it does not
  worker,   \* what the worker has loaded and is about to load
  epoch,    \* the token it holds, 0 for none
  served,   \* history: the terms in which the node could serve at some
            \* moment since the worker's check began
  checks

epochVars == <<shared, stores, raftTerm, worker, epoch, served, checks>>

Loop == <<shared, stores, raftTerm>>

Assignment == ({"leader", "ready", "lease"} \X BOOLEAN) \cup ({"term"} \X (1..MaxReigns))
Resting == [at |-> "rest", before |-> 0, trusted |-> 0]

EpochInit ==
  /\ shared = [leader |-> FALSE, ready |-> FALSE, lease |-> FALSE, term |-> 0]
  /\ stores = <<>> /\ raftTerm = 0
  /\ worker = Resting /\ epoch = 0 /\ served = {} /\ checks = 0

\* can_serve_as_leader, at one moment, for the term the loop leads in
CanServe(s) == s.leader /\ s.ready /\ s.lease

Noticed(s) == IF CanServe(s) /\ worker.at # "rest" THEN served \cup {s.term} ELSE served

----------------------------------------------------------------------------
(* The callbacks of the Raft loop. *)

Call(seq) == stores = <<>> /\ stores' = seq

OnBecameLeaderStores(t) ==
  <<<<"ready", FALSE>>, <<"lease", FALSE>>, <<"term", t>>, <<"leader", TRUE>>>>

OnBecameLeader ==
  /\ raftTerm = 0 /\ shared.term < MaxReigns
  /\ raftTerm' = shared.term + 1
  /\ Call(OnBecameLeaderStores(shared.term + 1))
  /\ UNCHANGED <<shared, worker, epoch, served, checks>>

OnLeaderReady ==
  /\ raftTerm # 0 /\ ~shared.ready
  /\ Call(<<<<"ready", TRUE>>>>)
  /\ UNCHANGED <<shared, raftTerm, worker, epoch, served, checks>>

\* A round of the loop proves a new end of the lease.
OnLeaderServingLeaseRefreshed ==
  /\ raftTerm # 0 /\ shared.ready /\ ~shared.lease
  /\ Call(<<<<"lease", TRUE>>>>)
  /\ UNCHANGED <<shared, raftTerm, worker, epoch, served, checks>>

OnLostLeadership ==
  /\ raftTerm # 0 /\ raftTerm' = 0
  /\ Call(<<<<"leader", FALSE>>, <<"ready", FALSE>>, <<"lease", FALSE>>>>)
  /\ UNCHANGED <<shared, worker, epoch, served, checks>>

Store ==
  LET s == Head(stores)
      new == [shared EXCEPT ![s[1]] = s[2]]
  IN /\ stores # <<>>
     /\ shared' = new /\ stores' = Tail(stores)
     /\ served' = Noticed(new)
     /\ UNCHANGED <<raftTerm, worker, epoch, checks>>

\* The end of the lease passes.
Expire ==
  /\ shared.lease /\ shared' = [shared EXCEPT !.lease = FALSE]
  /\ UNCHANGED <<stores, raftTerm, worker, epoch, served, checks>>

----------------------------------------------------------------------------
(* The worker. *)

\* The first load: the term before.
Begin ==
  /\ worker.at = "rest" /\ checks < MaxChecks /\ checks' = checks + 1
  /\ worker' = [at |-> "leader1", before |-> shared.term, trusted |-> 0]
  /\ served' = IF CanServe(shared) THEN {shared.term} ELSE {}
  /\ UNCHANGED <<Loop, epoch>>

Fails ==
  /\ worker' = Resting /\ epoch' = 0
  /\ UNCHANGED <<Loop, served, checks>>

Moves(to) ==
  /\ worker' = [worker EXCEPT !.at = to]
  /\ UNCHANGED <<Loop, epoch, served, checks>>

Load(at, to, value) ==
  /\ worker.at = at
  /\ IF value THEN Moves(to) ELSE Fails

\* No token for term 0, none for another term than the one it holds.
LoadLeader ==
  Load("leader1", "leader2",
       /\ worker.before # 0 /\ epoch \in {0, worker.before}
       /\ shared.leader)

LoadLeaderAgain == Load("leader2", "ready", shared.leader)
LoadReady == Load("ready", "lease", shared.ready)
LoadLease == Load("lease", "term", shared.lease)

\* Mutant: the term is loaded only once.
TrustFirstTerm ==
  /\ worker.at = "term"
  /\ worker' = [Resting EXCEPT !.trusted = worker.before]
  /\ epoch' = worker.before
  /\ UNCHANGED <<Loop, served, checks>>

\* current_leadership_epoch and is_current_leadership_epoch end alike: the
\* term must be what it was.
LoadTermAgain ==
  /\ worker.at = "term"
  /\ IF shared.term = worker.before
     THEN /\ worker' = [Resting EXCEPT !.trusted = worker.before]
          /\ epoch' = worker.before
          /\ UNCHANGED <<Loop, served, checks>>
     ELSE Fails

EpochNext ==
  \/ OnBecameLeader \/ OnLeaderReady \/ OnLeaderServingLeaseRefreshed
  \/ OnLostLeadership \/ Store \/ Expire
  \/ Begin \/ LoadLeader \/ LoadLeaderAgain \/ LoadReady \/ LoadLease
  \/ LoadTermAgain

EpochSpec == EpochInit /\ [][EpochNext]_epochVars

----------------------------------------------------------------------------
(* Properties. *)

\* The type invariant; between two callbacks the term that is stored is the
\* term the node leads.
EpochTypeOK ==
  /\ shared \in [leader : BOOLEAN, ready : BOOLEAN, lease : BOOLEAN, term : 0..MaxReigns]
  /\ stores \in Seq(Assignment)
  /\ raftTerm \in 0..MaxReigns
  /\ worker.at \in {"rest", "leader1", "leader2", "ready", "lease", "term"}
  /\ {worker.before, worker.trusted, epoch} \subseteq 0..MaxReigns
  /\ raftTerm # 0 /\ stores = <<>> => raftTerm = shared.term

\* A check that succeeds for a term succeeds because the node could serve in
\* that very term at some moment of the check: no mixture of loads from two
\* leaderships, or from before and after a loss, lets a token through.
TokenWasGood == worker.trusted # 0 => worker.trusted \in served
=============================================================================
