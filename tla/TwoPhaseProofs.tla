--------------------------- MODULE TwoPhaseProofs ---------------------------
(***************************************************************************)
(* Proofs about TwoPhase for any transactions, partitions, replicas,       *)
(* deliveries and failovers.                                               *)
(***************************************************************************)
EXTENDS TwoPhaseInv, TLAPS

\* The initial state is well typed.
LEMMA InitType == Init => TypeOK
<1> SUFFICES ASSUME Init PROVE TypeOK
  OBVIOUS
<1> USE TwoPhaseAssumption DEF Init
<1>1. decisions \in [Txn -> Decision]
  BY DEF Decision, NoDecision
<1>2. log \in [Part -> Seq(Entry)]
  OBVIOUS
<1>3. /\ votes \in [Txn -> [Part -> VoteState]]
      /\ coord \in [Txn -> CoordState]
      /\ outcome \in [Txn -> Outcome]
  BY DEF VoteState, CoordState, Outcome
<1>4. /\ applied \in [Part -> [Rep -> Nat]]
      /\ prepared \in [Part -> [Rep -> SUBSET Txn]]
      /\ leader \in [Part -> Rep \cup {NoLeader}]
      /\ inflight \in [Txn -> [Part -> 0..Deliveries]]
      /\ failovers \in 0..MaxFailovers
  OBVIOUS
<1>5. QED
  BY <1>1, <1>2, <1>3, <1>4 DEF TypeOK

\* Replacing one value of a function of functions keeps its type.
LEMMA NestedType ==
  ASSUME NEW A, NEW B, NEW C, NEW f \in [A -> [B -> C]],
         NEW a \in A, NEW b \in B, NEW c \in C
  PROVE  [f EXCEPT ![a][b] = c] \in [A -> [B -> C]]
<1>1. [f[a] EXCEPT ![b] = c] \in [B -> C]
  OBVIOUS
<1>2. [f EXCEPT ![a][b] = c] = [f EXCEPT ![a] = [f[a] EXCEPT ![b] = c]]
  OBVIOUS
<1>3. QED BY <1>1, <1>2

\* A reply updates at most one vote.
LEMMA VoteType ==
  ASSUME TypeOK, NEW t \in Txn, NEW p \in Part, NEW v \in VoteState,
         Vote(t, p, v)
  PROVE  votes' \in [Txn -> [Part -> VoteState]]
<1>1. CASE UNCHANGED votes
  BY <1>1 DEF TypeOK
<1>2. CASE votes' = [votes EXCEPT ![t][p] = v]
  BY <1>2, NestedType DEF TypeOK
<1>3. QED BY <1>1, <1>2 DEF Vote

\* The names of the states and the entries are members of their types.
LEMMA Names ==
  /\ {"none", "yes", "no", "lost"} \subseteq VoteState
  /\ {"idle", "preparing", "staged", "committing", "cleanup", "rollingback",
      "done"} \subseteq CoordState
  /\ {"pending", "committed", "rolledback"} \subseteq Outcome
  /\ \A t \in Txn : /\ [kind |-> "prepare", txn |-> t] \in Entry
                     /\ [kind |-> "commit", txn |-> t] \in Entry
                     /\ [kind |-> "rollback", txn |-> t] \in Entry
BY DEF VoteState, CoordState, Outcome, Entry

\* Appending one entry to one partition's log keeps its type.
LEMMA AppendType ==
  ASSUME TypeOK, NEW p \in Part, NEW e \in Entry
  PROVE  [log EXCEPT ![p] = Append(@, e)] \in [Part -> Seq(Entry)]
<1>1. Append(log[p], e) \in Seq(Entry)
  BY DEF TypeOK
<1>2. QED BY <1>1 DEF TypeOK

\* A leader's append keeps the log, the indices and the intents well typed.
LEMMA LeaderAppendsType ==
  ASSUME TypeOK, NEW p \in Part, NEW l \in Rep, NEW e \in Entry,
         NEW intents \in SUBSET Txn, LeaderAppends(p, l, e, intents)
  PROVE  /\ log' \in [Part -> Seq(Entry)]
         /\ applied' \in [Part -> [Rep -> Nat]]
         /\ prepared' \in [Part -> [Rep -> SUBSET Txn]]
<1>1. log' \in [Part -> Seq(Entry)]
  BY AppendType DEF LeaderAppends
<1>2. Len(log[p]) + 1 \in Nat
  BY DEF TypeOK
<1>3. applied' \in [Part -> [Rep -> Nat]]
  BY <1>2, NestedType DEF LeaderAppends, TypeOK
<1>4. prepared' \in [Part -> [Rep -> SUBSET Txn]]
  BY NestedType DEF LeaderAppends, TypeOK
<1>5. QED BY <1>1, <1>3, <1>4

\* A delivered prepare is consumed.
LEMMA InflightType ==
  ASSUME TypeOK, NEW t \in Txn, NEW p \in Part, inflight[t][p] > 0,
         inflight' = [inflight EXCEPT ![t][p] = @ - 1]
  PROVE  inflight' \in [Txn -> [Part -> 0..Deliveries]]
<1>1. inflight[t][p] - 1 \in 0..Deliveries
  BY TwoPhaseAssumption DEF TypeOK
<1>2. inflight' = [inflight EXCEPT ![t][p] = inflight[t][p] - 1]
  BY DEF TypeOK
<1>3. QED BY <1>1, <1>2, NestedType DEF TypeOK

\* Losing the leader keeps the types.
LEMMA LeaderLostType ==
  ASSUME TypeOK, NEW p \in Part, LeaderLost(p)
  PROVE  /\ leader' \in [Part -> Rep \cup {NoLeader}]
         /\ failovers' \in 0..MaxFailovers
BY TwoPhaseAssumption DEF TypeOK, LeaderLost

\* Creating a record keeps the types.
LEMMA DecisionType ==
  /\ NoDecision \in Decision
  /\ \A st \in {"none", "staging", "committed", "rolledback"} :
       \A parts \in SUBSET Part : NewDecision(st, parts) \in Decision
  /\ \A d \in Decision : /\ d.participants \in SUBSET Part
                          /\ d.resolved \in SUBSET Part
                          /\ d.st \in {"none", "staging", "committed", "rolledback"}
BY DEF Decision, NoDecision, NewDecision

\* Recording the outcome keeps the types.
LEMMA RecordType ==
  ASSUME TypeOK, NEW t \in Txn, NEW st \in Outcome, Record(t, st)
  PROVE  outcome' \in [Txn -> Outcome]
BY DEF TypeOK, Record

\* Writing a decision keeps the types.
LEMMA WriteDecisionType ==
  ASSUME TypeOK, NEW t \in Txn, NEW parts \in SUBSET Part,
         NEW st \in {"staging", "committed", "rolledback"},
         NEW next \in CoordState, WriteDecision(t, st, parts, next)
  PROVE  /\ decisions' \in [Txn -> Decision]
         /\ answered' \in [Txn -> SUBSET Part]
         /\ coord' \in [Txn -> CoordState]
         /\ outcome' \in [Txn -> Outcome]
<1>1. NewDecision(st, parts) \in Decision
  BY DecisionType
<1>2. "done" \in CoordState
  BY Names
<1>3. CASE decisions[t].st = "none"
  <2>1. /\ decisions' = [decisions EXCEPT ![t] = NewDecision(st, parts)]
        /\ answered' = [answered EXCEPT ![t] = {}]
        /\ coord' = [coord EXCEPT ![t] = next]
        /\ IF st = "staging" THEN UNCHANGED outcome ELSE Record(t, st)
    BY <1>3 DEF WriteDecision
  <2>2. outcome' \in [Txn -> Outcome]
    <3>1. CASE st = "staging"
      BY <2>1, <3>1 DEF TypeOK
    <3>2. CASE st # "staging"
      <4>1. st \in Outcome
        BY <3>2 DEF Outcome
      <4>2. Record(t, st)
        BY <2>1, <3>2
      <4>3. QED BY <4>1, <4>2, RecordType
    <3>3. QED BY <3>1, <3>2
  <2>3. QED BY <2>1, <2>2, <1>1 DEF TypeOK
<1>4. CASE decisions[t].st # "none"
  BY <1>2, <1>4 DEF WriteDecision, TypeOK
<1>5. QED BY <1>3, <1>4

\* Turning the staging record into the decision keeps the types.
LEMMA RecoverStagingType ==
  ASSUME TypeOK, NEW t \in Txn, RecoverStaging(t)
  PROVE  /\ decisions' \in [Txn -> Decision]
         /\ outcome' \in [Txn -> Outcome]
<1>1. decisions[t] \in Decision
  BY DEF TypeOK
<1>2. NewDecision("committed", decisions[t].participants) \in Decision
  BY <1>1, DecisionType
<1>3. QED BY <1>2, RecordType, Names DEF RecoverStaging, TypeOK

\* Marking a participant resolved keeps the types.
LEMMA MarkType ==
  ASSUME TypeOK, NEW t \in Txn, NEW p \in Part, Mark(t, p)
  PROVE  decisions' \in [Txn -> Decision]
<1>1. decisions[t] \in Decision
  BY DEF TypeOK
<1>2. [decisions[t] EXCEPT !.resolved = @ \cup {p}] \in Decision
  BY <1>1 DEF Decision
<1>3. decisions' = [decisions EXCEPT ![t] =
                      [decisions[t] EXCEPT !.resolved = @ \cup {p}]]
  BY DEF Mark
<1>4. QED BY <1>2, <1>3 DEF TypeOK

\* CommitPrepared and RollbackPrepared keep the types.
LEMMA ResolveType ==
  ASSUME TypeOK, NEW t \in Txn, NEW p \in Part,
         CommitPrepared(t, p) \/ RollbackPrepared(t, p)
  PROVE  /\ log' \in [Part -> Seq(Entry)]
         /\ applied' \in [Part -> [Rep -> Nat]]
         /\ prepared' \in [Part -> [Rep -> SUBSET Txn]]
         /\ answered' \in [Txn -> SUBSET Part]
         /\ UNCHANGED <<leader, failovers>>
<1>1. leader[p] \in Rep
  BY DEF TypeOK, CommitPrepared, RollbackPrepared
<1>2. prepared[p][leader[p]] \ {t} \in SUBSET Txn
  BY <1>1 DEF TypeOK
<1>3. CASE CommitPrepared(t, p)
  <2>1. LeaderAppends(p, leader[p], [kind |-> "commit", txn |-> t],
                      prepared[p][leader[p]] \ {t})
    BY <1>3 DEF CommitPrepared
  <2>2. answered' \in [Txn -> SUBSET Part] /\ UNCHANGED <<leader, failovers>>
    BY <1>3 DEF CommitPrepared, TypeOK
  <2>3. QED BY <1>1, <1>2, <2>1, <2>2, Names, LeaderAppendsType
<1>4. CASE RollbackPrepared(t, p)
  <2>1. \/ LeaderAppends(p, leader[p], [kind |-> "rollback", txn |-> t],
                         prepared[p][leader[p]] \ {t})
        \/ UNCHANGED <<log, applied, prepared>>
    BY <1>4 DEF RollbackPrepared
  <2>2. answered' \in [Txn -> SUBSET Part] /\ UNCHANGED <<leader, failovers>>
    BY <1>4 DEF RollbackPrepared, TypeOK
  <2>3. CASE UNCHANGED <<log, applied, prepared>>
    BY <2>2, <2>3 DEF TypeOK
  <2>4. QED BY <1>1, <1>2, <2>1, <2>2, <2>3, Names, LeaderAppendsType
<1>5. QED BY <1>3, <1>4

\* Every step of the protocol keeps the types.
LEMMA NextType == TypeOK /\ [Next]_vars => TypeOK'
<1> SUFFICES ASSUME TypeOK, [Next]_vars PROVE TypeOK'
  OBVIOUS
<1>p. ASSUME NEW t \in Txn, NEW p \in Part, ParticipantNext(t, p)
      PROVE  TypeOK'
  <2> DEFINE l == leader[p]
  <2>l. l # NoLeader => l \in Rep /\ prepared[p][l] \in SUBSET Txn
    BY DEF TypeOK
  <2>e. [kind |-> "prepare", txn |-> t] \in Entry
    BY Names
  <2>1. CASE PrepareAccepted(t, p)
    <3>1. LeaderAppends(p, l, [kind |-> "prepare", txn |-> t],
                        prepared[p][l] \cup {t})
      BY <2>1 DEF PrepareAccepted
    <3>2. l \in Rep /\ prepared[p][l] \cup {t} \in SUBSET Txn
      BY <2>1, <2>l DEF PrepareAccepted, Deliver
    <3>3. /\ log' \in [Part -> Seq(Entry)]
          /\ applied' \in [Part -> [Rep -> Nat]]
          /\ prepared' \in [Part -> [Rep -> SUBSET Txn]]
      BY <3>1, <3>2, <2>e, LeaderAppendsType
    <3>4. inflight' \in [Txn -> [Part -> 0..Deliveries]]
      BY <2>1, InflightType DEF PrepareAccepted, Deliver
    <3>5. votes' \in [Txn -> [Part -> VoteState]]
      BY <2>1, VoteType, Names DEF PrepareAccepted
    <3>6. QED BY <2>1, <3>3, <3>4, <3>5 DEF PrepareAccepted, TypeOK
  <2>2. CASE PrepareRefused(t, p)
    <3>1. inflight' \in [Txn -> [Part -> 0..Deliveries]]
      BY <2>2, InflightType DEF PrepareRefused
    <3>2. votes' \in [Txn -> [Part -> VoteState]]
      BY <2>2, VoteType, Names DEF PrepareRefused
    <3>3. QED BY <2>2, <3>1, <3>2 DEF PrepareRefused, TypeOK, raftVars
  <2>3. CASE PrepareInterrupted(t, p)
    <3>1. l \in Rep /\ prepared[p][l] \ {t} \in SUBSET Txn
      BY <2>3, <2>l DEF PrepareInterrupted, Deliver
    <3>2. prepared' = [prepared EXCEPT ![p][l] = prepared[p][l] \ {t}]
      BY <2>3, <3>1 DEF PrepareInterrupted
    <3>3. prepared' \in [Part -> [Rep -> SUBSET Txn]]
      BY <3>1, <3>2, NestedType DEF TypeOK
    <3>4. log' \in [Part -> Seq(Entry)]
      <4>1. CASE log' = [log EXCEPT ![p] = Append(@, [kind |-> "prepare", txn |-> t])]
        BY <4>1, <2>e, AppendType
      <4>2. CASE UNCHANGED log
        BY <4>2 DEF TypeOK
      <4>3. QED BY <2>3, <4>1, <4>2 DEF PrepareInterrupted
    <3>5. inflight' \in [Txn -> [Part -> 0..Deliveries]]
      BY <2>3, InflightType DEF PrepareInterrupted, Deliver
    <3>6. votes' \in [Txn -> [Part -> VoteState]]
      BY <2>3, VoteType, Names DEF PrepareInterrupted
    <3>7. /\ leader' \in [Part -> Rep \cup {NoLeader}]
          /\ failovers' \in 0..MaxFailovers
      BY <2>3, LeaderLostType DEF PrepareInterrupted
    <3>8. QED BY <2>3, <3>3, <3>4, <3>5, <3>6, <3>7 DEF PrepareInterrupted, TypeOK
  <2>4. CASE PrepareCrash(t, p)
    <3>1. l \in Rep /\ prepared[p][l] \cup {t} \in SUBSET Txn
      BY <2>4, <2>l DEF PrepareCrash, Deliver
    <3>2. prepared' = [prepared EXCEPT ![p][l] = prepared[p][l] \cup {t}]
      BY <2>4, <3>1 DEF PrepareCrash
    <3>3. prepared' \in [Part -> [Rep -> SUBSET Txn]]
      BY <3>1, <3>2, NestedType DEF TypeOK
    <3>5. inflight' \in [Txn -> [Part -> 0..Deliveries]]
      BY <2>4, InflightType DEF PrepareCrash, Deliver
    <3>6. votes' \in [Txn -> [Part -> VoteState]]
      BY <2>4, VoteType, Names DEF PrepareCrash
    <3>7. /\ leader' \in [Part -> Rep \cup {NoLeader}]
          /\ failovers' \in 0..MaxFailovers
      BY <2>4, LeaderLostType DEF PrepareCrash
    <3>8. QED BY <2>4, <3>3, <3>5, <3>6, <3>7 DEF PrepareCrash, TypeOK
  <2>5. CASE CommitLost(t, p)
    <3>1. /\ leader' \in [Part -> Rep \cup {NoLeader}]
          /\ failovers' \in 0..MaxFailovers
      BY <2>5, LeaderLostType DEF CommitLost, CommitInterrupted
    <3>2. log' \in [Part -> Seq(Entry)]
      <4>1. CASE log' = [log EXCEPT ![p] = Append(@, [kind |-> "commit", txn |-> t])]
        BY <4>1, Names, AppendType
      <4>2. CASE UNCHANGED log
        BY <4>2 DEF TypeOK
      <4>3. QED BY <2>5, <4>1, <4>2 DEF CommitLost, CommitInterrupted
    <3>3. QED BY <2>5, <3>1, <3>2 DEF CommitLost, CommitInterrupted, TypeOK, coordVars
  <2>6. QED BY <1>p, <2>1, <2>2, <2>3, <2>4, <2>5 DEF ParticipantNext
<1>r. ASSUME NEW p \in Part, RaftNext(p)
      PROVE  TypeOK'
  <2>1. CASE LoseLeadership(p)
    BY <2>1, LeaderLostType DEF LoseLeadership, TypeOK, coordVars
  <2>2. ASSUME NEW r \in Rep, Apply(p, r) PROVE TypeOK'
    <3>1. log[p][applied[p][r] + 1] \in Entry
      BY <2>2 DEF Apply, TypeOK
    <3>2. log[p][applied[p][r] + 1].txn \in Txn
      BY <3>1 DEF Entry
    <3>3. QED BY <2>2, <3>2 DEF Apply, TypeOK, coordVars
  <2>3. ASSUME NEW r \in Rep, BecomeReady(p, r) PROVE TypeOK'
    BY <2>3 DEF BecomeReady, TypeOK, coordVars
  <2>4. QED BY <1>r, <2>1, <2>2, <2>3 DEF RaftNext
<1>c. ASSUME NEW t \in Txn, CoordinatorNext(t)
      PROVE  TypeOK'
  <2> USE DEF raftVars, coordVars
  <2>0. Participants[t] \in SUBSET Part
    BY TwoPhaseAssumption
  <2>1. CASE Start(t)
    BY <2>1, Names, TwoPhaseAssumption DEF Start, TypeOK
  <2>2. CASE DecideRollback(t)
    <3>1. ToRollBack(t) \in SUBSET Part
      BY <2>0 DEF ToRollBack
    <3>2. CASE ToRollBack(t) = {}
      BY <2>2, <3>2, Names DEF DecideRollback, TypeOK
    <3>3. CASE ToRollBack(t) # {}
      <4>1. WriteDecision(t, "rolledback", ToRollBack(t), "rollingback")
        BY <2>2, <3>3 DEF DecideRollback
      <4>2. /\ decisions' \in [Txn -> Decision]
            /\ answered' \in [Txn -> SUBSET Part]
            /\ coord' \in [Txn -> CoordState]
            /\ outcome' \in [Txn -> Outcome]
        BY <3>1, <4>1, Names, WriteDecisionType
      <4>3. QED BY <2>2, <4>2 DEF DecideRollback, TypeOK
    <3>4. QED BY <3>2, <3>3
  <2>3. CASE DecideCommit(t)
    <3>1. \/ WriteDecision(t, "staging", Participants[t], "staged")
          \/ WriteDecision(t, "committed", Participants[t], "committing")
      BY <2>3 DEF DecideCommit
    <3>2. /\ decisions' \in [Txn -> Decision]
          /\ answered' \in [Txn -> SUBSET Part]
          /\ coord' \in [Txn -> CoordState]
          /\ outcome' \in [Txn -> Outcome]
      BY <2>0, <3>1, Names, WriteDecisionType
    <3>3. QED BY <2>3, <3>2 DEF DecideCommit, TypeOK
  <2>4. CASE EarlyAcknowledge(t)
    <3>1. /\ decisions' \in [Txn -> Decision]
          /\ outcome' \in [Txn -> Outcome]
      <4>1. CASE RecoverStaging(t)
        BY <4>1, RecoverStagingType
      <4>2. CASE UNCHANGED <<decisions, outcome>>
        BY <4>2 DEF TypeOK
      <4>3. QED BY <2>4, <4>1, <4>2 DEF EarlyAcknowledge
    <3>2. QED BY <2>4, <3>1, Names DEF EarlyAcknowledge, TypeOK
  <2>5. CASE FinishCommit(t)
    BY <2>5, Names DEF FinishCommit, TypeOK
  <2>6. CASE CoordinatorStops(t)
    BY <2>6, Names DEF CoordinatorStops, TypeOK
  <2>7. ASSUME NEW p \in Part, VoteLost(t, p) PROVE TypeOK'
    <3>1. votes' \in [Txn -> [Part -> VoteState]]
      BY <2>7, Names, NestedType DEF VoteLost, TypeOK
    <3>2. QED BY <2>7, <3>1 DEF VoteLost, TypeOK
  <2>8. ASSUME NEW p \in Part,
               CoordinatorCommit(t, p) \/ CoordinatorRollback(t, p)
        PROVE  TypeOK'
    <3>1. CommitPrepared(t, p) \/ RollbackPrepared(t, p)
      BY <2>8 DEF CoordinatorCommit, CoordinatorRollback
    <3>2. UNCHANGED <<decisions, coordVars, outcome>>
      BY <2>8 DEF CoordinatorCommit, CoordinatorRollback
    <3>3. QED BY <3>1, <3>2, ResolveType DEF TypeOK
  <2>10. ASSUME NEW p \in Part, CoordinatorMark(t, p) PROVE TypeOK'
    BY <2>10, MarkType DEF CoordinatorMark, TypeOK
  <2>11. QED
    BY <1>c, <2>1, <2>2, <2>3, <2>4, <2>5, <2>6, <2>7, <2>8, <2>10
       DEF CoordinatorNext
<1>w. ASSUME NEW t \in Txn, WatcherNext(t)
      PROVE  TypeOK'
  <2> USE DEF raftVars, coordVars
  <2>1. CASE WatcherRecover(t)
    BY <2>1, RecoverStagingType DEF WatcherRecover, TypeOK
  <2>2. CASE DeleteDecision(t)
    BY <2>2, DecisionType DEF DeleteDecision, TypeOK
  <2>3. ASSUME NEW p \in Part, WatcherCommit(t, p) \/ WatcherRollback(t, p)
        PROVE  TypeOK'
    <3>1. CommitPrepared(t, p) \/ RollbackPrepared(t, p)
      BY <2>3 DEF WatcherCommit, WatcherRollback
    <3>2. UNCHANGED <<decisions, coordVars, outcome>>
      BY <2>3 DEF WatcherCommit, WatcherRollback
    <3>3. QED BY <3>1, <3>2, ResolveType DEF TypeOK
  <2>5. ASSUME NEW p \in Part, NEW r \in Rep, WatcherMark(t, p, r)
        PROVE  TypeOK'
    BY <2>5, MarkType DEF WatcherMark, TypeOK
  <2>6. ASSUME NEW p \in Part, NEW r \in Rep, ExpirePrepare(t, p, r)
        PROVE  TypeOK'
    <3>1. Participants[t] \in SUBSET Part
      BY TwoPhaseAssumption
    <3>2. NewDecision("rolledback", Participants[t]) \in Decision
      BY <3>1, DecisionType
    <3>3. decisions' \in [Txn -> Decision]
      BY <2>6, <3>2 DEF ExpirePrepare, TypeOK
    <3>4. outcome' \in [Txn -> Outcome]
      BY <2>6, RecordType, Names DEF ExpirePrepare
    <3>5. QED BY <2>6, <3>3, <3>4 DEF ExpirePrepare, TypeOK
  <2>7. QED BY <1>w, <2>1, <2>2, <2>3, <2>5, <2>6 DEF WatcherNext
<1>s. CASE UNCHANGED vars
  BY <1>s DEF vars, raftVars, coordVars, TypeOK
<1>q. QED BY <1>p, <1>r, <1>c, <1>w, <1>s DEF Next

\* Every reachable state is well typed, for any transactions, partitions,
\* replicas, deliveries and failovers.
THEOREM TypeCorrect == Spec => []TypeOK
<1>1. QED BY InitType, NextType, PTL DEF Spec

----------------------------------------------------------------------------
(* Log growth.  One entry e is appended to the log of p; the leader l of p *)
(* may apply it in the same step.                                          *)

Grows(p, l, e) ==
  /\ log' = [log EXCEPT ![p] = Append(@, e)]
  /\ applied' \in {applied, [applied EXCEPT ![p][l] = Len(log[p]) + 1]}

\* Appending leaves the old entries where they are.
LEMMA AppendFacts ==
  ASSUME TypeOK, NEW p \in Part, NEW e \in Entry,
         log' = [log EXCEPT ![p] = Append(@, e)]
  PROVE  /\ Len(log[p]) \in Nat
         /\ Len(log'[p]) = Len(log[p]) + 1
         /\ \A i \in 1..Len(log[p]) : log'[p][i] = log[p][i]
         /\ log'[p][Len(log[p]) + 1] = e
         /\ \A q \in Part : q # p => log'[q] = log[q]
<1>1. log[p] \in Seq(Entry)
  BY DEF TypeOK
<1>2. log'[p] = Append(log[p], e)
  BY DEF TypeOK
<1>3. \A q \in Part : q # p => log'[q] = log[q]
  BY DEF TypeOK
<1>4. QED BY <1>1, <1>2, <1>3

\* Exactly the appended entry is new in the log.
LEMMA InLogAppend ==
  ASSUME TypeOK, NEW p \in Part, NEW e \in Entry,
         log' = [log EXCEPT ![p] = Append(@, e)]
  PROVE  \A q \in Part : \A k, u : InLog(q, k, u)' <=>
           InLog(q, k, u) \/ (q = p /\ e = [kind |-> k, txn |-> u])
<1>1. SUFFICES ASSUME NEW q \in Part, NEW k, NEW u
               PROVE  InLog(q, k, u)' <=>
                        InLog(q, k, u) \/ (q = p /\ e = [kind |-> k, txn |-> u])
  OBVIOUS
<1>2. CASE q # p
  BY <1>2, AppendFacts DEF InLog
<1>3. CASE q = p
  <2> DEFINE n == Len(log[p])
  <2>1. /\ n \in Nat /\ Len(log'[p]) = n + 1 /\ log'[p][n + 1] = e
        /\ \A i \in 1..n : log'[p][i] = log[p][i]
    BY AppendFacts
  <2>2. 1..(n + 1) = (1..n) \cup {n + 1}
    BY <2>1
  <2>3. QED BY <1>3, <2>1, <2>2 DEF InLog
<1>4. QED BY <1>2, <1>3

\* An entry of another transaction leaves t staged, t's own prepare stages it.
LEMMA StagedAppend ==
  ASSUME TypeOK, NEW p \in Part, NEW e \in Entry,
         log' = [log EXCEPT ![p] = Append(@, e)],
         NEW q \in Part, NEW u
  PROVE  /\ Staged(q, u) /\ (q # p \/ e.txn # u) => Staged(q, u)'
         /\ e = [kind |-> "prepare", txn |-> u] => Staged(p, u)'
<1> DEFINE n == Len(log[p])
<1>0. /\ n \in Nat /\ Len(log'[p]) = n + 1 /\ log'[p][n + 1] = e
      /\ \A i \in 1..n : log'[p][i] = log[p][i]
  BY AppendFacts
<1>1. ASSUME Staged(q, u), q # p PROVE Staged(q, u)'
  BY <1>1, AppendFacts DEF Staged
<1>2. ASSUME Staged(q, u), q = p, e.txn # u PROVE Staged(q, u)'
  <2>1. PICK i \in 1..n : /\ log[p][i] = [kind |-> "prepare", txn |-> u]
                          /\ \A j \in (i + 1)..n : log[p][j].txn # u
    BY <1>2 DEF Staged
  <2>2. \A j \in (i + 1)..(n + 1) : j \in (i + 1)..n \/ j = n + 1
    BY <1>0
  <2>2a. \A j \in (i + 1)..n : j \in 1..n
    BY <1>0
  <2>3. \A j \in (i + 1)..(n + 1) : log'[p][j].txn # u
    BY <1>0, <1>2, <2>1, <2>2, <2>2a
  <2>4. i \in 1..Len(log'[p]) /\ log'[p][i] = [kind |-> "prepare", txn |-> u]
    BY <1>0, <2>1
  <2>5. QED BY <1>0, <1>2, <2>3, <2>4 DEF Staged
<1>3. ASSUME e = [kind |-> "prepare", txn |-> u] PROVE Staged(p, u)'
  <2>1. \A j \in (n + 2)..(n + 1) : FALSE
    BY <1>0
  <2>2. n + 1 \in 1..Len(log'[p]) /\ (n + 1) + 1 = n + 2
    BY <1>0
  <2>3. QED BY <1>0, <1>3, <2>1, <2>2 DEF Staged
<1>4. QED BY <1>1, <1>2, <1>3

\* Growth keeps what was applied, and only l applies the new entry.
LEMMA AppliedCommitGrows ==
  ASSUME TypeOK, AppliedPrefix, NEW p \in Part, NEW l \in Rep,
         applied[p][l] = Len(log[p]), NEW e \in Entry, Grows(p, l, e),
         NEW q \in Part, NEW r \in Rep, NEW u
  PROVE  /\ AppliedCommit(q, r, u) => AppliedCommit(q, r, u)'
         /\ AppliedCommit(q, r, u)' =>
              \/ AppliedCommit(q, r, u)
              \/ /\ q = p /\ r = l /\ applied' # applied
                 /\ e = [kind |-> "commit", txn |-> u]
<1> DEFINE n == Len(log[p])
<1>0. /\ n \in Nat /\ Len(log'[p]) = n + 1 /\ log'[p][n + 1] = e
      /\ \A i \in 1..n : log'[p][i] = log[p][i]
      /\ \A x \in Part : x # p => log'[x] = log[x]
  BY AppendFacts DEF Grows
<1>1. /\ applied[q][r] \in Nat /\ applied[q][r] <= Len(log[q])
      /\ Len(log[q]) \in Nat
  BY DEF TypeOK, AppliedPrefix
<1>2. \A i \in 1..applied[q][r] : log'[q][i] = log[q][i]
  <2>1. \A i \in 1..applied[q][r] : i \in 1..Len(log[q])
    BY <1>1
  <2>2. QED BY <1>0, <2>1
<1>3. CASE applied'[q][r] = applied[q][r]
  BY <1>2, <1>3 DEF AppliedCommit
<1>4. CASE applied'[q][r] # applied[q][r]
  <2>1. q = p /\ r = l /\ applied' # applied /\ applied'[q][r] = n + 1
    <3>1. applied' = [applied EXCEPT ![p][l] = n + 1]
      BY <1>4 DEF Grows
    <3>2. applied' = [applied EXCEPT ![p] = [applied[p] EXCEPT ![l] = n + 1]]
      BY <3>1
    <3>3. applied[p] \in [Rep -> Nat]
      BY DEF TypeOK
    <3>4. q = p
      BY <1>4, <3>2 DEF TypeOK
    <3>5. applied'[p] = [applied[p] EXCEPT ![l] = n + 1]
      BY <3>2 DEF TypeOK
    <3>6. QED BY <1>4, <3>3, <3>4, <3>5
  <2>2. applied[p][l] = n /\ 1..(n + 1) = (1..n) \cup {n + 1}
    BY <1>0
  <2>3. QED BY <1>0, <1>2, <2>1, <2>2 DEF AppliedCommit
<1>5. QED BY <1>3, <1>4

\* The leader, or the next one, is the only replica ahead.
LEMMA AppliedPrefixGrows ==
  ASSUME TypeOK, AppliedPrefix, NEW p \in Part, NEW l \in Rep,
         applied[p][l] = Len(log[p]), NEW e \in Entry,
         log' = [log EXCEPT ![p] = Append(@, e)],
         \/ applied' = [applied EXCEPT ![p][l] = Len(log[p]) + 1]
            /\ leader[p] = l /\ UNCHANGED leader
         \/ applied' = applied /\ leader' = [leader EXCEPT ![p] = NoLeader]
  PROVE  AppliedPrefix'
<1> DEFINE n == Len(log[p])
<1>0. /\ n \in Nat /\ Len(log'[p]) = n + 1
      /\ \A x \in Part : x # p => log'[x] = log[x]
  BY AppendFacts
<1>1. SUFFICES ASSUME NEW q \in Part
      PROVE  /\ \A r \in Rep : applied'[q][r] <= Len(log'[q])
             /\ leader'[q] # NoLeader => applied'[q][leader'[q]] = Len(log'[q])
  BY DEF AppliedPrefix
<1>2. CASE q # p
  <2>1. applied'[q] = applied[q] /\ leader'[q] = leader[q]
    BY <1>2 DEF TypeOK
  <2>2. QED BY <1>0, <1>2, <2>1 DEF AppliedPrefix
<1>3. CASE q = p /\ applied' = applied /\ leader' = [leader EXCEPT ![p] = NoLeader]
  <2>1. leader'[p] = NoLeader
    BY <1>3 DEF TypeOK
  <2>2. \A r \in Rep : applied[p][r] \in Nat /\ applied[p][r] <= n
    BY DEF TypeOK, AppliedPrefix
  <2>3. QED BY <1>0, <1>3, <2>1, <2>2
<1>4. CASE /\ q = p /\ leader[p] = l /\ UNCHANGED leader
           /\ applied' = [applied EXCEPT ![p][l] = n + 1]
  <2>1. applied[p] \in [Rep -> Nat] /\ applied'[p] = [applied[p] EXCEPT ![l] = n + 1]
    BY <1>4 DEF TypeOK
  <2>2. \A r \in Rep : applied[p][r] <= n
    BY DEF AppliedPrefix
  <2>3. QED BY <1>0, <1>4, <2>1, <2>2
<1>5. QED BY <1>2, <1>3, <1>4

----------------------------------------------------------------------------
(* Steps that leave the Raft groups alone. *)

\* What the logs and the replicas say is unchanged.
LEMMA RaftFrame ==
  ASSUME UNCHANGED raftVars
  PROVE  /\ AppliedPrefix => AppliedPrefix'
         /\ NoPrepareAfterCommit => NoPrepareAfterCommit'
         /\ \A p, k, t : InLog(p, k, t)' <=> InLog(p, k, t)
         /\ \A p, t : Staged(p, t)' <=> Staged(p, t)
         /\ \A p, r, t : AppliedCommit(p, r, t)' <=> AppliedCommit(p, r, t)
<1> USE DEF raftVars, AppliedCommit
<1>1. AppliedPrefix => AppliedPrefix'
  BY DEF AppliedPrefix
<1>2. NoPrepareAfterCommit => NoPrepareAfterCommit'
  BY DEF NoPrepareAfterCommit
<1>3. QED BY <1>1, <1>2 DEF InLog, Staged

\* Start, VoteLost and PrepareRefused touch no decision.
LEMMA AskingStep ==
  ASSUME IndInv, TypeOK', NEW t \in Txn,
         \/ Start(t)
         \/ \E p \in Part : VoteLost(t, p) \/ PrepareRefused(t, p)
  PROVE  IndInv'
<1> USE DEF IndInv
<1>0. UNCHANGED raftVars
  BY DEF Start, VoteLost, PrepareRefused
<1>1. /\ UNCHANGED <<decisions, acked, answered, outcome>>
      /\ \A u \in Txn : coord'[u] = coord[u]
                          \/ (coord[u] = "idle" /\ coord'[u] = "preparing")
  BY DEF Start, VoteLost, PrepareRefused, TypeOK
<1> DEFINE OldYes == \A u \in Txn : \A q \in Part :
                 votes'[u][q] # votes[u][q] =>
                   votes[u][q] = "none" /\ votes'[u][q] # "yes"
           Asked == \A u \in Txn : \A q \in Part :
                 inflight'[u][q] > 0 => q \in Participants[u]
<1>2. OldYes
  <2>1. CASE Start(t)
    BY <2>1 DEF Start
  <2>2. ASSUME NEW p \in Part, NEW v \in {"no", "lost"},
               votes[t][p] = "none", votes' = [votes EXCEPT ![t][p] = v]
        PROVE  OldYes
    BY <2>2 DEF TypeOK
  <2>3. QED BY <2>1, <2>2 DEF VoteLost, PrepareRefused, Vote
<1>3. Asked
  <2>1. CASE Start(t)
    BY <2>1 DEF Start, OnlyParticipants, TypeOK
  <2>2. ASSUME NEW p \in Part, PrepareRefused(t, p) PROVE Asked
    BY <2>2, TwoPhaseAssumption DEF PrepareRefused, OnlyParticipants, TypeOK
  <2>3. ASSUME NEW p \in Part, VoteLost(t, p) PROVE Asked
    BY <2>3 DEF VoteLost, OnlyParticipants
  <2>4. QED BY <2>1, <2>2, <2>3
<1>4. FollowsOutcome'
  BY <1>0, <1>1, RaftFrame DEF FollowsOutcome
<1>5. RecordAgrees'
  BY <1>1 DEF RecordAgrees, IsFinal
<1>6. DeletedIsOver'
  BY <1>0, <1>1, RaftFrame DEF DeletedIsOver
<1>7. OnlyParticipants'
  BY <1>0, <1>3, RaftFrame DEF OnlyParticipants, raftVars
<1>8. YesIsBacked'
  BY <1>0, <1>1, <1>2, RaftFrame, TwoPhaseAssumption DEF YesIsBacked, AllYes
<1>9. AnsweredIsPublished'
  BY <1>0, <1>1, RaftFrame DEF AnsweredIsPublished
<1>10. QED BY <1>0, <1>4, <1>5, <1>6, <1>7, <1>8, <1>9, RaftFrame

\* A step that changes, of the protocol's state, only what t's coordinator and
\* t's record say keeps the invariant if it keeps t's part of it.
LEMMA DecisionFrame ==
  ASSUME IndInv, TypeOK', NEW t \in Txn,
         UNCHANGED <<raftVars, votes, inflight>>,
         \A u \in Txn : u # t =>
           /\ decisions'[u] = decisions[u] /\ coord'[u] = coord[u]
           /\ answered'[u] = answered[u] /\ outcome'[u] = outcome[u]
           /\ u \in acked' <=> u \in acked,
         /\ \A p \in Part :
              /\ InLog(p, "commit", t) => outcome'[t] = "committed"
              /\ InLog(p, "rollback", t) => outcome'[t] = "rolledback"
         /\ coord'[t] \in {"committing", "cleanup"} => outcome'[t] = "committed"
         /\ coord'[t] = "rollingback" => outcome'[t] = "rolledback"
         /\ coord'[t] \in {"staged", "cleanup"} => t \in EarlyAck
         /\ t \in acked' => outcome'[t] = "committed",
         /\ IsFinal(decisions[t])' => decisions'[t].st = outcome'[t]
         /\ decisions'[t].st = "staging" => outcome'[t] = "pending"
         /\ decisions'[t].st \in {"staging", "committed"}
              => decisions'[t].participants = Participants[t],
         decisions'[t].st = "none" /\ outcome'[t] # "pending" =>
           /\ coord'[t] = "done"
           /\ outcome'[t] = "committed" =>
                \A p \in Participants[t] : \A r \in Rep : AppliedCommit(p, r, t),
         /\ outcome[t] = "rolledback" => outcome'[t] = "rolledback"
         /\ outcome'[t] = "committed" \/ decisions'[t].st = "staging" => AllYes(t),
         /\ outcome'[t] = "pending" => answered'[t] = {}
         /\ outcome'[t] = "committed" =>
              \A p \in answered'[t] : InLog(p, "commit", t)
         /\ t \in acked' /\ t \notin EarlyAck =>
              \A p \in Participants[t] : InLog(p, "commit", t)
  PROVE  IndInv'
<1> USE DEF IndInv
<1>0. UNCHANGED raftVars /\ UNCHANGED <<votes, inflight>>
  OBVIOUS
<1>1. FollowsOutcome'
  <2>1. \A u \in Txn : u # t =>
          /\ coord'[u] = coord[u] /\ outcome'[u] = outcome[u]
          /\ u \in acked' <=> u \in acked
    OBVIOUS
  <2>2. QED BY <1>0, <2>1, RaftFrame DEF FollowsOutcome
<1>2. RecordAgrees'
  BY DEF RecordAgrees, IsFinal
<1>3. DeletedIsOver'
  BY <1>0, RaftFrame DEF DeletedIsOver
<1>4. OnlyParticipants'
  BY <1>0, RaftFrame DEF OnlyParticipants, raftVars
<1>5. YesIsBacked'
  BY <1>0, RaftFrame DEF YesIsBacked, AllYes
<1>6. AnsweredIsPublished'
  BY <1>0, RaftFrame DEF AnsweredIsPublished
<1>7. QED BY <1>0, <1>1, <1>2, <1>3, <1>4, <1>5, <1>6, RaftFrame

\* A coordinator that finds no record is the first to decide.
LEMMA FirstToDecide ==
  ASSUME IndInv, NEW t \in Txn, coord[t] = "preparing", decisions[t].st = "none"
  PROVE  /\ outcome[t] = "pending" /\ answered[t] = {} /\ t \notin acked
         /\ \A p \in Part : ~InLog(p, "commit", t) /\ ~InLog(p, "rollback", t)
BY DEF IndInv, DeletedIsOver, FollowsOutcome, AnsweredIsPublished

\* What creating a record leaves behind.
LEMMA WriteDecisionFacts ==
  ASSUME TypeOK, NEW t \in Txn, NEW st \in {"staging", "committed", "rolledback"},
         NEW parts, NEW next, WriteDecision(t, st, parts, next)
  PROVE  /\ \A u \in Txn : u # t =>
              /\ decisions'[u] = decisions[u] /\ coord'[u] = coord[u]
              /\ answered'[u] = answered[u] /\ outcome'[u] = outcome[u]
         /\ decisions[t].st # "none" =>
              /\ UNCHANGED <<decisions, answered, outcome>> /\ coord'[t] = "done"
         /\ decisions[t].st = "none" =>
              /\ decisions'[t].st = st /\ decisions'[t].participants = parts
              /\ answered'[t] = {} /\ coord'[t] = next
              /\ outcome'[t] = IF outcome[t] = "pending" /\ st # "staging"
                                 THEN st ELSE outcome[t]
<1>1. CASE decisions[t].st # "none"
  BY <1>1 DEF WriteDecision, TypeOK
<1>2. CASE decisions[t].st = "none"
  <2>1. /\ decisions' = [decisions EXCEPT ![t] = NewDecision(st, parts)]
        /\ answered' = [answered EXCEPT ![t] = {}]
        /\ coord' = [coord EXCEPT ![t] = next]
        /\ IF st = "staging" THEN UNCHANGED outcome ELSE Record(t, st)
    BY <1>2 DEF WriteDecision
  <2>2. decisions'[t] = NewDecision(st, parts)
    BY <2>1 DEF TypeOK
  <2>3. decisions'[t].st = st /\ decisions'[t].participants = parts
    BY <2>2 DEF NewDecision
  <2>4. /\ outcome'[t] = IF outcome[t] = "pending" /\ st # "staging"
                           THEN st ELSE outcome[t]
        /\ \A u \in Txn : u # t => outcome'[u] = outcome[u]
    BY <2>1 DEF Record, TypeOK
  <2>5. /\ answered'[t] = {} /\ coord'[t] = next
        /\ \A u \in Txn : u # t =>
              /\ decisions'[u] = decisions[u] /\ coord'[u] = coord[u]
              /\ answered'[u] = answered[u]
    BY <2>1 DEF TypeOK
  <2>6. QED BY <1>2, <2>3, <2>4, <2>5
<1>3. QED BY <1>1, <1>2

\* The coordinator's decision to roll back.
LEMMA DecideRollbackStep ==
  ASSUME IndInv, TypeOK', NEW t \in Txn, DecideRollback(t)
  PROVE  IndInv'
<1>0. /\ UNCHANGED <<raftVars, votes, inflight, acked>>
      /\ coord[t] = "preparing" /\ TypeOK
  BY DEF DecideRollback, IndInv
<1>1. CASE WriteDecision(t, "rolledback", ToRollBack(t), "rollingback")
          /\ decisions[t].st = "none"
  <2>1. /\ \A u \in Txn : u # t =>
              /\ decisions'[u] = decisions[u] /\ coord'[u] = coord[u]
              /\ answered'[u] = answered[u] /\ outcome'[u] = outcome[u]
        /\ decisions'[t].st = "rolledback" /\ answered'[t] = {}
        /\ coord'[t] = "rollingback" /\ outcome'[t] = "rolledback"
    BY <1>0, <1>1, FirstToDecide, WriteDecisionFacts
  <2>2. QED BY <1>0, <1>1, <2>1, FirstToDecide, DecisionFrame
            DEF IsFinal
<1>2. CASE UNCHANGED <<decisions, answered, outcome>> /\ coord' = [coord EXCEPT ![t] = "done"]
  <2>1. coord'[t] = "done" /\ \A u \in Txn : u # t => coord'[u] = coord[u]
    BY <1>0, <1>2 DEF TypeOK
  <2>2. QED BY <1>0, <1>2, <2>1, DecisionFrame
            DEF IsFinal, IndInv, FollowsOutcome, RecordAgrees, DeletedIsOver,
                YesIsBacked, AnsweredIsPublished
<1>3. QED BY <1>1, <1>2 DEF DecideRollback, WriteDecision

\* The coordinator's decision to commit, or its staging record.
LEMMA DecideCommitStep ==
  ASSUME IndInv, TypeOK', NEW t \in Txn, DecideCommit(t)
  PROVE  IndInv'
<1>0. /\ UNCHANGED <<raftVars, votes, inflight, acked>>
      /\ coord[t] = "preparing" /\ AllYes(t) /\ TypeOK
  BY DEF DecideCommit, IndInv
<1>1. ASSUME decisions[t].st = "none" PROVE IndInv'
  <2>0. /\ outcome[t] = "pending" /\ answered[t] = {} /\ t \notin acked
        /\ \A p \in Part : ~InLog(p, "commit", t) /\ ~InLog(p, "rollback", t)
    BY <1>0, <1>1, FirstToDecide
  <2>1. CASE t \in EarlyAck
    <3>1. WriteDecision(t, "staging", Participants[t], "staged")
      BY <2>1 DEF DecideCommit
    <3>2. /\ \A u \in Txn : u # t =>
                /\ decisions'[u] = decisions[u] /\ coord'[u] = coord[u]
                /\ answered'[u] = answered[u] /\ outcome'[u] = outcome[u]
          /\ decisions'[t].st = "staging" /\ answered'[t] = {}
          /\ decisions'[t].participants = Participants[t]
          /\ coord'[t] = "staged" /\ outcome'[t] = "pending"
      BY <1>0, <1>1, <2>0, <3>1, WriteDecisionFacts
    <3>3. QED BY <1>0, <2>0, <2>1, <3>2, DecisionFrame DEF IsFinal
  <2>2. CASE t \notin EarlyAck
    <3>1. WriteDecision(t, "committed", Participants[t], "committing")
      BY <2>2 DEF DecideCommit
    <3>2. /\ \A u \in Txn : u # t =>
                /\ decisions'[u] = decisions[u] /\ coord'[u] = coord[u]
                /\ answered'[u] = answered[u] /\ outcome'[u] = outcome[u]
          /\ decisions'[t].st = "committed" /\ answered'[t] = {}
          /\ decisions'[t].participants = Participants[t]
          /\ coord'[t] = "committing" /\ outcome'[t] = "committed"
      BY <1>0, <1>1, <2>0, <3>1, WriteDecisionFacts
    <3>3. QED BY <1>0, <2>0, <2>2, <3>2, DecisionFrame DEF IsFinal
  <2>3. QED BY <2>1, <2>2
<1>2. CASE UNCHANGED <<decisions, answered, outcome>> /\ coord' = [coord EXCEPT ![t] = "done"]
  <2>1. coord'[t] = "done" /\ \A u \in Txn : u # t => coord'[u] = coord[u]
    BY <1>0, <1>2 DEF TypeOK
  <2>2. QED BY <1>0, <1>2, <2>1, DecisionFrame
            DEF IsFinal, IndInv, FollowsOutcome, RecordAgrees, DeletedIsOver,
                YesIsBacked, AnsweredIsPublished
<1>3. QED BY <1>1, <1>2 DEF DecideCommit, WriteDecision

\* What turning the staging record into the decision leaves behind.
LEMMA RecoverFacts ==
  ASSUME IndInv, NEW t \in Txn, RecoverStaging(t)
  PROVE  /\ \A u \in Txn : u # t =>
              decisions'[u] = decisions[u] /\ outcome'[u] = outcome[u]
         /\ decisions'[t].st = "committed" /\ outcome'[t] = "committed"
         /\ decisions'[t].participants = Participants[t]
         /\ outcome[t] = "pending" /\ answered[t] = {} /\ AllYes(t)
<1>0. decisions[t].st = "staging" /\ TypeOK
  BY DEF RecoverStaging, IndInv
<1>1. /\ outcome[t] = "pending" /\ answered[t] = {} /\ AllYes(t)
      /\ decisions[t].participants = Participants[t]
  BY <1>0 DEF IndInv, RecordAgrees, YesIsBacked, AnsweredIsPublished
<1>2. decisions' = [decisions EXCEPT ![t] = NewDecision("committed", Participants[t])]
  BY <1>1 DEF RecoverStaging
<1>3. /\ decisions'[t] = NewDecision("committed", Participants[t])
      /\ \A u \in Txn : u # t => decisions'[u] = decisions[u]
  BY <1>0, <1>2 DEF TypeOK
<1>4. outcome'[t] = "committed" /\ \A u \in Txn : u # t => outcome'[u] = outcome[u]
  BY <1>0, <1>1 DEF RecoverStaging, Record, TypeOK
<1>5. QED BY <1>1, <1>3, <1>4 DEF NewDecision

\* The staging record becomes the decision, for a coordinator or a watcher.
LEMMA RecoverStep ==
  ASSUME IndInv, TypeOK', NEW t \in Txn, EarlyAcknowledge(t) \/ WatcherRecover(t)
  PROVE  IndInv'
<1> USE DEF IsFinal, IndInv, FollowsOutcome, RecordAgrees, DeletedIsOver,
            YesIsBacked, AnsweredIsPublished
<1>0. UNCHANGED <<raftVars, votes, inflight, answered>>
  BY DEF EarlyAcknowledge, WatcherRecover, coordVars
<1>1. /\ \A u \in Txn : u # t => coord'[u] = coord[u] /\ (u \in acked' <=> u \in acked)
      /\ \/ coord[t] = "staged" /\ coord'[t] = "cleanup"
         \/ coord'[t] = coord[t] /\ (t \in acked' <=> t \in acked)
  BY DEF EarlyAcknowledge, WatcherRecover, coordVars, TypeOK
<1>2. CASE RecoverStaging(t)
  BY <1>0, <1>1, <1>2, RecoverFacts, DecisionFrame
<1>3. CASE /\ coord[t] = "staged" /\ coord'[t] = "cleanup"
           /\ decisions[t].st = "committed" /\ UNCHANGED <<decisions, outcome>>
  BY <1>0, <1>1, <1>3, DecisionFrame
<1>4. QED BY <1>2, <1>3 DEF EarlyAcknowledge, WatcherRecover, TypeOK

\* Marking, finishing and stopping decide nothing.
LEMMA BookkeepingStep ==
  ASSUME IndInv, TypeOK', NEW t \in Txn,
         \/ FinishCommit(t) \/ CoordinatorStops(t)
         \/ \E p \in Part : \/ CoordinatorMark(t, p)
                            \/ \E r \in Rep : WatcherMark(t, p, r)
  PROVE  IndInv'
<1> USE DEF IsFinal, IndInv, FollowsOutcome, RecordAgrees, DeletedIsOver,
            YesIsBacked, AnsweredIsPublished
<1>0. UNCHANGED <<raftVars, votes, inflight, answered, outcome>>
  BY DEF FinishCommit, CoordinatorStops, CoordinatorMark, WatcherMark, coordVars
<1>1. CASE CoordinatorStops(t)
  <2>1. /\ \A u \in Txn : u # t => coord'[u] = coord[u]
        /\ coord'[t] = "done" /\ UNCHANGED <<decisions, acked>>
    BY <1>1 DEF CoordinatorStops, TypeOK
  <2>2. QED BY <1>0, <2>1, DecisionFrame
<1>2. CASE FinishCommit(t)
  <2>1. /\ \A u \in Txn : u # t => coord'[u] = coord[u] /\ (u \in acked' <=> u \in acked)
        /\ coord'[t] = "done" /\ UNCHANGED decisions /\ coord[t] = "committing"
        /\ Participants[t] \subseteq answered[t]
    BY <1>2 DEF FinishCommit, TypeOK
  <2>2. QED BY <1>0, <2>1, DecisionFrame
<1>3. ASSUME NEW p \in Part, Mark(t, p), IsFinal(decisions[t]), UNCHANGED <<coord, acked>>
      PROVE  IndInv'
  <2>1. decisions[t] \in Decision
    BY DEF TypeOK
  <2>2. decisions' = [decisions EXCEPT ![t] =
                        [decisions[t] EXCEPT !.resolved = @ \cup {p}]]
    BY <1>3 DEF Mark
  <2>3. /\ \A u \in Txn : u # t => decisions'[u] = decisions[u]
        /\ decisions'[t] = [decisions[t] EXCEPT !.resolved = @ \cup {p}]
    BY <2>2 DEF TypeOK
  <2>4. /\ decisions'[t].st = decisions[t].st
        /\ decisions'[t].participants = decisions[t].participants
    BY <2>1, <2>3 DEF Decision
  <2>5. /\ IsFinal(decisions[t])' => decisions'[t].st = outcome'[t]
        /\ decisions'[t].st \in {"committed", "rolledback"}
        /\ decisions'[t].st = "committed" => decisions'[t].participants = Participants[t]
    BY <1>0, <1>3, <2>4
  <2>6. /\ UNCHANGED <<raftVars, votes, inflight>>
        /\ coord' = coord /\ acked' = acked /\ answered' = answered
        /\ outcome' = outcome
    BY <1>0, <1>3
  <2>7. \A u \in Txn : u # t => decisions'[u] = decisions[u]
    BY <2>3
  <2>8. /\ outcome[t] = "committed" => AllYes(t)
        /\ decisions'[t].st # "none" /\ decisions'[t].st # "staging"
    BY <2>5
  <2>9. QED BY <2>5, <2>6, <2>7, <2>8, DecisionFrame
<1>4. ASSUME NEW p \in Part,
             CoordinatorMark(t, p) \/ \E r \in Rep : WatcherMark(t, p, r)
      PROVE  IndInv'
  <2>1. Mark(t, p) /\ IsFinal(decisions[t]) /\ UNCHANGED <<coord, acked>>
    BY <1>4 DEF CoordinatorMark, WatcherMark, coordVars
  <2>2. QED BY <1>3, <2>1
<1>5. QED BY <1>1, <1>2, <1>4

\* A replica that still holds an intent without a record cannot be looking at
\* a committed transaction: the record outlives the last straggler.
LEMMA ExpireStep ==
  ASSUME IndInv, TypeOK', NEW t \in Txn, NEW p \in Part, NEW r \in Rep,
         ExpirePrepare(t, p, r)
  PROVE  IndInv'
<1>0. /\ UNCHANGED <<raftVars, votes, inflight>> /\ UNCHANGED <<coord, acked>>
      /\ TypeOK /\ t \in prepared[p][r] /\ decisions[t].st = "none"
  BY DEF ExpirePrepare, coordVars, IndInv
<1>1. outcome[t] # "committed"
  <2>1. p \in Participants[t]
    BY <1>0 DEF IndInv, OnlyParticipants
  <2>2. ~AppliedCommit(p, r, t)
    BY <1>0 DEF IndInv, NoPrepareAfterCommit
  <2>3. QED BY <1>0, <2>1, <2>2 DEF IndInv, DeletedIsOver
<1>2. outcome'[t] = "rolledback" /\ \A u \in Txn : u # t => outcome'[u] = outcome[u]
  BY <1>0, <1>1 DEF ExpirePrepare, Record, TypeOK, Outcome
<1>3. /\ decisions'[t] = NewDecision("rolledback", Participants[t])
      /\ answered'[t] = {}
      /\ \A u \in Txn : u # t =>
           decisions'[u] = decisions[u] /\ answered'[u] = answered[u]
  BY <1>0 DEF ExpirePrepare, TypeOK
<1>4. decisions'[t].st = "rolledback"
  BY <1>3 DEF NewDecision
<1>5. /\ \A q \in Part : ~InLog(q, "commit", t)
      /\ coord[t] \notin {"committing", "cleanup"} /\ t \notin acked
      /\ coord[t] = "staged" => t \in EarlyAck
  BY <1>1 DEF IndInv, FollowsOutcome
<1>6. QED BY <1>0, <1>2, <1>3, <1>4, <1>5, DecisionFrame DEF IsFinal

\* The grace period is over: nothing is left to look the record up.
LEMMA DeleteStep ==
  ASSUME GraceCoversStragglers, IndInv, TypeOK', NEW t \in Txn, DeleteDecision(t)
  PROVE  IndInv'
<1>0. /\ UNCHANGED <<raftVars, votes, inflight>>
      /\ UNCHANGED <<coord, acked, answered, outcome>> /\ TypeOK
      /\ IsFinal(decisions[t]) /\ CaughtUp(t)
  BY DEF DeleteDecision, coordVars, IndInv
<1>1. /\ decisions'[t] = NoDecision
      /\ \A u \in Txn : u # t => decisions'[u] = decisions[u]
  BY <1>0 DEF DeleteDecision, TypeOK
<1>2. decisions'[t].st = "none"
  BY <1>1 DEF NoDecision
<1>3. /\ coord[t] = "done"
      /\ outcome[t] = "committed" =>
           \A p \in Participants[t] : \A r \in Rep : AppliedCommit(p, r, t)
  BY <1>0 DEF CaughtUp, AppliedCommit, IsFinal, IndInv, RecordAgrees
<1>4. /\ outcome[t] = "committed" => AllYes(t)
      /\ \A p \in Part : /\ InLog(p, "commit", t) => outcome[t] = "committed"
                         /\ InLog(p, "rollback", t) => outcome[t] = "rolledback"
      /\ t \in acked => outcome[t] = "committed"
      /\ outcome[t] = "pending" => answered[t] = {}
      /\ outcome[t] = "committed" => \A p \in answered[t] : InLog(p, "commit", t)
      /\ t \in acked /\ t \notin EarlyAck =>
           \A p \in Participants[t] : InLog(p, "commit", t)
  BY DEF IndInv, YesIsBacked, FollowsOutcome, AnsweredIsPublished
<1>5. QED BY <1>0, <1>1, <1>2, <1>3, <1>4, DecisionFrame DEF IsFinal

----------------------------------------------------------------------------
(* Steps of the Raft groups. *)

\* Elections move the leader only.
LEMMA LeaderStep ==
  ASSUME IndInv, TypeOK', NEW p \in Part,
         LoseLeadership(p) \/ \E r \in Rep : BecomeReady(p, r)
  PROVE  IndInv'
<1> USE DEF IndInv
<1>0. /\ UNCHANGED <<decisions, log, applied, prepared, coordVars, answered, outcome>>
      /\ \/ leader' = [leader EXCEPT ![p] = NoLeader]
         \/ \E r \in Rep : /\ applied[p][r] = Len(log[p])
                           /\ leader' = [leader EXCEPT ![p] = r]
  BY DEF LoseLeadership, LeaderLost, BecomeReady
<1>1. AppliedPrefix'
  BY <1>0 DEF AppliedPrefix, TypeOK
<1>2. /\ \A q, k, t : InLog(q, k, t)' <=> InLog(q, k, t)
      /\ \A q, t : Staged(q, t)' <=> Staged(q, t)
      /\ \A q, r, t : AppliedCommit(q, r, t)' <=> AppliedCommit(q, r, t)
  BY <1>0 DEF InLog, Staged, AppliedCommit
<1>3. FollowsOutcome' /\ RecordAgrees' /\ DeletedIsOver'
  BY <1>0, <1>2 DEF FollowsOutcome, RecordAgrees, DeletedIsOver, IsFinal, coordVars
<1>4. NoPrepareAfterCommit'
  BY <1>0, <1>2 DEF NoPrepareAfterCommit
<1>5. OnlyParticipants' /\ YesIsBacked' /\ AnsweredIsPublished'
  BY <1>0, <1>2 DEF OnlyParticipants, YesIsBacked, AllYes, AnsweredIsPublished, coordVars
<1>6. QED BY <1>1, <1>3, <1>4, <1>5

\* A replica applies its next entry.
LEMMA ApplyStep ==
  ASSUME IndInv, TypeOK', NEW p \in Part, NEW r \in Rep, Apply(p, r)
  PROVE  IndInv'
<1> USE DEF IndInv
<1> DEFINE n == applied[p][r]
           e == log[p][n + 1]
<1>0. /\ UNCHANGED <<decisions, log, leader, coordVars, answered, outcome>>
      /\ n \in Nat /\ n < Len(log[p]) /\ Len(log[p]) \in Nat
      /\ n + 1 \in 1..Len(log[p])
  BY DEF Apply, TypeOK
<1>1. /\ \A q \in Part : q # p => applied'[q] = applied[q] /\ prepared'[q] = prepared[q]
      /\ \A x \in Rep : x # r => /\ applied'[p][x] = applied[p][x]
                                  /\ prepared'[p][x] = prepared[p][x]
      /\ applied'[p][r] = n + 1
      /\ prepared'[p][r] = IF e.kind = "prepare" THEN prepared[p][r] \cup {e.txn}
                                                 ELSE prepared[p][r] \ {e.txn}
  BY DEF Apply, TypeOK
<1>2. AppliedPrefix'
  <2>1. leader[p] # r
    <3>1. r # NoLeader
      BY TwoPhaseAssumption
    <3>2. QED BY <1>0, <3>1 DEF AppliedPrefix
  <2>2. \A q \in Part : \A x \in Rep : applied'[q][x] <= Len(log[q])
    BY <1>0, <1>1 DEF AppliedPrefix
  <2>3. ASSUME NEW q \in Part, leader[q] # NoLeader
        PROVE  applied'[q][leader[q]] = applied[q][leader[q]]
    <3>1. leader[q] \in Rep
      BY <2>3 DEF TypeOK
    <3>2. CASE q = p
      BY <1>1, <2>1, <3>1, <3>2
    <3>3. CASE q # p
      BY <1>1, <3>3
    <3>4. QED BY <3>2, <3>3
  <2>4. QED BY <1>0, <2>2, <2>3 DEF AppliedPrefix
<1>3. /\ \A q, k, t : InLog(q, k, t)' <=> InLog(q, k, t)
      /\ \A q, t : Staged(q, t)' <=> Staged(q, t)
  BY <1>0 DEF InLog, Staged
<1>4. \A t \in Txn : AppliedCommit(p, r, t)' <=>
        AppliedCommit(p, r, t) \/ e = [kind |-> "commit", txn |-> t]
  <2>1. 1..(n + 1) = (1..n) \cup {n + 1}
    BY <1>0
  <2>2. QED BY <1>0, <1>1, <2>1 DEF AppliedCommit
<1>5. \A q \in Part : \A x \in Rep : \A t \in Txn :
        q # p \/ x # r => (AppliedCommit(q, x, t)' <=> AppliedCommit(q, x, t))
  BY <1>0, <1>1 DEF AppliedCommit
<1>6. FollowsOutcome' /\ RecordAgrees'
  BY <1>0, <1>3 DEF FollowsOutcome, RecordAgrees, IsFinal, coordVars
<1>7. DeletedIsOver'
  BY <1>0, <1>4, <1>5, TwoPhaseAssumption DEF DeletedIsOver, coordVars
<1>8. NoPrepareAfterCommit'
  <2>1. ASSUME NEW t \in Txn, AppliedCommit(p, r, t)' PROVE t \notin prepared'[p][r]
    <3>1. CASE e = [kind |-> "commit", txn |-> t]
      BY <1>1, <3>1
    <3>2. CASE AppliedCommit(p, r, t)
      <4>1. PICK i \in 1..n : log[p][i] = [kind |-> "commit", txn |-> t]
        BY <3>2 DEF AppliedCommit
      <4>2. i \in 1..Len(log[p]) /\ ~(n + 1 < i)
        BY <1>0
      <4>3. e # [kind |-> "prepare", txn |-> t]
        BY <1>0, <4>1, <4>2 DEF NoPrepareAfterCommit
      <4>4. e \in Entry
        BY <1>0 DEF TypeOK
      <4>5. ~(e.kind = "prepare" /\ e.txn = t)
        BY <4>3, <4>4 DEF Entry
      <4>6. t \notin prepared[p][r]
        BY <3>2 DEF NoPrepareAfterCommit
      <4>7. QED BY <1>1, <4>5, <4>6
    <3>3. QED BY <1>4, <2>1, <3>1, <3>2
  <2>2. ASSUME NEW q \in Part, NEW x \in Rep, NEW t \in Txn, q # p \/ x # r,
               AppliedCommit(q, x, t)'
        PROVE  t \notin prepared'[q][x]
    BY <1>1, <1>5, <2>2 DEF NoPrepareAfterCommit
  <2>3. QED BY <1>0, <2>1, <2>2 DEF NoPrepareAfterCommit
<1>9. OnlyParticipants'
  <2>1. ASSUME NEW t \in Txn, t \in prepared'[p][r] PROVE p \in Participants[t]
    <3>1. CASE t \in prepared[p][r]
      BY <3>1 DEF OnlyParticipants
    <3>2. CASE t \notin prepared[p][r]
      <4>1. e.kind = "prepare" /\ e.txn = t
        BY <1>1, <2>1, <3>2
      <4>2. e \in Entry
        BY <1>0 DEF TypeOK
      <4>3. e = [kind |-> "prepare", txn |-> t]
        BY <4>1, <4>2 DEF Entry
      <4>4. InLog(p, "prepare", t)
        BY <1>0, <4>3 DEF InLog
      <4>5. QED BY <4>4 DEF OnlyParticipants
    <3>3. QED BY <3>1, <3>2
  <2>2. QED BY <1>0, <1>1, <1>3, <2>1 DEF OnlyParticipants, coordVars
<1>10. YesIsBacked' /\ AnsweredIsPublished'
  BY <1>0, <1>3 DEF YesIsBacked, AllYes, AnsweredIsPublished, coordVars
<1>11. QED BY <1>2, <1>6, <1>7, <1>8, <1>9, <1>10

----------------------------------------------------------------------------
(* Steps of a partition's leader. *)

\* A leader's step that appends the entry e keeps the invariant if the entry
\* follows the outcome, a prepare entry is not behind a commit, and the
\* leader's intents, the votes and the answers follow the entry.
LEMMA GrowStep ==
  ASSUME IndInv, TypeOK', AppliedPrefix',
         NEW p \in Part, NEW l \in Rep, applied[p][l] = Len(log[p]),
         NEW e \in Entry, Grows(p, l, e),
         UNCHANGED <<decisions, coord, acked, outcome>>,
         \A u \in Txn :
           /\ e = [kind |-> "commit", txn |-> u] => outcome[u] = "committed"
           /\ e = [kind |-> "rollback", txn |-> u] => outcome[u] = "rolledback"
           /\ e = [kind |-> "prepare", txn |-> u] =>
                ~InLog(p, "commit", u) /\ p \in Participants[u],
         \A q \in Part : \A r \in Rep :
           q # p \/ r # l => prepared'[q][r] = prepared[q][r],
         \A u \in prepared'[p][l] :
           /\ u \in prepared[p][l] \/ e = [kind |-> "prepare", txn |-> u]
           /\ applied' # applied => e # [kind |-> "commit", txn |-> u],
         \A u \in Txn : \A q \in Part :
           /\ votes'[u][q] # votes[u][q] =>
                /\ votes[u][q] = "none"
                /\ votes'[u][q] = "yes" =>
                     q = p /\ e = [kind |-> "prepare", txn |-> u]
           /\ inflight'[u][q] > 0 => inflight[u][q] > 0,
         \A u \in Txn :
           /\ outcome[u] = "pending" => answered'[u] = answered[u]
           /\ outcome[u] = "committed" =>
                \A q \in answered'[u] :
                  q \in answered[u] \/ (q = p /\ e = [kind |-> "commit", txn |-> u])
  PROVE  IndInv'
<1> USE DEF IndInv
<1>0. log' = [log EXCEPT ![p] = Append(@, e)]
  BY DEF Grows
<1>1. \A q \in Part : \A k, u : InLog(q, k, u)' <=>
        InLog(q, k, u) \/ (q = p /\ e = [kind |-> k, txn |-> u])
  <2> HIDE DEF IndInv
  <2>1. TypeOK
    BY DEF IndInv
  <2>2. QED BY ONLY <1>0, <2>1, p \in Part, e \in Entry, InLogAppend
<1>2. \A q \in Part : \A u :
        /\ Staged(q, u) /\ (q # p \/ e.txn # u) => Staged(q, u)'
        /\ e = [kind |-> "prepare", txn |-> u] => Staged(p, u)'
  BY <1>0, StagedAppend
<1>3. \A q \in Part : \A r \in Rep : \A u :
        /\ AppliedCommit(q, r, u) => AppliedCommit(q, r, u)'
        /\ AppliedCommit(q, r, u)' =>
             \/ AppliedCommit(q, r, u)
             \/ /\ q = p /\ r = l /\ applied' # applied
                /\ e = [kind |-> "commit", txn |-> u]
  BY AppliedCommitGrows
<1>4. /\ e.txn \in Txn
      /\ \/ e = [kind |-> "prepare", txn |-> e.txn]
         \/ e = [kind |-> "commit", txn |-> e.txn]
         \/ e = [kind |-> "rollback", txn |-> e.txn]
  BY SMTT(20) DEF Entry
<1>k. \A u : /\ e = [kind |-> "prepare", txn |-> u] =>
                  /\ e # [kind |-> "commit", txn |-> u]
                  /\ e # [kind |-> "rollback", txn |-> u]
             /\ \A k : e = [kind |-> k, txn |-> u] => e.txn = u
  OBVIOUS
<1>5. FollowsOutcome'
  BY <1>1 DEF FollowsOutcome
<1>6. RecordAgrees'
  BY DEF RecordAgrees, IsFinal
<1>7. DeletedIsOver'
  BY <1>3, TwoPhaseAssumption DEF DeletedIsOver
<1>8. NoPrepareAfterCommit'
  <2> DEFINE n == Len(log[p])
  <2>0. /\ n \in Nat /\ Len(log'[p]) = n + 1 /\ log'[p][n + 1] = e
        /\ \A i \in 1..n : log'[p][i] = log[p][i]
        /\ \A x \in Part : x # p => log'[x] = log[x]
    BY <1>0, AppendFacts
  <2>1. ASSUME NEW q \in Part, NEW u \in Txn,
               NEW i \in 1..Len(log'[q]), NEW j \in 1..Len(log'[q]),
               log'[q][i] = [kind |-> "commit", txn |-> u],
               log'[q][j] = [kind |-> "prepare", txn |-> u]
        PROVE  j < i
    <3>1. CASE q # p
      BY <2>0, <2>1, <3>1 DEF NoPrepareAfterCommit
    <3>2. CASE q = p /\ j = n + 1
      <4>1. e = [kind |-> "prepare", txn |-> u]
        BY <2>0, <2>1, <3>2
      <4>2. i # n + 1
        BY <2>0, <2>1, <3>2, <4>1, <1>k
      <4>3. i \in 1..n /\ log[p][i] = [kind |-> "commit", txn |-> u]
        BY <2>0, <2>1, <3>2, <4>2
      <4>4. InLog(p, "commit", u)
        BY <4>3 DEF InLog
      <4>5. QED BY <4>1, <4>4
    <3>3. CASE q = p /\ j \in 1..n /\ i = n + 1
      BY <2>0, <3>3
    <3>4. CASE q = p /\ j \in 1..n /\ i \in 1..n
      BY <2>0, <2>1, <3>4 DEF NoPrepareAfterCommit
    <3>5. 1..(n + 1) = (1..n) \cup {n + 1}
      BY <2>0
    <3>6. QED BY <2>0, <3>1, <3>2, <3>3, <3>4, <3>5
  <2>2. ASSUME NEW q \in Part, NEW r \in Rep, NEW u \in Txn, AppliedCommit(q, r, u)'
        PROVE  u \notin prepared'[q][r]
    <3>1. CASE q # p \/ r # l
      <4>1. AppliedCommit(q, r, u)
        BY <1>3, <2>2, <3>1
      <4>2. prepared'[q][r] = prepared[q][r]
        BY <3>1
      <4>3. QED BY <4>1, <4>2 DEF NoPrepareAfterCommit
    <3>2. CASE q = p /\ r = l /\ applied' # applied /\ e = [kind |-> "commit", txn |-> u]
      BY <3>2
    <3>3. CASE q = p /\ r = l /\ AppliedCommit(p, l, u)
      <4>1. u \notin prepared[p][l]
        BY <3>3 DEF NoPrepareAfterCommit
      <4>2. InLog(p, "commit", u)
        <5>1. \A i \in 1..applied[p][l] : i \in 1..Len(log[p])
          OBVIOUS
        <5>2. QED BY <3>3, <5>1 DEF AppliedCommit, InLog
      <4>3. QED BY <3>3, <4>1, <4>2
    <3>4. QED BY <1>3, <2>2, <3>1, <3>2, <3>3
  <2>3. QED BY <2>1, <2>2 DEF NoPrepareAfterCommit
<1>9. OnlyParticipants'
  <2>1. ASSUME NEW u \in Txn, NEW q \in Part
        PROVE  /\ inflight'[u][q] > 0 => q \in Participants[u]
               /\ InLog(q, "prepare", u)' => q \in Participants[u]
    BY <1>1 DEF OnlyParticipants
  <2>2. ASSUME NEW u \in Txn, NEW q \in Part, NEW r \in Rep, u \in prepared'[q][r]
        PROVE  q \in Participants[u]
    <3>1. CASE q # p \/ r # l
      BY <2>2, <3>1 DEF OnlyParticipants
    <3>2. CASE q = p /\ r = l
      BY <2>2, <3>2 DEF OnlyParticipants
    <3>3. QED BY <3>1, <3>2
  <2>3. QED BY <2>1, <2>2 DEF OnlyParticipants
<1>10. YesIsBacked'
  <2>1. ASSUME NEW u \in Txn, NEW q \in Part, votes'[u][q] = "yes"
        PROVE  Staged(q, u)' \/ InLog(q, "commit", u)' \/ outcome[u] = "rolledback"
    <3>1. CASE votes[u][q] # "yes"
      <4>1. votes'[u][q] # votes[u][q]
        BY <2>1, <3>1
      <4>2. q = p /\ e = [kind |-> "prepare", txn |-> u]
        BY <2>1, <4>1
      <4>3. QED BY <1>2, <4>2
    <3>2. CASE votes[u][q] = "yes" /\ (q # p \/ e.txn # u)
      BY <1>1, <1>2, <3>2 DEF YesIsBacked
    <3>3. CASE q = p /\ e.txn = u
      BY <1>1, <1>2, <1>4, <3>3
    <3>4. QED BY <3>1, <3>2, <3>3
  <2>2. ASSUME NEW u \in Txn, AllYes(u) PROVE AllYes(u)'
    <3>1. \A q \in Participants[u] : q \in Part
      BY TwoPhaseAssumption
    <3>2. QED BY <2>2, <3>1 DEF AllYes
  <2>3. QED BY <2>1, <2>2 DEF YesIsBacked
<1>11. AnsweredIsPublished'
  <2>1. ASSUME NEW u \in Txn, outcome[u] = "committed", NEW q \in answered'[u]
        PROVE  InLog(q, "commit", u)'
    <3>1. q \in Part
      BY DEF TypeOK
    <3>2. QED BY <1>1, <2>1, <3>1 DEF AnsweredIsPublished
  <2>2. ASSUME NEW u \in Txn, u \in acked, u \notin EarlyAck, NEW q \in Participants[u]
        PROVE  InLog(q, "commit", u)'
    <3>1. q \in Part
      BY TwoPhaseAssumption
    <3>2. QED BY <1>1, <2>2, <3>1 DEF AnsweredIsPublished
  <2>3. QED BY <2>1, <2>2 DEF AnsweredIsPublished
<1>12. QED BY <1>5, <1>6, <1>7, <1>8, <1>9, <1>10, <1>11

\* A leader's step that appends nothing.
LEMMA StillStep ==
  ASSUME IndInv, TypeOK', NEW p \in Part, NEW l \in Rep,
         UNCHANGED <<log, applied, decisions, coord, acked, outcome>>,
         UNCHANGED leader \/ leader' = [leader EXCEPT ![p] = NoLeader],
         \A q \in Part : \A r \in Rep :
           q # p \/ r # l => prepared'[q][r] = prepared[q][r],
         \A u \in prepared'[p][l] :
           u \in prepared[p][l] \/ (p \in Participants[u] /\ ~InLog(p, "commit", u)),
         \A u \in Txn : \A q \in Part :
           /\ votes'[u][q] # votes[u][q] =>
                votes[u][q] = "none" /\ votes'[u][q] # "yes"
           /\ inflight'[u][q] > 0 => inflight[u][q] > 0,
         \A u \in Txn : outcome[u] # "rolledback" => answered'[u] = answered[u]
  PROVE  IndInv'
<1> USE DEF IndInv
<1>1. /\ \A q, k, u : InLog(q, k, u)' <=> InLog(q, k, u)
      /\ \A q, u : Staged(q, u)' <=> Staged(q, u)
      /\ \A q, r, u : AppliedCommit(q, r, u)' <=> AppliedCommit(q, r, u)
  BY DEF InLog, Staged, AppliedCommit
<1>2. AppliedPrefix'
  BY DEF AppliedPrefix, TypeOK
<1>3. FollowsOutcome' /\ RecordAgrees' /\ DeletedIsOver'
  BY <1>1 DEF FollowsOutcome, RecordAgrees, DeletedIsOver, IsFinal
<1>4. NoPrepareAfterCommit'
  <2>1. ASSUME NEW q \in Part, NEW r \in Rep, NEW u \in Txn, AppliedCommit(q, r, u)
        PROVE  u \notin prepared'[q][r]
    <3>1. u \notin prepared[q][r]
      BY <2>1 DEF NoPrepareAfterCommit
    <3>2. \A i \in 1..applied[q][r] : i \in 1..Len(log[q])
      BY DEF AppliedPrefix, TypeOK
    <3>3. InLog(q, "commit", u)
      BY <2>1, <3>2 DEF AppliedCommit, InLog
    <3>4. QED BY <3>1, <3>3
  <2>2. QED BY <1>1, <2>1 DEF NoPrepareAfterCommit
<1>5. OnlyParticipants'
  <2>1. ASSUME NEW u \in Txn, NEW q \in Part, NEW r \in Rep, u \in prepared'[q][r]
        PROVE  q \in Participants[u]
    BY <2>1 DEF OnlyParticipants
  <2>2. QED BY <1>1, <2>1 DEF OnlyParticipants
<1>6. YesIsBacked'
  <2>1. \A u \in Txn : AllYes(u) => AllYes(u)'
    BY TwoPhaseAssumption DEF AllYes
  <2>2. \A u \in Txn : \A q \in Part : votes'[u][q] = "yes" => votes[u][q] = "yes"
    OBVIOUS
  <2>3. QED BY <1>1, <2>1, <2>2 DEF YesIsBacked
<1>7. AnsweredIsPublished'
  BY <1>1 DEF AnsweredIsPublished
<1>8. QED BY <1>2, <1>3, <1>4, <1>5, <1>6, <1>7

\* A prepare the leader accepts is not behind a commit of its transaction: a
\* retry's intent is still held, and any other stands above the floor.
LEMMA NotCommittedYet ==
  ASSUME IndInv, NEW t \in Txn, NEW p \in Part, leader[p] # NoLeader,
         t \in prepared[p][leader[p]] \/ AboveFloor(p, t)
  PROVE  ~InLog(p, "commit", t)
<1>1. CASE AboveFloor(p, t)
  <2>1. TS[t] \in Nat
    BY TwoPhaseAssumption
  <2>2. QED BY <1>1, <2>1 DEF AboveFloor
<1>2. CASE t \in prepared[p][leader[p]]
  <2>1. leader[p] \in Rep /\ applied[p][leader[p]] = Len(log[p])
    BY DEF IndInv, TypeOK, AppliedPrefix
  <2>2. InLog(p, "commit", t) => AppliedCommit(p, leader[p], t)
    BY <2>1 DEF InLog, AppliedCommit
  <2>3. QED BY <1>2, <2>1, <2>2 DEF IndInv, NoPrepareAfterCommit
<1>3. QED BY <1>1, <1>2

\* A delivered prepare was addressed to a participant and is not delivered twice.
LEMMA DeliverFacts ==
  ASSUME IndInv, NEW t \in Txn, NEW p \in Part, Deliver(t, p)
  PROVE  /\ p \in Participants[t] /\ leader[p] \in Rep
         /\ applied[p][leader[p]] = Len(log[p])
         /\ \A u \in Txn : \A q \in Part :
              inflight'[u][q] > 0 => inflight[u][q] > 0
<1>1. p \in Participants[t] /\ leader[p] \in Rep /\ applied[p][leader[p]] = Len(log[p])
  BY DEF Deliver, IndInv, OnlyParticipants, TypeOK, AppliedPrefix
<1>2. \A u \in Txn : \A q \in Part : inflight'[u][q] > 0 => inflight[u][q] > 0
  BY TwoPhaseAssumption DEF Deliver, IndInv, TypeOK
<1>3. QED BY <1>1, <1>2

\* A reply changes only the vote that is waited for.
LEMMA VoteFacts ==
  ASSUME TypeOK, NEW t \in Txn, NEW p \in Part, NEW v, Vote(t, p, v)
  PROVE  \A u \in Txn : \A q \in Part :
           votes'[u][q] # votes[u][q] =>
             votes[u][q] = "none" /\ u = t /\ q = p /\ votes'[u][q] = v
<1>1. CASE UNCHANGED votes
  BY <1>1
<1>2. CASE votes[t][p] = "none" /\ votes' = [votes EXCEPT ![t][p] = v]
  <2>1. \A u \in Txn : u # t => votes'[u] = votes[u]
    BY <1>2 DEF TypeOK
  <2>2. votes'[t] = [votes[t] EXCEPT ![p] = v] /\ votes[t] \in [Part -> VoteState]
    BY <1>2 DEF TypeOK
  <2>3. QED BY <1>2, <2>1, <2>2
<1>3. QED BY <1>1, <1>2 DEF Vote

\* A leader's append replaces the intents of one replica, and the leader
\* stays at the end of the log.
LEMMA LeaderAppendsFacts ==
  ASSUME IndInv, NEW p \in Part, NEW l \in Rep, applied[p][l] = Len(log[p]),
         NEW e \in Entry, NEW S, LeaderAppends(p, l, e, S)
  PROVE  /\ Grows(p, l, e)
         /\ leader[p] = l /\ UNCHANGED leader => AppliedPrefix'
         /\ prepared'[p][l] = S
         /\ \A q \in Part : \A r \in Rep :
              q # p \/ r # l => prepared'[q][r] = prepared[q][r]
<1>1. TypeOK /\ AppliedPrefix
  BY DEF IndInv
<1>2. Grows(p, l, e)
  BY DEF Grows, LeaderAppends
<1>3. leader[p] = l /\ UNCHANGED leader => AppliedPrefix'
  BY <1>1, AppliedPrefixGrows DEF LeaderAppends
<1>4. /\ prepared'[p] = [prepared[p] EXCEPT ![l] = S]
      /\ prepared[p] \in [Rep -> SUBSET Txn]
      /\ \A q \in Part : q # p => prepared'[q] = prepared[q]
  BY <1>1 DEF TypeOK, LeaderAppends
<1>5. QED BY <1>2, <1>3, <1>4

\* PrepareAccepted.
LEMMA AcceptStep ==
  ASSUME IndInv, TypeOK', NEW t \in Txn, NEW p \in Part, PrepareAccepted(t, p)
  PROVE  IndInv'
<1>1. PICK l, S, e : /\ l = leader[p] /\ S = prepared[p][l] \cup {t}
                     /\ e = [kind |-> "prepare", txn |-> t]
  OBVIOUS
<1>2. /\ Deliver(t, p) /\ l # NoLeader /\ Vote(t, p, "yes") /\ TypeOK
      /\ t \in prepared[p][leader[p]] \/ AboveFloor(p, t)
      /\ UNCHANGED <<decisions, coord, acked, outcome>>
      /\ UNCHANGED <<leader, answered>>
  BY <1>1 DEF PrepareAccepted, Deliver, IndInv
<1>3. LeaderAppends(p, l, e, S)
  BY <1>1 DEF PrepareAccepted, LeaderAppends
<1>4. /\ e \in Entry
      /\ \A u : /\ e # [kind |-> "commit", txn |-> u]
                /\ e # [kind |-> "rollback", txn |-> u]
                /\ e = [kind |-> "prepare", txn |-> u] <=> u = t
  BY <1>1, Names
<1>5. /\ l \in Rep /\ applied[p][l] = Len(log[p]) /\ Grows(p, l, e) /\ AppliedPrefix'
      /\ prepared'[p][l] = S
      /\ \A q \in Part : \A r \in Rep :
           q # p \/ r # l => prepared'[q][r] = prepared[q][r]
  <2>1. l \in Rep /\ applied[p][l] = Len(log[p]) /\ l = leader[p]
    BY <1>1, <1>2 DEF IndInv, TypeOK, AppliedPrefix
  <2>2. QED BY <1>2, <1>3, <1>4, <2>1, LeaderAppendsFacts
<1>6. /\ ~InLog(p, "commit", t) /\ p \in Participants[t]
      /\ \A u \in Txn : \A q \in Part : inflight'[u][q] > 0 => inflight[u][q] > 0
  BY <1>1, <1>2, NotCommittedYet, DeliverFacts
<1>7. \A u \in Txn : \A q \in Part :
        votes'[u][q] # votes[u][q] => votes[u][q] = "none" /\ u = t /\ q = p
  BY <1>2, VoteFacts
<1>8. \A u \in prepared'[p][l] : u \in prepared[p][l] \/ u = t
  BY <1>1, <1>5
<1>9. QED BY <1>2, <1>4, <1>5, <1>6, <1>7, <1>8, GrowStep

\* PrepareInterrupted and PrepareCrash.
LEMMA PrepareFailsStep ==
  ASSUME IndInv, TypeOK', NEW t \in Txn, NEW p \in Part,
         PrepareInterrupted(t, p) \/ PrepareCrash(t, p)
  PROVE  IndInv'
<1> DEFINE l == leader[p]
           e == [kind |-> "prepare", txn |-> t]
           kept == \A u \in Txn : \A q \in Part :
                     votes'[u][q] # votes[u][q] =>
                       votes[u][q] = "none" /\ votes'[u][q] # "yes"
<1>0. /\ Deliver(t, p) /\ l # NoLeader
      /\ t \in prepared[p][l] \/ AboveFloor(p, t)
      /\ leader' = [leader EXCEPT ![p] = NoLeader] /\ TypeOK /\ AppliedPrefix
      /\ UNCHANGED <<applied, decisions, coord, acked, outcome>>
      /\ UNCHANGED answered /\ e \in Entry
  BY Names DEF PrepareInterrupted, PrepareCrash, Deliver, LeaderLost, IndInv
<1>1. /\ ~InLog(p, "commit", t) /\ p \in Participants[t]
      /\ l \in Rep /\ applied[p][l] = Len(log[p])
      /\ \A u \in Txn : \A q \in Part : inflight'[u][q] > 0 => inflight[u][q] > 0
  BY <1>0, NotCommittedYet, DeliverFacts
<1>2. Vote(t, p, "no") \/ Vote(t, p, "lost")
  BY DEF PrepareInterrupted, PrepareCrash
<1>3. kept
  <2>1. "no" # "yes" /\ "lost" # "yes"
    OBVIOUS
  <2>2. QED BY <1>0, <1>2, <2>1, VoteFacts
<1>4. /\ \/ prepared' = [prepared EXCEPT ![p][l] = prepared[p][l] \ {t}]
         \/ prepared' = [prepared EXCEPT ![p][l] = prepared[p][l] \cup {t}]
      /\ \/ log' = [log EXCEPT ![p] = Append(@, e)]
         \/ UNCHANGED log
  BY <1>0, <1>1 DEF PrepareInterrupted, PrepareCrash
<1>5. /\ \A u \in prepared'[p][l] : u \in prepared[p][l] \/ u = t
      /\ \A q \in Part : \A r \in Rep :
           q # p \/ r # l => prepared'[q][r] = prepared[q][r]
  <2>1. CASE prepared' = [prepared EXCEPT ![p][l] = prepared[p][l] \ {t}]
    BY <1>0, <1>1, <2>1 DEF TypeOK
  <2>2. CASE prepared' = [prepared EXCEPT ![p][l] = prepared[p][l] \cup {t}]
    BY <1>0, <1>1, <2>2 DEF TypeOK
  <2>3. QED BY <1>4, <2>1, <2>2
<1>6. \A u : /\ e # [kind |-> "commit", txn |-> u]
             /\ e # [kind |-> "rollback", txn |-> u]
             /\ e = [kind |-> "prepare", txn |-> u] <=> u = t
  OBVIOUS
<1>7. CASE UNCHANGED log
  <2> HIDE DEF l
  <2>1. QED BY <1>0, <1>1, <1>3, <1>5, <1>7, StillStep
<1>8. CASE log' = [log EXCEPT ![p] = Append(@, e)]
  <2>1. AppliedPrefix' /\ Grows(p, l, e)
    BY <1>0, <1>1, <1>8, AppliedPrefixGrows DEF Grows
  <2> HIDE DEF l
  <2>2. QED BY <1>0, <1>1, <1>3, <1>5, <1>6, <1>8, <2>1, GrowStep
<1>9. QED BY <1>4, <1>7, <1>8

\* A commit entry for a transaction whose outcome is commit.
LEMMA CommitStep ==
  ASSUME IndInv, TypeOK', NEW t \in Txn, NEW p \in Part,
         outcome[t] = "committed",
         CommitPrepared(t, p) \/ CommitInterrupted(t, p),
         UNCHANGED <<decisions, coordVars, outcome>>
  PROVE  IndInv'
<1>1. PICK l, S, e : /\ l = leader[p] /\ S = prepared[p][l] \ {t}
                     /\ e = [kind |-> "commit", txn |-> t]
  OBVIOUS
<1>2. /\ UNCHANGED <<decisions, coord, acked, outcome>> /\ UNCHANGED <<votes, inflight>>
      /\ l # NoLeader /\ TypeOK /\ AppliedPrefix
  BY <1>1 DEF coordVars, CommitPrepared, CommitInterrupted, IndInv
<1>3. l \in Rep /\ applied[p][l] = Len(log[p]) /\ l = leader[p]
  BY <1>1, <1>2 DEF TypeOK, AppliedPrefix
<1>4. /\ e \in Entry
      /\ \A u : /\ e # [kind |-> "prepare", txn |-> u]
                /\ e # [kind |-> "rollback", txn |-> u]
                /\ e = [kind |-> "commit", txn |-> u] <=> u = t
  BY <1>1, Names
<1>5. CASE CommitPrepared(t, p)
  <2>1. /\ LeaderAppends(p, l, e, S) /\ UNCHANGED leader
        /\ answered' = [answered EXCEPT ![t] = @ \cup {p}]
    BY <1>1, <1>5 DEF CommitPrepared, LeaderAppends
  <2>2. /\ Grows(p, l, e) /\ AppliedPrefix'
        /\ prepared'[p][l] = S
        /\ \A q \in Part : \A r \in Rep :
             q # p \/ r # l => prepared'[q][r] = prepared[q][r]
    BY <1>2, <1>3, <1>4, <2>1, LeaderAppendsFacts
  <2>3. /\ \A u \in Txn : u # t => answered'[u] = answered[u]
        /\ answered'[t] = answered[t] \cup {p}
    BY <1>2, <2>1 DEF TypeOK
  <2>4. \A u \in prepared'[p][l] : u \in prepared[p][l] /\ u # t
    BY <1>1, <2>2
  <2>5. QED BY <1>2, <1>3, <1>4, <2>2, <2>3, <2>4, GrowStep
<1>6. CASE CommitInterrupted(t, p)
  <2>1. /\ leader' = [leader EXCEPT ![p] = NoLeader]
        /\ UNCHANGED <<applied, prepared, answered>>
        /\ \/ log' = [log EXCEPT ![p] = Append(@, e)]
           \/ UNCHANGED log
    BY <1>1, <1>6 DEF CommitInterrupted, LeaderLost
  <2>2. CASE UNCHANGED log
    BY <1>2, <1>3, <2>1, <2>2, StillStep
  <2>3. CASE log' = [log EXCEPT ![p] = Append(@, e)]
    <3>1. AppliedPrefix' /\ Grows(p, l, e)
      BY <1>2, <1>3, <1>4, <2>1, <2>3, AppliedPrefixGrows DEF Grows
    <3>2. QED BY <1>2, <1>3, <1>4, <2>1, <3>1, GrowStep
  <2>4. QED BY <2>1, <2>2, <2>3
<1>7. QED BY <1>5, <1>6

\* A rollback marker for a transaction whose outcome is roll back.
LEMMA RollbackStep ==
  ASSUME IndInv, TypeOK', NEW t \in Txn, NEW p \in Part,
         outcome[t] = "rolledback", RollbackPrepared(t, p),
         UNCHANGED <<decisions, coordVars, outcome>>
  PROVE  IndInv'
<1>1. PICK l, S, e : /\ l = leader[p] /\ S = prepared[p][l] \ {t}
                     /\ e = [kind |-> "rollback", txn |-> t]
  OBVIOUS
<1>2. /\ UNCHANGED <<decisions, coord, acked, outcome>> /\ UNCHANGED <<votes, inflight>>
      /\ l # NoLeader /\ TypeOK /\ AppliedPrefix /\ UNCHANGED leader
  BY <1>1 DEF coordVars, RollbackPrepared, IndInv
<1>3. l \in Rep /\ applied[p][l] = Len(log[p]) /\ l = leader[p]
  BY <1>1, <1>2 DEF TypeOK, AppliedPrefix
<1>4. /\ e \in Entry
      /\ \A u : /\ e # [kind |-> "prepare", txn |-> u]
                /\ e # [kind |-> "commit", txn |-> u]
                /\ e = [kind |-> "rollback", txn |-> u] <=> u = t
  BY <1>1, Names
<1>5. \A u \in Txn : u # t => answered'[u] = answered[u]
  BY <1>2 DEF RollbackPrepared, TypeOK
<1>6. CASE LeaderAppends(p, l, e, S)
  <2>1. /\ Grows(p, l, e) /\ AppliedPrefix'
        /\ prepared'[p][l] = S
        /\ \A q \in Part : \A r \in Rep :
             q # p \/ r # l => prepared'[q][r] = prepared[q][r]
    BY <1>2, <1>3, <1>4, <1>6, LeaderAppendsFacts
  <2>2. \A u \in prepared'[p][l] : u \in prepared[p][l]
    BY <1>1, <2>1
  <2>3. QED BY <1>2, <1>3, <1>4, <1>5, <2>1, <2>2, GrowStep
<1>7. CASE UNCHANGED <<log, applied, prepared>>
  BY <1>2, <1>3, <1>5, <1>7, StillStep
<1>8. QED BY <1>1, <1>6, <1>7 DEF RollbackPrepared, LeaderAppends

----------------------------------------------------------------------------
(* The invariant. *)

\* The invariant holds initially: the logs are empty and nobody has decided.
LEMMA IndInvInit == Init => IndInv
<1> SUFFICES ASSUME Init PROVE IndInv
  OBVIOUS
<1>1. TypeOK
  BY InitType
<1>2. \A p \in Part : log[p] = << >> /\ \A r \in Rep : applied[p][r] = 0 /\ prepared[p][r] = {}
  BY DEF Init
<1>3. /\ \A p \in Part : \A k, t : ~InLog(p, k, t)
      /\ \A p \in Part : \A r \in Rep : \A t : ~AppliedCommit(p, r, t)
  BY <1>2 DEF InLog, AppliedCommit
<1>4. \A t \in Txn : /\ decisions[t].st = "none" /\ coord[t] = "idle" /\ outcome[t] = "pending"
                      /\ answered[t] = {} /\ t \notin acked
                      /\ \A p \in Part : votes[t][p] = "none" /\ inflight[t][p] = 0
  BY DEF Init, NoDecision
<1>5. AppliedPrefix
  BY <1>2 DEF AppliedPrefix, Init
<1>6. FollowsOutcome /\ RecordAgrees /\ DeletedIsOver
  BY <1>3, <1>4 DEF FollowsOutcome, RecordAgrees, DeletedIsOver, IsFinal
<1>7. NoPrepareAfterCommit
  BY <1>2, <1>3 DEF NoPrepareAfterCommit
<1>8. OnlyParticipants /\ YesIsBacked /\ AnsweredIsPublished
  BY <1>2, <1>3, <1>4 DEF OnlyParticipants, YesIsBacked, AnsweredIsPublished
<1>9. QED BY <1>1, <1>5, <1>6, <1>7, <1>8 DEF IndInv

\* Every step keeps the invariant, if the grace period is long enough.
LEMMA IndInvNext ==
  ASSUME GraceCoversStragglers, IndInv, [Next]_vars
  PROVE  IndInv'
<1>0. TypeOK'
  BY NextType DEF IndInv
<1>p. ASSUME NEW t \in Txn, NEW p \in Part, ParticipantNext(t, p)
      PROVE  IndInv'
  <2>1. CASE PrepareAccepted(t, p)
    BY <1>0, <2>1, AcceptStep
  <2>2. CASE PrepareRefused(t, p)
    BY <1>0, <2>2, AskingStep
  <2>3. CASE PrepareInterrupted(t, p) \/ PrepareCrash(t, p)
    BY <1>0, <2>3, PrepareFailsStep
  <2>4. CASE CommitLost(t, p)
    <3>1. outcome[t] = "committed"
      BY <2>4 DEF CommitLost, IndInv, RecordAgrees, FollowsOutcome, IsFinal
    <3>2. CommitInterrupted(t, p) /\ UNCHANGED <<decisions, coordVars, outcome>>
      BY <2>4 DEF CommitLost
    <3>3. QED BY <1>0, <3>1, <3>2, CommitStep
  <2>5. QED BY <1>p, <2>1, <2>2, <2>3, <2>4 DEF ParticipantNext
<1>r. ASSUME NEW p \in Part, RaftNext(p)
      PROVE  IndInv'
  BY <1>0, <1>r, LeaderStep, ApplyStep DEF RaftNext
<1>c. ASSUME NEW t \in Txn, CoordinatorNext(t)
      PROVE  IndInv'
  <2>1. CASE Start(t) \/ \E p \in Part : VoteLost(t, p)
    BY <1>0, <2>1, AskingStep
  <2>2. CASE DecideRollback(t)
    BY <1>0, <2>2, DecideRollbackStep
  <2>3. CASE DecideCommit(t)
    BY <1>0, <2>3, DecideCommitStep
  <2>4. CASE EarlyAcknowledge(t)
    BY <1>0, <2>4, RecoverStep
  <2>5. CASE FinishCommit(t) \/ CoordinatorStops(t) \/ \E p \in Part : CoordinatorMark(t, p)
    BY <1>0, <2>5, BookkeepingStep
  <2>6. ASSUME NEW p \in Part, CoordinatorCommit(t, p) PROVE IndInv'
    <3>1. /\ outcome[t] = "committed" /\ CommitPrepared(t, p)
          /\ UNCHANGED <<decisions, coordVars, outcome>>
      BY <2>6 DEF CoordinatorCommit, IndInv, FollowsOutcome
    <3>2. QED BY <1>0, <3>1, CommitStep
  <2>7. ASSUME NEW p \in Part, CoordinatorRollback(t, p) PROVE IndInv'
    <3>1. /\ outcome[t] = "rolledback" /\ RollbackPrepared(t, p)
          /\ UNCHANGED <<decisions, coordVars, outcome>>
      BY <2>7 DEF CoordinatorRollback, IndInv, FollowsOutcome
    <3>2. QED BY <1>0, <3>1, RollbackStep
  <2>8. QED BY <1>c, <2>1, <2>2, <2>3, <2>4, <2>5, <2>6, <2>7 DEF CoordinatorNext
<1>w. ASSUME NEW t \in Txn, WatcherNext(t)
      PROVE  IndInv'
  <2>1. CASE WatcherRecover(t)
    BY <1>0, <2>1, RecoverStep
  <2>2. CASE DeleteDecision(t)
    BY <1>0, <2>2, DeleteStep
  <2>3. ASSUME NEW p \in Part, WatcherCommit(t, p) PROVE IndInv'
    <3>1. /\ outcome[t] = "committed" /\ CommitPrepared(t, p)
          /\ UNCHANGED <<decisions, coordVars, outcome>>
      BY <2>3 DEF WatcherCommit, IndInv, RecordAgrees, IsFinal
    <3>2. QED BY <1>0, <3>1, CommitStep
  <2>4. ASSUME NEW p \in Part, WatcherRollback(t, p) PROVE IndInv'
    <3>1. /\ outcome[t] = "rolledback" /\ RollbackPrepared(t, p)
          /\ UNCHANGED <<decisions, coordVars, outcome>>
      BY <2>4 DEF WatcherRollback, IndInv, RecordAgrees, IsFinal
    <3>2. QED BY <1>0, <3>1, RollbackStep
  <2>5. ASSUME NEW p \in Part, NEW r \in Rep, WatcherMark(t, p, r) PROVE IndInv'
    BY <1>0, <2>5, BookkeepingStep
  <2>6. ASSUME NEW p \in Part, NEW r \in Rep, ExpirePrepare(t, p, r) PROVE IndInv'
    BY <1>0, <2>6, ExpireStep
  <2>7. QED BY <1>w, <2>1, <2>2, <2>3, <2>4, <2>5, <2>6 DEF WatcherNext
<1>s. CASE UNCHANGED vars
  <2>1. UNCHANGED raftVars /\ UNCHANGED <<decisions, answered, outcome>>
        /\ UNCHANGED <<coord, votes, inflight, acked>>
    BY <1>s DEF vars, coordVars
  <2>2. AppliedPrefix' /\ NoPrepareAfterCommit'
    BY <2>1, RaftFrame DEF IndInv
  <2>3. FollowsOutcome' /\ RecordAgrees' /\ DeletedIsOver'
    BY <2>1, RaftFrame DEF IndInv, FollowsOutcome, RecordAgrees, DeletedIsOver, IsFinal
  <2>4. OnlyParticipants'
    BY <2>1, RaftFrame DEF IndInv, OnlyParticipants, raftVars
  <2>5. YesIsBacked' /\ AnsweredIsPublished'
    BY <2>1, RaftFrame DEF IndInv, YesIsBacked, AllYes, AnsweredIsPublished
  <2>6. QED BY <1>0, <2>2, <2>3, <2>4, <2>5 DEF IndInv
<1>q. QED BY <1>p, <1>r, <1>c, <1>w, <1>s DEF Next

\* The invariant holds in every reachable state.
THEOREM InvariantHolds ==
  ASSUME GraceCoversStragglers
  PROVE  Spec => []IndInv
<1>1. IndInv /\ [Next]_vars => IndInv'
  BY IndInvNext
<1>2. QED BY <1>1, IndInvInit, PTL DEF Spec

\* No two partitions disagree on a transaction: for any number of partitions,
\* replicas, duplicated prepares and leadership losses, no transaction is
\* committed by one participant and rolled back by another.
THEOREM AtomicityHolds ==
  ASSUME GraceCoversStragglers
  PROVE  Spec => []Atomicity
<1>1. IndInv => Atomicity
  BY DEF IndInv, FollowsOutcome, Atomicity
<1>2. QED BY <1>1, InvariantHolds, PTL

\* No record contradicts the first decision of its transaction, however often
\* the key is deleted and created anew.
THEOREM DecisionAgreementHolds ==
  ASSUME GraceCoversStragglers
  PROVE  Spec => []DecisionAgreement
<1>1. IndInv => DecisionAgreement
  BY DEF IndInv, RecordAgrees, DecisionAgreement
<1>2. QED BY <1>1, InvariantHolds, PTL

\* A commit decision stands on an intent or a commit entry in the Raft log of
\* every partition it writes.
THEOREM CommitIsBackedHolds ==
  ASSUME GraceCoversStragglers
  PROVE  Spec => []CommitIsBacked
<1>1. IndInv => CommitIsBacked
  <2> SUFFICES ASSUME IndInv, NEW t \in Txn, outcome[t] = "committed",
                      NEW p \in Participants[t]
               PROVE  InLog(p, "commit", t) \/ Staged(p, t)
    BY DEF CommitIsBacked
  <2>1. p \in Part
    BY TwoPhaseAssumption
  <2>2. votes[t][p] = "yes"
    BY DEF IndInv, YesIsBacked, AllYes
  <2>3. QED BY <2>1, <2>2 DEF IndInv, YesIsBacked
<1>2. QED BY <1>1, InvariantHolds, PTL

\* What the client was told is durable on the partitions it wrote.
THEOREM AckedIsDurableHolds ==
  ASSUME GraceCoversStragglers
  PROVE  Spec => []AckedIsDurable
<1>1. IndInv => AckedIsDurable
  <2> SUFFICES ASSUME IndInv, NEW t \in acked, NEW p \in Participants[t]
               PROVE  InLog(p, "commit", t) \/ (t \in EarlyAck /\ Staged(p, t))
    BY DEF AckedIsDurable
  <2>1. t \in Txn /\ outcome[t] = "committed"
    BY DEF IndInv, TypeOK, FollowsOutcome
  <2>2. p \in Part
    BY <2>1, TwoPhaseAssumption
  <2>3. votes[t][p] = "yes"
    BY <2>1 DEF IndInv, YesIsBacked, AllYes
  <2>4. Staged(p, t) \/ InLog(p, "commit", t)
    BY <2>1, <2>2, <2>3 DEF IndInv, YesIsBacked
  <2>5. t \notin EarlyAck => InLog(p, "commit", t)
    BY <2>1 DEF IndInv, AnsweredIsPublished
  <2>6. QED BY <2>4, <2>5
<1>2. QED BY <1>1, InvariantHolds, PTL

----------------------------------------------------------------------------
(* TwoPhase implements AtomicCommit. *)

visible == [t \in Txn |-> {p \in Part : InLog(p, "commit", t)}]

\* An unchanged or otherwise grown log publishes nothing.
LEMMA NothingPublished ==
  ASSUME \A u \in Txn : \A q \in Part :
           InLog(q, "commit", u)' <=> InLog(q, "commit", u)
  PROVE  visible' = visible
BY DEF visible

\* A log step of AtomicCommit's kind: it publishes at most t's slice at p.
LEMMA PublishStep ==
  ASSUME IndInv, NEW t \in Txn, NEW p \in Part, UNCHANGED <<outcome, acked>>,
         NEW e \in Entry, log' = [log EXCEPT ![p] = Append(@, e)],
         e = [kind |-> "commit", txn |-> t] =>
           outcome[t] = "committed" /\ p \in Participants[t],
         \A u \in Txn : e = [kind |-> "commit", txn |-> u] => u = t
  PROVE  AC!Next \/ (UNCHANGED <<outcome, acked>> /\ visible' = visible)
<1>1. TypeOK
  BY DEF IndInv
<1>2. \A q \in Part : \A k, u : InLog(q, k, u)' <=>
        InLog(q, k, u) \/ (q = p /\ e = [kind |-> k, txn |-> u])
  BY <1>1, InLogAppend
<1>3. CASE e # [kind |-> "commit", txn |-> t]
  BY <1>2, <1>3, NothingPublished
<1>4. CASE e = [kind |-> "commit", txn |-> t]
  <2>1. visible' = [visible EXCEPT ![t] = @ \cup {p}]
    <3>1. \A u \in Txn : u # t => e # [kind |-> "commit", txn |-> u]
      OBVIOUS
    <3>2. \A q \in Part : \A u \in Txn : InLog(q, "commit", u)' <=>
            InLog(q, "commit", u) \/ (q = p /\ u = t)
      BY <1>2, <1>4, <3>1
    <3>3. \A u \in Txn : u # t => {q \in Part : InLog(q, "commit", u)'}
                                  = {q \in Part : InLog(q, "commit", u)}
      BY <3>2
    <3>4. {q \in Part : InLog(q, "commit", t)'}
            = {q \in Part : InLog(q, "commit", t)} \cup {p}
      BY <3>2
    <3>5. QED BY <3>3, <3>4 DEF visible
  <2>2. AC!Publish(t, p)
    BY <1>4, <2>1 DEF AC!Publish, visible
  <2>3. QED BY <2>2 DEF AC!Next
<1>5. QED BY <1>3, <1>4

\* A step that leaves the logs alone decides, acknowledges, or is invisible.
LEMMA DecideStep ==
  ASSUME IndInv, NEW t \in Txn, UNCHANGED log,
         \/ Record(t, "committed") \/ Record(t, "rolledback") \/ UNCHANGED outcome,
         \/ UNCHANGED acked
         \/ /\ acked' = acked \cup {t}
            /\ outcome'[t] = "committed"
            /\ outcome[t] \in {"pending", "committed"}
  PROVE  AC!Next \/ (UNCHANGED <<outcome, acked>> /\ visible' = visible)
<1>1. TypeOK
  BY DEF IndInv
<1>2. visible' = visible
  BY NothingPublished DEF InLog
<1>3. CASE UNCHANGED outcome
  <2>1. CASE UNCHANGED acked
    BY <1>2, <1>3, <2>1
  <2>2. CASE acked' = acked \cup {t} /\ outcome'[t] = "committed"
    <3>1. AC!Acknowledge(t)
      BY <1>2, <1>3, <2>2 DEF AC!Acknowledge, visible
    <3>2. QED BY <3>1 DEF AC!Next
  <2>3. QED BY <2>1, <2>2
<1>4. ASSUME outcome[t] = "pending", NEW o \in {"committed", "rolledback"},
             outcome' = [outcome EXCEPT ![t] = o]
      PROVE  AC!Next
  <2>1. CASE UNCHANGED acked
    <3>1. AC!Decide(t)
      BY <1>2, <1>4, <2>1 DEF AC!Decide, visible
    <3>2. QED BY <3>1 DEF AC!Next
  <2>2. CASE acked' = acked \cup {t} /\ outcome'[t] = "committed"
    <3>1. outcome' = [outcome EXCEPT ![t] = "committed"]
      BY <1>1, <1>4, <2>2 DEF TypeOK
    <3>2. AC!DecideAndAcknowledge(t)
      BY <1>2, <1>4, <2>2, <3>1 DEF AC!DecideAndAcknowledge, visible
    <3>3. QED BY <3>2 DEF AC!Next
  <2>3. QED BY <2>1, <2>2
<1>5. ASSUME outcome[t] # "pending", NEW o, Record(t, o)
      PROVE  UNCHANGED outcome
  BY <1>1, <1>5 DEF Record, TypeOK
<1>6. ASSUME outcome[t] = "pending", NEW o, Record(t, o)
      PROVE  outcome' = [outcome EXCEPT ![t] = o]
  BY <1>6 DEF Record
<1>7. QED BY <1>3, <1>4, <1>5, <1>6

\* Every step of TwoPhase is a step of AtomicCommit or invisible to it.
LEMMA StepRefines ==
  ASSUME IndInv, [Next]_vars
  PROVE  AC!Next \/ (UNCHANGED <<outcome, acked>> /\ visible' = visible)
<1> DEFINE Goal == AC!Next \/ (UNCHANGED <<outcome, acked>> /\ visible' = visible)
<1>0. /\ TypeOK
      /\ \A t \in Txn : /\ [kind |-> "prepare", txn |-> t] \in Entry
                         /\ [kind |-> "commit", txn |-> t] \in Entry
                         /\ [kind |-> "rollback", txn |-> t] \in Entry
  BY Names DEF IndInv
<1>q. ASSUME UNCHANGED <<log, outcome, acked>> PROVE Goal
  BY <1>q, NothingPublished DEF InLog
<1>g. ASSUME NEW t \in Txn, NEW p \in Part, UNCHANGED <<outcome, acked>>,
             NEW k \in {"prepare", "rollback"},
             log' = [log EXCEPT ![p] = Append(@, [kind |-> k, txn |-> t])]
      PROVE  Goal
  <2>1. PICK e : e = [kind |-> k, txn |-> t]
    OBVIOUS
  <2>2. e \in Entry /\ \A u : e # [kind |-> "commit", txn |-> u]
    BY <1>0, <2>1
  <2>3. log' = [log EXCEPT ![p] = Append(@, e)]
    BY <1>g, <2>1
  <2>4. QED BY <1>g, <2>2, <2>3, PublishStep
<1>m. ASSUME NEW t \in Txn, NEW p \in Part, UNCHANGED <<outcome, acked>>,
             outcome[t] = "committed", p \in Participants[t],
             log' = [log EXCEPT ![p] = Append(@, [kind |-> "commit", txn |-> t])]
      PROVE  Goal
  <2>1. PICK e : e = [kind |-> "commit", txn |-> t]
    OBVIOUS
  <2>2. e \in Entry /\ \A u : e = [kind |-> "commit", txn |-> u] => u = t
    BY <1>0, <2>1
  <2>3. log' = [log EXCEPT ![p] = Append(@, e)]
    BY <1>m, <2>1
  <2>4. QED BY <1>m, <2>2, <2>3, PublishStep
<1>p. ASSUME NEW t \in Txn, NEW p \in Part, ParticipantNext(t, p) PROVE Goal
  <2>1. CASE PrepareAccepted(t, p)
    BY <1>g, <2>1 DEF PrepareAccepted, LeaderAppends
  <2>2. CASE PrepareRefused(t, p) \/ PrepareCrash(t, p)
    BY <1>q, <2>2 DEF PrepareRefused, PrepareCrash, raftVars
  <2>3. CASE PrepareInterrupted(t, p)
    BY <1>q, <1>g, <2>3 DEF PrepareInterrupted
  <2>4. CASE CommitLost(t, p)
    <3>1. outcome[t] = "committed" /\ p \in Participants[t]
      BY <2>4 DEF CommitLost, IndInv, RecordAgrees, FollowsOutcome, IsFinal
    <3>2. UNCHANGED <<outcome, acked>>
      BY <2>4 DEF CommitLost, coordVars
    <3>3. \/ log' = [log EXCEPT ![p] = Append(@, [kind |-> "commit", txn |-> t])]
          \/ UNCHANGED log
      BY <2>4 DEF CommitLost, CommitInterrupted
    <3>4. QED BY <1>q, <1>m, <3>1, <3>2, <3>3
  <2>5. QED BY <1>p, <2>1, <2>2, <2>3, <2>4 DEF ParticipantNext
<1>c. ASSUME NEW t \in Txn, CoordinatorNext(t) PROVE Goal
  <2>1. CASE Start(t) \/ CoordinatorStops(t)
             \/ \E p \in Part : VoteLost(t, p) \/ CoordinatorMark(t, p)
    BY <1>q, <2>1 DEF Start, CoordinatorStops, VoteLost, CoordinatorMark, raftVars, coordVars
  <2>2. CASE DecideRollback(t) \/ DecideCommit(t)
    <3>1. UNCHANGED log /\ UNCHANGED acked
      BY <2>2 DEF DecideRollback, DecideCommit, raftVars
    <3>2. Record(t, "committed") \/ Record(t, "rolledback") \/ UNCHANGED outcome
      BY <2>2 DEF DecideRollback, DecideCommit, WriteDecision
    <3>3. QED BY <3>1, <3>2, DecideStep
  <2>3. CASE EarlyAcknowledge(t)
    <3>1. UNCHANGED log /\ acked' = acked \cup {t}
      BY <2>3 DEF EarlyAcknowledge, raftVars
    <3>2. CASE RecoverStaging(t)
      <4>1. Record(t, "committed") /\ outcome'[t] = "committed" /\ outcome[t] = "pending"
        BY <3>2, RecoverFacts DEF RecoverStaging
      <4>2. QED BY <3>1, <4>1, DecideStep
    <3>3. CASE decisions[t].st = "committed" /\ UNCHANGED outcome
      <4>1. outcome[t] = "committed" /\ outcome'[t] = "committed"
        BY <3>3 DEF IndInv, RecordAgrees, IsFinal
      <4>2. QED BY <3>1, <3>3, <4>1, DecideStep
    <3>4. QED BY <2>3, <3>2, <3>3 DEF EarlyAcknowledge
  <2>4. CASE FinishCommit(t)
    <3>1. /\ UNCHANGED log /\ UNCHANGED outcome /\ acked' = acked \cup {t}
          /\ outcome[t] = "committed" /\ outcome'[t] = "committed"
      BY <2>4 DEF FinishCommit, raftVars, IndInv, FollowsOutcome
    <3>2. QED BY <3>1, DecideStep
  <2>5. ASSUME NEW p \in Part, CoordinatorCommit(t, p) PROVE Goal
    <3>1. outcome[t] = "committed" /\ p \in Participants[t] /\ UNCHANGED <<outcome, acked>>
      BY <2>5 DEF CoordinatorCommit, IndInv, FollowsOutcome, coordVars
    <3>2. log' = [log EXCEPT ![p] = Append(@, [kind |-> "commit", txn |-> t])]
      BY <2>5 DEF CoordinatorCommit, CommitPrepared, LeaderAppends
    <3>3. QED BY <1>m, <3>1, <3>2
  <2>6. ASSUME NEW p \in Part, CoordinatorRollback(t, p) PROVE Goal
    <3>1. UNCHANGED <<outcome, acked>>
      BY <2>6 DEF CoordinatorRollback, coordVars
    <3>2. \/ log' = [log EXCEPT ![p] = Append(@, [kind |-> "rollback", txn |-> t])]
          \/ UNCHANGED log
      BY <2>6 DEF CoordinatorRollback, RollbackPrepared, LeaderAppends
    <3>3. QED BY <1>q, <1>g, <3>1, <3>2
  <2>7. QED BY <1>c, <2>1, <2>2, <2>3, <2>4, <2>5, <2>6 DEF CoordinatorNext
<1>w. ASSUME NEW t \in Txn, WatcherNext(t) PROVE Goal
  <2>1. CASE WatcherRecover(t) \/ \E p \in Part : \E r \in Rep : ExpirePrepare(t, p, r)
    <3>1. UNCHANGED log /\ UNCHANGED acked
      BY <2>1 DEF WatcherRecover, ExpirePrepare, raftVars, coordVars
    <3>2. Record(t, "committed") \/ Record(t, "rolledback")
      BY <2>1 DEF WatcherRecover, RecoverStaging, ExpirePrepare
    <3>3. QED BY <3>1, <3>2, DecideStep
  <2>2. CASE DeleteDecision(t) \/ \E p \in Part : \E r \in Rep : WatcherMark(t, p, r)
    BY <1>q, <2>2 DEF DeleteDecision, WatcherMark, raftVars, coordVars
  <2>3. ASSUME NEW p \in Part, WatcherCommit(t, p) PROVE Goal
    <3>1. outcome[t] = "committed" /\ p \in Participants[t] /\ UNCHANGED <<outcome, acked>>
      BY <2>3 DEF WatcherCommit, IndInv, RecordAgrees, IsFinal, coordVars
    <3>2. log' = [log EXCEPT ![p] = Append(@, [kind |-> "commit", txn |-> t])]
      BY <2>3 DEF WatcherCommit, CommitPrepared, LeaderAppends
    <3>3. QED BY <1>m, <3>1, <3>2
  <2>4. ASSUME NEW p \in Part, WatcherRollback(t, p) PROVE Goal
    <3>1. UNCHANGED <<outcome, acked>>
      BY <2>4 DEF WatcherRollback, coordVars
    <3>2. \/ log' = [log EXCEPT ![p] = Append(@, [kind |-> "rollback", txn |-> t])]
          \/ UNCHANGED log
      BY <2>4 DEF WatcherRollback, RollbackPrepared, LeaderAppends
    <3>3. QED BY <1>q, <1>g, <3>1, <3>2
  <2>5. QED BY <1>w, <2>1, <2>2, <2>3, <2>4 DEF WatcherNext
<1>r. ASSUME NEW p \in Part, RaftNext(p) PROVE Goal
  BY <1>q, <1>r DEF RaftNext, LoseLeadership, Apply, BecomeReady, coordVars
<1>s. CASE UNCHANGED vars
  BY <1>q, <1>s DEF vars, raftVars, coordVars
<1>z. QED BY <1>p, <1>c, <1>w, <1>r, <1>s DEF Next

\* The two-phase commit of the code implements atomic commitment: one outcome
\* per transaction, published slices only after it, success only for a commit.
THEOREM Implementation ==
  ASSUME GraceCoversStragglers
  PROVE  Spec => ImplementsAtomicCommit
<1>1. Init => AC!Init
  <2> SUFFICES ASSUME Init PROVE AC!Init
    OBVIOUS
  <2>1. \A p \in Part : \A t : ~InLog(p, "commit", t)
    BY DEF Init, InLog
  <2>2. \A t \in Txn : {p \in Part : InLog(p, "commit", t)} = {}
    BY <2>1
  <2>3. QED BY <2>2 DEF AC!Init, Init
<1>2. IndInv /\ [Next]_vars => [AC!Next]_(AC!vars)
  BY StepRefines DEF AC!vars, visible
<1>3. QED BY <1>1, <1>2, InvariantHolds, PTL DEF Spec, ImplementsAtomicCommit, AC!Spec
----------------------------------------------------------------------------
(* The order of commits, when a prepare request is delivered at most once. *)

\* A step that leaves the Raft groups alone keeps the order invariant when it
\* sends requests only for an idle coordinator and decides only on yes votes.
LEMMA OrderFrame ==
  ASSUME OrderInv, TypeOK', UNCHANGED raftVars,
         \A t \in Txn :
           /\ coord'[t] = "idle" => coord[t] = "idle" /\ inflight'[t] = inflight[t]
           /\ \A p \in Part :
                /\ inflight'[t][p] > 0 => inflight[t][p] > 0 \/ coord[t] = "idle"
                /\ votes'[t][p] = "yes" => votes[t][p] = "yes"
           /\ \/ coord'[t] \in {"staged", "committing", "cleanup"}
              \/ decisions'[t].st \in {"staging", "committed"}
              => \/ AllYes(t)
                 \/ coord[t] \in {"staged", "committing", "cleanup"}
                 \/ decisions[t].st \in {"staging", "committed"}
           /\ decisions'[t].st \in {"staging", "committed"}
                => decisions'[t].participants = Participants[t]
  PROVE  OrderInv'
<1>1. /\ AppliedPrefix'
      /\ \A p, k, t : InLog(p, k, t)' <=> InLog(p, k, t)
      /\ \A p, t : Staged(p, t)' <=> Staged(p, t)
  BY RaftFrame DEF OrderInv
<1>2. IntentsMatch' /\ CommitsInOrder' /\ StagedAbove'
  <2>1. IntentsMatch'
    BY DEF OrderInv, IntentsMatch, raftVars
  <2>2. CommitsInOrder'
    BY DEF OrderInv, CommitsInOrder, raftVars
  <2>3. StagedAbove'
    BY <1>1 DEF OrderInv, StagedAbove
  <2>4. QED BY <2>1, <2>2, <2>3
<1>3. PreparedOnce'
  <2>1. \A p, t : Untouched(p, t)' <=> Untouched(p, t)
    BY DEF Untouched, raftVars
  <2>2. SUFFICES ASSUME NEW t \in Txn, NEW p \in Part
        PROVE  /\ coord'[t] = "idle" => inflight'[t][p] = 0
               /\ coord'[t] = "idle" \/ inflight'[t][p] > 0 => Untouched(p, t)
               /\ \A i, j \in 1..Len(log[p]) :
                    /\ log[p][i] = [kind |-> "prepare", txn |-> t]
                    /\ log[p][j] = [kind |-> "prepare", txn |-> t]
                    => i = j
    BY <2>1 DEF PreparedOnce, raftVars
  <2>3. QED BY DEF OrderInv, PreparedOnce
<1>4. VotesAreLogged'
  <2>1. \A t \in Txn : AllYes(t) => \A p \in Participants[t] : InLog(p, "prepare", t)
    BY TwoPhaseAssumption DEF OrderInv, VotesAreLogged, AllYes
  <2>2. SUFFICES ASSUME NEW t \in Txn
        PROVE  /\ \A p \in Part : votes'[t][p] = "yes" => InLog(p, "prepare", t)
               /\ \/ coord'[t] \in {"staged", "committing", "cleanup"}
                  \/ decisions'[t].st \in {"staging", "committed"}
                  => \A p \in Participants[t] : InLog(p, "prepare", t)
               /\ decisions'[t].st \in {"staging", "committed"}
                    => decisions'[t].participants = Participants[t]
    BY <1>1 DEF VotesAreLogged
  <2>3. QED BY <2>1 DEF OrderInv, VotesAreLogged
<1>5. QED BY <1>1, <1>2, <1>3, <1>4 DEF OrderInv

\* What an append does to the log and the replicas of p: the leader l applies
\* the entry at once, or nobody does.
EntryIntents(S, e) == IF e.kind = "prepare" THEN S \cup {e.txn} ELSE S \ {e.txn}

Appends(p, l, e) ==
  /\ log' = [log EXCEPT ![p] = Append(@, e)]
  /\ \/ applied' = applied /\ prepared' = prepared
     \/ /\ applied' = [applied EXCEPT ![p][l] = Len(log[p]) + 1]
        /\ prepared' = [prepared EXCEPT ![p][l] = EntryIntents(prepared[p][l], e)]

\* The replicas after an append, one by one.
LEMMA AppendsFacts ==
  ASSUME TypeOK, NEW p \in Part, NEW l \in Rep, NEW e \in Entry, Appends(p, l, e)
  PROVE  \A q \in Part : \A r \in Rep :
           \/ applied'[q][r] = applied[q][r] /\ prepared'[q][r] = prepared[q][r]
           \/ /\ q = p /\ r = l /\ applied'[q][r] = Len(log[p]) + 1
              /\ prepared'[q][r] = EntryIntents(prepared[p][l], e)
<1>1. CASE applied' = applied /\ prepared' = prepared
  BY <1>1
<1>2. CASE /\ applied' = [applied EXCEPT ![p][l] = Len(log[p]) + 1]
           /\ prepared' = [prepared EXCEPT ![p][l] = EntryIntents(prepared[p][l], e)]
  <2>1. /\ applied'[p] = [applied[p] EXCEPT ![l] = Len(log[p]) + 1]
        /\ applied[p] \in [Rep -> Nat]
        /\ \A q \in Part : q # p => applied'[q] = applied[q]
    BY <1>2 DEF TypeOK
  <2>2. /\ prepared'[p] = [prepared[p] EXCEPT ![l] = EntryIntents(prepared[p][l], e)]
        /\ prepared[p] \in [Rep -> SUBSET Txn]
        /\ \A q \in Part : q # p => prepared'[q] = prepared[q]
    BY <1>2 DEF TypeOK
  <2>3. QED BY <2>1, <2>2
<1>3. QED BY <1>1, <1>2 DEF Appends

\* A transaction that has not prepared in a log is not staged there, and what
\* is staged after an append was staged before or is prepared by it.
LEMMA StagedShrinks ==
  ASSUME TypeOK, NEW p \in Part, NEW e \in Entry,
         log' = [log EXCEPT ![p] = Append(@, e)],
         NEW q \in Part, NEW u \in Txn, Staged(q, u)'
  PROVE  \/ Staged(q, u) /\ (q # p \/ e.txn # u)
         \/ q = p /\ e = [kind |-> "prepare", txn |-> u]
<1> DEFINE n == Len(log[p])
<1>0. /\ n \in Nat /\ Len(log'[p]) = n + 1 /\ log'[p][n + 1] = e
      /\ \A i \in 1..n : log'[p][i] = log[p][i]
  BY AppendFacts
<1>1. CASE q # p
  BY <1>1, AppendFacts DEF Staged
<1>2. CASE q = p
  <2>1. PICK i \in 1..(n + 1) :
               /\ log'[p][i] = [kind |-> "prepare", txn |-> u]
               /\ \A j \in (i + 1)..(n + 1) : log'[p][j].txn # u
    BY <1>0, <1>2 DEF Staged
  <2>2. CASE i = n + 1
    BY <1>0, <1>2, <2>1, <2>2
  <2>3. CASE i # n + 1
    <3>1. i \in 1..n /\ n + 1 \in (i + 1)..(n + 1)
      BY <1>0, <2>1, <2>3
    <3>2. e.txn # u
      BY <1>0, <2>1, <3>1
    <3>3. \A j \in (i + 1)..n : j \in 1..n /\ j \in (i + 1)..(n + 1)
      BY <1>0, <3>1
    <3>4. \A j \in (i + 1)..n : log[p][j].txn # u
      BY <1>0, <2>1, <3>3
    <3>5. log[p][i] = [kind |-> "prepare", txn |-> u]
      BY <1>0, <2>1, <3>1
    <3>6. QED BY <1>2, <3>1, <3>2, <3>4, <3>5 DEF Staged
  <2>4. QED BY <2>2, <2>3
<1>3. QED BY <1>1, <1>2

\* The ready leader holds exactly the intents that the log leaves staged.
LEMMA LeaderHoldsStaged ==
  ASSUME OrderInv, NEW p \in Part, NEW l \in Rep, applied[p][l] = Len(log[p]),
         NEW u \in Txn
  PROVE  /\ Staged(p, u) => u \in prepared[p][l]
         /\ u \in prepared[p][l] /\ InLog(p, "prepare", u) => Staged(p, u)
<1>1. \A i \in 1..Len(log[p]) :
        log[p][i] = [kind |-> "prepare", txn |-> u] =>
          (u \in prepared[p][l] <=>
             \A j \in (i + 1)..Len(log[p]) : log[p][j].txn # u)
  BY DEF OrderInv, IntentsMatch
<1>2. QED BY <1>1 DEF Staged, InLog

\* The prepare entry of a transaction stays alone in its log.
LEMMA PreparedOnceGrows ==
  ASSUME OrderInv, NEW p \in Part, NEW e \in Entry,
         log' = [log EXCEPT ![p] = Append(@, e)],
         e.kind = "prepare" => Untouched(p, e.txn),
         NEW q \in Part, NEW t \in Txn
  PROVE  \A i, j \in 1..Len(log'[q]) :
           /\ log'[q][i] = [kind |-> "prepare", txn |-> t]
           /\ log'[q][j] = [kind |-> "prepare", txn |-> t]
           => i = j
<1> DEFINE n == Len(log[p])
<1>t. TypeOK
  BY DEF OrderInv
<1>0. /\ n \in Nat /\ Len(log'[p]) = n + 1 /\ log'[p][n + 1] = e
      /\ \A i \in 1..n : log'[p][i] = log[p][i]
      /\ \A x \in Part : x # p => log'[x] = log[x]
  BY <1>t, AppendFacts
<1>1. CASE q # p
  BY <1>0, <1>1 DEF OrderInv, PreparedOnce
<1>2. CASE q = p
  <2>1. \A i \in 1..(n + 1) : i \in 1..n \/ i = n + 1
    BY <1>0
  <2>2. e = [kind |-> "prepare", txn |-> t] =>
          \A i \in 1..n : log[p][i] # [kind |-> "prepare", txn |-> t]
    BY DEF Untouched
  <2>3. \A i, j \in 1..n :
           /\ log[p][i] = [kind |-> "prepare", txn |-> t]
           /\ log[p][j] = [kind |-> "prepare", txn |-> t]
           => i = j
    BY DEF OrderInv, PreparedOnce
  <2> HIDE DEF n
  <2>4. QED BY <1>0, <1>2, <2>1, <2>2, <2>3
<1>3. QED BY <1>1, <1>2

\* Intents follow the log when it grows.
LEMMA IntentsMatchGrows ==
  ASSUME OrderInv, NEW p \in Part, NEW l \in Rep, applied[p][l] = Len(log[p]),
         NEW e \in Entry, Appends(p, l, e),
         e.kind = "prepare" => Untouched(p, e.txn)
  PROVE  IntentsMatch'
<1> DEFINE n == Len(log[p])
<1>t. TypeOK /\ AppliedPrefix /\ IntentsMatch
  BY DEF OrderInv
<1>0. /\ n \in Nat /\ Len(log'[p]) = n + 1 /\ log'[p][n + 1] = e
      /\ \A i \in 1..n : log'[p][i] = log[p][i]
      /\ \A x \in Part : x # p => log'[x] = log[x]
  BY <1>t, AppendFacts DEF Appends
<1>1. SUFFICES ASSUME NEW q \in Part, NEW r \in Rep, NEW t \in Txn,
                      NEW i \in 1..applied'[q][r],
                      log'[q][i] = [kind |-> "prepare", txn |-> t]
               PROVE  t \in prepared'[q][r] <=>
                        \A j \in (i + 1)..applied'[q][r] : log'[q][j].txn # t
  BY DEF IntentsMatch
<1>2. /\ applied[q][r] \in Nat /\ applied[q][r] <= Len(log[q])
      /\ Len(log[q]) \in Nat
  BY <1>t DEF TypeOK, AppliedPrefix
<1>3. \A k \in 1..applied[q][r] : log'[q][k] = log[q][k]
  <2>1. \A k \in 1..applied[q][r] : k \in 1..Len(log[q])
    BY <1>2
  <2>2. QED BY <1>0, <2>1
<1>4. i \in 1..applied[q][r] =>
        (t \in prepared[q][r] <=> \A j \in (i + 1)..applied[q][r] : log'[q][j].txn # t)
  <2>1. SUFFICES ASSUME i \in 1..applied[q][r]
        PROVE t \in prepared[q][r] <=> \A j \in (i + 1)..applied[q][r] : log'[q][j].txn # t
    OBVIOUS
  <2>2. \A j \in (i + 1)..applied[q][r] : j \in 1..applied[q][r]
    BY <1>2, <2>1
  <2>3. log[q][i] = [kind |-> "prepare", txn |-> t]
    BY <1>1, <1>3, <2>1
  <2>4. t \in prepared[q][r] <=> \A j \in (i + 1)..applied[q][r] : log[q][j].txn # t
    BY <1>t, <2>1, <2>3 DEF IntentsMatch
  <2>5. QED BY <1>3, <2>2, <2>4
<1>5. CASE applied'[q][r] = applied[q][r] /\ prepared'[q][r] = prepared[q][r]
  BY <1>4, <1>5
<1>6. CASE /\ q = p /\ r = l /\ applied'[q][r] = n + 1
           /\ prepared'[q][r] = EntryIntents(prepared[p][l], e)
  <2>0. applied[q][r] = n
    BY <1>6
  <2>1. CASE i = n + 1
    <3>1. e = [kind |-> "prepare", txn |-> t]
      BY <1>0, <1>1, <1>6, <2>1
    <3>2. t \in prepared'[q][r]
      BY <1>6, <3>1 DEF EntryIntents
    <3>3. \A j \in (i + 1)..(n + 1) : FALSE
      BY <1>0, <2>1
    <3>4. QED BY <1>6, <3>2, <3>3
  <2>2. CASE i # n + 1
    <3>1. i \in 1..n
      BY <1>0, <1>1, <1>6, <2>2
    <3>2. \A j \in (i + 1)..(n + 1) : j \in (i + 1)..n \/ j = n + 1
      BY <1>0
    <3>3. n + 1 \in (i + 1)..(n + 1) /\ \A j \in (i + 1)..n : j \in (i + 1)..(n + 1)
      BY <1>0, <3>1
    <3>4. (\A j \in (i + 1)..(n + 1) : log'[q][j].txn # t)
            <=> /\ \A j \in (i + 1)..n : log'[q][j].txn # t
                /\ e.txn # t
      BY <1>0, <1>6, <3>2, <3>3
    <3>5. log[p][i] = [kind |-> "prepare", txn |-> t]
      BY <1>0, <1>1, <1>6, <3>1
    <3>6. e.txn = t => e.kind # "prepare"
      BY <3>1, <3>5 DEF Untouched
    <3>7. t \in prepared'[q][r] <=> t \in prepared[p][l] /\ e.txn # t
      BY <1>6, <3>6 DEF EntryIntents
    <3>8. QED BY <1>4, <1>6, <2>0, <3>1, <3>4, <3>7
  <2>3. QED BY <2>1, <2>2
<1>7. QED BY <1>t, <1>5, <1>6, AppendsFacts

\* Publishing the lowest staged timestamp keeps the order.
LEMMA OrderGrows ==
  ASSUME OrderInv, NEW p \in Part, NEW l \in Rep, applied[p][l] = Len(log[p]),
         NEW e \in Entry, log' = [log EXCEPT ![p] = Append(@, e)],
         e.kind = "prepare" => AboveFloor(p, e.txn),
         e.kind = "commit" => /\ Staged(p, e.txn)
                              /\ \A u \in prepared[p][l] : TS[u] >= TS[e.txn]
  PROVE  StagedAbove' /\ CommitsInOrder'
<1> DEFINE n == Len(log[p])
<1>t. TypeOK
  BY DEF OrderInv
<1>0. /\ n \in Nat /\ Len(log'[p]) = n + 1 /\ log'[p][n + 1] = e
      /\ \A i \in 1..n : log'[p][i] = log[p][i]
      /\ \A x \in Part : x # p => log'[x] = log[x]
  BY <1>t, AppendFacts
<1>e. e.txn \in Txn /\ e.kind \in {"prepare", "commit", "rollback"}
      /\ \A k, u : e = [kind |-> k, txn |-> u] <=> e.kind = k /\ e.txn = u
  BY DEF Entry
<1>1. StagedAbove'
  <2>1. SUFFICES ASSUME NEW q \in Part, NEW t \in Txn, NEW u \in Txn,
                        Staged(q, t)', InLog(q, "commit", u)'
                 PROVE  TS[u] < TS[t]
    BY DEF StagedAbove
  <2>2. \/ Staged(q, t) /\ (q # p \/ e.txn # t)
        \/ q = p /\ e = [kind |-> "prepare", txn |-> t]
    BY <1>t, <2>1, StagedShrinks
  <2>3. InLog(q, "commit", u) \/ (q = p /\ e = [kind |-> "commit", txn |-> u])
    BY <1>t, <2>1, InLogAppend
  <2>4. CASE Staged(q, t) /\ InLog(q, "commit", u)
    BY <2>4 DEF OrderInv, StagedAbove
  <2>5. CASE /\ Staged(q, t) /\ (q # p \/ e.txn # t)
             /\ q = p /\ e = [kind |-> "commit", txn |-> u]
    <3>1. t \in prepared[p][l]
      BY <2>5, LeaderHoldsStaged
    <3>2. e.kind = "commit" /\ e.txn = u
      BY <2>5
    <3>3. TS[t] >= TS[u] /\ t # u
      BY <2>5, <3>1, <3>2
    <3>4. QED BY <3>3, TwoPhaseAssumption
  <2>6. CASE /\ q = p /\ e = [kind |-> "prepare", txn |-> t]
             /\ InLog(q, "commit", u)
    BY <2>6 DEF AboveFloor
  <2>7. QED BY <2>2, <2>3, <2>4, <2>5, <2>6
<1>2. CommitsInOrder'
  <2>1. SUFFICES ASSUME NEW q \in Part, NEW i \in 1..Len(log'[q]),
                        NEW j \in 1..Len(log'[q]), i < j,
                        log'[q][i].kind = "commit", log'[q][j].kind = "commit"
                 PROVE  TS[log'[q][i].txn] < TS[log'[q][j].txn]
    BY DEF CommitsInOrder
  <2>2. CASE q # p
    BY <1>0, <2>1, <2>2 DEF OrderInv, CommitsInOrder
  <2>3. CASE q = p /\ j # n + 1
    <3>1. i \in 1..n /\ j \in 1..n
      BY <1>0, <2>1, <2>3
    <3>2. QED BY <1>0, <2>1, <2>3, <3>1 DEF OrderInv, CommitsInOrder
  <2>4. CASE q = p /\ j = n + 1
    <3>1. i \in 1..n /\ e.kind = "commit" /\ log'[q][j] = e /\ log'[q][i] = log[p][i]
      BY <1>0, <2>1, <2>4
    <3>2. log[p][i] \in Entry
      BY <1>t, <3>1 DEF TypeOK
    <3>3. log[p][i] = [kind |-> "commit", txn |-> log[p][i].txn] /\ log[p][i].txn \in Txn
      BY <2>1, <3>1, <3>2 DEF Entry
    <3>4. InLog(p, "commit", log[p][i].txn)
      BY <3>1, <3>3 DEF InLog
    <3>5. Staged(p, e.txn)
      BY <3>1
    <3>6. QED BY <1>e, <3>1, <3>3, <3>4, <3>5 DEF OrderInv, StagedAbove
  <2>5. QED BY <2>2, <2>3, <2>4
<1>3. QED BY <1>1, <1>2

\* A step that keeps logs, applied indices, coordinators and records, only
\* takes requests and yes votes away, and adds at most an intent that was
\* delivered, keeps the order invariant.
LEMMA OrderLeader ==
  ASSUME OrderInv, TypeOK', AppliedPrefix',
         UNCHANGED <<log, applied, coord, decisions>>,
         \A u \in Txn : \A q \in Part :
           /\ inflight'[u][q] > 0 => inflight[u][q] > 0
           /\ votes'[u][q] = "yes" => votes[u][q] = "yes"
           /\ \A r \in Rep : ~(u \in prepared'[q][r] <=> u \in prepared[q][r]) =>
                Untouched(q, u) /\ coord[u] # "idle" /\ ~(inflight'[u][q] > 0)
  PROVE  OrderInv'
<1>1. /\ \A p, k, t : InLog(p, k, t)' <=> InLog(p, k, t)
      /\ \A p, t : Staged(p, t)' <=> Staged(p, t)
  BY DEF InLog, Staged
<1>2. CommitsInOrder' /\ StagedAbove'
  BY <1>1 DEF OrderInv, CommitsInOrder, StagedAbove
<1>3. IntentsMatch'
  <2>1. SUFFICES ASSUME NEW p \in Part, NEW r \in Rep, NEW t \in Txn,
                        NEW i \in 1..applied[p][r],
                        log[p][i] = [kind |-> "prepare", txn |-> t]
                 PROVE  t \in prepared'[p][r] <=>
                          \A j \in (i + 1)..applied[p][r] : log[p][j].txn # t
    BY DEF IntentsMatch
  <2>2. i \in 1..Len(log[p])
    <3>1. applied[p][r] \in Nat /\ Len(log[p]) \in Nat /\ applied[p][r] <= Len(log[p])
      BY DEF OrderInv, TypeOK, AppliedPrefix
    <3>2. QED BY <3>1
  <2>3. ~Untouched(p, t)
    BY <2>1, <2>2 DEF Untouched
  <2>4. t \in prepared'[p][r] <=> t \in prepared[p][r]
    BY <2>3
  <2>5. QED BY <2>1, <2>4 DEF OrderInv, IntentsMatch
<1>4. PreparedOnce'
  <2>1. SUFFICES ASSUME NEW t \in Txn, NEW p \in Part
        PROVE  /\ coord[t] = "idle" => inflight'[t][p] = 0
               /\ coord[t] = "idle" \/ inflight'[t][p] > 0 => Untouched(p, t)'
               /\ \A i, j \in 1..Len(log[p]) :
                    /\ log[p][i] = [kind |-> "prepare", txn |-> t]
                    /\ log[p][j] = [kind |-> "prepare", txn |-> t]
                    => i = j
    BY DEF PreparedOnce
  <2>2. inflight'[t][p] \in Nat /\ inflight[t][p] \in Nat
    BY TwoPhaseAssumption DEF OrderInv, TypeOK
  <2>2a. coord[t] = "idle" => inflight[t][p] = 0
    BY DEF OrderInv, PreparedOnce
  <2>3. coord[t] = "idle" => inflight'[t][p] = 0
    BY <2>2, <2>2a
  <2>4. ASSUME coord[t] = "idle" \/ inflight'[t][p] > 0 PROVE Untouched(p, t)'
    <3>1. Untouched(p, t)
      BY <2>4 DEF OrderInv, PreparedOnce
    <3>2. \A r \in Rep : t \in prepared'[p][r] <=> t \in prepared[p][r]
      BY <2>4
    <3>3. QED BY <3>1, <3>2 DEF Untouched
  <2>5. QED BY <2>3, <2>4 DEF OrderInv, PreparedOnce
<1>5. VotesAreLogged'
  <2>1. SUFFICES ASSUME NEW t \in Txn
        PROVE  /\ \A p \in Part : votes'[t][p] = "yes" => InLog(p, "prepare", t)
               /\ \/ coord[t] \in {"staged", "committing", "cleanup"}
                  \/ decisions[t].st \in {"staging", "committed"}
                  => \A p \in Participants[t] : InLog(p, "prepare", t)
               /\ decisions[t].st \in {"staging", "committed"}
                    => decisions[t].participants = Participants[t]
    BY <1>1 DEF VotesAreLogged
  <2>2. QED BY DEF OrderInv, VotesAreLogged
<1>6. QED BY <1>2, <1>3, <1>4, <1>5 DEF OrderInv

\* Without its ready leader a partition has applied a prefix as before.
LEMMA LeaderLostPrefix ==
  ASSUME TypeOK, AppliedPrefix, NEW p \in Part,
         leader' = [leader EXCEPT ![p] = NoLeader], UNCHANGED <<log, applied>>
  PROVE  AppliedPrefix'
<1>1. \A q \in Part : leader'[q] \in {leader[q], NoLeader}
  BY DEF TypeOK
<1>2. QED BY <1>1 DEF AppliedPrefix

\* An append keeps the order invariant: a prepare of an unknown transaction
\* above the floor, a commit of the lowest intent, or a rollback of a known one.
LEMMA OrderAppend ==
  ASSUME OrderInv, TypeOK', AppliedPrefix',
         NEW p \in Part, NEW l \in Rep, applied[p][l] = Len(log[p]),
         NEW e \in Entry, Appends(p, l, e),
         e.kind = "prepare" => Untouched(p, e.txn) /\ AboveFloor(p, e.txn),
         e.kind = "commit" => /\ Staged(p, e.txn)
                              /\ \A u \in prepared[p][l] : TS[u] >= TS[e.txn],
         coord[e.txn] # "idle", ~(inflight'[e.txn][p] > 0),
         UNCHANGED <<coord, decisions>>,
         \A u \in Txn : \A q \in Part :
           /\ inflight'[u][q] > 0 => inflight[u][q] > 0
           /\ votes'[u][q] = "yes" =>
                \/ votes[u][q] = "yes"
                \/ q = p /\ e = [kind |-> "prepare", txn |-> u]
  PROVE  OrderInv'
<1>t. TypeOK /\ log' = [log EXCEPT ![p] = Append(@, e)]
  BY DEF OrderInv, Appends
<1>1. StagedAbove' /\ CommitsInOrder'
  BY <1>t, OrderGrows
<1>2. IntentsMatch'
  BY IntentsMatchGrows
<1>l. \A q \in Part : \A k, u : InLog(q, k, u)' <=>
           InLog(q, k, u) \/ (q = p /\ e = [kind |-> k, txn |-> u])
  BY <1>t, InLogAppend
<1>3. VotesAreLogged'
  <2>1. SUFFICES ASSUME NEW t \in Txn
        PROVE  /\ \A q \in Part : votes'[t][q] = "yes" => InLog(q, "prepare", t)'
               /\ \/ coord[t] \in {"staged", "committing", "cleanup"}
                  \/ decisions[t].st \in {"staging", "committed"}
                  => \A q \in Participants[t] : InLog(q, "prepare", t)'
               /\ decisions[t].st \in {"staging", "committed"}
                    => decisions[t].participants = Participants[t]
    BY DEF VotesAreLogged
  <2>2. Participants[t] \in SUBSET Part
    BY TwoPhaseAssumption
  <2>3. QED BY <1>l, <2>2 DEF OrderInv, VotesAreLogged
<1>4. ASSUME NEW q \in Part, NEW t \in Txn, Untouched(q, t), q # p \/ t # e.txn
      PROVE  Untouched(q, t)'
  <2>1. /\ Len(log[p]) \in Nat
        /\ Len(log'[p]) = Len(log[p]) + 1 /\ log'[p][Len(log[p]) + 1] = e
        /\ \A i \in 1..Len(log[p]) : log'[p][i] = log[p][i]
        /\ \A x \in Part : x # p => log'[x] = log[x]
    BY <1>t, AppendFacts
  <2>2. \A i \in 1..Len(log'[q]) : log'[q][i].txn # t
    <3>1. CASE q # p
      BY <1>4, <2>1, <3>1 DEF Untouched
    <3>2. CASE q = p
      <4>1. \A i \in 1..(Len(log[p]) + 1) : i \in 1..Len(log[p]) \/ i = Len(log[p]) + 1
        BY <2>1
      <4>2. QED BY <1>4, <2>1, <3>2, <4>1 DEF Untouched
    <3>3. QED BY <3>1, <3>2
  <2>3. \A r \in Rep : t \notin prepared'[q][r]
    <3>1. SUFFICES ASSUME NEW r \in Rep PROVE t \notin prepared'[q][r]
      OBVIOUS
    <3>2. \/ prepared'[q][r] = prepared[q][r]
          \/ q = p /\ r = l /\ prepared'[q][r] = EntryIntents(prepared[p][l], e)
      BY <1>t, AppendsFacts
    <3>3. QED BY <1>4, <3>2 DEF Untouched, EntryIntents
  <2>4. QED BY <2>2, <2>3 DEF Untouched
<1>5. PreparedOnce'
  <2>1. SUFFICES ASSUME NEW t \in Txn, NEW q \in Part
        PROVE  /\ coord[t] = "idle" => inflight'[t][q] = 0
               /\ coord[t] = "idle" \/ inflight'[t][q] > 0 => Untouched(q, t)'
               /\ \A i, j \in 1..Len(log'[q]) :
                    /\ log'[q][i] = [kind |-> "prepare", txn |-> t]
                    /\ log'[q][j] = [kind |-> "prepare", txn |-> t]
                    => i = j
    BY DEF PreparedOnce
  <2>2. inflight'[t][q] \in Nat /\ inflight[t][q] \in Nat
    BY TwoPhaseAssumption DEF OrderInv, TypeOK
  <2>2a. coord[t] = "idle" => inflight[t][q] = 0
    BY DEF OrderInv, PreparedOnce
  <2>3. coord[t] = "idle" => inflight'[t][q] = 0
    BY <2>2, <2>2a
  <2>4. coord[t] = "idle" \/ inflight'[t][q] > 0 => Untouched(q, t)'
    BY <1>4 DEF OrderInv, PreparedOnce
  <2>5. \A i, j \in 1..Len(log'[q]) :
          /\ log'[q][i] = [kind |-> "prepare", txn |-> t]
          /\ log'[q][j] = [kind |-> "prepare", txn |-> t]
          => i = j
    BY <1>t, PreparedOnceGrows
  <2>6. QED BY <2>3, <2>4, <2>5
<1>6. QED BY <1>1, <1>2, <1>3, <1>5 DEF OrderInv

\* A delivery with nothing of its transaction in the partition.
LEMMA DeliverOnce ==
  ASSUME OrderInv, Deliveries <= 1, NEW t \in Txn, NEW p \in Part,
         inflight[t][p] > 0, inflight' = [inflight EXCEPT ![t][p] = @ - 1]
  PROVE  /\ Untouched(p, t) /\ coord[t] # "idle" /\ ~(inflight'[t][p] > 0)
         /\ \A u \in Txn : \A q \in Part : inflight'[u][q] > 0 => inflight[u][q] > 0
<1>1. inflight \in [Txn -> [Part -> 0..Deliveries]] /\ Deliveries \in Nat
  BY TwoPhaseAssumption DEF OrderInv, TypeOK
<1>2. inflight[t][p] \in 0..Deliveries
  BY <1>1
<1>3. inflight[t][p] = 1
  BY <1>1, <1>2
<1>4. inflight'[t] = [inflight[t] EXCEPT ![p] = 0] /\ \A u \in Txn : u # t => inflight'[u] = inflight[u]
  BY <1>1, <1>3
<1>5. inflight[t] \in [Part -> 0..Deliveries]
  BY <1>1
<1>6. inflight'[t][p] = 0 /\ \A q \in Part : q # p => inflight'[t][q] = inflight[t][q]
  BY <1>4, <1>5
<1>7. Untouched(p, t) /\ coord[t] # "idle"
  <2>1. /\ coord[t] = "idle" => inflight[t][p] = 0
        /\ coord[t] = "idle" \/ inflight[t][p] > 0 => Untouched(p, t)
    BY DEF OrderInv, PreparedOnce
  <2>2. QED BY <1>3, <2>1
<1>8. \A u \in Txn : \A q \in Part : inflight'[u][q] > 0 => inflight[u][q] > 0
  BY <1>4, <1>6
<1>9. QED BY <1>6, <1>7, <1>8

\* A known transaction has left the idle state and has no request on its way.
LEMMA KnownIsStarted ==
  ASSUME OrderInv, NEW t \in Txn, NEW p \in Part, ~Untouched(p, t)
  PROVE  coord[t] # "idle" /\ ~(inflight[t][p] > 0)
BY DEF OrderInv, PreparedOnce

\* The ready leader has applied the log to its end.
LEMMA ReadyLeader ==
  ASSUME OrderInv, NEW p \in Part, leader[p] # NoLeader
  PROVE  leader[p] \in Rep /\ applied[p][leader[p]] = Len(log[p])
BY DEF OrderInv, TypeOK, AppliedPrefix

\* PrepareAccepted keeps the order invariant.
LEMMA OrderAccept ==
  ASSUME OrderInv, TypeOK', Deliveries <= 1, NEW t \in Txn, NEW p \in Part,
         PrepareAccepted(t, p)
  PROVE  OrderInv'
<1>1. PICK e : e = [kind |-> "prepare", txn |-> t]
  OBVIOUS
<1>2. PICK l : l = leader[p]
  OBVIOUS
<1>3. e \in Entry /\ e.kind = "prepare" /\ e.txn = t
  BY <1>1, Names
<1>4. l \in Rep /\ applied[p][l] = Len(log[p]) /\ leader[p] = l
  BY <1>2, ReadyLeader DEF PrepareAccepted, Deliver
<1>5. /\ Untouched(p, t) /\ coord[t] # "idle" /\ ~(inflight'[t][p] > 0)
      /\ \A u \in Txn : \A q \in Part : inflight'[u][q] > 0 => inflight[u][q] > 0
  BY DeliverOnce DEF PrepareAccepted, Deliver
<1>6. AboveFloor(p, t)
  BY <1>2, <1>4, <1>5 DEF PrepareAccepted, Untouched
<1>7. LeaderAppends(p, l, e, EntryIntents(prepared[p][l], e))
  BY <1>1, <1>2, <1>3 DEF PrepareAccepted, EntryIntents
<1>8. Appends(p, l, e)
  BY <1>7 DEF LeaderAppends, Appends
<1>9. TypeOK /\ AppliedPrefix /\ UNCHANGED leader
  BY DEF OrderInv, PrepareAccepted
<1>10. AppliedPrefix'
  BY <1>3, <1>4, <1>7, <1>9, AppliedPrefixGrows DEF LeaderAppends
<1>11. \A u \in Txn : \A q \in Part : votes'[u][q] = "yes" =>
                \/ votes[u][q] = "yes"
                \/ q = p /\ e = [kind |-> "prepare", txn |-> u]
  BY <1>1, <1>9, VoteFacts DEF PrepareAccepted
<1>12. UNCHANGED <<coord, decisions>>
  BY DEF PrepareAccepted
<1>13. QED BY <1>3, <1>4, <1>5, <1>6, <1>8, <1>10, <1>11, <1>12, OrderAppend

\* An interrupted prepare keeps it, whether or not its entry is committed.
LEMMA OrderInterrupted ==
  ASSUME OrderInv, TypeOK', Deliveries <= 1, NEW t \in Txn, NEW p \in Part,
         PrepareInterrupted(t, p)
  PROVE  OrderInv'
<1>1. PICK e : e = [kind |-> "prepare", txn |-> t]
  OBVIOUS
<1>2. PICK l : l = leader[p]
  OBVIOUS
<1>3. e \in Entry /\ e.kind = "prepare" /\ e.txn = t
  BY <1>1, Names
<1>4. l \in Rep /\ applied[p][l] = Len(log[p]) /\ leader[p] = l
  BY <1>2, ReadyLeader DEF PrepareInterrupted, Deliver
<1>5. /\ Untouched(p, t) /\ coord[t] # "idle" /\ ~(inflight'[t][p] > 0)
      /\ \A u \in Txn : \A q \in Part : inflight'[u][q] > 0 => inflight[u][q] > 0
  BY DeliverOnce DEF PrepareInterrupted, Deliver
<1>6. AboveFloor(p, t)
  BY <1>2, <1>4, <1>5 DEF PrepareInterrupted, Untouched
<1>7. prepared' = prepared
  <2>1. prepared' = [prepared EXCEPT ![p][l] = prepared[p][l] \ {t}]
    BY <1>2, <1>4 DEF PrepareInterrupted
  <2>2. prepared[p][l] \ {t} = prepared[p][l]
    BY <1>4, <1>5 DEF Untouched
  <2>3. prepared \in [Part -> [Rep -> SUBSET Txn]]
    BY DEF OrderInv, TypeOK
  <2>4. QED BY <2>1, <2>2, <2>3
<1>9. /\ TypeOK /\ AppliedPrefix /\ applied' = applied
      /\ leader' = [leader EXCEPT ![p] = NoLeader]
      /\ UNCHANGED <<coord, decisions>>
  BY DEF OrderInv, PrepareInterrupted, LeaderLost
<1>11. \A u \in Txn : \A q \in Part : votes'[u][q] = "yes" => votes[u][q] = "yes"
  BY <1>9, VoteFacts DEF PrepareInterrupted
<1>12. CASE log' = [log EXCEPT ![p] = Append(@, [kind |-> "prepare", txn |-> t])]
  <2>1. log' = [log EXCEPT ![p] = Append(@, e)]
    BY <1>1, <1>12
  <2>2. Appends(p, l, e)
    BY <1>7, <1>9, <2>1 DEF Appends
  <2>3. AppliedPrefix'
    BY <1>3, <1>4, <1>9, <2>1, AppliedPrefixGrows
  <2>4. QED BY <1>3, <1>4, <1>5, <1>6, <1>9, <1>11, <2>2, <2>3, OrderAppend
<1>13. CASE UNCHANGED log
  <2>1. AppliedPrefix'
    BY <1>9, <1>13, LeaderLostPrefix
  <2>2. QED BY <1>5, <1>7, <1>9, <1>11, <1>13, <2>1, OrderLeader
<1>14. QED BY <1>12, <1>13 DEF PrepareInterrupted

\* A crash before the proposal leaves an intent that no log knows.
LEMMA OrderCrash ==
  ASSUME OrderInv, TypeOK', Deliveries <= 1, NEW t \in Txn, NEW p \in Part,
         PrepareCrash(t, p)
  PROVE  OrderInv'
<1>1. PICK l : l = leader[p]
  OBVIOUS
<1>2. l \in Rep
  BY <1>1, ReadyLeader DEF PrepareCrash, Deliver
<1>3. /\ Untouched(p, t) /\ coord[t] # "idle" /\ ~(inflight'[t][p] > 0)
      /\ \A u \in Txn : \A q \in Part : inflight'[u][q] > 0 => inflight[u][q] > 0
  BY DeliverOnce DEF PrepareCrash, Deliver
<1>4. /\ TypeOK /\ AppliedPrefix /\ UNCHANGED <<log, applied, coord, decisions>>
      /\ leader' = [leader EXCEPT ![p] = NoLeader]
  BY DEF OrderInv, PrepareCrash, LeaderLost
<1>5. AppliedPrefix'
  BY <1>4, LeaderLostPrefix
<1>6. \A u \in Txn : \A q \in Part : votes'[u][q] = "yes" => votes[u][q] = "yes"
  BY <1>4, VoteFacts DEF PrepareCrash
<1>7. \A u \in Txn : \A q \in Part : \A r \in Rep :
        ~(u \in prepared'[q][r] <=> u \in prepared[q][r]) => u = t /\ q = p
  <2>1. prepared' = [prepared EXCEPT ![p][l] = prepared[p][l] \cup {t}]
    BY <1>1, <1>2 DEF PrepareCrash
  <2>2. /\ prepared'[p] = [prepared[p] EXCEPT ![l] = prepared[p][l] \cup {t}]
        /\ prepared[p] \in [Rep -> SUBSET Txn]
        /\ \A q \in Part : q # p => prepared'[q] = prepared[q]
    BY <1>4, <2>1 DEF TypeOK
  <2>3. QED BY <2>2
<1>8. QED BY <1>3, <1>4, <1>5, <1>6, <1>7, OrderLeader

\* A commit that is asked for is a commit of a staged intent.
LEMMA CommitIsStaged ==
  ASSUME OrderInv, NEW t \in Txn, NEW p \in Part,
         \/ decisions[t].st = "committed" /\ p \in decisions[t].participants
         \/ coord[t] \in {"committing", "cleanup"} /\ p \in Participants[t],
         leader[p] # NoLeader, t \in prepared[p][leader[p]]
  PROVE  /\ Staged(p, t) /\ coord[t] # "idle" /\ ~(inflight[t][p] > 0)
<1>1. InLog(p, "prepare", t)
  BY DEF OrderInv, VotesAreLogged
<1>2. leader[p] \in Rep /\ applied[p][leader[p]] = Len(log[p])
  BY ReadyLeader
<1>3. Staged(p, t)
  BY <1>1, <1>2, LeaderHoldsStaged
<1>4. ~Untouched(p, t)
  BY <1>2 DEF Untouched
<1>5. QED BY <1>3, <1>4, KnownIsStarted

\* CommitPrepared, asked for by the coordinator or by a watcher.
LEMMA OrderCommit ==
  ASSUME OrderInv, TypeOK', NEW t \in Txn, NEW p \in Part,
         \/ decisions[t].st = "committed" /\ p \in decisions[t].participants
         \/ coord[t] \in {"committing", "cleanup"} /\ p \in Participants[t],
         CommitPrepared(t, p), UNCHANGED <<decisions, coordVars>>
  PROVE  OrderInv'
<1>1. PICK e : e = [kind |-> "commit", txn |-> t]
  OBVIOUS
<1>2. PICK l : l = leader[p]
  OBVIOUS
<1>3. e \in Entry /\ e.kind = "commit" /\ e.txn = t
  BY <1>1, Names
<1>4. l \in Rep /\ applied[p][l] = Len(log[p]) /\ leader[p] = l
  BY <1>2, ReadyLeader DEF CommitPrepared
<1>5. /\ Staged(p, t) /\ coord[t] # "idle" /\ ~(inflight'[t][p] > 0)
      /\ \A u \in prepared[p][l] : TS[u] >= TS[t]
  BY <1>2, CommitIsStaged DEF CommitPrepared, NoPredecessor, coordVars
<1>7. LeaderAppends(p, l, e, EntryIntents(prepared[p][l], e))
  BY <1>1, <1>2, <1>3 DEF CommitPrepared, EntryIntents
<1>8. Appends(p, l, e)
  BY <1>7 DEF LeaderAppends, Appends
<1>9. TypeOK /\ AppliedPrefix /\ UNCHANGED leader
  BY DEF OrderInv, CommitPrepared
<1>10. AppliedPrefix'
  BY <1>3, <1>4, <1>7, <1>9, AppliedPrefixGrows DEF LeaderAppends
<1>11. UNCHANGED <<coord, decisions, votes, inflight>>
  BY DEF coordVars
<1>12. QED BY <1>3, <1>4, <1>5, <1>8, <1>10, <1>11, OrderAppend

\* A commit proposal that meets the loss of leadership.
LEMMA OrderCommitLost ==
  ASSUME OrderInv, TypeOK', NEW t \in Txn, NEW p \in Part, CommitLost(t, p)
  PROVE  OrderInv'
<1>1. PICK e : e = [kind |-> "commit", txn |-> t]
  OBVIOUS
<1>2. PICK l : l = leader[p]
  OBVIOUS
<1>3. e \in Entry /\ e.kind = "commit" /\ e.txn = t
  BY <1>1, Names
<1>4. l \in Rep /\ applied[p][l] = Len(log[p]) /\ leader[p] = l
  BY <1>2, ReadyLeader DEF CommitLost, CommitInterrupted
<1>5. /\ Staged(p, t) /\ coord[t] # "idle" /\ ~(inflight'[t][p] > 0)
      /\ \A u \in prepared[p][l] : TS[u] >= TS[t]
  BY <1>2, CommitIsStaged DEF CommitLost, CommitInterrupted, NoPredecessor, coordVars
<1>9. /\ TypeOK /\ AppliedPrefix /\ applied' = applied /\ prepared' = prepared
      /\ leader' = [leader EXCEPT ![p] = NoLeader]
      /\ UNCHANGED <<coord, decisions, votes, inflight>>
  BY DEF OrderInv, CommitLost, CommitInterrupted, LeaderLost, coordVars
<1>12. CASE log' = [log EXCEPT ![p] = Append(@, [kind |-> "commit", txn |-> t])]
  <2>1. log' = [log EXCEPT ![p] = Append(@, e)]
    BY <1>1, <1>12
  <2>2. Appends(p, l, e)
    BY <1>9, <2>1 DEF Appends
  <2>3. AppliedPrefix'
    BY <1>3, <1>4, <1>9, <2>1, AppliedPrefixGrows
  <2>4. QED BY <1>3, <1>4, <1>5, <1>9, <2>2, <2>3, OrderAppend
<1>13. CASE UNCHANGED log
  <2>1. AppliedPrefix'
    BY <1>9, <1>13, LeaderLostPrefix
  <2>2. QED BY <1>9, <1>13, <2>1, OrderLeader
<1>14. QED BY <1>12, <1>13 DEF CommitLost, CommitInterrupted

\* RollbackPrepared, whoever asks for it.
LEMMA OrderRollback ==
  ASSUME OrderInv, TypeOK', NEW t \in Txn, NEW p \in Part,
         RollbackPrepared(t, p), UNCHANGED <<decisions, coordVars>>
  PROVE  OrderInv'
<1>1. PICK e : e = [kind |-> "rollback", txn |-> t]
  OBVIOUS
<1>2. PICK l : l = leader[p]
  OBVIOUS
<1>3. e \in Entry /\ e.kind = "rollback" /\ e.txn = t
  BY <1>1, Names
<1>4. l \in Rep /\ applied[p][l] = Len(log[p]) /\ leader[p] = l
  BY <1>2, ReadyLeader DEF RollbackPrepared
<1>5. /\ TypeOK /\ AppliedPrefix /\ UNCHANGED leader
      /\ UNCHANGED <<coord, decisions, votes, inflight>>
  BY DEF OrderInv, RollbackPrepared, coordVars
<1>6. CASE Staged(p, t) \/ \E r \in Rep : Holds(p, r, t)
  <2>1. ~Untouched(p, t)
    BY <1>6 DEF Untouched, Staged, Holds
  <2>2. coord[t] # "idle" /\ ~(inflight'[t][p] > 0)
    BY <1>5, <2>1, KnownIsStarted
  <2>3. LeaderAppends(p, l, e, EntryIntents(prepared[p][l], e))
    BY <1>1, <1>2, <1>3, <1>6 DEF RollbackPrepared, EntryIntents
  <2>4. Appends(p, l, e)
    BY <2>3 DEF LeaderAppends, Appends
  <2>5. AppliedPrefix'
    BY <1>3, <1>4, <1>5, <2>3, AppliedPrefixGrows DEF LeaderAppends
  <2>6. QED BY <1>3, <1>4, <1>5, <2>2, <2>4, <2>5, OrderAppend
<1>7. CASE ~(Staged(p, t) \/ \E r \in Rep : Holds(p, r, t))
  <2>1. UNCHANGED <<log, applied, prepared>>
    BY <1>7 DEF RollbackPrepared
  <2>2. AppliedPrefix'
    BY <1>5, <2>1 DEF AppliedPrefix
  <2>3. QED BY <1>5, <2>1, <2>2, OrderLeader
<1>8. QED BY <1>6, <1>7

\* A replica that applies the next entry holds what the log says.
LEMMA OrderApply ==
  ASSUME OrderInv, TypeOK', NEW p \in Part, NEW r \in Rep, Apply(p, r)
  PROVE  OrderInv'
<1> DEFINE a == applied[p][r]
<1>1. PICK e : e = log[p][a + 1]
  OBVIOUS
<1>2. /\ a \in Nat /\ Len(log[p]) \in Nat /\ a < Len(log[p])
      /\ a + 1 \in 1..Len(log[p])
  BY DEF OrderInv, TypeOK, Apply
<1>3. e \in Entry
  BY <1>1, <1>2 DEF OrderInv, TypeOK
<1>4. e.txn \in Txn /\ \A k, u : e = [kind |-> k, txn |-> u] <=> e.kind = k /\ e.txn = u
  BY <1>3 DEF Entry
<1>5. /\ applied'[p][r] = a + 1 /\ prepared'[p][r] = EntryIntents(prepared[p][r], e)
      /\ \A q \in Part : \A s \in Rep : q # p \/ s # r =>
           applied'[q][s] = applied[q][s] /\ prepared'[q][s] = prepared[q][s]
  <2>1. /\ applied' = [applied EXCEPT ![p][r] = a + 1]
        /\ prepared' = [prepared EXCEPT ![p][r] = EntryIntents(prepared[p][r], e)]
    BY <1>1 DEF Apply, EntryIntents
  <2>2. /\ applied'[p] = [applied[p] EXCEPT ![r] = a + 1]
        /\ applied[p] \in [Rep -> Nat]
        /\ \A q \in Part : q # p => applied'[q] = applied[q]
    BY <2>1 DEF OrderInv, TypeOK
  <2>3. /\ prepared'[p] = [prepared[p] EXCEPT ![r] = EntryIntents(prepared[p][r], e)]
        /\ prepared[p] \in [Rep -> SUBSET Txn]
        /\ \A q \in Part : q # p => prepared'[q] = prepared[q]
    BY <2>1 DEF OrderInv, TypeOK
  <2>4. QED BY <2>2, <2>3
<1>6. UNCHANGED <<log, leader, decisions, coord, votes, inflight>>
  BY DEF Apply, coordVars
<1>7. AppliedPrefix'
  <2>1. \A q \in Part : leader[q] \in Rep \cup {NoLeader}
    BY DEF OrderInv, TypeOK
  <2>2. leader[p] # r \/ r = NoLeader
    BY <1>2 DEF OrderInv, AppliedPrefix
  <2>3. \A q \in Part : \A s \in Rep : applied'[q][s] <= Len(log[q])
    BY <1>2, <1>5 DEF OrderInv, AppliedPrefix
  <2>4. \A q \in Part : leader[q] # NoLeader => applied'[q][leader[q]] = Len(log[q])
    BY <1>5, <2>1, <2>2, TwoPhaseAssumption DEF OrderInv, AppliedPrefix
  <2>5. QED BY <1>6, <2>3, <2>4 DEF AppliedPrefix
<1>8. /\ \A q, k, t : InLog(q, k, t)' <=> InLog(q, k, t)
      /\ \A q, t : Staged(q, t)' <=> Staged(q, t)
  BY <1>6 DEF InLog, Staged
<1>9. CommitsInOrder' /\ StagedAbove'
  BY <1>6, <1>8 DEF OrderInv, CommitsInOrder, StagedAbove
<1>10. VotesAreLogged'
  BY <1>6, <1>8 DEF OrderInv, VotesAreLogged
<1>11. PreparedOnce'
  <2>1. ~Untouched(p, e.txn)
    BY <1>1, <1>2 DEF Untouched
  <2>2. ASSUME NEW q \in Part, NEW t \in Txn, Untouched(q, t) PROVE Untouched(q, t)'
    <3>1. q # p \/ t # e.txn
      BY <2>1, <2>2
    <3>2. \A s \in Rep : t \notin prepared'[q][s]
      BY <1>5, <2>2, <3>1 DEF Untouched, EntryIntents
    <3>3. QED BY <1>6, <2>2, <3>2 DEF Untouched
  <2>3. QED BY <1>6, <2>2 DEF OrderInv, PreparedOnce
<1>12. IntentsMatch'
  <2>1. SUFFICES ASSUME NEW q \in Part, NEW s \in Rep, NEW t \in Txn,
                        NEW i \in 1..applied'[q][s],
                        log[q][i] = [kind |-> "prepare", txn |-> t]
                 PROVE  t \in prepared'[q][s] <=>
                          \A j \in (i + 1)..applied'[q][s] : log[q][j].txn # t
    BY <1>6 DEF IntentsMatch
  <2>2. CASE q # p \/ s # r
    BY <1>5, <2>1, <2>2 DEF OrderInv, IntentsMatch
  <2>3. CASE q = p /\ s = r /\ i = a + 1
    <3>1. t \in prepared'[q][s]
      BY <1>1, <1>5, <2>1, <2>3 DEF EntryIntents
    <3>2. \A j \in (i + 1)..(a + 1) : FALSE
      BY <1>2, <2>3
    <3>3. QED BY <1>5, <2>3, <3>1, <3>2
  <2>4. CASE q = p /\ s = r /\ i # a + 1
    <3>1. i \in 1..a
      BY <1>2, <1>5, <2>1, <2>4
    <3>2. t \in prepared[p][r] <=> \A j \in (i + 1)..a : log[p][j].txn # t
      BY <2>1, <2>4, <3>1 DEF OrderInv, IntentsMatch
    <3>3. /\ \A j \in (i + 1)..(a + 1) : j \in (i + 1)..a \/ j = a + 1
          /\ a + 1 \in (i + 1)..(a + 1)
          /\ \A j \in (i + 1)..a : j \in (i + 1)..(a + 1)
      BY <1>2, <3>1
    <3>4. (\A j \in (i + 1)..(a + 1) : log[p][j].txn # t)
            <=> (\A j \in (i + 1)..a : log[p][j].txn # t) /\ e.txn # t
      BY <1>1, <3>3
    <3>5. i \in 1..Len(log[p]) /\ i # a + 1
      BY <1>2, <3>1
    <3>6. e # [kind |-> "prepare", txn |-> t]
      BY <1>1, <1>2, <2>1, <2>4, <3>5 DEF OrderInv, PreparedOnce
    <3>7. e.txn = t => e.kind # "prepare"
      BY <1>4, <3>6
    <3>8. t \in prepared'[p][r] <=> t \in prepared[p][r] /\ e.txn # t
      BY <1>5, <3>7 DEF EntryIntents
    <3>9. QED BY <1>5, <2>4, <3>2, <3>4, <3>8
  <2>5. QED BY <2>2, <2>3, <2>4
<1>13. QED BY <1>7, <1>9, <1>10, <1>11, <1>12 DEF OrderInv

\* Marking a participant resolved.
LEMMA OrderMark ==
  ASSUME OrderInv, TypeOK', NEW t \in Txn, NEW p \in Part, Mark(t, p),
         UNCHANGED <<raftVars, coordVars>>
  PROVE  OrderInv'
<1>1. TypeOK
  BY DEF OrderInv
<1>2. decisions[t] \in Decision /\ decisions \in [Txn -> Decision]
  BY <1>1 DEF TypeOK
<1>3. decisions' = [decisions EXCEPT ![t] = [decisions[t] EXCEPT !.resolved = @ \cup {p}]]
  BY DEF Mark
<1>4. \A u \in Txn : /\ decisions'[u].st = decisions[u].st
                      /\ decisions'[u].participants = decisions[u].participants
  BY <1>2, <1>3 DEF Decision
<1>5. UNCHANGED <<coord, votes, inflight>>
  BY DEF coordVars
<1>6. \A u \in Txn : decisions[u].st \in {"staging", "committed"}
        => decisions[u].participants = Participants[u]
  BY DEF OrderInv, VotesAreLogged
<1>7. QED BY <1>4, <1>5, <1>6, OrderFrame

\* The coordinator's own steps.
LEMMA OrderCoordinator ==
  ASSUME OrderInv, TypeOK', NEW t \in Txn,
         \/ Start(t) \/ DecideRollback(t) \/ DecideCommit(t) \/ EarlyAcknowledge(t)
         \/ FinishCommit(t) \/ CoordinatorStops(t)
         \/ \E p \in Part : VoteLost(t, p) \/ CoordinatorMark(t, p)
  PROVE  OrderInv'
<1> USE DEF raftVars, coordVars
<1>t. TypeOK /\ VotesAreLogged
  BY DEF OrderInv
<1>v. \A u \in Txn : decisions[u].st \in {"staging", "committed"}
        => decisions[u].participants = Participants[u]
  BY <1>t DEF VotesAreLogged
<1>1. CASE Start(t)
  <2>1. /\ coord[t] = "idle" /\ coord'[t] = "preparing"
        /\ \A u \in Txn : u # t => coord'[u] = coord[u] /\ inflight'[u] = inflight[u]
        /\ UNCHANGED <<raftVars, decisions, votes>>
    BY <1>t, <1>1 DEF Start, TypeOK
  <2>2. QED BY <1>v, <2>1, OrderFrame
<1>2. CASE FinishCommit(t) \/ CoordinatorStops(t)
  <2>1. /\ coord'[t] = "done" /\ \A u \in Txn : u # t => coord'[u] = coord[u]
        /\ UNCHANGED <<raftVars, decisions, votes, inflight>>
    BY <1>t, <1>2 DEF FinishCommit, CoordinatorStops, TypeOK
  <2>2. QED BY <1>v, <2>1, OrderFrame
<1>3. ASSUME NEW st \in {"staging", "committed", "rolledback"}, NEW next, NEW parts,
             next # "idle", WriteDecision(t, st, parts, next),
             st # "rolledback" => AllYes(t) /\ parts = Participants[t],
             next \in {"staged", "committing", "cleanup"} => AllYes(t),
             UNCHANGED <<raftVars, votes, inflight>>
      PROVE  OrderInv'
  <2>1. /\ \A u \in Txn : u # t => decisions'[u] = decisions[u] /\ coord'[u] = coord[u]
        /\ decisions[t].st # "none" => UNCHANGED decisions /\ coord'[t] = "done"
        /\ decisions[t].st = "none" =>
             /\ decisions'[t].st = st /\ decisions'[t].participants = parts
             /\ coord'[t] = next
    BY <1>t, <1>3, WriteDecisionFacts
  <2>2. QED BY <1>v, <1>3, <2>1, OrderFrame
<1>4. CASE DecideRollback(t)
  <2>1. CASE ToRollBack(t) = {}
    <3>1. /\ coord'[t] = "done" /\ \A u \in Txn : u # t => coord'[u] = coord[u]
          /\ UNCHANGED <<raftVars, decisions, votes, inflight>>
      BY <1>t, <1>4, <2>1 DEF DecideRollback, TypeOK
    <3>2. QED BY <1>v, <3>1, OrderFrame
  <2>2. CASE ToRollBack(t) # {}
    <3>1. /\ WriteDecision(t, "rolledback", ToRollBack(t), "rollingback")
          /\ UNCHANGED <<raftVars, votes, inflight>>
      BY <1>4, <2>2 DEF DecideRollback
    <3>2. QED BY <1>3, <3>1
  <2>3. QED BY <2>1, <2>2
<1>5. CASE DecideCommit(t)
  <2>1. /\ \/ WriteDecision(t, "staging", Participants[t], "staged")
           \/ WriteDecision(t, "committed", Participants[t], "committing")
        /\ AllYes(t) /\ UNCHANGED <<raftVars, votes, inflight>>
    BY <1>5 DEF DecideCommit
  <2>2. QED BY <1>3, <2>1
<1>6. CASE EarlyAcknowledge(t)
  <2>1. /\ coord[t] = "staged" /\ coord'[t] = "cleanup"
        /\ \A u \in Txn : u # t => coord'[u] = coord[u]
        /\ UNCHANGED <<raftVars, votes, inflight>>
        /\ RecoverStaging(t) \/ UNCHANGED decisions
    BY <1>t, <1>6 DEF EarlyAcknowledge, TypeOK
  <2>2. RecoverStaging(t) =>
          /\ \A u \in Txn : u # t => decisions'[u] = decisions[u]
          /\ decisions[t].st = "staging"
          /\ decisions'[t].participants = decisions[t].participants
    BY <1>t DEF RecoverStaging, NewDecision, TypeOK
  <2>3. QED BY <1>v, <2>1, <2>2, OrderFrame
<1>7. ASSUME NEW p \in Part, VoteLost(t, p) PROVE OrderInv'
  <2>1. Vote(t, p, "lost") /\ UNCHANGED <<raftVars, decisions, coord, inflight>>
    BY <1>7 DEF VoteLost, Vote
  <2>2. \A u \in Txn : \A q \in Part : votes'[u][q] = "yes" => votes[u][q] = "yes"
    BY <1>t, <2>1, VoteFacts
  <2>3. QED BY <1>v, <2>1, <2>2, OrderFrame
<1>8. ASSUME NEW p \in Part, CoordinatorMark(t, p) PROVE OrderInv'
  BY <1>8, OrderMark DEF CoordinatorMark
<1>9. QED BY <1>1, <1>2, <1>4, <1>5, <1>6, <1>7, <1>8

\* The watchers' own steps.
LEMMA OrderWatcher ==
  ASSUME OrderInv, TypeOK', NEW t \in Txn,
         \/ WatcherRecover(t) \/ DeleteDecision(t)
         \/ \E p \in Part : \E r \in Rep : WatcherMark(t, p, r) \/ ExpirePrepare(t, p, r)
  PROVE  OrderInv'
<1> USE DEF raftVars, coordVars
<1>t. TypeOK
  BY DEF OrderInv
<1>v. \A u \in Txn : decisions[u].st \in {"staging", "committed"}
        => decisions[u].participants = Participants[u]
  BY DEF OrderInv, VotesAreLogged
<1>1. CASE WatcherRecover(t)
  <2>1. /\ \A u \in Txn : u # t => decisions'[u] = decisions[u]
        /\ decisions[t].st = "staging"
        /\ decisions'[t].participants = decisions[t].participants
        /\ UNCHANGED <<raftVars, coordVars>>
    BY <1>t, <1>1 DEF WatcherRecover, RecoverStaging, NewDecision, TypeOK
  <2>2. QED BY <1>v, <2>1, OrderFrame
<1>2. CASE DeleteDecision(t)
  <2>1. /\ \A u \in Txn : u # t => decisions'[u] = decisions[u]
        /\ decisions'[t].st = "none" /\ UNCHANGED <<raftVars, coordVars>>
    BY <1>t, <1>2 DEF DeleteDecision, NoDecision, TypeOK
  <2>2. QED BY <1>v, <2>1, OrderFrame
<1>3. ASSUME NEW p \in Part, NEW r \in Rep, WatcherMark(t, p, r) PROVE OrderInv'
  BY <1>3, OrderMark DEF WatcherMark
<1>4. ASSUME NEW p \in Part, NEW r \in Rep, ExpirePrepare(t, p, r) PROVE OrderInv'
  <2>1. /\ \A u \in Txn : u # t => decisions'[u] = decisions[u]
        /\ decisions'[t].st = "rolledback" /\ UNCHANGED <<raftVars, coordVars>>
    BY <1>t, <1>4 DEF ExpirePrepare, NewDecision, TypeOK
  <2>2. QED BY <1>v, <2>1, OrderFrame
<1>5. QED BY <1>1, <1>2, <1>3, <1>4

\* Every step keeps the order invariant.
LEMMA OrderNext ==
  ASSUME OrderInv, Deliveries <= 1, [Next]_vars
  PROVE  OrderInv'
<1>t. TypeOK /\ TypeOK'
  BY NextType DEF OrderInv
<1>p. ASSUME NEW t \in Txn, NEW p \in Part, ParticipantNext(t, p) PROVE OrderInv'
  <2>1. CASE PrepareRefused(t, p)
    <3>1. /\ \A u \in Txn : \A q \in Part :
               /\ inflight'[u][q] > 0 => inflight[u][q] > 0
               /\ votes'[u][q] = "yes" => votes[u][q] = "yes"
          /\ UNCHANGED <<log, applied, prepared, leader, coord, decisions>>
      BY <1>t, <2>1, DeliverOnce, VoteFacts DEF PrepareRefused, raftVars
    <3>2. AppliedPrefix'
      BY <3>1 DEF OrderInv, AppliedPrefix
    <3>3. QED BY <1>t, <3>1, <3>2, OrderLeader
  <2>2. QED BY <1>p, <1>t, <2>1, OrderAccept, OrderInterrupted, OrderCrash,
               OrderCommitLost DEF ParticipantNext
<1>c. ASSUME NEW t \in Txn, CoordinatorNext(t) PROVE OrderInv'
  <2>1. ASSUME NEW p \in Part, CoordinatorCommit(t, p) PROVE OrderInv'
    BY <1>t, <2>1, OrderCommit DEF CoordinatorCommit
  <2>2. ASSUME NEW p \in Part, CoordinatorRollback(t, p) PROVE OrderInv'
    BY <1>t, <2>2, OrderRollback DEF CoordinatorRollback
  <2>3. QED BY <1>c, <1>t, <2>1, <2>2, OrderCoordinator DEF CoordinatorNext
<1>w. ASSUME NEW t \in Txn, WatcherNext(t) PROVE OrderInv'
  <2>1. ASSUME NEW p \in Part, WatcherCommit(t, p) PROVE OrderInv'
    BY <1>t, <2>1, OrderCommit DEF WatcherCommit
  <2>2. ASSUME NEW p \in Part, WatcherRollback(t, p) PROVE OrderInv'
    BY <1>t, <2>2, OrderRollback DEF WatcherRollback
  <2>3. QED BY <1>w, <1>t, <2>1, <2>2, OrderWatcher DEF WatcherNext
<1>r. ASSUME NEW p \in Part, RaftNext(p) PROVE OrderInv'
  <2>1. CASE LoseLeadership(p)
    <3>1. /\ UNCHANGED <<log, applied, prepared, coord, votes, inflight, decisions>>
          /\ leader' = [leader EXCEPT ![p] = NoLeader] /\ AppliedPrefix
      BY <2>1 DEF LoseLeadership, LeaderLost, coordVars, OrderInv
    <3>2. AppliedPrefix'
      BY <1>t, <3>1, LeaderLostPrefix
    <3>3. QED BY <1>t, <3>1, <3>2, OrderLeader
  <2>2. ASSUME NEW r \in Rep, BecomeReady(p, r) PROVE OrderInv'
    <3>1. /\ UNCHANGED <<log, applied, prepared, coord, votes, inflight, decisions>>
          /\ leader' = [leader EXCEPT ![p] = r] /\ applied[p][r] = Len(log[p])
          /\ AppliedPrefix
      BY <2>2 DEF BecomeReady, coordVars, OrderInv
    <3>2. AppliedPrefix'
      BY <1>t, <3>1 DEF AppliedPrefix, TypeOK
    <3>3. QED BY <1>t, <3>1, <3>2, OrderLeader
  <2>3. QED BY <1>r, <1>t, <2>1, <2>2, OrderApply DEF RaftNext
<1>s. CASE UNCHANGED vars
  <2>1. UNCHANGED <<raftVars, coordVars, decisions>>
    BY <1>s DEF vars
  <2>2. UNCHANGED <<log, applied, prepared, leader, coord, votes, inflight, decisions>>
    BY <2>1 DEF raftVars, coordVars
  <2>3. AppliedPrefix'
    BY <2>2 DEF OrderInv, AppliedPrefix
  <2>4. QED BY <1>t, <2>2, <2>3, OrderLeader
<1>z. QED BY <1>p, <1>c, <1>w, <1>r, <1>s DEF Next

\* Nothing is logged, prepared or asked for in the beginning.
LEMMA OrderInit == Init => OrderInv
<1> SUFFICES ASSUME Init PROVE OrderInv
  OBVIOUS
<1>1. /\ \A p \in Part : Len(log[p]) = 0
      /\ \A p \in Part : \A r \in Rep : applied[p][r] = 0 /\ prepared[p][r] = {}
      /\ \A i : i \notin 1..0
  BY DEF Init
<1>2. \A p \in Part : \A k, t : ~InLog(p, k, t) /\ ~Staged(p, t)
  BY <1>1 DEF InLog, Staged
<1>3. TypeOK
  BY InitType
<1>4. AppliedPrefix
  BY <1>1, TwoPhaseAssumption DEF AppliedPrefix, Init
<1>5. PreparedOnce
  BY <1>1 DEF PreparedOnce, Untouched, Init
<1>6. VotesAreLogged
  BY DEF VotesAreLogged, Init, NoDecision
<1>7. IntentsMatch /\ StagedAbove /\ CommitsInOrder
  BY <1>1, <1>2 DEF IntentsMatch, StagedAbove, CommitsInOrder
<1>8. QED BY <1>3, <1>4, <1>5, <1>6, <1>7 DEF OrderInv

\* When the transport delivers a prepare request at most once, a replica holds
\* what its log says is prepared, and that lies above what is committed.
THEOREM OrderInvariantHolds ==
  ASSUME Deliveries <= 1
  PROVE  Spec => []OrderInv
<1>1. OrderInv /\ [Next]_vars => OrderInv'
  BY OrderNext
<1>2. QED BY <1>1, OrderInit, PTL DEF Spec

\* A partition publishes in timestamp order, each transaction once, across
\* failovers, crashes and late decisions (start_commit_prepared,
\* explicit_prepare_commit_floor), when a participant receives a prepare
\* request at most once.  With a second delivery it does not: the README shows
\* the counterexample.
THEOREM CommitsInOrderHolds ==
  ASSUME Deliveries <= 1
  PROVE  Spec => []CommitsInOrder
<1>1. OrderInv => CommitsInOrder
  BY DEF OrderInv
<1>2. QED BY <1>1, OrderInvariantHolds, PTL
=============================================================================
