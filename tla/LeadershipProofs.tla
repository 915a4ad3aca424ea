-------------------------- MODULE LeadershipProofs --------------------------
(***************************************************************************)
(* Proofs about the two modules on who may act as the leader: the lease    *)
(* under which a leader serves (ServingLease) and the tokens under which   *)
(* its workers run (LeadershipEpoch).                                      *)
(*                                                                         *)
(* The lease, for any group and any number of ticks, terms and restarts,   *)
(* when a restart takes at least as long as a lease: whoever answered a    *)
(* round gives no vote before the round's lease has ended; an election     *)
(* needs the vote of one of a quorum that answered.                        *)
(*                                                                         *)
(* The tokens, for any number of terms and checks: a worker that passes    *)
(* has seen the three flags up one after the other and the same term       *)
(* before and after. The order of the stores makes that enough: within a   *)
(* term leadership goes up once and comes down once, the lease is never    *)
(* up without readiness while the node leads, and the flag of leadership   *)
(* is the first to fall.                                                   *)
(***************************************************************************)
EXTENDS ServingLease, LeadershipEpoch, FiniteSetTheorems, WellFoundedInduction,
        TLAPS

----------------------------------------------------------------------------
(* The invariant of the lease. *)

\* Node m gives no vote before time u: u is over, or m is down until then, or
\* it has a leader and its election timeout cannot pass before.
Waits(m, u) ==
  \/ u <= now
  \/ u <= now + raft[m].down
  \/ /\ raft[m].knows /\ ~raft[m].leads
     /\ u + raft[m].elapsed + (IF raft[m].ticked THEN 0 ELSE 1)
          <= now + ElectionTick

\* A quorum is in a term no older than any node's.
TermsHaveQuorum ==
  \A p \in Node : raft[p].term > 0 =>
    \E Q \in Quorum : \A q \in Q : raft[q].term >= raft[p].term

\* A newer term than a round's was begun by a quorum none of which answered.
RoundIsFirst(n) ==
  (\E p \in Node : raft[p].term > app[n].round.term) =>
    \E Q \in Quorum : \A q \in Q : /\ q \notin app[n].round.acks
                                   /\ raft[q].term > app[n].round.term

\* A pending round belongs to the leadership the application knows of.
RoundFits ==
  \A n \in Node : app[n].round # NoRound =>
    /\ app[n].isLeader
    /\ raft[n].leads => app[n].round.term = raft[n].term
    /\ app[n].round.until <= now + LeaseDuration
    /\ \A m \in app[n].round.acks \ {n} : Waits(m, app[n].round.until)
    /\ app[n].round.until > now => RoundIsFirst(n)

\* While a lease runs there is no newer term, and a quorum waits for its end.
LeaseIsGuarded ==
  \A n \in Node : app[n].isLeader /\ app[n].until > now =>
    /\ \A p \in Node : raft[p].term <= raft[n].term
    /\ \E Q \in Quorum : \A m \in Q \ {n} : Waits(m, app[n].until)

LeaseInv ==
  /\ TypeOK
  /\ TermsHaveQuorum
  /\ RoundFits
  /\ LeaseIsGuarded

----------------------------------------------------------------------------
(* Quorums, minimum and maximum. *)

LEMMA QuorumsMeet ==
  ASSUME NEW P \in Quorum, NEW Q \in Quorum
  PROVE  \E n \in Node : n \in P /\ n \in Q
  <1>1. IsFiniteSet(Node) /\ P \in SUBSET Node /\ Q \in SUBSET Node
    BY ServingLeaseAssumption DEF Quorum
  <1>2. /\ Cardinality(P) \in Nat /\ Cardinality(Q) \in Nat
        /\ Cardinality(Node) \in Nat
    BY <1>1, FS_Subset, FS_CardinalityType
  <1>3. Cardinality(P) + Cardinality(Q) > Cardinality(Node)
    BY <1>2 DEF Quorum
  <1>4. P \cap Q # {}
    BY <1>1, <1>3, FS_MajoritiesIntersect
  <1> QED
    BY <1>1, <1>4

LEMMA MinOfNaturals ==
  ASSUME NEW S \in SUBSET Nat, S # {}
  PROVE  Min(S) \in S /\ \A y \in S : Min(S) <= y
  <1>1. PICK x \in S : \A y \in S : ~ (<<y, x>> \in OpToRel(<, Nat))
    BY WFMin, NatLessThanWellFounded
  <1>2. \A y \in S : x <= y
    <2> TAKE y \in S
    <2>1. ~ (y < x)
      BY <1>1 DEF OpToRel
    <2> QED
      BY <2>1
  <1> QED
    BY <1>2 DEF Min

LEMMA MaxOfBounded ==
  ASSUME NEW b \in Nat, NEW S \in SUBSET (0..b), S # {}
  PROVE  Max(S) \in S /\ \A y \in S : Max(S) >= y
  <1> DEFINE R == {b - y : y \in S}
  <1>1. R \in SUBSET Nat /\ R # {}
    <2>1. \A y \in S : b - y \in Nat
      OBVIOUS
    <2> QED
      BY <2>1
  <1>2. PICK x \in S : Min(R) = b - x
    BY <1>1, MinOfNaturals
  <1>3. \A y \in S : b - x <= b - y
    BY <1>1, <1>2, MinOfNaturals
  <1>4. \A y \in S : x >= y
    BY <1>3
  <1> QED
    BY <1>4 DEF Max

LEMMA MaxOfTwo ==
  ASSUME NEW a \in Nat, NEW b \in Int
  PROVE  /\ Max({a, b}) \in Nat /\ Max({a, b}) >= a /\ Max({a, b}) >= b
         /\ Max({a, b}) = a \/ Max({a, b}) = b
  <1>1. \E x \in {a, b} : \A y \in {a, b} : x >= y
    <2>1. CASE a >= b
      BY <2>1
    <2>2. CASE b >= a
      BY <2>2
    <2> QED
      BY <2>1, <2>2
  <1>2. Max({a, b}) \in {a, b} /\ \A y \in {a, b} : Max({a, b}) >= y
    BY <1>1 DEF Max
  <1> QED
    BY <1>2

LEMMA LeaseLength ==
  /\ LeaseDuration \in Nat /\ LeaseDuration + 1 <= ElectionTick
  /\ ElectionTick \in Nat /\ HeartbeatTick \in Nat /\ Downtime \in Nat
  /\ MaxTerm \in Nat /\ MaxTime \in Nat
  <1>1. /\ ElectionTick \in Nat /\ HeartbeatTick \in Nat \ {0} /\ Downtime \in Nat
        /\ MaxTerm \in Nat /\ MaxTime \in Nat /\ HeartbeatTick < ElectionTick
    BY ServingLeaseAssumption
  <1> DEFINE S == {2 * HeartbeatTick, ElectionTick - 1}
  <1>2. S \in SUBSET Nat /\ S # {}
    BY <1>1
  <1>3. Min(S) \in Nat /\ Min(S) <= ElectionTick - 1
    BY <1>2, MinOfNaturals
  <1>4. LeaseDuration = Max({1, Min(S)})
    BY DEF LeaseDuration
  <1> HIDE DEF S
  <1> QED
    BY <1>1, <1>3, <1>4, MaxOfTwo

----------------------------------------------------------------------------
(* Types. *)

RaftRecord ==
  [term : 0..MaxTerm, leads : BOOLEAN, knows : BOOLEAN,
   elapsed : 0..ElectionTick, ticked : BOOLEAN, down : 0..Downtime]

RoundRecord == [term : 0..MaxTerm, until : Nat, acks : SUBSET Node]

AppRecord ==
  [isLeader : BOOLEAN, ready : BOOLEAN, round : RoundRecord, until : Nat]

LEMMA LeaseTypes ==
  ASSUME TypeOK
  PROVE  /\ now \in Nat
         /\ raft \in [Node -> RaftRecord] /\ app \in [Node -> AppRecord]
         /\ \A n \in Node :
              /\ raft[n].term \in Nat /\ raft[n].term \in 0..MaxTerm
              /\ raft[n].elapsed \in Nat
              /\ raft[n].down \in Nat /\ raft[n].leads \in BOOLEAN
              /\ raft[n].ticked \in BOOLEAN
              /\ app[n].isLeader \in BOOLEAN
              /\ app[n].until \in Nat /\ app[n].round \in RoundRecord
              /\ app[n].round.until \in Nat /\ app[n].round.term \in Nat
              /\ app[n].round.acks \in SUBSET Node
  <1>1. /\ now \in Nat
        /\ raft \in [Node -> RaftRecord] /\ app \in [Node -> AppRecord]
    BY LeaseLength DEF TypeOK, RaftRecord, AppRecord, RoundRecord
  <1>2. \A r \in RaftRecord : /\ r.term \in Nat /\ r.elapsed \in Nat /\ r.down \in Nat
                              /\ r.term \in 0..MaxTerm
                              /\ r.leads \in BOOLEAN /\ r.ticked \in BOOLEAN
    BY LeaseLength DEF RaftRecord
  <1>3. \A r \in RoundRecord : /\ r.until \in Nat /\ r.term \in Nat
                               /\ r.acks \in SUBSET Node
    BY LeaseLength DEF RoundRecord
  <1>4. \A a \in AppRecord : /\ a.until \in Nat /\ a.round \in RoundRecord
                             /\ a.isLeader \in BOOLEAN
    BY DEF AppRecord
  <1> QED
    BY <1>1, <1>2, <1>3, <1>4

LEMMA TypesSuffice ==
  ASSUME now' \in 0..MaxTime, raft' \in [Node -> RaftRecord],
         app' \in [Node -> AppRecord],
         \A n \in Node : app'[n].until <= now' + LeaseDuration
  PROVE  TypeOK'
  BY DEF TypeOK, RaftRecord, AppRecord, RoundRecord, LeaseDuration

\* maybe_start_leader_serving_lease_round begins a round of the leader's term
\* or does nothing.
LEMMA StartRoundMakes ==
  ASSUME TypeOK, NEW n \in Node, NEW a \in AppRecord
  PROVE  LET b == StartRound(n, a) IN
         /\ b \in AppRecord /\ b.isLeader = a.isLeader /\ b.until = a.until
         /\ \/ b.round = a.round
            \/ b.round = NewRound(n) /\ raft[n].leads /\ a.isLeader
  <1>1. NewRound(n) \in RoundRecord
    BY LeaseTypes, LeaseLength DEF NewRound, RoundRecord
  <1>2. CASE StartRound(n, a) = a
    BY <1>2
  <1>3. CASE /\ StartRound(n, a) = [a EXCEPT !.round = NewRound(n)]
             /\ raft[n].leads /\ a.isLeader
    <2> DEFINE r == NewRound(n)
    <2> HIDE DEF r
    <2>1. LET b == [a EXCEPT !.round = r] IN
          /\ b \in AppRecord /\ b.isLeader = a.isLeader /\ b.until = a.until
          /\ b.round = r
      BY <1>1 DEF AppRecord, r
    <2> QED
      BY <1>3, <2>1 DEF r
  <1> QED
    BY <1>2, <1>3 DEF StartRound

----------------------------------------------------------------------------
(* Whoever waits keeps waiting. *)

\* A node whose own state does not change, whatever the others do.
LEMMA WaitsOn ==
  ASSUME NEW m \in Node, NEW u, Waits(m, u), now' = now, raft'[m] = raft[m]
  PROVE  Waits(m, u)'
  BY DEF Waits

\* A node that hears from a leader waits for longer than a lease lasts.
LEMMA WaitsAfterContact ==
  ASSUME TypeOK, NEW m \in Node, NEW u \in Nat, u <= now + LeaseDuration,
         now' = now, raft'[m].elapsed = 0, raft'[m].knows, ~raft'[m].leads
  PROVE  Waits(m, u)'
  BY LeaseTypes, LeaseLength DEF Waits

LEMMA WaitsAfterPass ==
  ASSUME TypeOK, Pass, NEW m \in Node, NEW u \in Nat, Waits(m, u)
  PROVE  Waits(m, u)'
  <1> DEFINE r == [raft[m] EXCEPT !.ticked = FALSE, !.down = Max({0, @ - 1})]
  <1>0. now \in Nat /\ raft[m].elapsed \in Nat /\ raft[m].down \in Nat
    BY LeaseTypes
  <1>1. raft[m] \in RaftRecord /\ Max({0, raft[m].down - 1}) >= raft[m].down - 1
    BY <1>0, LeaseTypes, MaxOfTwo
  <1>2. /\ r.knows = raft[m].knows /\ r.leads = raft[m].leads
        /\ r.elapsed = raft[m].elapsed /\ r.ticked = FALSE
        /\ r.down = Max({0, raft[m].down - 1})
    BY <1>1 DEF RaftRecord
  <1>3. raft'[m] = r /\ now' = now + 1
    <2>1. now' = now + 1
      BY DEF Pass
    <2>2. raft' = [k \in Node |-> [raft[k] EXCEPT !.ticked = FALSE,
                                                 !.down = Max({0, @ - 1})]]
      BY DEF Pass
    <2> QED
      BY <2>1, <2>2
  <1>4. Max({0, raft[m].down - 1}) \in Nat
    BY <1>0, MaxOfTwo
  <1> HIDE DEF r
  <1>5. CASE u <= now
    BY <1>0, <1>3, <1>5 DEF Waits
  <1>6. CASE u <= now + raft[m].down
    BY <1>0, <1>1, <1>2, <1>3, <1>4, <1>6 DEF Waits
  <1>7. CASE /\ raft[m].knows /\ ~raft[m].leads
             /\ u + raft[m].elapsed + (IF raft[m].ticked THEN 0 ELSE 1)
                  <= now + ElectionTick
    <2>1. u + raft[m].elapsed + 1 <= now + 1 + ElectionTick
      BY <1>0, <1>7, LeaseLength
    <2> QED
      BY <1>0, <1>2, <1>3, <1>7, <2>1 DEF Waits
  <1> QED
    BY <1>5, <1>6, <1>7 DEF Waits

LEMMA WaitsAfterTick ==
  ASSUME TypeOK, NEW n \in Node, Tick(n), NEW m \in Node, NEW u \in Nat, Waits(m, u)
  PROVE  Waits(m, u)'
  <1> DEFINE e == IF raft[n].leads THEN 0
                  ELSE Min({ElectionTick, raft[n].elapsed + 1})
             r == [raft[n] EXCEPT !.ticked = TRUE, !.elapsed = e]
  <1>0. now \in Nat /\ raft[n].elapsed \in Nat /\ raft \in [Node -> RaftRecord]
    BY LeaseTypes
  <1>1. /\ raft' = [raft EXCEPT ![n] = r]
        /\ now' = now /\ ~raft[n].ticked /\ raft[n].down = 0
    <2>1. now' = now /\ ~raft[n].ticked /\ raft[n].down = 0
      BY DEF Tick
    <2>2. raft' = [raft EXCEPT ![n] = r]
      BY DEF Tick
    <2> QED
      BY <2>1, <2>2
  <1>2. raft[n] \in RaftRecord
    BY <1>0
  <1>3. ~raft[n].leads => e <= raft[n].elapsed + 1 /\ e \in Nat
    <2>1. {ElectionTick, raft[n].elapsed + 1} \in SUBSET Nat
      BY <1>0, LeaseLength
    <2> QED
      BY <2>1, MinOfNaturals
  <1> HIDE DEF e
  <1>4. /\ r.knows = raft[n].knows /\ r.leads = raft[n].leads /\ r.elapsed = e
        /\ r.ticked = TRUE /\ r.down = raft[n].down
    BY <1>2 DEF RaftRecord
  <1> HIDE DEF r
  <1>5. CASE m = n
    <2>1. raft'[n] = r
      BY <1>0, <1>1
    <2> QED
      BY <1>0, <1>1, <1>3, <1>4, <1>5, <2>1, LeaseLength DEF Waits
  <1>6. CASE m # n
    BY <1>0, <1>1, <1>6, WaitsOn
  <1> QED
    BY <1>5, <1>6

\* An election waits for everybody in its quorum.
LEMMA WaitersDoNotVote ==
  ASSUME TypeOK, NEW n \in Node, NEW Q \in Quorum, Elect(n, Q), NEW m \in Q,
         NEW u \in Nat, Waits(m, u)
  PROVE  u <= now
  <1>1. /\ m \in Node /\ raft[m].down = 0
        /\ raft[m].knows => raft[m].elapsed >= ElectionTick
    BY DEF Elect, Quorum
  <1>2. now \in Nat /\ raft[m].elapsed \in Nat /\ ElectionTick \in Nat
    BY <1>1, LeaseTypes, LeaseLength
  <1> QED
    BY <1>1, <1>2 DEF Waits

----------------------------------------------------------------------------
(* Steps that begin no term and confirm no round. *)

\* The two parts of the invariant after a step, a node at a time.
LEMMA RoundFitsNext ==
  ASSUME \A n \in Node : \A u :
           app'[n].round # NoRound /\ u = app'[n].round.until =>
             /\ app'[n].isLeader
             /\ raft'[n].leads => app'[n].round.term = raft'[n].term
             /\ u <= now' + LeaseDuration
             /\ \A m \in app'[n].round.acks \ {n} : Waits(m, u)'
             /\ u > now' => RoundIsFirst(n)'
  PROVE  RoundFits'
  BY DEF RoundFits, Waits

LEMMA LeaseIsGuardedNext ==
  ASSUME \A n \in Node : \A u :
           u = app'[n].until /\ app'[n].isLeader /\ u > now' =>
             /\ \A p \in Node : raft'[p].term <= raft'[n].term
             /\ \E Q \in Quorum : \A m \in Q \ {n} : Waits(m, u)'
  PROVE  LeaseIsGuarded'
  BY DEF LeaseIsGuarded, Waits

LEMMA QuietStep ==
  ASSUME LeaseInv, TypeOK', now <= now',
         \A m \in Node : raft'[m].term = raft[m].term,
         \A m \in Node : raft'[m].leads => raft[m].leads,
         \A m \in Node : \A u \in Nat :
           u <= now + LeaseDuration /\ Waits(m, u) => Waits(m, u)',
         \A n \in Node :
           \/ app'[n].round = NoRound
           \/ /\ app'[n].round = app[n].round
              /\ app'[n].isLeader = app[n].isLeader
           \/ /\ app'[n].round = NewRound(n) /\ now' = now
              /\ app'[n].isLeader,
         \A n \in Node :
           \/ app'[n].until = 0
           \/ app'[n].until = app[n].until /\ app'[n].isLeader = app[n].isLeader
  PROVE  LeaseInv'
  <1>0. /\ TypeOK /\ TermsHaveQuorum /\ RoundFits /\ LeaseIsGuarded
        /\ now \in Nat /\ now' \in Nat
        /\ LeaseDuration \in Nat
        /\ \A n \in Node : raft[n].term \in Nat /\ app[n].until \in Nat
                           /\ app[n].round.until \in Nat
                           /\ app[n].round.acks \in SUBSET Node
    <2>1. now' \in Nat
      BY LeaseLength DEF TypeOK
    <2> QED
      BY <2>1, LeaseTypes, LeaseLength DEF LeaseInv
  <1>1. Quorum' = Quorum /\ LeaseDuration' = LeaseDuration
    OBVIOUS
  <1>2. TermsHaveQuorum'
    <2>1. \A Q \in Quorum : Q \subseteq Node
      BY DEF Quorum
    <2> QED
      BY <1>0, <2>1 DEF TermsHaveQuorum
  <1>3. ASSUME NEW n \in Node, app'[n].round # NoRound,
               NEW u, u = app'[n].round.until
        PROVE  /\ app'[n].isLeader
               /\ raft'[n].leads => app'[n].round.term = raft'[n].term
               /\ u <= now' + LeaseDuration
               /\ \A m \in app'[n].round.acks \ {n} : Waits(m, u)'
               /\ u > now' => RoundIsFirst(n)'
    <2>1. CASE app'[n].round = app[n].round /\ app'[n].isLeader = app[n].isLeader
      <3>1. /\ app[n].isLeader
            /\ raft[n].leads => app[n].round.term = raft[n].term
            /\ u \in Nat /\ u <= now + LeaseDuration
            /\ \A m \in app[n].round.acks \ {n} : Waits(m, u)
            /\ u > now => RoundIsFirst(n)
        BY <1>0, <1>3, <2>1 DEF RoundFits
      <3>2. \A m \in app[n].round.acks \ {n} : Waits(m, u)'
        BY <1>0, <3>1
      <3>3. RoundIsFirst(n) => RoundIsFirst(n)'
        <4>1. \A Q \in Quorum : Q \subseteq Node
          BY DEF Quorum
        <4> QED
          BY <2>1, <4>1 DEF RoundIsFirst
      <3> QED
        BY <1>0, <1>3, <2>1, <3>1, <3>2, <3>3
    <2>2. CASE app'[n].round = NewRound(n) /\ now' = now /\ app'[n].isLeader
      <3>1. /\ app'[n].round.term = raft[n].term /\ app'[n].round.acks = {n}
            /\ app'[n].round.until = now + LeaseDuration
        BY <2>2 DEF NewRound
      <3>2. RoundIsFirst(n)'
        <4> SUFFICES ASSUME NEW p \in Node, raft[p].term > raft[n].term
                     PROVE  \E Q \in Quorum : \A q \in Q :
                              q # n /\ raft'[q].term > raft[n].term
          BY <3>1 DEF RoundIsFirst
        <4>1. PICK Q \in Quorum : \A q \in Q : raft[q].term >= raft[p].term
          BY <1>0 DEF TermsHaveQuorum
        <4>2. \A q \in Q : q \in Node /\ raft[q].term > raft[n].term
          BY <1>0, <4>1 DEF Quorum
        <4> QED
          BY <1>0, <4>2
      <3> QED
        BY <1>0, <1>3, <2>2, <3>1, <3>2
    <2> QED
      BY <1>3, <2>1, <2>2
  <1>4. RoundFits'
    BY <1>3, RoundFitsNext
  <1>5. ASSUME NEW n \in Node, NEW u, u = app'[n].until, app'[n].isLeader, u > now'
        PROVE  /\ \A p \in Node : raft'[p].term <= raft'[n].term
               /\ \E Q \in Quorum : \A m \in Q \ {n} : Waits(m, u)'
    <2>1. app[n].isLeader /\ u = app[n].until /\ u > now /\ u \in Nat
      BY <1>0, <1>5
    <2>2. /\ \A p \in Node : raft[p].term <= raft[n].term
          /\ \E Q \in Quorum : \A m \in Q \ {n} : Waits(m, u)
      BY <1>0, <2>1 DEF LeaseIsGuarded
    <2>3. u <= now + LeaseDuration
      BY <1>0, <2>1 DEF TypeOK
    <2>4. PICK Q \in Quorum : \A m \in Q \ {n} : Waits(m, u)
      BY <2>2
    <2>5. \A m \in Q \ {n} : Waits(m, u)'
      BY <2>1, <2>3, <2>4 DEF Quorum
    <2> QED
      BY <1>0, <2>2, <2>5
  <1>6. LeaseIsGuarded'
    BY <1>5, LeaseIsGuardedNext
  <1> QED
    BY <1>2, <1>4, <1>6 DEF LeaseInv

LEMMA PassStep ==
  ASSUME LeaseInv, Pass
  PROVE  LeaseInv'
  <1>0. TypeOK /\ now \in Nat /\ raft \in [Node -> RaftRecord] /\ app \in [Node -> AppRecord]
    BY LeaseTypes DEF LeaseInv
  <1>1. now' = now + 1 /\ now' \in 0..MaxTime /\ app' = app
    <2>1. now < MaxTime /\ now' = now + 1 /\ app' = app
      BY DEF Pass
    <2> QED
      BY <1>0, <2>1, LeaseLength
  <1>2. \A m \in Node : /\ raft'[m] \in RaftRecord
                        /\ raft'[m].term = raft[m].term
                        /\ raft'[m].leads = raft[m].leads
    <2> TAKE m \in Node
    <2> DEFINE d == Max({0, raft[m].down - 1})
               r == [raft[m] EXCEPT !.ticked = FALSE, !.down = d]
    <2>1. raft'[m] = r
      <3>1. raft' = [k \in Node |-> [raft[k] EXCEPT !.ticked = FALSE,
                                                   !.down = Max({0, @ - 1})]]
        BY DEF Pass
      <3> QED
        BY <3>1
    <2>2. raft[m] \in RaftRecord /\ raft[m].down \in 0..Downtime
      BY <1>0 DEF RaftRecord
    <2>3. d \in 0..Downtime
      <3>1. raft[m].down \in Nat
        BY <2>2, LeaseLength
      <3> QED
        BY <2>2, <3>1, LeaseLength, MaxOfTwo
    <2> HIDE DEF d
    <2>4. r \in RaftRecord /\ r.term = raft[m].term /\ r.leads = raft[m].leads
      BY <2>2, <2>3 DEF RaftRecord
    <2> QED
      BY <2>1, <2>4
  <1>3. raft' \in [Node -> RaftRecord]
    <2>1. raft' = [m \in Node |-> raft'[m]]
      BY DEF Pass
    <2> QED
      BY <1>2, <2>1
  <1>4. \A n \in Node : app[n].until <= now + 1 + LeaseDuration
    <2>1. \A n \in Node : app[n].until \in Nat /\ app[n].until <= now + LeaseDuration
      BY <1>0, LeaseTypes DEF TypeOK
    <2> QED
      BY <1>0, <2>1, LeaseLength
  <1>5. TypeOK'
    BY <1>0, <1>1, <1>3, <1>4, TypesSuffice
  <1> QED
    BY <1>0, <1>1, <1>2, <1>5, WaitsAfterPass, QuietStep

LEMMA TickStep ==
  ASSUME LeaseInv, NEW n \in Node, Tick(n)
  PROVE  LeaseInv'
  <1>0. /\ TypeOK /\ now \in Nat /\ now \in 0..MaxTime
        /\ raft \in [Node -> RaftRecord] /\ app \in [Node -> AppRecord]
    BY LeaseTypes DEF LeaseInv, TypeOK
  <1> DEFINE e == IF raft[n].leads THEN 0
                  ELSE Min({ElectionTick, raft[n].elapsed + 1})
             r == [raft[n] EXCEPT !.ticked = TRUE, !.elapsed = e]
             a == StartRound(n, app[n])
  <1>1. /\ raft' = [raft EXCEPT ![n] = r] /\ app' = [app EXCEPT ![n] = a]
        /\ now' = now
    BY DEF Tick
  <1>2. e \in 0..ElectionTick
    <2>1. {ElectionTick, raft[n].elapsed + 1} \in SUBSET Nat
      BY <1>0, LeaseTypes, LeaseLength
    <2> QED
      BY <2>1, MinOfNaturals, LeaseLength
  <1> HIDE DEF e
  <1>3. r \in RaftRecord /\ r.term = raft[n].term /\ r.leads = raft[n].leads
    <2>1. raft[n] \in RaftRecord
      BY <1>0
    <2> QED
      BY <1>2, <2>1 DEF RaftRecord
  <1>4. /\ a \in AppRecord /\ a.isLeader = app[n].isLeader /\ a.until = app[n].until
        /\ \/ a.round = app[n].round
           \/ a.round = NewRound(n) /\ raft[n].leads /\ app[n].isLeader
    BY <1>0, StartRoundMakes
  <1> HIDE DEF r, a
  <1>5. /\ raft' \in [Node -> RaftRecord] /\ app' \in [Node -> AppRecord]
        /\ raft'[n] = r /\ app'[n] = a
        /\ \A m \in Node \ {n} : raft'[m] = raft[m] /\ app'[m] = app[m]
    BY <1>0, <1>1, <1>3, <1>4
  <1>6. \A m \in Node : app'[m].until = app[m].until /\ app'[m].isLeader = app[m].isLeader
    BY <1>4, <1>5
  <1>7. TypeOK'
    <2>1. \A m \in Node : app'[m].until <= now' + LeaseDuration
      BY <1>0, <1>1, <1>6 DEF TypeOK
    <2> QED
      BY <1>0, <1>1, <1>5, <2>1, TypesSuffice
  <1>8. \A m \in Node : raft'[m].term = raft[m].term /\ raft'[m].leads = raft[m].leads
    BY <1>3, <1>5
  <1>9. \A m \in Node :
          \/ app'[m].round = app[m].round
          \/ app'[m].round = NewRound(m) /\ app'[m].isLeader
    BY <1>4, <1>5, <1>6
  <1> QED
    BY <1>0, <1>1, <1>6, <1>7, <1>8, <1>9, WaitsAfterTick, QuietStep

LEMMA StepDownStep ==
  ASSUME LeaseInv, NEW n \in Node, StepDown(n)
  PROVE  LeaseInv'
  <1>0. /\ TypeOK /\ now \in Nat /\ now \in 0..MaxTime
        /\ raft \in [Node -> RaftRecord] /\ app \in [Node -> AppRecord]
    BY LeaseTypes DEF LeaseInv, TypeOK
  <1> DEFINE r == [raft[n] EXCEPT !.leads = FALSE, !.knows = FALSE, !.elapsed = 0]
  <1>1. /\ raft[n].leads /\ raft' = [raft EXCEPT ![n] = r]
        /\ UNCHANGED <<now, app, restarts>>
    BY DEF StepDown
  <1>2. r \in RaftRecord /\ r.term = raft[n].term /\ ~r.leads /\ r.down = raft[n].down
    <2>1. raft[n] \in RaftRecord /\ 0 \in 0..ElectionTick
      BY <1>0, LeaseLength
    <2> QED
      BY <2>1 DEF RaftRecord
  <1> HIDE DEF r
  <1>3. /\ raft' \in [Node -> RaftRecord] /\ raft'[n] = r
        /\ \A m \in Node \ {n} : raft'[m] = raft[m]
    BY <1>0, <1>1, <1>2
  <1>4. TypeOK'
    <2>1. \A m \in Node : app'[m].until <= now' + LeaseDuration
      BY <1>0, <1>1 DEF TypeOK
    <2> QED
      BY <1>0, <1>1, <1>3, <2>1, TypesSuffice
  <1>5. ASSUME NEW m \in Node, NEW u \in Nat, Waits(m, u) PROVE Waits(m, u)'
    <2>1. CASE m = n
      BY <1>1, <1>2, <1>3, <1>5, <2>1 DEF Waits
    <2> QED
      BY <1>1, <1>3, <1>5, <2>1, WaitsOn
  <1>6. \A m \in Node : /\ raft'[m].term = raft[m].term
                        /\ raft'[m].leads => raft[m].leads
    BY <1>2, <1>3
  <1> QED
    BY <1>0, <1>1, <1>4, <1>5, <1>6, QuietStep

LEMMA HandleReadyStep ==
  ASSUME LeaseInv, NEW n \in Node, HandleReady(n)
  PROVE  LeaseInv'
  <1>0. /\ TypeOK /\ now \in Nat /\ now \in 0..MaxTime
        /\ raft \in [Node -> RaftRecord] /\ app \in [Node -> AppRecord]
        /\ raft[n].leads \in BOOLEAN
    BY LeaseTypes DEF LeaseInv, TypeOK
  <1> DEFINE a == [Idle EXCEPT !.isLeader = raft[n].leads]
  <1>1. app' = [app EXCEPT ![n] = a] /\ UNCHANGED <<now, raft, restarts>>
    BY DEF HandleReady
  <1>2. a \in AppRecord /\ a.round = NoRound /\ a.until = 0
    <2>1. NoRound \in RoundRecord
      BY LeaseLength DEF NoRound, RoundRecord
    <2> QED
      BY <1>0, <2>1 DEF Idle, AppRecord
  <1> HIDE DEF a
  <1>3. /\ app' \in [Node -> AppRecord] /\ app'[n] = a
        /\ \A m \in Node \ {n} : app'[m] = app[m]
    BY <1>0, <1>1, <1>2
  <1>4. TypeOK'
    <2>1. \A m \in Node : app'[m].until <= now' + LeaseDuration
      BY <1>0, <1>1, <1>2, <1>3, LeaseLength DEF TypeOK
    <2> QED
      BY <1>0, <1>1, <1>3, <2>1, TypesSuffice
  <1>5. \A m \in Node : \A u \in Nat : Waits(m, u) => Waits(m, u)'
    BY <1>1, WaitsOn
  <1>6. \A m \in Node :
          \/ app'[m] = app[m]
          \/ app'[m].round = NoRound /\ app'[m].until = 0
    BY <1>2, <1>3
  <1> QED
    BY <1>0, <1>1, <1>4, <1>5, <1>6, QuietStep

LEMMA MarkReadyStep ==
  ASSUME LeaseInv, NEW n \in Node, MarkReady(n)
  PROVE  LeaseInv'
  <1>0. /\ TypeOK /\ now \in Nat /\ now \in 0..MaxTime
        /\ raft \in [Node -> RaftRecord] /\ app \in [Node -> AppRecord]
    BY LeaseTypes DEF LeaseInv, TypeOK
  <1> DEFINE b == [app[n] EXCEPT !.ready = TRUE]
             a == StartRound(n, b)
  <1>1. app' = [app EXCEPT ![n] = a] /\ UNCHANGED <<now, raft, restarts>>
    BY DEF MarkReady
  <1>2. /\ b \in AppRecord /\ b.round = app[n].round /\ b.until = app[n].until
        /\ b.isLeader = app[n].isLeader
    <2>1. app[n] \in AppRecord
      BY <1>0
    <2> QED
      BY <2>1 DEF AppRecord
  <1> HIDE DEF b
  <1>3. /\ a \in AppRecord /\ a.isLeader = app[n].isLeader /\ a.until = app[n].until
        /\ \/ a.round = app[n].round
           \/ a.round = NewRound(n) /\ raft[n].leads /\ app[n].isLeader
    BY <1>0, <1>2, StartRoundMakes
  <1> HIDE DEF a
  <1>4. /\ app' \in [Node -> AppRecord] /\ app'[n] = a
        /\ \A m \in Node \ {n} : app'[m] = app[m]
    BY <1>0, <1>1, <1>3
  <1>5. \A m \in Node :
          /\ app'[m].until = app[m].until /\ app'[m].isLeader = app[m].isLeader
          /\ \/ app'[m].round = app[m].round
             \/ app'[m].round = NewRound(m) /\ app'[m].isLeader
    BY <1>3, <1>4
  <1>6. TypeOK'
    <2>1. \A m \in Node : app'[m].until <= now' + LeaseDuration
      BY <1>0, <1>1, <1>5 DEF TypeOK
    <2> QED
      BY <1>0, <1>1, <1>4, <2>1, TypesSuffice
  <1>7. \A m \in Node : \A u \in Nat : Waits(m, u) => Waits(m, u)'
    BY <1>1, WaitsOn
  <1> QED
    BY <1>0, <1>1, <1>5, <1>6, <1>7, QuietStep

LEMMA RestartStep ==
  ASSUME LeaseInv, Downtime >= LeaseDuration, NEW n \in Node, Restart(n)
  PROVE  LeaseInv'
  <1>0. /\ TypeOK /\ now \in Nat /\ now \in 0..MaxTime
        /\ raft \in [Node -> RaftRecord] /\ app \in [Node -> AppRecord]
    BY LeaseTypes DEF LeaseInv, TypeOK
  <1> DEFINE r == [raft[n] EXCEPT !.leads = FALSE, !.knows = FALSE, !.elapsed = 0,
                                  !.down = Downtime]
  <1>1. /\ raft' = [raft EXCEPT ![n] = r] /\ app' = [app EXCEPT ![n] = Idle]
        /\ now' = now
    BY DEF Restart
  <1>2. r \in RaftRecord /\ r.term = raft[n].term /\ ~r.leads /\ r.down = Downtime
    <2>1. raft[n] \in RaftRecord /\ 0 \in 0..ElectionTick /\ Downtime \in 0..Downtime
      BY <1>0, LeaseLength
    <2> QED
      BY <2>1 DEF RaftRecord
  <1>3. Idle \in AppRecord /\ Idle.round = NoRound /\ Idle.until = 0
    <2>1. NoRound \in RoundRecord
      BY LeaseLength DEF NoRound, RoundRecord
    <2> QED
      BY <2>1 DEF Idle, AppRecord
  <1> HIDE DEF r
  <1>4. /\ raft' \in [Node -> RaftRecord] /\ raft'[n] = r
        /\ app' \in [Node -> AppRecord] /\ app'[n] = Idle
        /\ \A m \in Node \ {n} : raft'[m] = raft[m] /\ app'[m] = app[m]
    BY <1>0, <1>1, <1>2, <1>3
  <1>5. TypeOK'
    <2>1. \A m \in Node : app'[m].until <= now' + LeaseDuration
      BY <1>0, <1>1, <1>3, <1>4, LeaseLength DEF TypeOK
    <2> QED
      BY <1>0, <1>1, <1>4, <2>1, TypesSuffice
  <1>6. ASSUME NEW m \in Node, NEW u \in Nat, u <= now + LeaseDuration, Waits(m, u)
        PROVE  Waits(m, u)'
    <2>1. CASE m = n
      <3>1. u <= now + Downtime
        BY <1>0, <1>6, LeaseLength
      <3> QED
        BY <1>1, <1>2, <1>4, <2>1, <3>1 DEF Waits
    <2>2. CASE m # n
      BY <1>1, <1>4, <1>6, <2>2, WaitsOn
    <2> QED
      BY <2>1, <2>2
  <1>7. \A m \in Node :
          /\ raft'[m].term = raft[m].term
          /\ raft'[m].leads => raft[m].leads
          /\ \/ app'[m] = app[m]
             \/ app'[m].round = NoRound /\ app'[m].until = 0
    BY <1>2, <1>3, <1>4
  <1> QED
    BY <1>0, <1>1, <1>5, <1>6, <1>7, QuietStep

----------------------------------------------------------------------------
(* Rounds and elections. *)

\* The answers of a quorum become a lease: nobody is in a newer term, because
\* the quorum that began it would share a node with the one that answered.
LEMMA ConfirmStep ==
  ASSUME LeaseInv, NEW n \in Node, Confirm(n)
  PROVE  LeaseInv'
  <1> DEFINE round == app[n].round
             good == /\ raft[n].leads /\ app[n].isLeader /\ app[n].ready
                     /\ raft[n].term = round.term
                     /\ now < round.until
                     /\ round.until > app[n].until
             v == IF good THEN round.until ELSE app[n].until
             a == [app[n] EXCEPT !.round = NoRound, !.until = v]
  <1>0. /\ TypeOK /\ RoundFits /\ LeaseIsGuarded /\ TermsHaveQuorum
        /\ now \in Nat /\ now \in 0..MaxTime
        /\ raft \in [Node -> RaftRecord] /\ app \in [Node -> AppRecord]
        /\ round.until \in Nat /\ app[n].until \in Nat
        /\ \A m \in Node : raft[m].term \in Nat
    BY LeaseTypes DEF LeaseInv, TypeOK
  <1>1. /\ round.acks \in Quorum /\ app' = [app EXCEPT ![n] = a]
        /\ UNCHANGED <<now, raft, restarts>>
    BY DEF Confirm
  <1>2. good => /\ round # NoRound /\ app[n].isLeader /\ round.until > now
                /\ raft[n].term = round.term
    BY <1>0 DEF NoRound
  <1>3. v \in Nat /\ (v = app[n].until \/ (good /\ v = round.until))
    <2> HIDE DEF good, round
    <2>1. CASE good
      BY <1>0, <2>1
    <2>2. CASE ~good
      BY <1>0, <2>2
    <2> QED
      BY <2>1, <2>2
  <1> HIDE DEF v, good
  <1>4. a \in AppRecord /\ a.round = NoRound /\ a.until = v /\ a.isLeader = app[n].isLeader
    <2>1. NoRound \in RoundRecord /\ app[n] \in AppRecord
      BY <1>0, LeaseLength DEF NoRound, RoundRecord
    <2> QED
      BY <1>3, <2>1 DEF AppRecord
  <1> HIDE DEF a
  <1>5. /\ app' \in [Node -> AppRecord] /\ app'[n] = a
        /\ \A m \in Node \ {n} : app'[m] = app[m]
    BY <1>0, <1>1, <1>4
  <1>6. \A m \in Node : \A u \in Nat : Waits(m, u) => Waits(m, u)'
    BY <1>1, WaitsOn
  <1>7. good => /\ round.until <= now + LeaseDuration
                /\ \A m \in round.acks \ {n} : Waits(m, round.until)
                /\ RoundIsFirst(n)
    BY <1>0, <1>2 DEF RoundFits
  <1>8. ASSUME good, NEW p \in Node PROVE raft[p].term <= raft[n].term
    <2> SUFFICES ASSUME raft[p].term > round.term PROVE FALSE
      BY <1>0, <1>2, <1>8
    <2>1. PICK Q \in Quorum : \A q \in Q : q \notin round.acks
      BY <1>7, <1>8 DEF RoundIsFirst
    <2> QED
      BY <1>1, <2>1, QuorumsMeet
  <1>9. TypeOK'
    <2>1. \A m \in Node : app'[m].until <= now' + LeaseDuration
      BY <1>0, <1>1, <1>3, <1>4, <1>5, <1>7 DEF TypeOK
    <2> QED
      BY <1>0, <1>1, <1>5, <2>1, TypesSuffice
  <1>10. TermsHaveQuorum'
    BY <1>0, <1>1 DEF TermsHaveQuorum
  <1>11. RoundFits'
    <2>1. ASSUME NEW m \in Node, NEW u, app'[m].round # NoRound, u = app'[m].round.until
          PROVE  /\ app'[m].isLeader
                 /\ raft'[m].leads => app'[m].round.term = raft'[m].term
                 /\ u <= now' + LeaseDuration
                 /\ \A k \in app'[m].round.acks \ {m} : Waits(k, u)'
                 /\ u > now' => RoundIsFirst(m)'
      <3>1. m # n /\ app'[m] = app[m]
        BY <1>4, <1>5, <2>1
      <3>2. /\ app[m].isLeader
            /\ raft[m].leads => app[m].round.term = raft[m].term
            /\ u <= now + LeaseDuration
            /\ \A k \in app[m].round.acks \ {m} : Waits(k, u)
            /\ u > now => RoundIsFirst(m)
        BY <1>0, <2>1, <3>1 DEF RoundFits
      <3>3. u \in Nat /\ app[m].round.acks \subseteq Node
        BY <1>0, <2>1, <3>1, LeaseTypes
      <3>4. RoundIsFirst(m) => RoundIsFirst(m)'
        BY <1>1, <3>1 DEF RoundIsFirst
      <3> QED
        BY <1>1, <1>6, <3>1, <3>2, <3>3, <3>4
    <2> QED
      BY <2>1, RoundFitsNext
  <1>12. LeaseIsGuarded'
    <2>1. ASSUME NEW m \in Node, NEW u, u = app'[m].until, app'[m].isLeader, u > now'
          PROVE  /\ \A p \in Node : raft'[p].term <= raft'[m].term
                 /\ \E Q \in Quorum : \A k \in Q \ {m} : Waits(k, u)'
      <3>0. \A Q \in Quorum : Q \subseteq Node
        BY DEF Quorum
      <3>1. CASE u = app[m].until /\ app[m].isLeader
        <4>1. u > now /\ u \in Nat
          BY <1>0, <1>1, <2>1, <3>1, LeaseTypes
        <4>2. /\ \A p \in Node : raft[p].term <= raft[m].term
              /\ \E Q \in Quorum : \A k \in Q \ {m} : Waits(k, u)
          BY <1>0, <3>1, <4>1 DEF LeaseIsGuarded
        <4> QED
          BY <1>1, <1>6, <3>0, <4>1, <4>2
      <3>2. CASE m = n /\ good /\ u = round.until
        BY <1>0, <1>1, <1>6, <1>7, <1>8, <3>0, <3>2
      <3> QED
        BY <1>3, <1>4, <1>5, <2>1, <3>1, <3>2
    <2> QED
      BY <2>1, LeaseIsGuardedNext
  <1> QED
    BY <1>9, <1>10, <1>11, <1>12 DEF LeaseInv

\* A heartbeat brings the follower into the leader's term, and its answer
\* commits it to wait longer than the round's lease.
LEMMA ContactStep ==
  ASSUME LeaseInv, NEW n \in Node, NEW f \in Node, Contact(n, f)
  PROVE  LeaseInv'
  <1> DEFINE r == [raft[f] EXCEPT !.term = raft[n].term, !.leads = FALSE,
                                  !.knows = TRUE, !.elapsed = 0]
             q == [app[n].round EXCEPT !.acks = @ \cup {f}]
             a == [app[n] EXCEPT !.round = q]
  <1>0. /\ TypeOK /\ RoundFits /\ LeaseIsGuarded /\ TermsHaveQuorum
        /\ now \in Nat /\ now \in 0..MaxTime
        /\ raft \in [Node -> RaftRecord] /\ app \in [Node -> AppRecord]
        /\ \A m \in Node : raft[m].term \in Nat
    BY LeaseTypes DEF LeaseInv, TypeOK
  <1>1. /\ f # n /\ raft[n].leads /\ app[n].isLeader /\ raft[f].term <= raft[n].term
        /\ raft' = [raft EXCEPT ![f] = r] /\ now' = now
    BY DEF Contact, Hears
  <1>2. app' = IF app[n].round = NoRound THEN app ELSE [app EXCEPT ![n] = a]
    BY DEF Contact
  <1>3. r \in RaftRecord /\ r.term = raft[n].term /\ ~r.leads /\ r.knows /\ r.elapsed = 0
    <2>1. raft[f] \in RaftRecord /\ 0 \in 0..ElectionTick /\ raft[n].term \in 0..MaxTerm
      BY <1>0, LeaseLength, LeaseTypes
    <2> QED
      BY <2>1 DEF RaftRecord
  <1>4. /\ q \in RoundRecord /\ q.term = app[n].round.term
        /\ q.until = app[n].round.until /\ q.acks = app[n].round.acks \cup {f}
    <2>1. app[n].round \in RoundRecord
      BY <1>0, LeaseTypes
    <2> QED
      BY <2>1 DEF RoundRecord
  <1> HIDE DEF r, q
  <1>5. /\ a \in AppRecord /\ a.round = q /\ a.until = app[n].until
        /\ a.isLeader = app[n].isLeader
    <2>1. app[n] \in AppRecord
      BY <1>0
    <2> QED
      BY <1>4, <2>1 DEF AppRecord
  <1> HIDE DEF a
  <1>6. /\ raft' \in [Node -> RaftRecord] /\ raft'[f] = r
        /\ \A m \in Node \ {f} : raft'[m] = raft[m]
    BY <1>0, <1>1, <1>3
  <1>7. /\ app' \in [Node -> AppRecord]
        /\ \A m \in Node : /\ app'[m].until = app[m].until
                           /\ app'[m].isLeader = app[m].isLeader
                           /\ m # n => app'[m] = app[m]
        /\ app'[n].round = app[n].round \/ (app[n].round # NoRound /\ app'[n].round = q)
    BY <1>0, <1>2, <1>5
  <1>8. TypeOK'
    <2>1. \A m \in Node : app'[m].until <= now' + LeaseDuration
      BY <1>0, <1>1, <1>7 DEF TypeOK
    <2> QED
      BY <1>0, <1>1, <1>6, <1>7, <2>1, TypesSuffice
  <1>9. ASSUME NEW m \in Node, NEW u \in Nat, u <= now + LeaseDuration,
               m = f \/ Waits(m, u)
        PROVE  Waits(m, u)'
    <2>1. CASE m = f
      BY <1>0, <1>1, <1>3, <1>6, <1>9, <2>1, WaitsAfterContact
    <2>2. CASE m # f
      BY <1>1, <1>6, <1>9, <2>2, WaitsOn
    <2> QED
      BY <2>1, <2>2
  <1>10. \A m \in Node : raft'[m].term >= raft[m].term /\ raft'[m].term \in Nat
    BY <1>0, <1>1, <1>3, <1>6
  <1>11. \A m \in Node : \E k \in Node : raft'[m].term = raft[k].term
    BY <1>3, <1>6
  <1>s. \A Q \in Quorum : Q \subseteq Node
    BY DEF Quorum
  <1>12. TermsHaveQuorum'
    <2> SUFFICES ASSUME NEW p \in Node, raft'[p].term > 0
                 PROVE  \E Q \in Quorum : \A k \in Q : raft'[k].term >= raft'[p].term
      BY DEF TermsHaveQuorum
    <2>1. PICK l \in Node : raft'[p].term = raft[l].term
      BY <1>11
    <2>2. PICK Q \in Quorum : \A k \in Q : raft[k].term >= raft[l].term
      BY <1>0, <2>1 DEF TermsHaveQuorum
    <2>3. \A k \in Q : raft'[k].term >= raft'[p].term
      BY <1>0, <1>10, <1>s, <2>1, <2>2
    <2> QED
      BY <2>3
  <1>13. RoundFits'
    <2>1. ASSUME NEW m \in Node, NEW u, app'[m].round # NoRound, u = app'[m].round.until
          PROVE  /\ app'[m].isLeader
                 /\ raft'[m].leads => app'[m].round.term = raft'[m].term
                 /\ u <= now' + LeaseDuration
                 /\ \A k \in app'[m].round.acks \ {m} : Waits(k, u)'
                 /\ u > now' => RoundIsFirst(m)'
      <3>1. /\ app[m].round # NoRound /\ app'[m].round.until = app[m].round.until
            /\ app'[m].round.term = app[m].round.term
            /\ app'[m].round.acks \subseteq app[m].round.acks \cup {f}
            /\ f \in app'[m].round.acks /\ f \notin app[m].round.acks => m = n
        BY <1>4, <1>7, <2>1
      <3>2. /\ app[m].isLeader
            /\ raft[m].leads => app[m].round.term = raft[m].term
            /\ u <= now + LeaseDuration
            /\ \A k \in app[m].round.acks \ {m} : Waits(k, u)
            /\ u > now => RoundIsFirst(m)
        BY <1>0, <2>1, <3>1 DEF RoundFits
      <3>3. u \in Nat /\ app[m].round.acks \subseteq Node /\ app[m].round.term \in Nat
        BY <1>0, <2>1, <3>1, LeaseTypes
      <3>4. \A k \in app'[m].round.acks \ {m} : Waits(k, u)'
        BY <1>9, <3>1, <3>2, <3>3
      <3>5. raft'[m].leads => app'[m].round.term = raft'[m].term
        BY <1>3, <1>6, <3>1, <3>2
      <3>6. ASSUME RoundIsFirst(m) PROVE RoundIsFirst(m)'
        <4> SUFFICES ASSUME NEW p \in Node, raft'[p].term > app[m].round.term
                     PROVE  \E Q \in Quorum : \A k \in Q :
                              /\ k \notin app'[m].round.acks
                              /\ raft'[k].term > app[m].round.term
          BY <3>1 DEF RoundIsFirst
        <4>1. PICK l \in Node : raft'[p].term = raft[l].term
          BY <1>11
        <4>2. PICK Q \in Quorum : \A k \in Q : /\ k \notin app[m].round.acks
                                               /\ raft[k].term > app[m].round.term
          BY <3>6, <4>1 DEF RoundIsFirst
        <4>3. ASSUME NEW k \in Q
              PROVE  k \notin app'[m].round.acks /\ raft'[k].term > app[m].round.term
          <5>1. k \in Node /\ k \notin app[m].round.acks /\ raft[k].term > app[m].round.term
            BY <1>s, <4>2
          <5>2. ~(k = f /\ m = n)
            BY <1>0, <1>1, <3>2, <3>3, <5>1
          <5> QED
            BY <1>0, <1>10, <3>1, <3>3, <5>1, <5>2
        <4> QED
          BY <4>3
      <3> QED
        BY <1>1, <1>7, <2>1, <3>1, <3>2, <3>4, <3>5, <3>6
    <2> QED
      BY <2>1, RoundFitsNext
  <1>14. LeaseIsGuarded'
    <2>1. ASSUME NEW m \in Node, NEW u, u = app'[m].until, app'[m].isLeader, u > now'
          PROVE  /\ \A p \in Node : raft'[p].term <= raft'[m].term
                 /\ \E Q \in Quorum : \A k \in Q \ {m} : Waits(k, u)'
      <3>1. u = app[m].until /\ app[m].isLeader /\ u > now /\ u \in Nat
        BY <1>0, <1>1, <1>7, <2>1, LeaseTypes
      <3>2. /\ \A p \in Node : raft[p].term <= raft[m].term
            /\ \E Q \in Quorum : \A k \in Q \ {m} : Waits(k, u)
        BY <1>0, <3>1 DEF LeaseIsGuarded
      <3>3. u <= now + LeaseDuration
        BY <1>0, <3>1 DEF TypeOK
      <3>4. \A p \in Node : raft'[p].term <= raft'[m].term
        BY <1>0, <1>10, <1>11, <3>2
      <3>5. PICK Q \in Quorum : \A k \in Q \ {m} : Waits(k, u)
        BY <3>2
      <3>6. \A k \in Q \ {m} : Waits(k, u)'
        BY <1>9, <1>s, <3>1, <3>3, <3>5
      <3> QED
        BY <3>4, <3>6
    <2> QED
      BY <2>1, LeaseIsGuardedNext
  <1> QED
    BY <1>8, <1>12, <1>13, <1>14 DEF LeaseInv

\* No quorum can elect while a lease runs; a quorum that elects while a round
\* is pending has nobody of those that answered it.
LEMMA ElectStep ==
  ASSUME LeaseInv, NEW n \in Node, NEW E \in Quorum, Elect(n, E)
  PROVE  LeaseInv'
  <1> DEFINE t == 1 + Max({raft[m].term : m \in E})
             r(m) == [raft[m] EXCEPT !.term = t, !.leads = (m = n),
                                     !.knows = (m = n), !.elapsed = 0]
  <1>0. /\ TypeOK /\ RoundFits /\ LeaseIsGuarded /\ TermsHaveQuorum
        /\ now \in Nat /\ now \in 0..MaxTime
        /\ raft \in [Node -> RaftRecord] /\ app \in [Node -> AppRecord]
        /\ \A m \in Node : raft[m].term \in Nat /\ raft[m].term \in 0..MaxTerm
    BY LeaseTypes DEF LeaseInv, TypeOK
  <1>s. \A Q \in Quorum : Q \subseteq Node
    BY DEF Quorum
  <1>1. /\ n \in E /\ t <= MaxTerm
        /\ \A m \in E : ~app[m].isLeader
        /\ raft' = [m \in Node |-> IF m \notin E THEN raft[m] ELSE r(m)]
        /\ UNCHANGED <<now, app, restarts>>
    BY DEF Elect
  <1>2. t \in 0..MaxTerm /\ \A m \in E : raft[m].term < t
    <2> DEFINE S == {raft[m].term : m \in E}
    <2>1. S \in SUBSET (0..MaxTerm) /\ S # {}
      BY <1>0, <1>1, <1>s
    <2>2. Max(S) \in S /\ \A y \in S : Max(S) >= y
      BY <2>1, LeaseLength, MaxOfBounded
    <2>3. Max(S) \in Nat
      BY <2>1, <2>2, LeaseLength
    <2>4. t = 1 + Max(S)
      OBVIOUS
    <2>5. \A m \in E : raft[m].term \in S /\ raft[m].term \in Nat
      BY <1>0, <1>s
    <2>6. t <= MaxTerm /\ MaxTerm \in Nat
      BY <1>1, LeaseLength
    <2> HIDE DEF S, t
    <2>7. t \in Nat /\ t \in 0..MaxTerm
      BY <2>3, <2>4, <2>6
    <2>8. \A m \in E : raft[m].term < t
      BY <2>2, <2>3, <2>4, <2>5
    <2> QED
      BY <2>7, <2>8
  <1> HIDE DEF t
  <1>3. ASSUME NEW m \in E
        PROVE  r(m) \in RaftRecord /\ r(m).term = t
    <2>1. raft[m] \in RaftRecord /\ 0 \in 0..ElectionTick
      BY <1>0, <1>s, LeaseLength
    <2> QED
      BY <1>2, <2>1 DEF RaftRecord
  <1> HIDE DEF r
  <1>4. /\ raft' \in [Node -> RaftRecord]
        /\ \A m \in E : raft'[m].term = t
        /\ \A m \in Node \ E : raft'[m] = raft[m]
    BY <1>0, <1>1, <1>3, <1>s
  <1>5. TypeOK'
    <2>1. \A m \in Node : app'[m].until <= now' + LeaseDuration
      BY <1>0, <1>1 DEF TypeOK
    <2> QED
      BY <1>0, <1>1, <1>4, <2>1, TypesSuffice
  <1>6. t \in Nat /\ \A m \in Node : raft'[m].term >= raft[m].term /\ raft'[m].term \in Nat
    BY <1>0, <1>2, <1>4, LeaseLength
  <1>7. TermsHaveQuorum'
    <2> SUFFICES ASSUME NEW p \in Node, raft'[p].term > 0
                 PROVE  \E Q \in Quorum : \A k \in Q : raft'[k].term >= raft'[p].term
      BY DEF TermsHaveQuorum
    <2>1. CASE p \in E
      BY <1>4, <1>6, <2>1
    <2>2. CASE p \notin E
      <3>1. PICK Q \in Quorum : \A k \in Q : raft[k].term >= raft[p].term
        BY <1>0, <1>4, <2>2 DEF TermsHaveQuorum
      <3>2. \A k \in Q : raft'[k].term >= raft'[p].term
        BY <1>0, <1>4, <1>6, <1>s, <2>2, <3>1
      <3> QED
        BY <3>2
    <2> QED
      BY <2>1, <2>2
  <1>8. RoundFits'
    <2>1. ASSUME NEW m \in Node, NEW u, app'[m].round # NoRound, u = app'[m].round.until
          PROVE  /\ app'[m].isLeader
                 /\ raft'[m].leads => app'[m].round.term = raft'[m].term
                 /\ u <= now' + LeaseDuration
                 /\ \A k \in app'[m].round.acks \ {m} : Waits(k, u)'
                 /\ u > now' => RoundIsFirst(m)'
      <3>1. app' = app /\ now' = now
        BY <1>1
      <3>2. /\ app[m].isLeader
            /\ raft[m].leads => app[m].round.term = raft[m].term
            /\ u <= now + LeaseDuration
            /\ \A k \in app[m].round.acks \ {m} : Waits(k, u)
            /\ u > now => RoundIsFirst(m)
        BY <1>0, <2>1, <3>1 DEF RoundFits
      <3>3. u \in Nat /\ app[m].round.acks \subseteq Node /\ app[m].round.term \in Nat
        BY <1>0, <2>1, <3>1, LeaseTypes
      <3>4. m \notin E /\ raft'[m] = raft[m]
        BY <1>1, <1>4, <3>2
      <3>5. ASSUME NEW k \in app[m].round.acks \ {m} PROVE Waits(k, u)'
        <4>1. CASE k \in E
          <5>1. u <= now
            BY <1>0, <3>2, <3>3, <4>1, WaitersDoNotVote
          <5> QED
            BY <3>1, <5>1 DEF Waits
        <4>2. CASE k \notin E
          BY <1>4, <3>1, <3>2, <3>3, <4>2, WaitsOn
        <4> QED
          BY <4>1, <4>2
      <3>6. ASSUME u > now PROVE RoundIsFirst(m)'
        <4>1. \A k \in E : k \notin app[m].round.acks
          <5> SUFFICES ASSUME NEW k \in E, k \in app[m].round.acks PROVE FALSE
            OBVIOUS
          <5>1. u <= now
            BY <1>0, <3>2, <3>3, <3>4, WaitersDoNotVote
          <5> QED
            BY <1>0, <3>3, <3>6, <5>1
        <4>2. CASE t > app[m].round.term
          BY <1>4, <3>1, <4>1, <4>2 DEF RoundIsFirst
        <4>3. CASE ~(t > app[m].round.term)
          <5> SUFFICES ASSUME NEW p \in Node, raft'[p].term > app[m].round.term
                       PROVE  \E Q \in Quorum : \A k \in Q :
                                /\ k \notin app[m].round.acks
                                /\ raft'[k].term > app[m].round.term
            BY <3>1 DEF RoundIsFirst
          <5>1. raft[p].term > app[m].round.term
            BY <1>4, <4>3
          <5>2. PICK Q \in Quorum : \A k \in Q : /\ k \notin app[m].round.acks
                                                 /\ raft[k].term > app[m].round.term
            BY <3>2, <3>6, <5>1 DEF RoundIsFirst
          <5>3. \A k \in Q : raft'[k].term > app[m].round.term
            BY <1>0, <1>6, <1>s, <3>3, <5>2
          <5> QED
            BY <5>2, <5>3
        <4> QED
          BY <4>2, <4>3
      <3> QED
        BY <3>1, <3>2, <3>4, <3>5, <3>6
    <2> QED
      BY <2>1, RoundFitsNext
  <1>9. ASSUME NEW m \in Node, app[m].isLeader, app[m].until > now PROVE FALSE
    <2>1. PICK Q \in Quorum : \A k \in Q \ {m} : Waits(k, app[m].until)
      BY <1>0, <1>9 DEF LeaseIsGuarded
    <2>2. PICK k \in Node : k \in Q /\ k \in E
      BY QuorumsMeet
    <2>3. k # m
      BY <1>1, <1>9, <2>2
    <2>4. app[m].until \in Nat
      BY <1>0, LeaseTypes
    <2>5. app[m].until <= now
      BY <1>0, <2>1, <2>2, <2>3, <2>4, WaitersDoNotVote
    <2> QED
      BY <1>0, <1>9, <2>4, <2>5
  <1>10. LeaseIsGuarded'
    BY <1>1, <1>9 DEF LeaseIsGuarded
  <1> QED
    BY <1>5, <1>7, <1>8, <1>10 DEF LeaseInv

----------------------------------------------------------------------------
(* The theorems. *)

LEMMA LeaseInit == Init => LeaseInv
  <1> SUFFICES ASSUME Init PROVE LeaseInv
    OBVIOUS
  <1> DEFINE r == [term |-> 0, leads |-> FALSE, knows |-> FALSE, elapsed |-> 0,
                   ticked |-> FALSE, down |-> 0]
  <1>1. /\ now = 0 /\ raft = [n \in Node |-> r] /\ app = [n \in Node |-> Idle]
    BY DEF Init
  <1>2. r \in RaftRecord /\ r.term = 0
    BY LeaseLength DEF RaftRecord
  <1>3. Idle \in AppRecord /\ Idle.round = NoRound /\ Idle.until = 0
    <2>1. NoRound \in RoundRecord
      BY LeaseLength DEF NoRound, RoundRecord
    <2> QED
      BY <2>1 DEF Idle, AppRecord
  <1> HIDE DEF r
  <1>4. TypeOK
    <2>1. raft \in [Node -> RaftRecord] /\ app \in [Node -> AppRecord]
      BY <1>1, <1>2, <1>3
    <2>2. now \in 0..MaxTime /\ \A n \in Node : app[n].until <= now + LeaseDuration
      BY <1>1, <1>3, LeaseLength
    <2> QED
      BY <2>1, <2>2 DEF TypeOK, RaftRecord, AppRecord, RoundRecord
  <1> QED
    BY <1>1, <1>2, <1>3, <1>4
    DEF LeaseInv, TermsHaveQuorum, RoundFits, LeaseIsGuarded

LEMMA LeaseStep ==
  ASSUME Downtime >= LeaseDuration
  PROVE  LeaseInv /\ [Next]_vars => LeaseInv'
  <1> SUFFICES ASSUME LeaseInv, [Next]_vars PROVE LeaseInv'
    OBVIOUS
  <1>1. CASE UNCHANGED vars
    <2>1. UNCHANGED <<now, raft, app>>
      BY <1>1 DEF vars
    <2>2. TypeOK'
      BY <2>1 DEF LeaseInv, TypeOK
    <2>3. \A m \in Node : \A u \in Nat : Waits(m, u) => Waits(m, u)'
      BY <2>1, WaitsOn
    <2>4. now <= now'
      BY <2>1, LeaseTypes DEF LeaseInv
    <2> QED
      BY <2>1, <2>2, <2>3, <2>4, QuietStep
  <1> QED
    BY <1>1, PassStep, TickStep, ConfirmStep, StepDownStep, HandleReadyStep,
       MarkReadyStep, RestartStep, ContactStep, ElectStep
    DEF Next

\* While a lease runs nobody is in a newer term and a quorum is bound to wait
\* for its end, if a crashed node stays down for as long as a lease lasts
\* (process_leader_serving_lease_read_states).
THEOREM LeaseInvariantHolds ==
  ASSUME Downtime >= LeaseDuration
  PROVE  Spec => []LeaseInv
  BY LeaseInit, LeaseStep, PTL DEF Spec

\* A node that holds a serving lease is the newest leader, for any timing of
\* ticks, answers and restarts, if a crashed node stays down for as long as a
\* lease lasts (has_leader_serving_lease).
THEOREM NewestServesHolds ==
  ASSUME Downtime >= LeaseDuration
  PROVE  Spec => []NewestServes
  <1>1. LeaseInv => NewestServes
    BY DEF LeaseInv, LeaseIsGuarded, NewestServes, Serves
  <1> QED
    BY <1>1, LeaseInvariantHolds, PTL

----------------------------------------------------------------------------
(* The invariant of the tokens. *)

Down(s) == ~s.leader /\ ~s.ready /\ ~s.lease

\* What the callbacks have still to store.
Rising(t) == OnBecameLeaderStores(t)
Rising3(t) == <<<<"lease", FALSE>>, <<"term", t>>, <<"leader", TRUE>>>>
Rising2(t) == <<<<"term", t>>, <<"leader", TRUE>>>>
Rising1 == <<<<"leader", TRUE>>>>
SetReady == <<<<"ready", TRUE>>>>
SetLease == <<<<"lease", TRUE>>>>
Falling == <<<<"leader", FALSE>>, <<"ready", FALSE>>, <<"lease", FALSE>>>>
Falling2 == <<<<"ready", FALSE>>, <<"lease", FALSE>>>>
Falling1 == <<<<"lease", FALSE>>>>

\* The flags and the term, wherever the callback that stores them stands.
StoresInOrder ==
  \/ stores = <<>> /\ raftTerm = 0 /\ Down(shared)
  \/ /\ stores = <<>> /\ raftTerm # 0 /\ raftTerm = shared.term
     /\ shared.leader /\ (shared.lease => shared.ready)
  \/ /\ stores \in {Rising(raftTerm), Rising3(raftTerm), Rising2(raftTerm)}
     /\ raftTerm = shared.term + 1 /\ Down(shared)
  \/ stores = Rising1 /\ raftTerm = shared.term /\ raftTerm # 0 /\ Down(shared)
  \/ /\ stores = SetReady /\ raftTerm = shared.term /\ raftTerm # 0
     /\ shared.leader /\ ~shared.ready /\ ~shared.lease
  \/ /\ stores = SetLease /\ raftTerm = shared.term /\ raftTerm # 0
     /\ shared.leader /\ shared.ready
  \/ /\ stores = Falling /\ raftTerm = 0 /\ shared.leader
     /\ (shared.lease => shared.ready)
  \/ /\ stores = Falling2 /\ raftTerm = 0 /\ ~shared.leader
     /\ (shared.lease => shared.ready)
  \/ stores = Falling1 /\ raftTerm = 0 /\ ~shared.leader /\ ~shared.ready

\* A moment at which the node could serve is noticed by a check under way.
ServingIsNoticed ==
  worker.at # "rest" /\ CanServe(shared) => shared.term \in served

SameTerm == worker.before = shared.term

\* What the loads of a check have established, as long as the term is the
\* one it began in: leadership has been up in this term, and if it has come
\* down with the other flags up then the node has served during the check.
LoadsAdd ==
  /\ worker.at # "rest" => worker.before <= shared.term
  /\ worker.at \in {"leader2", "ready", "lease", "term"} => worker.before # 0
  /\ worker.at \in {"ready", "lease", "term"} /\ SameTerm =>
       shared.leader \/ raftTerm # shared.term
  /\ worker.at = "ready" /\ SameTerm =>
       \/ worker.before \in served \/ shared.leader
       \/ ~shared.ready \/ ~shared.lease
  /\ worker.at = "lease" /\ SameTerm =>
       worker.before \in served \/ shared.leader \/ ~shared.lease
  /\ worker.at = "term" /\ SameTerm => worker.before \in served

\* The types the argument needs.
Typed ==
  /\ shared \in [leader : BOOLEAN, ready : BOOLEAN, lease : BOOLEAN, term : 0..MaxReigns]
  /\ raftTerm \in 0..MaxReigns
  /\ worker \in [at : {"rest", "leader1", "leader2", "ready", "lease", "term"},
                 before : 0..MaxReigns, trusted : 0..MaxReigns]
  /\ epoch \in 0..MaxReigns

EpochInv ==
  /\ Typed
  /\ StoresInOrder
  /\ ServingIsNoticed
  /\ LoadsAdd
  /\ TokenWasGood

----------------------------------------------------------------------------
(* The remaining stores of a callback. *)

LEMMA TupleSteps ==
  ASSUME NEW a, NEW b, NEW c, NEW d
  PROVE  /\ <<a>> # <<>> /\ Head(<<a>>) = a /\ Tail(<<a>>) = <<>>
         /\ <<a, b>> # <<>> /\ Head(<<a, b>>) = a /\ Tail(<<a, b>>) = <<b>>
         /\ <<a, b, c>> # <<>>
         /\ Head(<<a, b, c>>) = a /\ Tail(<<a, b, c>>) = <<b, c>>
         /\ <<a, b, c, d>> # <<>>
         /\ Head(<<a, b, c, d>>) = a /\ Tail(<<a, b, c, d>>) = <<b, c, d>>
  OBVIOUS

LEMMA RisingSteps ==
  ASSUME NEW t
  PROVE  /\ Rising(t) # <<>> /\ Rising3(t) # <<>> /\ Rising2(t) # <<>>
         /\ Rising1 # <<>>
         /\ Head(Rising(t)) = <<"ready", FALSE>> /\ Tail(Rising(t)) = Rising3(t)
         /\ Head(Rising3(t)) = <<"lease", FALSE>> /\ Tail(Rising3(t)) = Rising2(t)
         /\ Head(Rising2(t)) = <<"term", t>> /\ Tail(Rising2(t)) = Rising1
         /\ Head(Rising1) = <<"leader", TRUE>> /\ Tail(Rising1) = <<>>
  <1> DEFINE a == <<"ready", FALSE>>  b == <<"lease", FALSE>>
             c == <<"term", t>>       d == <<"leader", TRUE>>
  <1>1. /\ Rising(t) = <<a, b, c, d>> /\ Rising3(t) = <<b, c, d>>
        /\ Rising2(t) = <<c, d>> /\ Rising1 = <<d>>
    BY DEF Rising, OnBecameLeaderStores, Rising3, Rising2, Rising1
  <1> HIDE DEF a, b, c, d
  <1>2. /\ Rising(t) # <<>> /\ Rising3(t) # <<>> /\ Rising2(t) # <<>>
        /\ Rising1 # <<>>
        /\ Head(Rising(t)) = a /\ Tail(Rising(t)) = Rising3(t)
        /\ Head(Rising3(t)) = b /\ Tail(Rising3(t)) = Rising2(t)
        /\ Head(Rising2(t)) = c /\ Tail(Rising2(t)) = Rising1
        /\ Head(Rising1) = d /\ Tail(Rising1) = <<>>
    BY <1>1, TupleSteps
  <1> QED
    BY <1>2 DEF a, b, c, d

LEMMA OtherSteps ==
  /\ SetReady # <<>> /\ SetLease # <<>>
  /\ Falling # <<>> /\ Falling2 # <<>> /\ Falling1 # <<>>
  /\ Head(SetReady) = <<"ready", TRUE>> /\ Tail(SetReady) = <<>>
  /\ Head(SetLease) = <<"lease", TRUE>> /\ Tail(SetLease) = <<>>
  /\ Head(Falling) = <<"leader", FALSE>> /\ Tail(Falling) = Falling2
  /\ Head(Falling2) = <<"ready", FALSE>> /\ Tail(Falling2) = Falling1
  /\ Head(Falling1) = <<"lease", FALSE>> /\ Tail(Falling1) = <<>>
  <1> DEFINE a == <<"ready", TRUE>>   b == <<"lease", TRUE>>
             c == <<"leader", FALSE>> d == <<"ready", FALSE>>
             e == <<"lease", FALSE>>
  <1>1. /\ SetReady = <<a>> /\ SetLease = <<b>>
        /\ Falling = <<c, d, e>> /\ Falling2 = <<d, e>> /\ Falling1 = <<e>>
    BY DEF SetReady, SetLease, Falling, Falling2, Falling1
  <1> HIDE DEF a, b, c, d, e
  <1>2. /\ SetReady # <<>> /\ Head(SetReady) = a /\ Tail(SetReady) = <<>>
        /\ SetLease # <<>> /\ Head(SetLease) = b /\ Tail(SetLease) = <<>>
    BY <1>1, TupleSteps
  <1>3. /\ Falling # <<>> /\ Falling2 # <<>> /\ Falling1 # <<>>
        /\ Head(Falling) = c /\ Tail(Falling) = Falling2
        /\ Head(Falling2) = d /\ Tail(Falling2) = Falling1
        /\ Head(Falling1) = e /\ Tail(Falling1) = <<>>
    BY <1>1, TupleSteps
  <1> QED
    BY <1>2, <1>3 DEF a, b, c, d, e

----------------------------------------------------------------------------
(* Every step keeps the invariant. *)

LEMMA InitEpochInv == EpochInit => EpochInv
  BY LeadershipEpochAssumption
  DEF EpochInit, EpochInv, Typed, StoresInOrder, Down, ServingIsNoticed, LoadsAdd,
      SameTerm, TokenWasGood, Resting, CanServe

\* A callback is called only when the previous one has made its stores.
LEMMA CallStep ==
  ASSUME EpochInv,
         OnBecameLeader \/ OnLeaderReady \/ OnLeaderServingLeaseRefreshed
           \/ OnLostLeadership
  PROVE  EpochInv'
  <1>0. stores = <<>> /\ UNCHANGED <<shared, worker, epoch, served, checks>>
    BY DEF OnBecameLeader, OnLeaderReady, OnLeaderServingLeaseRefreshed,
           OnLostLeadership, Call
  <1> USE DEF EpochInv
  <1>1. Rising(shared.term + 1) # <<>> /\ SetReady # <<>> /\ SetLease # <<>>
        /\ Falling # <<>>
    BY RisingSteps, OtherSteps
  <1>2. \/ raftTerm = 0 /\ Down(shared)
        \/ /\ raftTerm # 0 /\ raftTerm = shared.term
           /\ shared.leader /\ (shared.lease => shared.ready)
    BY <1>0, RisingSteps, OtherSteps, Zenon DEF StoresInOrder
  <1>3. Typed' /\ StoresInOrder' /\ (raftTerm' # shared.term \/ shared.leader)
    <2>1. CASE OnBecameLeader
      <3>1. /\ raftTerm = 0 /\ raftTerm' = shared.term + 1
            /\ stores' = Rising(raftTerm') /\ shared' = shared
            /\ shared.term + 1 \in 0..MaxReigns
        BY <2>1, LeadershipEpochAssumption DEF OnBecameLeader, Call, Rising, Typed
      <3>2. Down(shared)
        BY <1>2, <3>1
      <3> QED
        BY <1>0, <3>1, <3>2 DEF StoresInOrder, Typed, Down
    <2>2. CASE OnLeaderReady
      <3>1. /\ raftTerm # 0 /\ raftTerm' = raftTerm /\ ~shared.ready
            /\ stores' = SetReady
        BY <2>2 DEF OnLeaderReady, Call, SetReady
      <3> QED
        BY <1>0, <1>2, <3>1 DEF StoresInOrder, Typed, Down
    <2>3. CASE OnLeaderServingLeaseRefreshed
      <3>1. /\ raftTerm # 0 /\ raftTerm' = raftTerm /\ shared.ready
            /\ stores' = SetLease
        BY <2>3 DEF OnLeaderServingLeaseRefreshed, Call, SetLease
      <3> QED
        BY <1>0, <1>2, <3>1 DEF StoresInOrder, Typed, Down
    <2>4. CASE OnLostLeadership
      <3>1. raftTerm # 0 /\ raftTerm' = 0 /\ stores' = Falling
        BY <2>4 DEF OnLostLeadership, Call, Falling
      <3> QED
        BY <1>0, <1>2, <3>1, LeadershipEpochAssumption
        DEF StoresInOrder, Typed, Down
    <2> QED
      BY <2>1, <2>2, <2>3, <2>4
  <1> QED
    BY <1>0, <1>3
    DEF ServingIsNoticed, LoadsAdd, SameTerm, TokenWasGood, CanServe

LEMMA StoreEffect ==
  ASSUME Store, NEW flag, NEW value, Head(stores) = <<flag, value>>
  PROVE  shared' = [shared EXCEPT ![flag] = value]
  <1>1. Head(stores)[1] = flag /\ Head(stores)[2] = value
    OBVIOUS
  <1> QED
    BY <1>1 DEF Store

\* Each store of each callback, in the order in which they are made.
LEMMA StoreStep ==
  ASSUME EpochInv, Store
  PROVE  EpochInv'
  <1> USE DEF EpochInv
  <1>1. /\ stores # <<>> /\ stores' = Tail(stores)
        /\ served' = Noticed(shared')
        /\ UNCHANGED <<raftTerm, worker, epoch, checks>>
    BY DEF Store
  <1>2. UNCHANGED <<raftTerm, worker, epoch>>
    BY <1>1
  <1>3. served \subseteq served' /\ ServingIsNoticed'
    BY <1>1 DEF Noticed, ServingIsNoticed
  <1>4. TokenWasGood' /\ ServingIsNoticed'
    BY <1>2, <1>3 DEF TokenWasGood
  <1>5. CASE stores = Rising(raftTerm) /\ raftTerm = shared.term + 1 /\ Down(shared)
    <2>0. Head(stores) = <<"ready", FALSE>>
      BY <1>5, RisingSteps
    <2>1. /\ shared' = [shared EXCEPT !["ready"] = FALSE]
          /\ stores' = Rising3(raftTerm)
      BY <1>1, <1>5, <2>0, RisingSteps, StoreEffect
    <2>2. /\ shared'.leader = shared.leader /\ shared'.ready = FALSE
          /\ shared'.lease = shared.lease /\ shared'.term = shared.term
      BY <2>1 DEF Typed
    <2>3. Typed' /\ StoresInOrder'
      BY <1>2, <1>5, <2>1, <2>2 DEF Typed, StoresInOrder, Down
    <2>4. LoadsAdd'
      BY <1>2, <1>3, <1>5, <2>2
      DEF LoadsAdd, SameTerm, ServingIsNoticed, CanServe, Down, Typed
    <2> QED
      BY <1>4, <2>3, <2>4
  <1>6. CASE stores = Rising3(raftTerm) /\ raftTerm = shared.term + 1 /\ Down(shared)
    <2>0. Head(stores) = <<"lease", FALSE>>
      BY <1>6, RisingSteps
    <2>1. /\ shared' = [shared EXCEPT !["lease"] = FALSE]
          /\ stores' = Rising2(raftTerm)
      BY <1>1, <1>6, <2>0, RisingSteps, StoreEffect
    <2>2. /\ shared'.leader = shared.leader /\ shared'.ready = shared.ready
          /\ shared'.lease = FALSE /\ shared'.term = shared.term
      BY <2>1 DEF Typed
    <2>3. Typed' /\ StoresInOrder'
      BY <1>2, <1>6, <2>1, <2>2 DEF Typed, StoresInOrder, Down
    <2>4. LoadsAdd'
      BY <1>2, <1>3, <1>6, <2>2
      DEF LoadsAdd, SameTerm, ServingIsNoticed, CanServe, Down, Typed
    <2> QED
      BY <1>4, <2>3, <2>4
  <1>7. CASE stores = Rising2(raftTerm) /\ raftTerm = shared.term + 1 /\ Down(shared)
    <2>0. Head(stores) = <<"term", raftTerm>>
      BY <1>7, RisingSteps
    <2>1. /\ shared' = [shared EXCEPT !["term"] = raftTerm]
          /\ stores' = Rising1
      BY <1>1, <1>7, <2>0, RisingSteps, StoreEffect
    <2>2. /\ shared'.leader = shared.leader /\ shared'.ready = shared.ready
          /\ shared'.lease = shared.lease /\ shared'.term = raftTerm
      BY <2>1 DEF Typed
    <2>3. Typed' /\ StoresInOrder'
      BY <1>2, <1>7, <2>1, <2>2 DEF Typed, StoresInOrder, Down
    <2>4. LoadsAdd'
      BY <1>2, <1>3, <1>7, <2>2
      DEF LoadsAdd, SameTerm, ServingIsNoticed, CanServe, Down, Typed
    <2> QED
      BY <1>4, <2>3, <2>4
  <1>8. CASE /\ stores = Rising1 /\ raftTerm = shared.term /\ raftTerm # 0
             /\ Down(shared)
    <2>1. /\ shared' = [shared EXCEPT !["leader"] = TRUE]
          /\ stores' = <<>>
      BY <1>1, <1>8, RisingSteps, OtherSteps, StoreEffect
    <2>2. /\ shared'.leader = TRUE /\ shared'.ready = shared.ready
          /\ shared'.lease = shared.lease /\ shared'.term = shared.term
      BY <2>1 DEF Typed
    <2>3. Typed' /\ StoresInOrder'
      BY <1>2, <1>8, <2>1, <2>2 DEF Typed, StoresInOrder, Down
    <2>4. LoadsAdd'
      BY <1>2, <1>3, <1>8, <2>2
      DEF LoadsAdd, SameTerm, ServingIsNoticed, CanServe, Down, Typed
    <2> QED
      BY <1>4, <2>3, <2>4
  <1>9. CASE /\ stores = SetReady /\ raftTerm = shared.term /\ raftTerm # 0
             /\ shared.leader /\ ~shared.ready /\ ~shared.lease
    <2>1. /\ shared' = [shared EXCEPT !["ready"] = TRUE]
          /\ stores' = <<>>
      BY <1>1, <1>9, RisingSteps, OtherSteps, StoreEffect
    <2>2. /\ shared'.leader = shared.leader /\ shared'.ready = TRUE
          /\ shared'.lease = shared.lease /\ shared'.term = shared.term
      BY <2>1 DEF Typed
    <2>3. Typed' /\ StoresInOrder'
      BY <1>2, <1>9, <2>1, <2>2 DEF Typed, StoresInOrder, Down
    <2>4. LoadsAdd'
      BY <1>2, <1>3, <1>9, <2>2
      DEF LoadsAdd, SameTerm, ServingIsNoticed, CanServe, Down, Typed
    <2> QED
      BY <1>4, <2>3, <2>4
  <1>10. CASE /\ stores = SetLease /\ raftTerm = shared.term /\ raftTerm # 0
             /\ shared.leader /\ shared.ready
    <2>1. /\ shared' = [shared EXCEPT !["lease"] = TRUE]
          /\ stores' = <<>>
      BY <1>1, <1>10, RisingSteps, OtherSteps, StoreEffect
    <2>2. /\ shared'.leader = shared.leader /\ shared'.ready = shared.ready
          /\ shared'.lease = TRUE /\ shared'.term = shared.term
      BY <2>1 DEF Typed
    <2>3. Typed' /\ StoresInOrder'
      BY <1>2, <1>10, <2>1, <2>2 DEF Typed, StoresInOrder, Down
    <2>4. LoadsAdd'
      BY <1>2, <1>3, <1>10, <2>2
      DEF LoadsAdd, SameTerm, ServingIsNoticed, CanServe, Down, Typed
    <2> QED
      BY <1>4, <2>3, <2>4
  <1>11. CASE /\ stores = Falling /\ raftTerm = 0 /\ shared.leader
             /\ (shared.lease => shared.ready)
    <2>1. /\ shared' = [shared EXCEPT !["leader"] = FALSE]
          /\ stores' = Falling2
      BY <1>1, <1>11, RisingSteps, OtherSteps, StoreEffect
    <2>2. /\ shared'.leader = FALSE /\ shared'.ready = shared.ready
          /\ shared'.lease = shared.lease /\ shared'.term = shared.term
      BY <2>1 DEF Typed
    <2>3. Typed' /\ StoresInOrder'
      BY <1>2, <1>11, <2>1, <2>2 DEF Typed, StoresInOrder, Down
    <2>4. LoadsAdd'
      BY <1>2, <1>3, <1>11, <2>2
      DEF LoadsAdd, SameTerm, ServingIsNoticed, CanServe, Down, Typed
    <2> QED
      BY <1>4, <2>3, <2>4
  <1>12. CASE /\ stores = Falling2 /\ raftTerm = 0 /\ ~shared.leader
             /\ (shared.lease => shared.ready)
    <2>1. /\ shared' = [shared EXCEPT !["ready"] = FALSE]
          /\ stores' = Falling1
      BY <1>1, <1>12, RisingSteps, OtherSteps, StoreEffect
    <2>2. /\ shared'.leader = shared.leader /\ shared'.ready = FALSE
          /\ shared'.lease = shared.lease /\ shared'.term = shared.term
      BY <2>1 DEF Typed
    <2>3. Typed' /\ StoresInOrder'
      BY <1>2, <1>12, <2>1, <2>2 DEF Typed, StoresInOrder, Down
    <2>4. LoadsAdd'
      BY <1>2, <1>3, <1>12, <2>2
      DEF LoadsAdd, SameTerm, ServingIsNoticed, CanServe, Down, Typed
    <2> QED
      BY <1>4, <2>3, <2>4
  <1>13. CASE stores = Falling1 /\ raftTerm = 0 /\ ~shared.leader /\ ~shared.ready
    <2>1. /\ shared' = [shared EXCEPT !["lease"] = FALSE]
          /\ stores' = <<>>
      BY <1>1, <1>13, RisingSteps, OtherSteps, StoreEffect
    <2>2. /\ shared'.leader = shared.leader /\ shared'.ready = shared.ready
          /\ shared'.lease = FALSE /\ shared'.term = shared.term
      BY <2>1 DEF Typed
    <2>3. Typed' /\ StoresInOrder'
      BY <1>2, <1>13, <2>1, <2>2 DEF Typed, StoresInOrder, Down
    <2>4. LoadsAdd'
      BY <1>2, <1>3, <1>13, <2>2
      DEF LoadsAdd, SameTerm, ServingIsNoticed, CanServe, Down, Typed
    <2> QED
      BY <1>4, <2>3, <2>4
  <1> QED
    BY <1>1, <1>5, <1>6, <1>7, <1>8, <1>9, <1>10, <1>11, <1>12, <1>13 DEF StoresInOrder

LEMMA ExpireStep ==
  ASSUME EpochInv, Expire
  PROVE  EpochInv'
  <1> USE DEF EpochInv
  <1>1. /\ shared' = [shared EXCEPT !.lease = FALSE]
        /\ UNCHANGED <<stores, raftTerm, worker, epoch, served, checks>>
    BY DEF Expire
  <1>2. /\ shared'.leader = shared.leader /\ shared'.ready = shared.ready
        /\ shared'.lease = FALSE /\ shared'.term = shared.term
    BY <1>1 DEF Typed
  <1>3. Typed' /\ StoresInOrder'
    BY <1>1, <1>2 DEF Typed, StoresInOrder, Down
  <1> QED
    BY <1>1, <1>2, <1>3
    DEF ServingIsNoticed, LoadsAdd, SameTerm, TokenWasGood, CanServe, Typed

\* The worker's loads, each of which adds what it has seen.
LEMMA WorkerStep ==
  ASSUME EpochInv,
         Begin \/ LoadLeader \/ LoadLeaderAgain \/ LoadReady \/ LoadLease
           \/ LoadTermAgain
  PROVE  EpochInv'
  <1> USE DEF EpochInv
  <1>1. UNCHANGED Loop
    BY DEF Begin, LoadLeader, LoadLeaderAgain, LoadReady, LoadLease,
           LoadTermAgain, Load, Moves, Fails
  <1>2. StoresInOrder'
    BY <1>1 DEF Loop, StoresInOrder, Down
  <1>3. CASE Fails
    <2>1. /\ worker' = [at |-> "rest", before |-> 0, trusted |-> 0]
          /\ epoch' = 0 /\ UNCHANGED <<shared, stores, raftTerm, served>>
      BY <1>1, <1>3 DEF Fails, Loop, Resting
    <2> QED
      BY <1>2, <2>1, LeadershipEpochAssumption
      DEF Typed, ServingIsNoticed, LoadsAdd, SameTerm, TokenWasGood
  <1>4. CASE Begin
    <2>1. /\ worker' = [at |-> "leader1", before |-> shared.term, trusted |-> 0]
          /\ served' = (IF CanServe(shared) THEN {shared.term} ELSE {})
          /\ UNCHANGED <<shared, stores, raftTerm, epoch>>
      BY <1>1, <1>4 DEF Begin, Loop
    <2>2. Typed'
      BY <2>1, LeadershipEpochAssumption DEF Typed
    <2>3. ServingIsNoticed' /\ TokenWasGood'
      BY <2>1 DEF ServingIsNoticed, TokenWasGood, CanServe
    <2>4. LoadsAdd'
      BY <2>1 DEF LoadsAdd, Typed
    <2> QED
      BY <1>2, <2>2, <2>3, <2>4
  <1>5. ASSUME NEW from \in {"leader1", "leader2", "ready", "lease"},
               NEW to \in {"leader2", "ready", "lease", "term"},
               worker.at = from, Moves(to)
        PROVE  /\ UNCHANGED <<shared, stores, raftTerm, epoch, served>>
               /\ worker'.at = to /\ worker'.before = worker.before
               /\ worker'.trusted = worker.trusted
               /\ Typed' /\ ServingIsNoticed' /\ TokenWasGood'
    BY <1>5 DEF Moves, Loop, Typed, ServingIsNoticed, TokenWasGood, CanServe
  <1>6. CASE LoadLeader /\ ~Fails
    <2>1. /\ worker.at = "leader1" /\ Moves("leader2") /\ worker.before # 0
          /\ shared.leader
      BY <1>6 DEF LoadLeader, Load
    <2> QED
      BY <1>2, <1>5, <2>1 DEF LoadsAdd, SameTerm, Typed
  <1>7. CASE LoadLeaderAgain /\ ~Fails
    <2>1. worker.at = "leader2" /\ Moves("ready") /\ shared.leader
      BY <1>7 DEF LoadLeaderAgain, Load
    <2> QED
      BY <1>2, <1>5, <2>1 DEF LoadsAdd, SameTerm, Typed
  <1>8. CASE LoadReady /\ ~Fails
    <2>1. worker.at = "ready" /\ Moves("lease") /\ shared.ready
      BY <1>8 DEF LoadReady, Load
    <2> QED
      BY <1>2, <1>5, <2>1 DEF LoadsAdd, SameTerm, Typed
  <1>9. CASE LoadLease /\ ~Fails
    <2>1. worker.at = "lease" /\ Moves("term") /\ shared.lease
      BY <1>9 DEF LoadLease, Load
    <2>2. shared.leader => CanServe(shared)
      BY <2>1 DEF StoresInOrder, CanServe, Down
    <2> QED
      BY <1>2, <1>5, <2>1, <2>2 DEF LoadsAdd, SameTerm, Typed, ServingIsNoticed
  <1>10. CASE LoadTermAgain /\ ~Fails
    <2>1. /\ worker.at = "term" /\ shared.term = worker.before
          /\ worker' = [at |-> "rest", before |-> 0, trusted |-> worker.before]
          /\ epoch' = worker.before /\ UNCHANGED <<shared, raftTerm, served>>
      BY <1>10 DEF LoadTermAgain, Resting, Loop
    <2> QED
      BY <1>2, <2>1, LeadershipEpochAssumption
      DEF Typed, ServingIsNoticed, LoadsAdd, SameTerm, TokenWasGood
  <1> QED
    BY <1>3, <1>4, <1>6, <1>7, <1>8, <1>9, <1>10

LEMMA StepEpochInv ==
  ASSUME EpochInv, [EpochNext]_epochVars
  PROVE  EpochInv'
  <1>1. CASE UNCHANGED epochVars
    BY <1>1 DEF epochVars, EpochInv, Typed, StoresInOrder, Down, ServingIsNoticed,
                LoadsAdd, SameTerm, TokenWasGood, CanServe
  <1> QED
    BY <1>1, CallStep, StoreStep, ExpireStep, WorkerStep DEF EpochNext

----------------------------------------------------------------------------
(* The theorems. *)

\* The flags, the term and what a check has seen of them are always in the
\* order EpochInv states.
THEOREM EpochInvariantHolds == EpochSpec => []EpochInv
  BY InitEpochInv, StepEpochInv, PTL DEF EpochSpec

\* A token passes only for a term in which the node could serve at some moment
\* of the check (current_leadership_epoch, is_current_leadership_epoch).
THEOREM TokenWasGoodHolds == EpochSpec => []TokenWasGood
  <1>1. EpochInv => TokenWasGood
    BY DEF EpochInv
  <1> QED
    BY EpochInvariantHolds, <1>1, PTL
=============================================================================
