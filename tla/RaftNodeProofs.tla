--------------------------- MODULE RaftNodeProofs ---------------------------
(***************************************************************************)
(* Proofs about RaftNode, for any finite group of nodes, any proposals and *)
(* any bounds.                                                             *)
(*                                                                         *)
(* RaftInv is Raft's own argument, told of the logs of the nodes, of the   *)
(* first appends on their way and of the committed log: entries of one     *)
(* term agree (Matching), a term has one leader with the longest log, and  *)
(* what is committed is held by a quorum and by every log of a later term  *)
(* (Stable).  To it come the indices and the readiness of the loop.        *)
(*                                                                         *)
(* LoopInv adds the waiters, the state machines and the answers. It needs  *)
(* ~Stall: a node that takes messages of two terms in one drain of its     *)
(* mailbox can keep a waiter whose entry was replaced.                     *)
(***************************************************************************)
EXTENDS RaftNode, FiniteSetTheorems, WellFoundedInduction, TLAPS

----------------------------------------------------------------------------
(* The invariant. *)

\* What each variable holds.
AppState == [isLeader : BOOLEAN, ready : BOOLEAN,
             barrier : [term : 0..MaxTerm, index : Nat],
             pending : SUBSET Waiter, taken : Nat, scheduled : Nat,
             job : [kind : {"none", "worker", "local"}, index : Nat,
                    data : Proposal \cup {NoOp}],
             written : BOOLEAN]

RaftState == [term : 0..MaxTerm, leads : BOOLEAN, log : Seq(Entry),
              commit : Nat, spoke : 0..MaxTerm]

DiskState == [applied : Nat, data : Seq(Proposal)]

Hello == [sent : BOOLEAN, log : Seq(Entry), commit : Nat]

Types ==
  /\ raft \in [Node -> RaftState]
  /\ app \in [Node -> AppState]
  /\ disk \in [Node -> DiskState]
  /\ hello \in [Term -> Hello]
  /\ answer \in [Proposal -> {"unasked", "waiting", "committed", "rejected", "lost"}]
  /\ chosen \in Seq(Entry)
  /\ crashes \in Nat

\* The logs of the nodes, those in flight and the committed one.
Logs ==
  {raft[n].log : n \in Node}
    \cup {hello[t].log : t \in {u \in Term : hello[u].sent}}
    \cup {chosen}

\* The logs x and y have the same first k entries.
SameTo(x, y, k) == \A i \in 1..k : x[i] = y[i]

\* Node n leads its term, or has not yet told its application that it stopped.
Reigns(n) ==
  /\ raft[n].spoke = raft[n].term
  /\ raft[n].leads \/ app[n].isLeader

\* Terms do not fall along a log.
TermsRise ==
  \A x \in Logs : \A i, j \in 1..Len(x) : i <= j => x[i].term <= x[j].term

\* No entry is of a term that no quorum has entered.
TermsStarted ==
  \A x \in Logs : \A i \in 1..Len(x) :
    \E Q \in Quorum : \A q \in Q : raft[q].term >= x[i].term

\* Two logs with entries of one term agree up to the earlier one.
Matching ==
  \A x, y \in Logs : \A i \in 1..Len(x), j \in 1..Len(y) :
    j <= i /\ x[i].term = y[j].term => SameTo(x, y, j)

\* A node is never behind what it has said, leads or holds.
OwnTerms ==
  \A n \in Node :
    /\ raft[n].spoke <= raft[n].term
    /\ raft[n].leads => raft[n].spoke = raft[n].term
    /\ \A i \in 1..Len(raft[n].log) : raft[n].log[i].term <= raft[n].term

\* A term has one leader, whose log is the longest of that term.
OneReigns ==
  \A n, m \in Node :
    Reigns(n) /\ Reigns(m) /\ raft[n].term = raft[m].term => n = m

ReignsLongest ==
  \A n \in Node : Reigns(n) =>
    /\ raft[n].log # <<>>
    /\ raft[n].log[Len(raft[n].log)].term = raft[n].term
    /\ \A y \in Logs : \A j \in 1..Len(y) :
         y[j].term = raft[n].term => j <= Len(raft[n].log)

\* The first append of a term, sent or about to be, ends with the term's
\* first entry.
EndsWithFirst(x, t) ==
  /\ x # <<>> /\ x[Len(x)].term = t
  /\ \A i \in 1..Len(x) : i < Len(x) => x[i].term < t

FirstAppends ==
  /\ \A n \in Node : raft[n].leads /\ ~app[n].isLeader =>
       /\ EndsWithFirst(raft[n].log, raft[n].term)
       /\ raft[n].commit < Len(raft[n].log)
  /\ \A t \in Term : hello[t].sent =>
       /\ EndsWithFirst(hello[t].log, t)
       /\ hello[t].commit < Len(hello[t].log)

\* Log x begins with the first k committed entries.
Holds(x, k) == k <= Len(chosen) /\ k <= Len(x) /\ SameTo(x, chosen, k)

\* The first k committed entries cannot be lost.
Stable(k) ==
  k = 0 \/ /\ k \in 1..Len(chosen)
           /\ \E Q \in Quorum : \A q \in Q :
                raft[q].term >= chosen[k].term /\ Holds(raft[q].log, k)
           /\ \A x \in Logs : \A i \in 1..Len(x) :
                x[i].term > chosen[k].term => Holds(x, k)

\* Who knows in term t that the first c entries are committed is right.
Backed(c, t) ==
  \E k \in 0..Len(chosen) :
    c <= k /\ Stable(k) /\ (k > 0 => chosen[k].term <= t)

\* All that is committed is stable, and no node or message claims more.
Commits ==
  /\ Stable(Len(chosen))
  /\ \A n \in Node : /\ Holds(raft[n].log, raft[n].commit)
                     /\ Backed(raft[n].commit, raft[n].term)
  /\ \A t \in Term : hello[t].sent =>
       /\ Holds(hello[t].log, hello[t].commit)
       /\ Backed(hello[t].commit, t)

\* durable_applied_index, the scheduled, the taken and the committed index
\* follow one another; the job at work is the one scheduled last.
Indices ==
  \A n \in Node :
    /\ disk[n].applied <= app[n].scheduled
    /\ app[n].scheduled <= app[n].taken
    /\ app[n].taken <= raft[n].commit
    /\ app[n].job # NoJob => /\ app[n].job.index = app[n].scheduled
                             /\ app[n].job.data \in Proposal
    /\ app[n].written => app[n].job # NoJob

\* Readiness and its barrier belong to the term in which the node last handled
\* a Ready.
Readiness ==
  \A n \in Node :
    /\ app[n].ready => app[n].isLeader
    /\ app[n].barrier # NoBarrier =>
         /\ app[n].isLeader
         /\ app[n].barrier.term = raft[n].spoke
         /\ raft[n].spoke = raft[n].term =>
              /\ app[n].barrier.index \in 1..Len(raft[n].log)
              /\ raft[n].log[app[n].barrier.index].term = raft[n].term
    /\ app[n].ready /\ raft[n].spoke = raft[n].term =>
         \E b \in 1..Len(chosen) :
           b <= disk[n].applied /\ chosen[b].term = raft[n].term

LogInv ==
  /\ TermsRise /\ TermsStarted /\ Matching /\ OwnTerms
  /\ OneReigns /\ ReignsLongest /\ FirstAppends /\ Commits

RaftInv == Types /\ LogInv /\ Indices /\ Readiness

\* The entry a waiter waits for carries its proposal.
Owns(n, w) ==
  w.index \in 1..Len(raft[n].log) /\ raft[n].log[w.index].data = w.data

\* The log of node n has an entry of its term, and the waiters for what is
\* before the first of them own their entry.
Taken(n) ==
  \E e \in 1..Len(raft[n].log) :
    /\ raft[n].log[e].term = raft[n].term
    /\ \A i \in 1..Len(raft[n].log) : i < e => raft[n].log[i].term < raft[n].term
    /\ \A w \in app[n].pending : w.index < e => Owns(n, w)

\* Who waits owns a committed entry; a leader, also one that has not learned
\* of its end, may have others only as long as its successor's first entry is
\* still to be handled.
Waiters ==
  \A n \in Node :
    /\ \A w \in app[n].pending : w.index > app[n].scheduled
    /\ \A w \in app[n].pending :
         /\ w.index <= raft[n].commit => Owns(n, w)
         /\ ~app[n].isLeader => w.index <= raft[n].commit
    /\ app[n].isLeader =>
         (\A w \in app[n].pending : Owns(n, w)) \/ (~Reigns(n) /\ Taken(n))

\* The state machine `data' holds what the first e entries of log x carry.
CarriesIn(x, data, e) ==
  \E at \in [1..Len(data) -> 1..e] :
    /\ \A j, k \in 1..Len(data) : j < k => at[j] < at[k]
    /\ \A i \in 1..e : x[i].data # NoOp => \E k \in 1..Len(data) : at[k] = i
    /\ \A k \in 1..Len(data) : /\ x[at[k]].data # NoOp
                               /\ data[k] = x[at[k]].data

\* The state machine is one entry ahead of the applied index.
Ahead(n) ==
  LET i == disk[n].applied + 1
  IN /\ i <= Len(chosen) /\ chosen[i].data # NoOp
     /\ i <= raft[n].commit
     /\ CarriesIn(chosen, disk[n].data, i)
     /\ \A w \in app[n].pending : w.index # i
     /\ app[n].job.kind # "local"

\* A state machine carries what is applied, or one entry more: the worker wrote
\* it, and the process may have stopped before the index was stored.
Machines ==
  \A n \in Node :
    /\ app[n].job = NoJob => app[n].scheduled = disk[n].applied
    /\ app[n].job # NoJob =>
         /\ app[n].job.kind # "none"
         /\ app[n].scheduled = disk[n].applied + 1
         /\ chosen[app[n].scheduled].data = app[n].job.data
         /\ app[n].job.data # NoOp
    /\ app[n].written => CarriesIn(chosen, disk[n].data, app[n].scheduled)
    /\ ~app[n].written => CarriesIn(chosen, disk[n].data, disk[n].applied) \/ Ahead(n)

\* A proposal is in a log at most once, and only after it was made.
Proposed ==
  \A x \in Logs :
    /\ \A i, j \in 1..Len(x) : x[i].data = x[j].data => i = j \/ x[i].data = NoOp
    /\ \A i \in 1..Len(x) : x[i].data # NoOp => answer[x[i].data] # "unasked"

LoopInv == RaftInv /\ Waiters /\ Machines /\ Proposed /\ HonestAnswer

----------------------------------------------------------------------------
(* Quorums, maximum and minimum. *)

LEMMA Bounds ==
  /\ MaxTerm \in Nat /\ MaxTerm # 0 /\ Term \subseteq Nat /\ 0 \notin Term
  /\ Term \subseteq 0..MaxTerm /\ NoOp \notin Proposal
  BY RaftNodeAssumption DEF Term

\* Two majorities of a finite group share a node.
LEMMA QuorumsMeet ==
  ASSUME NEW P \in Quorum, NEW Q \in Quorum
  PROVE  \E n \in Node : n \in P /\ n \in Q
  <1>1. IsFiniteSet(Node) /\ P \in SUBSET Node /\ Q \in SUBSET Node
    BY RaftNodeAssumption DEF Quorum
  <1>2. /\ Cardinality(P) \in Nat /\ Cardinality(Q) \in Nat
        /\ Cardinality(Node) \in Nat
    BY <1>1, FS_Subset, FS_CardinalityType
  <1>3. Cardinality(P) + Cardinality(Q) > Cardinality(Node)
    BY <1>2 DEF Quorum
  <1>4. P \cap Q # {}
    BY <1>1, <1>3, FS_MajoritiesIntersect
  <1> QED
    BY <1>1, <1>4

LEMMA MaxOfBounded ==
  ASSUME NEW b \in Nat, NEW S \in SUBSET (0..b), S # {}
  PROVE  Max(S) \in S /\ \A y \in S : Max(S) >= y
  <1> DEFINE R == {b - y : y \in S}
  <1>1. R \in SUBSET Nat /\ R # {}
    <2>1. \A y \in S : b - y \in Nat
      OBVIOUS
    <2> QED
      BY <2>1
  <1>2. PICK z \in R : \A y \in R : ~ (<<y, z>> \in OpToRel(<, Nat))
    BY <1>1, WFMin, NatLessThanWellFounded
  <1>3. PICK x \in S : z = b - x
    BY <1>2
  <1>4. \A y \in S : x >= y
    <2> TAKE y \in S
    <2>1. ~ (b - y < z)
      BY <1>1, <1>2 DEF OpToRel
    <2> QED
      BY <1>3, <2>1
  <1> QED
    BY <1>4 DEF Max

LEMMA MaxOfTwo ==
  ASSUME NEW a \in Nat, NEW b \in Nat
  PROVE  Max({a, b}) = IF a >= b THEN a ELSE b
  <1>1. \E x \in {a, b} : \A y \in {a, b} : x >= y
    <2>1. CASE a >= b
      BY <2>1
    <2>2. CASE b >= a
      BY <2>2
    <2> QED
      BY <2>1, <2>2
  <1>2. Max({a, b}) \in {a, b} /\ \A y \in {a, b} : Max({a, b}) >= y
    BY <1>1 DEF Max
  <1> QED
    BY <1>2

LEMMA MinOfTwo ==
  ASSUME NEW a \in Nat, NEW b \in Nat
  PROVE  Min({a, b}) = IF a <= b THEN a ELSE b
  <1>1. \E x \in {a, b} : \A y \in {a, b} : x <= y
    <2>1. CASE a <= b
      BY <2>1
    <2>2. CASE b <= a
      BY <2>2
    <2> QED
      BY <2>1, <2>2
  <1>2. Min({a, b}) \in {a, b} /\ \A y \in {a, b} : Min({a, b}) <= y
    BY <1>1 DEF Min
  <1> QED
    BY <1>2

----------------------------------------------------------------------------
(* What the types say. *)

LEMMA RaftTypes ==
  ASSUME Types, NEW n \in Node
  PROVE  /\ raft[n] \in RaftState
         /\ raft[n].term \in 0..MaxTerm /\ raft[n].term \in Nat
         /\ raft[n].spoke \in 0..MaxTerm /\ raft[n].spoke \in Nat
         /\ raft[n].leads \in BOOLEAN /\ raft[n].commit \in Nat
         /\ raft[n].log \in Seq(Entry) /\ Len(raft[n].log) \in Nat
  <1>1. raft[n] \in RaftState
    BY DEF Types
  <1> QED
    BY <1>1, Bounds DEF RaftState

LEMMA AppTypes ==
  ASSUME Types, NEW n \in Node
  PROVE  /\ app[n] \in AppState
         /\ app[n].isLeader \in BOOLEAN /\ app[n].ready \in BOOLEAN
         /\ app[n].barrier \in [term : 0..MaxTerm, index : Nat]
         /\ app[n].pending \subseteq Waiter
         /\ app[n].taken \in Nat /\ app[n].scheduled \in Nat
         /\ app[n].job \in [kind : {"none", "worker", "local"}, index : Nat,
                            data : Proposal \cup {NoOp}]
         /\ app[n].written \in BOOLEAN
         /\ disk[n] \in DiskState
         /\ disk[n].applied \in Nat /\ disk[n].data \in Seq(Proposal)
  <1>1. app[n] \in AppState /\ disk[n] \in DiskState
    BY DEF Types
  <1> QED
    BY <1>1 DEF AppState, DiskState

LEMMA HelloTypes ==
  ASSUME Types, NEW t \in Term
  PROVE  /\ hello[t] \in Hello /\ hello[t].sent \in BOOLEAN
         /\ hello[t].log \in Seq(Entry) /\ Len(hello[t].log) \in Nat
         /\ hello[t].commit \in Nat
  <1>1. hello[t] \in Hello
    BY DEF Types
  <1> QED
    BY <1>1 DEF Hello

LEMMA EntryTypes ==
  ASSUME NEW x \in Seq(Entry), NEW i \in 1..Len(x)
  PROVE  /\ x[i] \in Entry /\ x[i].term \in Term /\ x[i].term \in Nat
         /\ x[i].data \in Proposal \cup {NoOp}
  <1>1. x[i] \in Entry
    OBVIOUS
  <1> QED
    BY <1>1, Bounds DEF Entry

LEMMA IsLog ==
  /\ \A n \in Node : raft[n].log \in Logs
  /\ \A t \in Term : hello[t].sent => hello[t].log \in Logs
  /\ chosen \in Logs
  BY DEF Logs

LEMMA LogTypes ==
  ASSUME Types, NEW x \in Logs
  PROVE  x \in Seq(Entry) /\ Len(x) \in Nat
  <1>1. x \in Seq(Entry)
    <2>1. CASE \E n \in Node : x = raft[n].log
      BY <2>1, RaftTypes
    <2>2. CASE \E t \in Term : x = hello[t].log
      BY <2>2, HelloTypes
    <2>3. CASE x = chosen
      BY <2>3 DEF Types
    <2> QED
      BY <2>1, <2>2, <2>3 DEF Logs
  <1> QED
    BY <1>1

----------------------------------------------------------------------------
(* What cannot be lost. *)

LEMMA StableRange ==
  ASSUME Types, NEW k \in Nat, Stable(k)
  PROVE  k \in 0..Len(chosen) /\ (k > 0 => k \in 1..Len(chosen))
  BY DEF Types, Stable

LEMMA HoldsLess ==
  ASSUME Types, NEW k \in Nat, NEW c \in Nat, c <= k, NEW x \in Seq(Entry), Holds(x, k)
  PROVE  Holds(x, c)
  BY DEF Types, Holds, SameTo

LEMMA HoldsNothing ==
  ASSUME Types, NEW x \in Seq(Entry)
  PROVE  Holds(x, 0)
  BY DEF Types, Holds, SameTo

\* A log with an entry of the term of the committed entry k, at k or after it,
\* holds the first k.
LEMMA SameTermHolds ==
  ASSUME Types, Matching, NEW k \in 1..Len(chosen), NEW x \in Logs,
         NEW i \in 1..Len(x), x[i].term = chosen[k].term, k <= i
  PROVE  Holds(x, k)
  <1>1. x \in Seq(Entry) /\ Len(x) \in Nat /\ chosen \in Seq(Entry)
    BY LogTypes DEF Types
  <1>2. SameTo(x, chosen, k)
    BY <1>1, IsLog DEF Matching
  <1> QED
    BY <1>1, <1>2 DEF Holds

LEMMA ReignHolds ==
  ASSUME Types, LogInv, NEW k \in Nat, Stable(k), NEW l \in Node, Reigns(l),
         k > 0 => chosen[k].term <= raft[l].term
  PROVE  Holds(raft[l].log, k)
  <1>0. TermsRise /\ Matching /\ ReignsLongest
    BY DEF LogInv
  <1> DEFINE x == raft[l].log
  <1>1. x \in Seq(Entry) /\ Len(x) \in Nat /\ x \in Logs /\ chosen \in Seq(Entry)
    BY RaftTypes, IsLog DEF Types
  <1>2. /\ Len(x) \in 1..Len(x) /\ x[Len(x)].term = raft[l].term
        /\ \A j \in 1..Len(chosen) : chosen[j].term = raft[l].term => j <= Len(x)
    BY <1>0, <1>1, IsLog DEF ReignsLongest
  <1>3. CASE k = 0
    BY <1>1, <1>3, HoldsNothing
  <1>4. CASE k > 0 /\ chosen[k].term = raft[l].term
    BY <1>0, <1>1, <1>2, <1>4, StableRange, SameTermHolds
  <1>5. CASE k > 0 /\ chosen[k].term < raft[l].term
    BY <1>1, <1>2, <1>5 DEF Stable
  <1>6. k > 0 => chosen[k].term \in Nat /\ raft[l].term \in Nat
    BY <1>1, StableRange, EntryTypes, RaftTypes
  <1> QED
    BY <1>3, <1>4, <1>5, <1>6

\* The first append of a term holds the first k committed entries, or is what
\* they begin with.
LEMMA HelloHolds ==
  ASSUME Types, LogInv, NEW k \in Nat, Stable(k), NEW t \in Term, hello[t].sent,
         k > 0 => chosen[k].term <= t
  PROVE  \/ Holds(hello[t].log, k)
         \/ /\ Len(hello[t].log) <= k /\ k <= Len(chosen)
            /\ SameTo(chosen, hello[t].log, Len(hello[t].log))
  <1>0. TermsRise /\ Matching /\ FirstAppends
    BY DEF LogInv
  <1> DEFINE x == hello[t].log
  <1>1. x \in Seq(Entry) /\ Len(x) \in Nat /\ x \in Logs /\ chosen \in Seq(Entry)
    BY HelloTypes, IsLog DEF Types
  <1>2. Len(x) \in 1..Len(x) /\ x[Len(x)].term = t
    BY <1>0, <1>1 DEF FirstAppends, EndsWithFirst
  <1>3. CASE k = 0
    BY <1>1, <1>3, HoldsNothing
  <1>4. CASE k > 0 /\ chosen[k].term = t /\ k <= Len(x)
    BY <1>0, <1>1, <1>2, <1>4, StableRange, SameTermHolds
  <1>5. CASE k > 0 /\ chosen[k].term = t /\ k > Len(x)
    <2>1. k \in 1..Len(chosen)
      BY <1>5, StableRange
    <2>2. SameTo(chosen, x, Len(x))
      BY <1>0, <1>1, <1>2, <1>5, <2>1, IsLog DEF Matching
    <2> QED
      BY <1>1, <1>5, <2>1, <2>2
  <1>6. CASE k > 0 /\ chosen[k].term < t
    BY <1>1, <1>2, <1>6 DEF Stable
  <1>7. k > 0 => chosen[k].term \in Nat /\ t \in Nat
    BY <1>1, StableRange, EntryTypes, Bounds
  <1> QED
    BY <1>1, <1>3, <1>4, <1>5, <1>6, <1>7

\* A quorum in the term of a leader: nothing was committed in a later one.
LEMMA QuorumBounds ==
  ASSUME Types, NEW k \in Nat, Stable(k), NEW t \in Nat, NEW Q \in Quorum,
         \A q \in Q : raft[q].term <= t
  PROVE  k > 0 => chosen[k].term <= t
  <1> SUFFICES ASSUME k > 0 PROVE chosen[k].term <= t
    OBVIOUS
  <1>1. k \in 1..Len(chosen) /\ chosen \in Seq(Entry)
    BY StableRange DEF Types
  <1>2. PICK P \in Quorum : \A q \in P : raft[q].term >= chosen[k].term
    BY DEF Stable
  <1>3. PICK q \in Node : q \in P /\ q \in Q
    BY QuorumsMeet
  <1> QED
    BY <1>1, <1>2, <1>3, EntryTypes, RaftTypes

\* Nor does any log hold an entry of a later one.
LEMMA QuorumBoundsLogs ==
  ASSUME Types, TermsStarted, NEW t \in Nat, NEW Q \in Quorum,
         \A q \in Q : raft[q].term <= t, NEW x \in Logs, NEW i \in 1..Len(x)
  PROVE  x[i].term <= t
  <1>1. PICK P \in Quorum : \A q \in P : raft[q].term >= x[i].term
    BY DEF TermsStarted
  <1>2. PICK q \in Node : q \in P /\ q \in Q
    BY QuorumsMeet
  <1>3. x[i].term \in Nat
    BY LogTypes, EntryTypes
  <1> QED
    BY <1>1, <1>2, <1>3, RaftTypes

----------------------------------------------------------------------------
(* Steps that make no new log, and what a step must keep. *)

TermsGrow == \A q \in Node : raft'[q].term >= raft[q].term

ChosenGrows == Len(chosen) <= Len(chosen') /\ SameTo(chosen', chosen, Len(chosen))

\* The first k committed entries stay in the log of a node that has entered
\* the term of the last of them.
KeepsFirst(k) ==
  \A q \in Node : raft[q].term >= chosen[k].term /\ Holds(raft[q].log, k) =>
    /\ k <= Len(raft'[q].log)
    /\ SameTo(raft'[q].log, raft[q].log, k)

\* A new log that is of a later term than the committed entry k holds it.
NewLogsHold(k) ==
  \A x \in Logs' : \A i \in 1..Len(x) :
    x[i].term > chosen[k].term => k <= Len(x) /\ SameTo(x, chosen, k)

LEMMA QuietLogs ==
  ASSUME Types, Types', Logs' \subseteq Logs, TermsGrow,
         TermsRise, TermsStarted, Matching
  PROVE  TermsRise' /\ TermsStarted' /\ Matching'
  <1>1. TermsRise'
    BY DEF TermsRise
  <1>2. TermsStarted'
    <2> SUFFICES ASSUME NEW x \in Logs', NEW i \in 1..Len(x)
                 PROVE  \E Q \in Quorum : \A q \in Q : raft'[q].term >= x[i].term
      BY DEF TermsStarted
    <2>1. x \in Logs /\ x \in Seq(Entry)
      BY LogTypes
    <2>2. PICK Q \in Quorum : \A q \in Q : raft[q].term >= x[i].term
      BY <2>1 DEF TermsStarted
    <2>3. \A q \in Q : q \in Node
      BY DEF Quorum
    <2>4. \A q \in Q : raft'[q].term \in Nat /\ raft[q].term \in Nat
      BY <2>3, Bounds DEF Types, RaftState
    <2>5. x[i].term \in Nat
      BY <2>1, EntryTypes
    <2>6. \A q \in Q : raft'[q].term >= x[i].term
      BY <2>2, <2>3, <2>4, <2>5 DEF TermsGrow
    <2> QED
      BY <2>6
  <1>3. Matching'
    BY DEF Matching
  <1> QED
    BY <1>1, <1>2, <1>3

LEMMA QuietHolds ==
  ASSUME Types, NEW k \in Nat, Stable(k), Logs' \subseteq Logs
  PROVE  k > 0 => NewLogsHold(k)
  BY DEF NewLogsHold, Stable, Holds

LEMMA ChosenStays ==
  ASSUME Types, chosen' = chosen
  PROVE  ChosenGrows
  BY DEF Types, ChosenGrows, SameTo

LEMMA HoldsStays ==
  ASSUME Types, Types', ChosenGrows, NEW k \in Nat, NEW x,
         k <= Len(chosen), k <= Len(x), SameTo(x, chosen, k)
  PROVE  k <= Len(chosen') /\ SameTo(x, chosen', k)
  <1>1. Len(chosen) \in Nat /\ Len(chosen') \in Nat
    BY DEF Types
  <1> QED
    BY <1>1 DEF ChosenGrows, SameTo

LEMMA StableStays ==
  ASSUME Types, Types', ChosenGrows, TermsGrow, NEW k \in Nat, Stable(k),
         k > 0 => KeepsFirst(k) /\ NewLogsHold(k)
  PROVE  Stable(k)'
  <1>1. CASE k = 0
    BY <1>1 DEF Stable
  <1>2. CASE k > 0
    <2>1. /\ k \in 1..Len(chosen) /\ chosen \in Seq(Entry)
          /\ chosen' \in Seq(Entry) /\ Len(chosen) \in Nat /\ Len(chosen') \in Nat
      BY <1>2, StableRange DEF Types
    <2>2. k \in 1..Len(chosen') /\ chosen'[k] = chosen[k] /\ chosen[k].term \in Nat
      BY <2>1, EntryTypes DEF ChosenGrows, SameTo
    <2>3. PICK Q \in Quorum : \A q \in Q :
            raft[q].term >= chosen[k].term /\ Holds(raft[q].log, k)
      BY <1>2 DEF Stable
    <2>4. ASSUME NEW q \in Q
          PROVE  raft'[q].term >= chosen'[k].term /\ Holds(raft[q].log, k)'
      <3>1. q \in Node
        BY DEF Quorum
      <3>2. raft[q].term \in Nat /\ raft'[q].term \in Nat /\ raft'[q].term >= raft[q].term
        BY <3>1, Bounds DEF Types, RaftState, TermsGrow
      <3>3. /\ k <= Len(raft[q].log) /\ SameTo(raft[q].log, chosen, k)
            /\ k <= Len(raft'[q].log) /\ SameTo(raft'[q].log, raft[q].log, k)
        BY <1>2, <2>3, <3>1 DEF KeepsFirst, Holds
      <3>4. SameTo(raft'[q].log, chosen, k)
        BY <3>3 DEF SameTo
      <3>5. k <= Len(chosen') /\ SameTo(raft'[q].log, chosen', k)
        BY <2>1, <3>3, <3>4, HoldsStays
      <3> QED
        BY <2>2, <2>3, <3>2, <3>3, <3>5 DEF Holds
    <2>5. ASSUME NEW x \in Logs', NEW i \in 1..Len(x), x[i].term > chosen'[k].term
          PROVE  k <= Len(chosen') /\ k <= Len(x) /\ SameTo(x, chosen', k)
      <3>1. k <= Len(x) /\ SameTo(x, chosen, k)
        BY <1>2, <2>2, <2>5 DEF NewLogsHold
      <3> QED
        BY <2>1, <3>1, HoldsStays
    <2> QED
      BY <2>2, <2>4, <2>5 DEF Stable, Holds
  <1> QED
    BY <1>1, <1>2

\* A claim about committed entries that is backed stays backed.
LEMMA BackedStays ==
  ASSUME Types, Types', ChosenGrows, TermsGrow,
         \A k \in 1..Len(chosen) : Stable(k) => KeepsFirst(k) /\ NewLogsHold(k),
         NEW c \in Nat, NEW t \in Nat, NEW u \in Nat, t <= u, Backed(c, t)
  PROVE  \E k \in 0..Len(chosen') :
           c <= k /\ Stable(k)' /\ (k > 0 => chosen'[k].term <= u)
  <1>1. PICK k \in 0..Len(chosen) :
          c <= k /\ Stable(k) /\ (k > 0 => chosen[k].term <= t)
    BY DEF Backed
  <1>2. Len(chosen) \in Nat /\ Len(chosen') \in Nat /\ chosen \in Seq(Entry)
    BY DEF Types
  <1>3. Stable(k)'
    BY <1>1, <1>2, StableStays
  <1>4. k > 0 => chosen'[k].term <= u
    <2>1. k > 0 => /\ chosen'[k] = chosen[k] /\ chosen[k].term \in Nat
      BY <1>1, <1>2, EntryTypes DEF ChosenGrows, SameTo
    <2> QED
      BY <1>1, <2>1
  <1> QED
    BY <1>1, <1>2, <1>3, <1>4 DEF ChosenGrows

----------------------------------------------------------------------------
(* What the steps of raft-rs do. *)

\* Only node n changes, and only what raft-rs keeps of it.
OnlyRaft(n) ==
  /\ raft' \in [Node -> RaftState]
  /\ \A m \in Node : m # n => raft'[m] = raft[m]
  /\ UNCHANGED <<app, disk, hello, answer, crashes>>

LEMMA ElectEffect ==
  ASSUME Types, NEW n \in Node, NEW Q \in Quorum, Elect(n, Q)
  PROVE  \E t \in Term :
           /\ n \in Q /\ Q \subseteq Node
           /\ \A m \in Q : /\ raft[m].term < t
                           /\ Settled(m) /\ ~app[m].isLeader
                           /\ UpToDate(raft[n].log, raft[m].log)
                           /\ raft'[m].term = t /\ raft'[m].spoke = t
                           /\ raft'[m].leads = (m = n)
                           /\ raft'[m].commit = raft[m].commit
                           /\ m # n => raft'[m].log = raft[m].log
           /\ raft'[n].log = Append(raft[n].log, [term |-> t, data |-> NoOp])
           /\ \A m \in Node : m \notin Q => raft'[m] = raft[m]
           /\ raft' \in [Node -> RaftState]
           /\ UNCHANGED <<app, disk, hello, answer, chosen, crashes>>
  <1> DEFINE S == {raft[m].term : m \in Q}
             t == 1 + Max(S)
             new == [term |-> t, data |-> NoOp]
  <1>1. n \in Q /\ Q \subseteq Node /\ t <= MaxTerm
    BY DEF Elect, Quorum
  <1>2. S \in SUBSET (0..MaxTerm) /\ S # {}
    BY <1>1, RaftTypes
  <1>3. Max(S) \in S /\ \A y \in S : Max(S) >= y
    BY <1>2, Bounds, MaxOfBounded
  <1>4. t \in Term /\ \A m \in Q : raft[m].term < t
    <2>1. Max(S) \in Nat /\ \A m \in Q : raft[m].term \in Nat /\ Max(S) >= raft[m].term
      BY <1>1, <1>2, <1>3, RaftTypes
    <2> HIDE DEF S
    <2> QED
      BY <1>1, <2>1, Bounds DEF Term
  <1>5. new \in Entry
    BY <1>4 DEF Entry
  <1>6. ASSUME NEW m \in Node, m \in Q
        PROVE  /\ raft'[m].term = t /\ raft'[m].spoke = t
               /\ raft'[m].leads = (m = n) /\ raft'[m].commit = raft[m].commit
               /\ m # n => raft'[m].log = raft[m].log
               /\ m = n => raft'[m].log = Append(raft[m].log, new)
               /\ raft'[m] \in RaftState
    <2>1. raft'[m] = [raft[m] EXCEPT !.term = t, !.spoke = t, !.leads = (m = n),
                        !.log = IF m = n THEN Append(@, new) ELSE @]
      BY <1>6 DEF Elect
    <2>2. raft[m] \in RaftState
      BY RaftTypes
    <2>3. Append(raft[m].log, new) \in Seq(Entry)
      BY <1>5, RaftTypes
    <2>4. t \in 0..MaxTerm
      BY <1>4, Bounds
    <2> QED
      BY <2>1, <2>2, <2>3, <2>4 DEF RaftState
  <1>7. \A m \in Node : m \notin Q => raft'[m] = raft[m]
    BY DEF Elect
  <1>8. raft' \in [Node -> RaftState]
    <2>1. DOMAIN raft' = Node /\ raft' = [m \in Node |-> raft'[m]]
      BY DEF Elect
    <2>2. \A m \in Node : raft'[m] \in RaftState
      BY <1>6, <1>7, RaftTypes
    <2> QED
      BY <2>1, <2>2
  <1>9. \A m \in Q : /\ Settled(m) /\ ~app[m].isLeader
                     /\ UpToDate(raft[n].log, raft[m].log)
    BY DEF Elect
  <1>10. UNCHANGED <<app, disk, hello, answer, chosen, crashes>>
    BY DEF Elect
  <1> HIDE DEF t
  <1> QED
    BY <1>1, <1>4, <1>6, <1>7, <1>8, <1>9, <1>10

LEMMA TakeHeartbeatEffect ==
  ASSUME Types, NEW n \in Node, NEW t \in Term, TakeHeartbeat(n, t)
  PROVE  /\ OnlyRaft(n) /\ chosen' = chosen
         /\ hello[t].sent /\ raft[n].term < t /\ (Stall \/ Settled(n))
         /\ raft'[n].term = t /\ ~raft'[n].leads
         /\ raft'[n].log = raft[n].log /\ raft'[n].commit = raft[n].commit
         /\ raft'[n].spoke = raft[n].spoke
  <1>1. raft[n] \in RaftState /\ t \in 0..MaxTerm
    BY RaftTypes, Bounds
  <1>2. raft' = [raft EXCEPT ![n] = [raft[n] EXCEPT !.term = t, !.leads = FALSE]]
    BY DEF TakeHeartbeat, Heard
  <1>3. [raft[n] EXCEPT !.term = t, !.leads = FALSE] \in RaftState
    BY <1>1 DEF RaftState
  <1>4. raft' \in [Node -> RaftState]
    BY <1>2, <1>3 DEF Types
  <1>5. raft'[n] = [raft[n] EXCEPT !.term = t, !.leads = FALSE]
    BY <1>2 DEF Types
  <1>6. /\ raft'[n].term = t /\ ~raft'[n].leads
        /\ raft'[n].log = raft[n].log /\ raft'[n].commit = raft[n].commit
        /\ raft'[n].spoke = raft[n].spoke
    BY <1>1, <1>5 DEF RaftState
  <1> QED
    BY <1>2, <1>4, <1>6 DEF TakeHeartbeat, MayTake, OnlyRaft, Types

LEMMA TakeAppendEffect ==
  ASSUME Types, FirstAppends, NEW n \in Node, NEW t \in Term, TakeAppend(n, t)
  PROVE  LET x == raft[n].log
             y == hello[t].log
             e == Len(y)
         IN /\ OnlyRaft(n) /\ chosen' = chosen
            /\ hello[t].sent /\ raft[n].term <= t
            /\ raft[n].term < t => Stall \/ Settled(n)
            /\ raft[n].leads => raft[n].term < t
            /\ e >= 1 /\ Len(x) >= e - 1 /\ (e > 1 => x[e - 1] = y[e - 1])
            /\ \/ e <= Len(x) /\ x[e] = y[e] /\ raft'[n].log = x
               \/ ~(e <= Len(x) /\ x[e] = y[e]) /\ raft'[n].log = y
            /\ raft'[n].commit = IF raft[n].commit >= hello[t].commit
                                 THEN raft[n].commit ELSE hello[t].commit
            /\ raft'[n].term = t /\ ~raft'[n].leads
            /\ raft'[n].spoke = raft[n].spoke
  <1> DEFINE x == raft[n].log
             y == hello[t].log
             e == Len(y)
             log == IF Len(x) > e - 1 /\ x[e - 1 + 1] = y[e - 1 + 1] THEN x ELSE y
             c == Max({raft[n].commit, Min({hello[t].commit, Len(log)})})
             r == [raft[n] EXCEPT !.term = t, !.leads = FALSE, !.log = log, !.commit = c]
  <1>1. /\ raft[n] \in RaftState /\ t \in 0..MaxTerm /\ x \in Seq(Entry) /\ y \in Seq(Entry)
        /\ Len(x) \in Nat /\ e \in Nat /\ raft[n].commit \in Nat /\ hello[t].commit \in Nat
    BY RaftTypes, HelloTypes, Bounds
  <1>2. /\ hello[t].sent /\ raft[n].term <= t
        /\ raft[n].term < t => Stall \/ Settled(n)
        /\ raft[n].leads => raft[n].term < t
    BY DEF TakeAppend, MayTake
  <1>3. e >= 1 /\ hello[t].commit < e
    BY <1>1, <1>2 DEF FirstAppends, EndsWithFirst
  <1>4. Len(x) >= e - 1 /\ (e > 1 => x[e - 1] = y[e - 1])
    <2>1. Len(x) >= e - 1 /\ (e - 1 > 0 => x[e - 1] = y[e - 1])
      BY DEF TakeAppend
    <2> QED
      BY <1>1, <2>1
  <1>5. \/ e <= Len(x) /\ x[e] = y[e] /\ log = x
        \/ ~(e <= Len(x) /\ x[e] = y[e]) /\ log = y
    <2>1. e - 1 + 1 = e /\ (Len(x) > e - 1 <=> e <= Len(x))
      BY <1>1
    <2> QED
      BY <2>1
  <1>6. log \in Seq(Entry) /\ Len(log) \in Nat /\ Len(log) >= e
    BY <1>1, <1>5
  <1>7. raft' = [raft EXCEPT ![n] = [Heard(raft[n], t) EXCEPT !.log = log,
                   !.commit = c]]
    BY DEF TakeAppend
  <1> HIDE DEF log
  <1>9. c = IF raft[n].commit >= hello[t].commit THEN raft[n].commit ELSE hello[t].commit
    <2>1. Min({hello[t].commit, Len(log)}) = hello[t].commit
      BY <1>1, <1>3, <1>6, MinOfTwo
    <2> QED
      BY <1>1, <2>1, MaxOfTwo
  <1>10. c \in Nat
    BY <1>1, <1>9
  <1>11. raft' = [raft EXCEPT ![n] = r]
    BY <1>1, <1>7 DEF Heard, RaftState
  <1> HIDE DEF c
  <1>12. r \in RaftState
    BY <1>1, <1>6, <1>10 DEF RaftState
  <1>13. raft'[n] = r /\ raft' \in [Node -> RaftState]
    BY <1>11, <1>12 DEF Types
  <1>14. /\ raft'[n].term = t /\ ~raft'[n].leads /\ raft'[n].log = log
         /\ raft'[n].commit = c /\ raft'[n].spoke = raft[n].spoke
    BY <1>1, <1>13 DEF RaftState
  <1>15. OnlyRaft(n) /\ chosen' = chosen
    BY <1>11, <1>13 DEF TakeAppend, OnlyRaft, Types
  <1> QED
    BY <1>2, <1>3, <1>4, <1>5, <1>9, <1>14, <1>15

LEMMA ReplicateEffect ==
  ASSUME Types, NEW l \in Node, NEW n \in Node, Replicate(l, n)
  PROVE  /\ OnlyRaft(n) /\ chosen' = chosen
         /\ l # n /\ raft[l].leads /\ app[l].isLeader
         /\ raft[n].term = raft[l].term /\ raft[n].spoke = raft[n].term
         /\ raft'[n].term = raft[n].term /\ raft'[n].leads = raft[n].leads
         /\ raft'[n].log = raft[l].log /\ raft'[n].spoke = raft[n].spoke
         /\ raft'[n].commit = IF raft[n].commit >= raft[l].commit
                              THEN raft[n].commit ELSE raft[l].commit
  <1> DEFINE c == Max({raft[n].commit, raft[l].commit})
             r == [raft[n] EXCEPT !.log = raft[l].log, !.commit = c]
  <1>1. raft[n] \in RaftState /\ raft[l] \in RaftState
    BY RaftTypes
  <1>2. c = IF raft[n].commit >= raft[l].commit THEN raft[n].commit ELSE raft[l].commit
    BY RaftTypes, MaxOfTwo
  <1>3. c \in Nat
    BY <1>2, RaftTypes
  <1>4. raft' = [raft EXCEPT ![n] = r]
    BY DEF Replicate
  <1> HIDE DEF c
  <1>5. r \in RaftState
    BY <1>1, <1>3 DEF RaftState
  <1>6. raft'[n] = r /\ raft' \in [Node -> RaftState]
    BY <1>4, <1>5 DEF Types
  <1>7. /\ raft'[n].term = raft[n].term /\ raft'[n].leads = raft[n].leads
        /\ raft'[n].log = raft[l].log /\ raft'[n].spoke = raft[n].spoke
        /\ raft'[n].commit = c
    BY <1>1, <1>6 DEF RaftState
  <1> QED
    BY <1>2, <1>4, <1>6, <1>7 DEF Replicate, OnlyRaft, Types

LEMMA AdvanceCommitEffect ==
  ASSUME Types, NEW l \in Node, NEW Q \in Quorum, AdvanceCommit(l, Q)
  PROVE  \E k \in 1..Len(raft[l].log) :
           /\ OnlyRaft(l) /\ l \in Q /\ Q \subseteq Node
           /\ raft[l].leads /\ app[l].isLeader
           /\ k > raft[l].commit /\ raft[l].log[k].term = raft[l].term
           /\ \A m \in Q : /\ raft[m].term = raft[l].term
                           /\ Len(raft[m].log) >= k
                           /\ raft[m].log[k] = raft[l].log[k]
           /\ raft'[l].commit = k /\ raft'[l].log = raft[l].log
           /\ raft'[l].term = raft[l].term /\ raft'[l].leads = raft[l].leads
           /\ raft'[l].spoke = raft[l].spoke
           /\ chosen' = IF k > Len(chosen) THEN SubSeq(raft[l].log, 1, k) ELSE chosen
  <1> DEFINE S == {raft[l].commit} \cup Agreed(l, Q)
             k == Max(S)
  <1>1. /\ raft[l] \in RaftState /\ raft[l].commit \in Nat /\ Len(raft[l].log) \in Nat
        /\ Q \subseteq Node
    BY RaftTypes DEF Quorum
  <1>2. S \in SUBSET (0..(raft[l].commit + Len(raft[l].log))) /\ S # {}
    <2>1. Agreed(l, Q) \subseteq 1..Len(raft[l].log)
      BY DEF Agreed
    <2> QED
      BY <1>1, <2>1
  <1>3. k \in S
    <2>1. PICK b \in Nat : b = raft[l].commit + Len(raft[l].log)
      BY <1>1
    <2> HIDE DEF S
    <2> QED
      BY <1>2, <2>1, MaxOfBounded
  <1>4. k > raft[l].commit /\ raft[l].log[k].term = raft[l].term
    BY DEF AdvanceCommit
  <1>5. k \in Agreed(l, Q)
    BY <1>1, <1>3, <1>4
  <1>6. /\ raft[l].leads /\ app[l].isLeader /\ l \in Q
        /\ raft' = [raft EXCEPT ![l] = [raft[l] EXCEPT !.commit = k]]
        /\ chosen' = IF k > Len(chosen) THEN SubSeq(raft[l].log, 1, k) ELSE chosen
        /\ UNCHANGED <<app, disk, hello, answer, crashes>>
    BY DEF AdvanceCommit
  <1> HIDE DEF k
  <1>7. /\ k \in 1..Len(raft[l].log)
        /\ \A m \in Q : /\ raft[m].term = raft[l].term
                        /\ Len(raft[m].log) >= k
                        /\ raft[m].log[k] = raft[l].log[k]
    BY <1>5 DEF Agreed
  <1>8. k \in Nat
    BY <1>7
  <1>9. [raft[l] EXCEPT !.commit = k] \in RaftState
    BY <1>1, <1>8 DEF RaftState
  <1>10. raft'[l] = [raft[l] EXCEPT !.commit = k] /\ raft' \in [Node -> RaftState]
    BY <1>6, <1>9 DEF Types
  <1>11. /\ raft'[l].commit = k /\ raft'[l].log = raft[l].log
         /\ raft'[l].term = raft[l].term /\ raft'[l].leads = raft[l].leads
         /\ raft'[l].spoke = raft[l].spoke
    BY <1>1, <1>10 DEF RaftState
  <1>12. OnlyRaft(l)
    BY <1>6, <1>10 DEF OnlyRaft, Types
  <1> QED
    BY <1>1, <1>4, <1>6, <1>7, <1>11, <1>12

LEMMA StepDownEffect ==
  ASSUME Types, NEW n \in Node, StepDown(n)
  PROVE  /\ OnlyRaft(n) /\ chosen' = chosen
         /\ raft[n].leads /\ app[n].isLeader
         /\ raft'[n].term = raft[n].term /\ ~raft'[n].leads
         /\ raft'[n].log = raft[n].log /\ raft'[n].spoke = raft[n].spoke
         /\ raft'[n].commit = raft[n].commit
  <1>1. raft[n] \in RaftState
    BY RaftTypes
  <1>2. raft' = [raft EXCEPT ![n] = [raft[n] EXCEPT !.leads = FALSE]]
    BY DEF StepDown
  <1>3. raft'[n] = [raft[n] EXCEPT !.leads = FALSE] /\ raft' \in [Node -> RaftState]
    BY <1>1, <1>2 DEF Types, RaftState
  <1>4. /\ raft'[n].term = raft[n].term /\ ~raft'[n].leads
        /\ raft'[n].log = raft[n].log /\ raft'[n].spoke = raft[n].spoke
        /\ raft'[n].commit = raft[n].commit
    BY <1>1, <1>3 DEF RaftState
  <1> QED
    BY <1>2, <1>3, <1>4 DEF StepDown, OnlyRaft, Types

----------------------------------------------------------------------------
(* What the steps of the loop do. *)

\* How MaybeMarkLeaderReady leaves readiness and barrier.
Marked(n, lead, ready, barrier, applied, a) ==
  \/ a.ready = ready /\ a.barrier = barrier
  \/ /\ lead /\ ~ready /\ barrier # NoBarrier
     /\ raft[n].term = barrier.term
     /\ raft[n].commit >= barrier.index /\ applied >= barrier.index
     /\ a.ready /\ a.barrier = NoBarrier

LEMMA MarkEffect ==
  ASSUME NEW n, NEW applied, NEW a \in AppState
  PROVE  LET b == MaybeMarkLeaderReady(n, a, applied)
         IN /\ b \in AppState /\ b.isLeader = a.isLeader
            /\ b.pending = a.pending /\ b.taken = a.taken
            /\ b.scheduled = a.scheduled /\ b.job = a.job /\ b.written = a.written
            /\ Marked(n, a.isLeader, a.ready, a.barrier, applied, b)
  <1>1. NoBarrier \in [term : 0..MaxTerm, index : Nat]
    BY Bounds DEF NoBarrier
  <1> DEFINE good == [a EXCEPT !.ready = TRUE, !.barrier = NoBarrier]
  <1>2. good \in AppState /\ good.isLeader = a.isLeader
    BY <1>1 DEF AppState
  <1>3. /\ good.pending = a.pending /\ good.taken = a.taken
        /\ good.scheduled = a.scheduled /\ good.job = a.job /\ good.written = a.written
        /\ good.ready /\ good.barrier = NoBarrier
    BY DEF AppState
  <1>4. CASE MaybeMarkLeaderReady(n, a, applied) = a
    BY <1>4 DEF Marked
  <1>5. CASE /\ a.isLeader /\ ~a.ready /\ a.barrier # NoBarrier
             /\ raft[n].term = a.barrier.term
             /\ raft[n].commit >= a.barrier.index
             /\ applied >= a.barrier.index
             /\ MaybeMarkLeaderReady(n, a, applied) = good
    <2> HIDE DEF good
    <2> QED
      BY <1>2, <1>3, <1>5 DEF Marked
  <1> QED
    BY <1>4, <1>5 DEF MaybeMarkLeaderReady

\* Only node n changes its application's state.
OnlyApp(n) ==
  /\ app' \in [Node -> AppState]
  /\ \A m \in Node : m # n => app'[m] = app[m]

LEMMA HandleReadyEffect ==
  ASSUME Types, LogInv, NEW n \in Node, HandleReady(n)
  PROVE  LET gains == raft[n].leads /\ ~app[n].isLeader
             loses == ~raft[n].leads /\ app[n].isLeader
         IN /\ OnlyApp(n) /\ UNCHANGED <<disk, chosen, crashes>>
            /\ raft' \in [Node -> RaftState]
            /\ \A m \in Node : m # n => raft'[m] = raft[m]
            /\ raft'[n].term = raft[n].term /\ raft'[n].leads = raft[n].leads
            /\ raft'[n].log = raft[n].log /\ raft'[n].commit = raft[n].commit
            /\ raft'[n].spoke = raft[n].term
            /\ app'[n].isLeader = raft[n].leads
            /\ app'[n].taken = raft[n].commit
            /\ app'[n].scheduled = app[n].scheduled
            /\ app'[n].job = app[n].job /\ app'[n].written = app[n].written
            /\ app'[n].pending = IF loses THEN KeptWaiters(n) ELSE app[n].pending
            /\ loses => ~app'[n].ready /\ app'[n].barrier = NoBarrier
            /\ gains => Marked(n, TRUE, FALSE,
                               [term |-> raft[n].term, index |-> Len(raft[n].log)],
                               disk[n].applied, app'[n])
            /\ ~gains /\ ~loses => Marked(n, app[n].isLeader, app[n].ready,
                                          app[n].barrier, disk[n].applied, app'[n])
            /\ ~gains => hello' = hello
            /\ gains => /\ raft[n].term \in Term
                        /\ hello' = [hello EXCEPT ![raft[n].term] =
                             [sent |-> TRUE, log |-> raft[n].log, commit |-> raft[n].commit]]
            /\ ~loses => answer' = answer
            /\ loses => answer' = [p \in Proposal |->
                          IF Released(n, p) THEN Verdict(n, p) ELSE answer[p]]
  <1> DEFINE gains == raft[n].leads /\ ~app[n].isLeader
             loses == ~raft[n].leads /\ app[n].isLeader
             start == [term |-> raft[n].term, index |-> Len(raft[n].log)]
             a == IF gains THEN BecomeLeader(n, app[n])
                  ELSE IF loses THEN Revoke(n, app[n]) ELSE app[n]
             b == [a EXCEPT !.taken = raft[n].commit]
  <1>1. /\ raft[n] \in RaftState /\ app[n] \in AppState /\ raft[n].commit \in Nat
        /\ raft[n].leads \in BOOLEAN /\ app[n].isLeader \in BOOLEAN
        /\ start \in [term : 0..MaxTerm, index : Nat]
        /\ NoBarrier \in [term : 0..MaxTerm, index : Nat]
    BY RaftTypes, AppTypes, Bounds DEF NoBarrier
  <1>2. /\ app' = [app EXCEPT ![n] = MaybeMarkLeaderReady(n, b, disk[n].applied)]
        /\ raft' = [raft EXCEPT ![n] = [raft[n] EXCEPT !.spoke = raft[n].term]]
        /\ hello' = IF gains
                    THEN [hello EXCEPT ![raft[n].term] =
                            [sent |-> TRUE, log |-> raft[n].log, commit |-> raft[n].commit]]
                    ELSE hello
        /\ answer' = IF loses
                     THEN [p \in Proposal |-> IF Released(n, p) THEN Verdict(n, p)
                                              ELSE answer[p]]
                     ELSE answer
        /\ UNCHANGED <<disk, chosen, crashes>>
    BY DEF HandleReady
  <1>3. KeptWaiters(n) \subseteq Waiter
    BY AppTypes DEF KeptWaiters
  <1>4. /\ a \in AppState /\ a.isLeader = raft[n].leads /\ a.scheduled = app[n].scheduled
        /\ a.job = app[n].job /\ a.written = app[n].written
        /\ a.pending = IF loses THEN KeptWaiters(n) ELSE app[n].pending
        /\ loses => ~a.ready /\ a.barrier = NoBarrier
        /\ gains => ~a.ready /\ a.barrier = start
        /\ ~gains /\ ~loses => a.ready = app[n].ready /\ a.barrier = app[n].barrier
    <2>1. CASE gains
      BY <1>1, <2>1 DEF BecomeLeader, AppState
    <2>2. CASE loses
      BY <1>1, <1>3, <2>2 DEF Revoke, AppState
    <2>3. CASE ~gains /\ ~loses
      BY <1>1, <2>3
    <2> QED
      BY <2>1, <2>2, <2>3
  <1> HIDE DEF a
  <1>5. /\ b \in AppState /\ b.isLeader = raft[n].leads /\ b.scheduled = app[n].scheduled
        /\ b.job = app[n].job /\ b.written = app[n].written /\ b.pending = a.pending
        /\ b.ready = a.ready /\ b.barrier = a.barrier /\ b.taken = raft[n].commit
    BY <1>1, <1>4 DEF AppState
  <1> HIDE DEF b
  <1>6. PICK c : c = MaybeMarkLeaderReady(n, b, disk[n].applied)
    OBVIOUS
  <1>7. /\ c \in AppState /\ c.isLeader = b.isLeader
        /\ c.pending = b.pending /\ c.taken = b.taken
        /\ c.scheduled = b.scheduled /\ c.job = b.job /\ c.written = b.written
        /\ Marked(n, b.isLeader, b.ready, b.barrier, disk[n].applied, c)
    BY <1>5, <1>6, MarkEffect
  <1>8. OnlyApp(n) /\ app'[n] = c
    BY <1>2, <1>6, <1>7 DEF Types, OnlyApp
  <1>9. [raft[n] EXCEPT !.spoke = raft[n].term] \in RaftState
    BY <1>1 DEF RaftState
  <1>10. /\ raft' \in [Node -> RaftState] /\ \A m \in Node : m # n => raft'[m] = raft[m]
         /\ raft'[n] = [raft[n] EXCEPT !.spoke = raft[n].term]
    BY <1>2, <1>9 DEF Types
  <1>11. /\ raft'[n].term = raft[n].term /\ raft'[n].leads = raft[n].leads
         /\ raft'[n].log = raft[n].log /\ raft'[n].commit = raft[n].commit
         /\ raft'[n].spoke = raft[n].term
    BY <1>1, <1>10 DEF RaftState
  <1>12. ASSUME loses
         PROVE  ~c.ready /\ c.barrier = NoBarrier
    BY <1>4, <1>5, <1>7, <1>12 DEF Marked
  <1>13. ASSUME gains
         PROVE  Marked(n, TRUE, FALSE, start, disk[n].applied, c)
    BY <1>1, <1>4, <1>5, <1>7, <1>13 DEF Marked, AppState
  <1>14. ASSUME ~gains, ~loses
         PROVE  Marked(n, app[n].isLeader, app[n].ready, app[n].barrier,
                       disk[n].applied, c)
    BY <1>1, <1>4, <1>5, <1>7, <1>14 DEF Marked
  <1>15. ASSUME gains
         PROVE  raft[n].term \in Term
    <2>1. Reigns(n)
      BY <1>15 DEF LogInv, OwnTerms, Reigns
    <2>2. raft[n].log # <<>> /\ raft[n].log[Len(raft[n].log)].term = raft[n].term
      BY <2>1 DEF LogInv, ReignsLongest
    <2>3. raft[n].log \in Seq(Entry) /\ Len(raft[n].log) \in 1..Len(raft[n].log)
      BY <2>2, RaftTypes
    <2> QED
      BY <2>2, <2>3, EntryTypes
  <1> QED
    BY <1>2, <1>4, <1>5, <1>7, <1>8, <1>10, <1>11, <1>12, <1>13, <1>14, <1>15

Answers == {"unasked", "waiting", "committed", "rejected", "lost"}

LEMMA ReigningTerm ==
  ASSUME Types, LogInv, NEW n \in Node, Reigns(n)
  PROVE  /\ raft[n].term \in Term /\ raft[n].log # <<>>
         /\ Len(raft[n].log) \in 1..Len(raft[n].log)
         /\ raft[n].log[Len(raft[n].log)].term = raft[n].term
  <1>1. raft[n].log # <<>> /\ raft[n].log[Len(raft[n].log)].term = raft[n].term
    BY DEF LogInv, ReignsLongest
  <1>2. raft[n].log \in Seq(Entry) /\ Len(raft[n].log) \in 1..Len(raft[n].log)
    BY <1>1, RaftTypes
  <1> QED
    BY <1>1, <1>2, EntryTypes

LEMMA LeaderReigns ==
  ASSUME LogInv, NEW n \in Node, raft[n].leads
  PROVE  Reigns(n)
  BY DEF LogInv, OwnTerms, Reigns

LEMMA ProposeEffect ==
  ASSUME Types, LogInv, NEW n \in Node, NEW p \in Proposal, Propose(n, p)
  PROVE  /\ answer[p] = "unasked"
         /\ UNCHANGED <<disk, hello, chosen, crashes>>
         /\ \/ /\ raft[n].leads /\ app[n].ready
               /\ raft' \in [Node -> RaftState]
               /\ \A m \in Node : m # n => raft'[m] = raft[m]
               /\ raft'[n].term = raft[n].term /\ raft'[n].leads = raft[n].leads
               /\ raft'[n].commit = raft[n].commit /\ raft'[n].spoke = raft[n].spoke
               /\ [term |-> raft[n].term, data |-> p] \in Entry
               /\ raft'[n].log = Append(raft[n].log, [term |-> raft[n].term, data |-> p])
               /\ OnlyApp(n)
               /\ app'[n].pending =
                    app[n].pending \cup {[index |-> Len(raft[n].log) + 1, data |-> p]}
               /\ app'[n].isLeader = app[n].isLeader /\ app'[n].ready = app[n].ready
               /\ app'[n].barrier = app[n].barrier /\ app'[n].taken = app[n].taken
               /\ app'[n].scheduled = app[n].scheduled
               /\ app'[n].job = app[n].job /\ app'[n].written = app[n].written
               /\ answer' = [answer EXCEPT ![p] = "waiting"]
            \/ /\ answer' = [answer EXCEPT ![p] = "rejected"]
               /\ UNCHANGED <<raft, app>>
  <1> DEFINE new == [term |-> raft[n].term, data |-> p]
             w == [index |-> Len(raft[n].log) + 1, data |-> p]
  <1>1. answer[p] = "unasked" /\ UNCHANGED <<disk, hello, chosen, crashes>>
    BY DEF Propose
  <1>2. CASE raft[n].leads /\ app[n].ready
    <2>1. /\ raft' = [raft EXCEPT ![n] = [raft[n] EXCEPT !.log = Append(raft[n].log, new)]]
          /\ app' = [app EXCEPT ![n] = [app[n] EXCEPT !.pending = app[n].pending \cup {w}]]
          /\ answer' = [answer EXCEPT ![p] = "waiting"]
      BY <1>2 DEF Propose
    <2>2. raft[n] \in RaftState /\ app[n] \in AppState /\ Len(raft[n].log) \in Nat
      BY RaftTypes, AppTypes
    <2>3. new \in Entry
      BY <1>2, LeaderReigns, ReigningTerm DEF Entry
    <2>4. w \in Waiter
      BY <2>2 DEF Waiter
    <2>5. Append(raft[n].log, new) \in Seq(Entry) /\ app[n].pending \cup {w} \subseteq Waiter
      BY <2>3, <2>4, RaftTypes, AppTypes
    <2> HIDE DEF new, w
    <2>6. /\ [raft[n] EXCEPT !.log = Append(raft[n].log, new)] \in RaftState
          /\ [app[n] EXCEPT !.pending = app[n].pending \cup {w}] \in AppState
      BY <2>2, <2>5 DEF RaftState, AppState
    <2>7. /\ raft' \in [Node -> RaftState] /\ \A m \in Node : m # n => raft'[m] = raft[m]
          /\ raft'[n] = [raft[n] EXCEPT !.log = Append(raft[n].log, new)]
          /\ OnlyApp(n)
          /\ app'[n] = [app[n] EXCEPT !.pending = app[n].pending \cup {w}]
      BY <2>1, <2>6 DEF Types, OnlyApp
    <2>8. /\ raft'[n].term = raft[n].term /\ raft'[n].leads = raft[n].leads
          /\ raft'[n].commit = raft[n].commit /\ raft'[n].spoke = raft[n].spoke
          /\ raft'[n].log = Append(raft[n].log, new)
      BY <2>2, <2>7 DEF RaftState
    <2>9. /\ app'[n].pending = app[n].pending \cup {w}
          /\ app'[n].isLeader = app[n].isLeader /\ app'[n].ready = app[n].ready
          /\ app'[n].barrier = app[n].barrier /\ app'[n].taken = app[n].taken
          /\ app'[n].scheduled = app[n].scheduled
          /\ app'[n].job = app[n].job /\ app'[n].written = app[n].written
      BY <2>2, <2>7 DEF AppState
    <2> QED
      BY <1>1, <1>2, <2>1, <2>3, <2>7, <2>8, <2>9 DEF new, w
  <1>3. CASE ~(raft[n].leads /\ app[n].ready)
    BY <1>1, <1>3 DEF Propose
  <1> QED
    BY <1>2, <1>3

\* Only the state machine of node n changes.
OnlyDisk(n) ==
  /\ disk' \in [Node -> DiskState]
  /\ \A m \in Node : m # n => disk'[m] = disk[m]

LEMMA ScheduleEffect ==
  ASSUME RaftInv, NEW n \in Node, Schedule(n)
  PROVE  LET i == app[n].scheduled + 1
             mine == {w \in app[n].pending : w.index = i}
         IN /\ UNCHANGED <<raft, hello, chosen, crashes>>
            /\ OnlyApp(n) /\ OnlyDisk(n)
            /\ app[n].job = NoJob /\ i <= app[n].taken /\ i \in 1..Len(raft[n].log)
            /\ app'[n].scheduled = i /\ app'[n].isLeader = app[n].isLeader
            /\ app'[n].taken = app[n].taken /\ app'[n].written = app[n].written
            /\ disk'[n].data = disk[n].data
            /\ \/ /\ raft[n].log[i].data = NoOp
                  /\ disk'[n].applied = i /\ answer' = answer
                  /\ app'[n].pending = app[n].pending /\ app'[n].job = NoJob
                  /\ Marked(n, app[n].isLeader, app[n].ready, app[n].barrier, i, app'[n])
               \/ /\ raft[n].log[i].data # NoOp
                  /\ disk'[n].applied = disk[n].applied
                  /\ answer' = [p \in Proposal |->
                                  IF \E w \in mine : w.data = p THEN "committed" ELSE answer[p]]
                  /\ app'[n].pending = app[n].pending \ mine
                  /\ app'[n].ready = app[n].ready /\ app'[n].barrier = app[n].barrier
                  /\ app'[n].job.index = i
                  /\ app'[n].job.kind = IF mine = {} THEN "worker" ELSE "local"
                  /\ mine = {} => app'[n].job.data = raft[n].log[i].data
                  /\ mine # {} => \E w \in mine : app'[n].job.data = w.data
  <1> DEFINE i == app[n].scheduled + 1
             mine == {w \in app[n].pending : w.index = i}
             a == [app[n] EXCEPT !.scheduled = i]
  <1>1. Types /\ LogInv /\ Indices
    BY DEF RaftInv
  <1>2. /\ app[n] \in AppState /\ disk[n] \in DiskState /\ app[n].scheduled \in Nat
        /\ app[n].taken \in Nat /\ app[n].pending \subseteq Waiter
        /\ raft[n].commit \in Nat /\ raft[n].log \in Seq(Entry) /\ Len(raft[n].log) \in Nat
    BY <1>1, RaftTypes, AppTypes
  <1>3. /\ app[n].job = NoJob /\ i <= app[n].taken
        /\ UNCHANGED <<raft, hello, chosen, crashes>>
    BY DEF Schedule
  <1>4. i \in 1..Len(raft[n].log) /\ i \in Nat
    <2>1. app[n].taken <= raft[n].commit /\ raft[n].commit <= Len(raft[n].log)
      BY <1>1 DEF Indices, LogInv, Commits, Holds
    <2> QED
      BY <1>2, <1>3, <2>1
  <1>5. /\ a \in AppState /\ a.scheduled = i /\ a.isLeader = app[n].isLeader
        /\ a.taken = app[n].taken /\ a.written = app[n].written
        /\ a.pending = app[n].pending /\ a.job = app[n].job
        /\ a.ready = app[n].ready /\ a.barrier = app[n].barrier
    BY <1>2, <1>4 DEF AppState
  <1>6. CASE raft[n].log[i].data = NoOp
    <2>1. /\ disk' = [disk EXCEPT ![n] = [disk[n] EXCEPT !.applied = i]]
          /\ app' = [app EXCEPT ![n] = MaybeMarkLeaderReady(n, a, i)]
          /\ answer' = answer
      BY <1>6 DEF Schedule
    <2> HIDE DEF a, i
    <2>2. /\ [disk[n] EXCEPT !.applied = i] \in DiskState
          /\ [disk[n] EXCEPT !.applied = i].applied = i
          /\ [disk[n] EXCEPT !.applied = i].data = disk[n].data
      BY <1>2, <1>4 DEF DiskState
    <2>3. OnlyDisk(n) /\ disk'[n].applied = i /\ disk'[n].data = disk[n].data
      BY <1>1, <2>1, <2>2 DEF Types, OnlyDisk
    <2>4. PICK c : c = MaybeMarkLeaderReady(n, a, i)
      OBVIOUS
    <2>5. /\ c \in AppState /\ c.isLeader = a.isLeader
          /\ c.pending = a.pending /\ c.taken = a.taken
          /\ c.scheduled = a.scheduled /\ c.job = a.job /\ c.written = a.written
          /\ Marked(n, a.isLeader, a.ready, a.barrier, i, c)
      BY <1>5, <2>4, MarkEffect
    <2>6. OnlyApp(n) /\ app'[n] = c
      BY <1>1, <2>1, <2>4, <2>5 DEF Types, OnlyApp
    <2>7. Marked(n, app[n].isLeader, app[n].ready, app[n].barrier, i, c)
      BY <1>5, <2>5
    <2> QED
      BY <1>3, <1>4, <1>5, <1>6, <2>1, <2>3, <2>5, <2>6, <2>7 DEF i
  <1>7. CASE raft[n].log[i].data # NoOp
    <2> DEFINE kind == IF mine = {} THEN "worker" ELSE "local"
    <2>1. PICK w \in (IF mine = {} THEN {[index |-> i, data |-> raft[n].log[i].data]}
                      ELSE mine) :
            app' = [app EXCEPT ![n] = [a EXCEPT
                      !.pending = @ \ mine,
                      !.job = [kind |-> kind, index |-> i, data |-> w.data]]]
      BY <1>7 DEF Schedule
    <2>2. /\ answer' = [p \in Proposal |->
                          IF \E v \in mine : v.data = p THEN "committed" ELSE answer[p]]
          /\ disk' = disk
      BY <1>7 DEF Schedule
    <2>3. w.data \in Proposal \cup {NoOp}
      <3>1. CASE mine = {}
        BY <1>2, <1>4, <2>1, <3>1, EntryTypes
      <3>2. CASE mine # {}
        BY <1>2, <2>1, <3>2 DEF Waiter
      <3> QED
        BY <3>1, <3>2
    <2>4. /\ mine = {} => w.data = raft[n].log[i].data
          /\ mine # {} => w \in mine
      BY <2>1
    <2>5. PICK job : job = [kind |-> kind, index |-> i, data |-> w.data]
      OBVIOUS
    <2>6. /\ job \in [kind : {"none", "worker", "local"}, index : Nat,
                      data : Proposal \cup {NoOp}]
          /\ job.index = i /\ job.kind = kind /\ job.data = w.data
      BY <1>4, <2>3, <2>5
    <2>7. PICK left : left = app[n].pending \ mine
      OBVIOUS
    <2>8. app' = [app EXCEPT ![n] = [a EXCEPT !.pending = left, !.job = job]]
      BY <1>5, <2>1, <2>5, <2>7
    <2>9. left \subseteq Waiter
      BY <1>2, <2>7
    <2> HIDE DEF a, kind
    <2>10. PICK c : c = [a EXCEPT !.pending = left, !.job = job]
      OBVIOUS
    <2>11. /\ c \in AppState /\ c.pending = left /\ c.job = job /\ c.isLeader = a.isLeader
           /\ c.taken = a.taken /\ c.scheduled = a.scheduled /\ c.written = a.written
           /\ c.ready = a.ready /\ c.barrier = a.barrier
      BY <1>5, <2>6, <2>9, <2>10 DEF AppState
    <2>12. OnlyApp(n) /\ app'[n] = c
      BY <1>1, <2>8, <2>10, <2>11 DEF Types, OnlyApp
    <2>13. OnlyDisk(n) /\ disk'[n] = disk[n]
      BY <1>1, <2>2 DEF Types, OnlyDisk
    <2> HIDE DEF mine, i
    <2>14. mine # {} => \E v \in mine : app'[n].job.data = v.data
      BY <2>4, <2>6, <2>11, <2>12
    <2> QED
      BY <1>3, <1>4, <1>5, <1>7, <2>2, <2>4, <2>6, <2>7, <2>11, <2>12, <2>13, <2>14
      DEF mine, i, kind
  <1> QED
    BY <1>6, <1>7

LEMMA WriteEffect ==
  ASSUME RaftInv, NEW n \in Node, Write(n)
  PROVE  /\ UNCHANGED <<raft, hello, answer, chosen, crashes>>
         /\ OnlyApp(n) /\ OnlyDisk(n)
         /\ app[n].job # NoJob /\ ~app[n].written
         /\ app'[n].isLeader = app[n].isLeader /\ app'[n].ready = app[n].ready
         /\ app'[n].barrier = app[n].barrier /\ app'[n].pending = app[n].pending
         /\ app'[n].taken = app[n].taken /\ app'[n].scheduled = app[n].scheduled
         /\ app'[n].job = app[n].job /\ app'[n].written
         /\ disk'[n].applied = disk[n].applied
         /\ disk'[n].data =
              IF app[n].job.kind = "worker" /\ Contains(disk[n].data, app[n].job.data)
              THEN disk[n].data ELSE Append(disk[n].data, app[n].job.data)
  <1>1. Types
    BY DEF RaftInv
  <1>2. app[n] \in AppState /\ disk[n] \in DiskState /\ disk[n].data \in Seq(Proposal)
    BY <1>1, AppTypes
  <1>3. PICK data : data = IF app[n].job.kind = "worker" /\ Contains(disk[n].data, app[n].job.data)
                           THEN disk[n].data ELSE Append(disk[n].data, app[n].job.data)
    OBVIOUS
  <1>4. data \in Seq(Proposal)
    <2>1. app[n].job # NoJob
      BY DEF Write
    <2>2. app[n].job.data \in Proposal
      BY <2>1 DEF RaftInv, Indices
    <2> QED
      BY <1>2, <1>3, <2>2
  <1>5. /\ app[n].job # NoJob /\ ~app[n].written
        /\ app' = [app EXCEPT ![n] = [app[n] EXCEPT !.written = TRUE]]
        /\ disk' = [disk EXCEPT ![n] = [disk[n] EXCEPT !.data = data]]
        /\ UNCHANGED <<raft, hello, answer, chosen, crashes>>
    BY <1>3 DEF Write
  <1>6. /\ [app[n] EXCEPT !.written = TRUE] \in AppState
        /\ [disk[n] EXCEPT !.data = data] \in DiskState
    BY <1>2, <1>4 DEF AppState, DiskState
  <1>7. /\ OnlyApp(n) /\ OnlyDisk(n)
        /\ app'[n] = [app[n] EXCEPT !.written = TRUE]
        /\ disk'[n] = [disk[n] EXCEPT !.data = data]
    BY <1>1, <1>5, <1>6 DEF Types, OnlyApp, OnlyDisk
  <1>8. /\ app'[n].isLeader = app[n].isLeader /\ app'[n].ready = app[n].ready
        /\ app'[n].barrier = app[n].barrier /\ app'[n].pending = app[n].pending
        /\ app'[n].taken = app[n].taken /\ app'[n].scheduled = app[n].scheduled
        /\ app'[n].job = app[n].job /\ app'[n].written
        /\ disk'[n].applied = disk[n].applied /\ disk'[n].data = data
    BY <1>2, <1>7 DEF AppState, DiskState
  <1> QED
    BY <1>3, <1>5, <1>7, <1>8

LEMMA FinishEffect ==
  ASSUME RaftInv, NEW n \in Node, Finish(n)
  PROVE  /\ UNCHANGED <<raft, hello, answer, chosen, crashes>>
         /\ OnlyApp(n) /\ OnlyDisk(n)
         /\ app[n].written
         /\ app[n].job.kind = "worker" => app[n].pending = {}
         /\ app'[n].isLeader = app[n].isLeader /\ app'[n].pending = app[n].pending
         /\ app'[n].taken = app[n].taken /\ app'[n].scheduled = app[n].scheduled
         /\ app'[n].job = NoJob /\ ~app'[n].written
         /\ Marked(n, app[n].isLeader, app[n].ready, app[n].barrier,
                   app[n].job.index, app'[n])
         /\ disk'[n].applied = app[n].job.index /\ disk'[n].data = disk[n].data
  <1>1. Types
    BY DEF RaftInv
  <1>2. /\ app[n] \in AppState /\ disk[n] \in DiskState /\ app[n].job.index \in Nat
        /\ NoJob \in [kind : {"none", "worker", "local"}, index : Nat,
                      data : Proposal \cup {NoOp}]
    BY <1>1, AppTypes DEF NoJob
  <1>3. PICK a : a = [app[n] EXCEPT !.job = NoJob, !.written = FALSE]
    OBVIOUS
  <1>4. /\ app[n].written /\ (app[n].job.kind = "worker" => app[n].pending = {})
        /\ disk' = [disk EXCEPT ![n] = [disk[n] EXCEPT !.applied = app[n].job.index]]
        /\ app' = [app EXCEPT ![n] = MaybeMarkLeaderReady(n, a, app[n].job.index)]
        /\ UNCHANGED <<raft, hello, answer, chosen, crashes>>
    BY <1>3 DEF Finish
  <1>5. /\ a \in AppState /\ a.isLeader = app[n].isLeader /\ a.ready = app[n].ready
        /\ a.barrier = app[n].barrier /\ a.pending = app[n].pending
        /\ a.taken = app[n].taken /\ a.scheduled = app[n].scheduled
        /\ a.job = NoJob /\ ~a.written
    BY <1>2, <1>3 DEF AppState
  <1>6. PICK c : c = MaybeMarkLeaderReady(n, a, app[n].job.index)
    OBVIOUS
  <1>7. /\ c \in AppState /\ c.isLeader = a.isLeader
        /\ c.pending = a.pending /\ c.taken = a.taken
        /\ c.scheduled = a.scheduled /\ c.job = a.job /\ c.written = a.written
        /\ Marked(n, a.isLeader, a.ready, a.barrier, app[n].job.index, c)
    BY <1>5, <1>6, MarkEffect
  <1>8. [disk[n] EXCEPT !.applied = app[n].job.index] \in DiskState
    BY <1>2 DEF DiskState
  <1>9. /\ OnlyApp(n) /\ OnlyDisk(n) /\ app'[n] = c
        /\ disk'[n] = [disk[n] EXCEPT !.applied = app[n].job.index]
    BY <1>1, <1>4, <1>6, <1>7, <1>8 DEF Types, OnlyApp, OnlyDisk
  <1>10. disk'[n].applied = app[n].job.index /\ disk'[n].data = disk[n].data
    BY <1>2, <1>9 DEF DiskState
  <1> QED
    BY <1>4, <1>5, <1>7, <1>9, <1>10

LEMMA CrashEffect ==
  ASSUME Types, NEW n \in Node, Crash(n)
  PROVE  /\ UNCHANGED <<disk, hello, chosen>> /\ crashes' \in Nat
         /\ raft' \in [Node -> RaftState]
         /\ \A m \in Node : m # n => raft'[m] = raft[m]
         /\ raft'[n].term = raft[n].term /\ ~raft'[n].leads
         /\ raft'[n].log = raft[n].log /\ raft'[n].spoke = raft[n].spoke
         /\ raft'[n].commit = raft[n].commit
         /\ OnlyApp(n)
         /\ ~app'[n].isLeader /\ ~app'[n].ready /\ app'[n].barrier = NoBarrier
         /\ app'[n].pending = {} /\ app'[n].taken = disk[n].applied
         /\ app'[n].scheduled = disk[n].applied /\ app'[n].job = NoJob
         /\ ~app'[n].written
         /\ answer' = [p \in Proposal |-> IF \E w \in app[n].pending : w.data = p
                                          THEN "lost" ELSE answer[p]]
  <1>1. raft[n] \in RaftState /\ disk[n].applied \in Nat
    BY RaftTypes, AppTypes
  <1>2. PICK k \in Nat : k = disk[n].applied
    BY <1>1
  <1>3. PICK a : a = [Idle EXCEPT !.taken = k, !.scheduled = k]
    OBVIOUS
  <1>4. /\ raft' = [raft EXCEPT ![n] = [raft[n] EXCEPT !.leads = FALSE]]
        /\ app' = [app EXCEPT ![n] = a]
        /\ answer' = [p \in Proposal |-> IF \E w \in app[n].pending : w.data = p
                                         THEN "lost" ELSE answer[p]]
        /\ UNCHANGED <<disk, hello, chosen>> /\ crashes' = crashes + 1
    BY <1>2, <1>3 DEF Crash
  <1>5. /\ NoBarrier \in [term : 0..MaxTerm, index : Nat]
        /\ NoJob \in [kind : {"none", "worker", "local"}, index : Nat,
                      data : Proposal \cup {NoOp}]
    BY Bounds DEF NoBarrier, NoJob
  <1>6. /\ a \in AppState /\ ~a.isLeader /\ ~a.ready /\ a.barrier = NoBarrier
        /\ a.pending = {} /\ a.taken = k /\ a.scheduled = k /\ a.job = NoJob
        /\ ~a.written
    BY <1>3, <1>5 DEF Idle, AppState
  <1>7. [raft[n] EXCEPT !.leads = FALSE] \in RaftState
    BY <1>1 DEF RaftState
  <1>8. /\ raft' \in [Node -> RaftState] /\ \A m \in Node : m # n => raft'[m] = raft[m]
        /\ raft'[n] = [raft[n] EXCEPT !.leads = FALSE]
        /\ OnlyApp(n) /\ app'[n] = a /\ crashes' \in Nat
    BY <1>4, <1>6, <1>7 DEF Types, OnlyApp
  <1>9. /\ raft'[n].term = raft[n].term /\ ~raft'[n].leads
        /\ raft'[n].log = raft[n].log /\ raft'[n].spoke = raft[n].spoke
        /\ raft'[n].commit = raft[n].commit
    BY <1>1, <1>8 DEF RaftState
  <1> QED
    BY <1>2, <1>4, <1>6, <1>8, <1>9

----------------------------------------------------------------------------
(* Preservation: what all steps share. *)

\* The step loses nothing that is committed.
Sound ==
  /\ ChosenGrows /\ TermsGrow
  /\ \A k \in 1..Len(chosen) : Stable(k) => KeepsFirst(k) /\ NewLogsHold(k)

NodeFits(n) ==
  Holds(raft[n].log, raft[n].commit) /\ Backed(raft[n].commit, raft[n].term)

HelloFits(t) ==
  hello[t].sent => /\ Holds(hello[t].log, hello[t].commit)
                   /\ Backed(hello[t].commit, t)

LEMMA BackedBySound ==
  ASSUME Types, Types', Sound, NEW c \in Nat, NEW t \in Nat, NEW u \in Nat, t <= u,
         Backed(c, t)
  PROVE  \E k \in 0..Len(chosen') :
           c <= k /\ Stable(k)' /\ (k > 0 => chosen'[k].term <= u)
  BY BackedStays DEF Sound

LEMMA NodeFitsStays ==
  ASSUME Types, Types', Sound, Commits, NEW n \in Node,
         raft'[n].commit = raft[n].commit,
         raft[n].commit <= Len(raft'[n].log),
         SameTo(raft'[n].log, raft[n].log, raft[n].commit)
  PROVE  NodeFits(n)'
  <1>1. /\ raft[n].commit \in Nat /\ raft[n].term \in Nat
        /\ raft'[n].term \in Nat /\ raft[n].term <= raft'[n].term
    BY RaftTypes, Bounds DEF Types, RaftState, Sound, TermsGrow
  <1>2. PICK c \in Nat : c = raft[n].commit
    BY <1>1
  <1>3. /\ c <= Len(chosen) /\ SameTo(raft[n].log, chosen, c) /\ Backed(c, raft[n].term)
    BY <1>2 DEF Commits, Holds
  <1>4. SameTo(raft'[n].log, chosen, c)
    BY <1>2, <1>3 DEF SameTo
  <1>5. c <= Len(chosen') /\ SameTo(raft'[n].log, chosen', c)
    BY <1>2, <1>3, <1>4, HoldsStays DEF Sound
  <1>6. \E k \in 0..Len(chosen') :
           c <= k /\ Stable(k)' /\ (k > 0 => chosen'[k].term <= raft'[n].term)
    BY <1>1, <1>3, BackedBySound
  <1> QED
    BY <1>2, <1>5, <1>6 DEF NodeFits, Holds, Backed

LEMMA HelloFitsStays ==
  ASSUME Types, Types', Sound, Commits, NEW t \in Term, hello'[t] = hello[t]
  PROVE  HelloFits(t)'
  <1> SUFFICES ASSUME hello[t].sent
               PROVE  /\ Holds(hello[t].log, hello[t].commit)'
                      /\ Backed(hello[t].commit, t)'
    BY DEF HelloFits
  <1>1. t \in Nat /\ hello[t].commit \in Nat
    BY HelloTypes, Bounds
  <1>2. PICK c \in Nat : c = hello[t].commit
    BY <1>1
  <1>3. /\ c <= Len(chosen) /\ c <= Len(hello[t].log) /\ SameTo(hello[t].log, chosen, c)
        /\ Backed(c, t)
    BY <1>2 DEF Commits, Holds
  <1>5. c <= Len(chosen') /\ SameTo(hello[t].log, chosen', c)
    BY <1>2, <1>3, HoldsStays DEF Sound
  <1>6. \E k \in 0..Len(chosen') :
           c <= k /\ Stable(k)' /\ (k > 0 => chosen'[k].term <= t)
    BY <1>1, <1>3, BackedBySound
  <1> QED
    BY <1>2, <1>3, <1>5, <1>6 DEF Holds, Backed

LEMMA TopStays ==
  ASSUME Types, Types', Sound, Commits, chosen' = chosen
  PROVE  Stable(Len(chosen))'
  <1>1. PICK k \in Nat : k = Len(chosen)
    BY DEF Types
  <1>2. Stable(k)'
    BY <1>1, StableStays DEF Sound, Commits
  <1> QED
    BY <1>1, <1>2 DEF Stable

\* A step that makes no new log and no new leader.
LEMMA QuietStep ==
  ASSUME Types, Types', LogInv, Logs' \subseteq Logs, Sound, chosen' = chosen,
         \A m \in Node : Reigns(m)' => /\ Reigns(m) /\ raft'[m].log = raft[m].log
                                       /\ raft'[m].term = raft[m].term,
         OwnTerms', FirstAppends',
         \A m \in Node : NodeFits(m)',
         \A t \in Term : HelloFits(t)'
  PROVE  LogInv'
  <1>1. /\ TermsRise /\ TermsStarted /\ Matching /\ OneReigns /\ ReignsLongest /\ Commits
    BY DEF LogInv
  <1>2. TermsRise' /\ TermsStarted' /\ Matching'
    BY <1>1, QuietLogs DEF Sound
  <1>3. OneReigns'
    <2> SUFFICES ASSUME NEW n \in Node, NEW m \in Node, Reigns(n)', Reigns(m)',
                        raft'[n].term = raft'[m].term
                 PROVE  n = m
      BY DEF OneReigns
    <2> QED
      BY <1>1 DEF OneReigns
  <1>4. ReignsLongest'
    <2> SUFFICES ASSUME NEW n \in Node, Reigns(n)'
                 PROVE  /\ raft'[n].log # <<>>
                        /\ raft'[n].log[Len(raft'[n].log)].term = raft'[n].term
                        /\ \A y \in Logs' : \A j \in 1..Len(y) :
                             y[j].term = raft'[n].term => j <= Len(raft'[n].log)
      BY DEF ReignsLongest
    <2> QED
      BY <1>1 DEF ReignsLongest
  <1>5. Commits'
    <2>1. Stable(Len(chosen))'
      BY <1>1, TopStays
    <2> QED
      BY <2>1 DEF Commits, NodeFits, HelloFits
  <1> QED
    BY <1>2, <1>3, <1>4, <1>5 DEF LogInv

LEMMA QuietSound ==
  ASSUME Types, Types', Logs' \subseteq Logs, chosen' = chosen, TermsGrow,
         \A k \in 1..Len(chosen) : Stable(k) => KeepsFirst(k)
  PROVE  Sound
  <1>1. \A k \in 1..Len(chosen) : Stable(k) => NewLogsHold(k)
    BY QuietHolds
  <1> QED
    BY <1>1, ChosenStays DEF Sound

LEMMA SameLogsKeep ==
  ASSUME Types, \A q \in Node : raft'[q].log = raft[q].log, NEW k \in 1..Len(chosen)
  PROVE  KeepsFirst(k)
  BY DEF KeepsFirst, Holds, SameTo

LEMMA SameLogsFit ==
  ASSUME Types, Types', Sound, Commits, NEW n \in Node,
         raft'[n].commit = raft[n].commit, raft'[n].log = raft[n].log
  PROVE  NodeFits(n)'
  <1>1. raft[n].commit <= Len(raft'[n].log)
    BY DEF Commits, Holds
  <1>2. SameTo(raft'[n].log, raft[n].log, raft[n].commit)
    BY DEF SameTo
  <1> QED
    BY <1>1, <1>2, NodeFitsStays

LEMMA OnlyRaftTypes ==
  ASSUME Types, NEW n \in Node, OnlyRaft(n), chosen' \in Seq(Entry)
  PROVE  Types'
  BY DEF Types, OnlyRaft

LEMMA OnlyRaftLogs ==
  ASSUME NEW n \in Node, OnlyRaft(n), chosen' = chosen, raft'[n].log \in Logs
  PROVE  Logs' \subseteq Logs
  BY DEF Logs, OnlyRaft

----------------------------------------------------------------------------
(* Preservation: steps without effect on the logs. *)

LEMMA LogFrame ==
  ASSUME Types, Types', LogInv, UNCHANGED <<raft, hello, chosen>>,
         \A n \in Node : app'[n].isLeader = app[n].isLeader
  PROVE  LogInv'
  <1>1. Commits /\ OwnTerms /\ FirstAppends
    BY DEF LogInv
  <1>2. Logs' \subseteq Logs
    BY DEF Logs
  <1>3. TermsGrow
    BY RaftTypes DEF TermsGrow
  <1>4. Sound
    BY <1>2, <1>3, SameLogsKeep, QuietSound
  <1>5. \A m \in Node : Reigns(m)' => Reigns(m)
    BY DEF Reigns
  <1>6. OwnTerms'
    BY <1>1 DEF OwnTerms
  <1>7. FirstAppends'
    BY <1>1 DEF FirstAppends
  <1>8. \A m \in Node : NodeFits(m)'
    BY <1>1, <1>4, SameLogsFit
  <1>9. \A t \in Term : HelloFits(t)'
    BY <1>1, <1>4, HelloFitsStays
  <1> QED
    BY <1>2, <1>4, <1>5, <1>6, <1>7, <1>8, <1>9, QuietStep

\* Losing the lead, in raft-rs or by a crash.
LEMMA StopsLeading ==
  ASSUME Types, Types', LogInv, NEW n \in Node, hello' = hello, chosen' = chosen,
         \A m \in Node : m # n => raft'[m] = raft[m] /\ app'[m] = app[m],
         raft'[n].term = raft[n].term, ~raft'[n].leads,
         raft'[n].log = raft[n].log, raft'[n].spoke = raft[n].spoke,
         raft'[n].commit = raft[n].commit,
         app'[n].isLeader => app[n].isLeader
  PROVE  LogInv'
  <1>1. Commits /\ OwnTerms /\ FirstAppends
    BY DEF LogInv
  <1>2. Logs' \subseteq Logs
    BY DEF Logs
  <1>3. TermsGrow
    BY RaftTypes DEF TermsGrow
  <1>4. Sound
    BY <1>2, <1>3, SameLogsKeep, QuietSound
  <1>5. \A m \in Node : Reigns(m)' => Reigns(m)
    BY DEF Reigns
  <1>6. OwnTerms'
    BY <1>1 DEF OwnTerms
  <1>7. FirstAppends'
    BY <1>1 DEF FirstAppends
  <1>8. \A m \in Node : NodeFits(m)'
    BY <1>1, <1>4, SameLogsFit
  <1>9. \A t \in Term : HelloFits(t)'
    BY <1>1, <1>4, HelloFitsStays
  <1>10. \A m \in Node : Reigns(m)' => /\ Reigns(m) /\ raft'[m].log = raft[m].log
                                       /\ raft'[m].term = raft[m].term
    BY <1>5
  <1> QED
    BY <1>2, <1>4, <1>6, <1>7, <1>8, <1>9, <1>10, QuietStep

LEMMA HandleReadyLog ==
  ASSUME Types, Types', LogInv, NEW n \in Node, HandleReady(n)
  PROVE  LogInv'
  <1>0. Commits /\ OwnTerms /\ FirstAppends
    BY DEF LogInv
  <1> DEFINE t == raft[n].term
             gains == raft[n].leads /\ ~app[n].isLeader
             first == [sent |-> TRUE, log |-> raft[n].log, commit |-> raft[n].commit]
  <1>1. /\ OnlyApp(n) /\ chosen' = chosen
        /\ \A m \in Node : m # n => raft'[m] = raft[m]
        /\ raft'[n].term = raft[n].term /\ raft'[n].leads = raft[n].leads
        /\ raft'[n].log = raft[n].log /\ raft'[n].commit = raft[n].commit
        /\ raft'[n].spoke = raft[n].term
        /\ app'[n].isLeader = raft[n].leads
        /\ ~gains => hello' = hello
        /\ gains => t \in Term /\ hello' = [hello EXCEPT ![t] = first]
    BY HandleReadyEffect
  <1>2. \A u \in Term : hello'[u] = hello[u] \/ (gains /\ u = t /\ hello'[u] = first)
    BY <1>1 DEF Types
  <1>3. \A m \in Node : raft'[m].log = raft[m].log /\ raft'[m].term = raft[m].term
    BY <1>1
  <1>4. Logs' \subseteq Logs
    <2> SUFFICES ASSUME NEW x \in Logs' PROVE x \in Logs
      OBVIOUS
    <2>1. CASE \E m \in Node : x = raft'[m].log
      BY <1>3, <2>1, IsLog
    <2>2. CASE \E u \in Term : hello'[u].sent /\ x = hello'[u].log
      <3>1. PICK u \in Term : hello'[u].sent /\ x = hello'[u].log
        BY <2>2
      <3>2. CASE hello'[u] = hello[u]
        BY <3>1, <3>2, IsLog
      <3>3. CASE hello'[u] = first
        BY <3>1, <3>3, IsLog
      <3> QED
        BY <1>2, <3>2, <3>3
    <2>3. CASE x = chosen'
      BY <1>1, <2>3, IsLog
    <2> QED
      BY <2>1, <2>2, <2>3 DEF Logs
  <1>5. TermsGrow
    BY <1>3, RaftTypes DEF TermsGrow
  <1>6. Sound
    BY <1>1, <1>3, <1>4, <1>5, SameLogsKeep, QuietSound
  <1>7. \A m \in Node : Reigns(m)' => /\ Reigns(m) /\ raft'[m].log = raft[m].log
                                      /\ raft'[m].term = raft[m].term
    BY <1>0, <1>1, <1>3 DEF Reigns, OnlyApp, OwnTerms
  <1>8. OwnTerms'
    <2>1. \A m \in Node : raft'[m].term \in Nat
      BY <1>3, RaftTypes
    <2> QED
      BY <1>0, <1>1, <1>3, <2>1 DEF OwnTerms
  <1>9. FirstAppends'
    <2>1. ASSUME NEW m \in Node, raft'[m].leads, ~app'[m].isLeader
          PROVE  /\ EndsWithFirst(raft'[m].log, raft'[m].term)
                 /\ raft'[m].commit < Len(raft'[m].log)
      BY <1>0, <1>1, <2>1 DEF FirstAppends, OnlyApp
    <2>2. ASSUME NEW u \in Term, hello'[u].sent
          PROVE  /\ EndsWithFirst(hello'[u].log, u)
                 /\ hello'[u].commit < Len(hello'[u].log)
      <3>1. CASE hello'[u] = hello[u]
        BY <1>0, <2>2, <3>1 DEF FirstAppends
      <3>2. CASE gains /\ u = t /\ hello'[u] = first
        BY <1>0, <3>2 DEF FirstAppends
      <3> QED
        BY <1>2, <3>1, <3>2
    <2> QED
      BY <2>1, <2>2 DEF FirstAppends
  <1>10. \A m \in Node : NodeFits(m)'
    <2>1. \A m \in Node : raft'[m].commit = raft[m].commit
      BY <1>1
    <2> QED
      BY <1>0, <1>3, <1>6, <2>1, SameLogsFit
  <1>11. ASSUME NEW u \in Term
         PROVE  HelloFits(u)'
    <2>1. CASE hello'[u] = hello[u]
      BY <1>0, <1>6, <2>1, HelloFitsStays
    <2>2. CASE gains /\ u = t /\ hello'[u] = first
      <3>1. /\ hello'[u].log = raft'[n].log /\ hello'[u].commit = raft'[n].commit
            /\ u = raft'[n].term
        BY <1>1, <2>2
      <3>2. NodeFits(n)'
        BY <1>10
      <3> QED
        BY <3>1, <3>2 DEF NodeFits, HelloFits, Holds, Backed
    <2> QED
      BY <1>2, <2>1, <2>2
  <1> QED
    BY <1>1, <1>4, <1>6, <1>7, <1>8, <1>9, <1>10, <1>11, QuietStep

----------------------------------------------------------------------------
(* Preservation: a node follows a leader. *)

LEMMA NodeFitsFrom ==
  ASSUME Types, Types', Sound, NEW n \in Node, NEW c \in Nat, NEW u \in Nat,
         u <= raft'[n].term, Backed(c, u), raft'[n].commit = c,
         c <= Len(chosen), c <= Len(raft'[n].log), SameTo(raft'[n].log, chosen, c)
  PROVE  NodeFits(n)'
  <1>1. raft'[n].term \in Nat
    BY Bounds DEF Types, RaftState
  <1>2. c <= Len(chosen') /\ SameTo(raft'[n].log, chosen', c)
    BY HoldsStays DEF Sound
  <1>3. \E k \in 0..Len(chosen') :
           c <= k /\ Stable(k)' /\ (k > 0 => chosen'[k].term <= raft'[n].term)
    BY <1>1, BackedBySound
  <1> QED
    BY <1>2, <1>3 DEF NodeFits, Holds, Backed

\* What a follower step must show of the node that takes it.
LEMMA FollowStep ==
  ASSUME Types, Types', LogInv, NEW n \in Node, OnlyRaft(n), chosen' = chosen,
         raft'[n].log \in Logs, raft[n].term <= raft'[n].term,
         raft'[n].spoke = raft[n].spoke,
         raft'[n].leads => Reigns(n)',
         Reigns(n)' => /\ Reigns(n) /\ raft'[n].log = raft[n].log
                       /\ raft'[n].term = raft[n].term,
         raft'[n].leads => raft[n].leads /\ raft'[n].commit = raft[n].commit,
         \A i \in 1..Len(raft'[n].log) : raft'[n].log[i].term <= raft'[n].term,
         \A k \in 1..Len(chosen) : Stable(k) => KeepsFirst(k),
         Sound => NodeFits(n)'
  PROVE  LogInv'
  <1>0. Commits /\ OwnTerms /\ FirstAppends
    BY DEF LogInv
  <1>1. Logs' \subseteq Logs
    BY OnlyRaftLogs
  <1>2. TermsGrow
    BY RaftTypes DEF TermsGrow, OnlyRaft
  <1>3. Sound
    BY <1>1, <1>2, QuietSound
  <1>4. \A m \in Node : Reigns(m)' => /\ Reigns(m) /\ raft'[m].log = raft[m].log
                                      /\ raft'[m].term = raft[m].term
    BY DEF OnlyRaft, Reigns
  <1>5. OwnTerms'
    <2>1. ASSUME NEW m \in Node
          PROVE  /\ raft'[m].spoke <= raft'[m].term
                 /\ raft'[m].leads => raft'[m].spoke = raft'[m].term
                 /\ \A i \in 1..Len(raft'[m].log) : raft'[m].log[i].term <= raft'[m].term
      <3>1. CASE m # n
        BY <1>0, <3>1 DEF OwnTerms, OnlyRaft
      <3>2. CASE m = n
        <4>1. /\ raft[n].spoke \in Nat /\ raft[n].term \in Nat /\ raft'[n].term \in Nat
              /\ raft[n].spoke <= raft[n].term
          BY <1>0, RaftTypes, Bounds DEF OwnTerms, Types, RaftState
        <4> QED
          BY <3>2, <4>1 DEF Reigns
      <3> QED
        BY <3>1, <3>2
    <2> QED
      BY <2>1 DEF OwnTerms
  <1>6. FirstAppends'
    <2>1. ASSUME NEW m \in Node, raft'[m].leads, ~app'[m].isLeader
          PROVE  /\ EndsWithFirst(raft'[m].log, raft'[m].term)
                 /\ raft'[m].commit < Len(raft'[m].log)
      <3>1. CASE m # n
        BY <1>0, <2>1, <3>1 DEF FirstAppends, OnlyRaft
      <3>2. CASE m = n
        BY <1>0, <2>1, <3>2 DEF FirstAppends, OnlyRaft
      <3> QED
        BY <3>1, <3>2
    <2> QED
      BY <1>0, <2>1 DEF FirstAppends, OnlyRaft
  <1>7. \A m \in Node : NodeFits(m)'
    <2> TAKE m \in Node
    <2>1. CASE m = n
      BY <1>3, <2>1
    <2>2. CASE m # n
      BY <1>0, <1>3, <2>2, SameLogsFit DEF OnlyRaft
    <2> QED
      BY <2>1, <2>2
  <1>8. \A t \in Term : HelloFits(t)'
    BY <1>0, <1>3, HelloFitsStays DEF OnlyRaft
  <1> QED
    BY <1>1, <1>3, <1>4, <1>5, <1>6, <1>7, <1>8, QuietStep

LEMMA TakeHeartbeatLog ==
  ASSUME Types, Types', LogInv, NEW n \in Node, NEW t \in Term, TakeHeartbeat(n, t)
  PROVE  LogInv'
  <1>0. Commits /\ OwnTerms
    BY DEF LogInv
  <1>1. /\ OnlyRaft(n) /\ chosen' = chosen /\ raft[n].term < t
        /\ raft'[n].term = t /\ ~raft'[n].leads
        /\ raft'[n].log = raft[n].log /\ raft'[n].commit = raft[n].commit
        /\ raft'[n].spoke = raft[n].spoke
    BY TakeHeartbeatEffect
  <1>2. /\ raft[n].term \in Nat /\ t \in Nat /\ raft[n].spoke \in Nat
        /\ raft[n].spoke <= raft[n].term
        /\ \A i \in 1..Len(raft[n].log) : raft[n].log[i].term <= raft[n].term
    BY <1>0, RaftTypes, Bounds DEF OwnTerms
  <1>3. ~Reigns(n)'
    BY <1>1, <1>2 DEF Reigns
  <1>4. \A i \in 1..Len(raft'[n].log) : raft'[n].log[i].term <= raft'[n].term
    <2>1. \A i \in 1..Len(raft[n].log) : raft[n].log[i].term \in Nat
      BY RaftTypes, EntryTypes
    <2> QED
      BY <1>1, <1>2, <2>1
  <1>5. \A k \in 1..Len(chosen) : Stable(k) => KeepsFirst(k)
    BY <1>1, SameLogsKeep DEF OnlyRaft
  <1>6. Sound => NodeFits(n)'
    BY <1>0, <1>1, SameLogsFit
  <1>7. raft'[n].log \in Logs
    BY <1>1, IsLog
  <1> QED
    BY <1>1, <1>2, <1>3, <1>4, <1>5, <1>6, <1>7, FollowStep

LEMMA TakeAppendReigns ==
  ASSUME Types, LogInv, NEW n \in Node, NEW t \in Term, TakeAppend(n, t), Reigns(n)'
  PROVE  Reigns(n) /\ raft'[n].log = raft[n].log /\ raft[n].term = t
  <1>0. OwnTerms /\ FirstAppends /\ Matching /\ ReignsLongest
    BY DEF LogInv
  <1>1. PICK x, y, e : x = raft[n].log /\ y = hello[t].log /\ e = Len(hello[t].log)
    OBVIOUS
  <1>2. /\ OnlyRaft(n) /\ hello[t].sent /\ raft[n].term <= t
        /\ \/ e <= Len(x) /\ x[e] = y[e] /\ raft'[n].log = x
           \/ ~(e <= Len(x) /\ x[e] = y[e]) /\ raft'[n].log = y
        /\ raft'[n].term = t /\ ~raft'[n].leads /\ raft'[n].spoke = raft[n].spoke
    BY <1>0, <1>1, TakeAppendEffect
  <1>3. /\ x \in Logs /\ y \in Logs /\ Len(x) \in Nat /\ x \in Seq(Entry)
        /\ y \in Seq(Entry) /\ e \in Nat /\ e = Len(y)
        /\ raft[n].term \in Nat /\ t \in Nat /\ raft[n].spoke \in Nat
        /\ raft[n].spoke <= raft[n].term
    BY <1>0, <1>1, <1>2, RaftTypes, HelloTypes, Bounds, IsLog DEF OwnTerms
  <1>4. e \in 1..Len(y) /\ y[e].term = t
    BY <1>0, <1>1, <1>2, <1>3 DEF FirstAppends, EndsWithFirst
  <1>5. raft[n].term = t /\ Reigns(n)
    BY <1>2, <1>3 DEF Reigns, OnlyRaft
  <1>6. x # <<>> /\ x[Len(x)].term = t /\ e <= Len(x)
    BY <1>0, <1>1, <1>3, <1>4, <1>5 DEF ReignsLongest
  <1>7. Len(x) \in 1..Len(x)
    BY <1>3, <1>6
  <1>8. SameTo(x, y, e)
    BY <1>0, <1>3, <1>4, <1>6, <1>7 DEF Matching
  <1>9. x[e] = y[e]
    BY <1>3, <1>4, <1>8 DEF SameTo
  <1> QED
    BY <1>1, <1>2, <1>5, <1>6, <1>9

LEMMA ReplicateReigns ==
  ASSUME Types, LogInv, NEW l \in Node, NEW n \in Node, Replicate(l, n)
  PROVE  Reigns(l) /\ ~Reigns(n) /\ ~Reigns(n)'
  <1>1. /\ OnlyRaft(n) /\ l # n /\ raft[l].leads
        /\ raft[n].term = raft[l].term /\ raft[n].spoke = raft[n].term
        /\ raft'[n].term = raft[n].term /\ raft'[n].leads = raft[n].leads
        /\ raft'[n].spoke = raft[n].spoke
    BY ReplicateEffect
  <1>2. Reigns(l)
    BY <1>1, LeaderReigns
  <1>3. ~Reigns(n)
    BY <1>1, <1>2 DEF LogInv, OneReigns
  <1> QED
    BY <1>1, <1>2, <1>3 DEF Reigns, OnlyRaft

LEMMA TakeAppendLog ==
  ASSUME Types, Types', LogInv, NEW n \in Node, NEW t \in Term, TakeAppend(n, t)
  PROVE  LogInv'
  <1>0. /\ Commits /\ OwnTerms /\ FirstAppends /\ TermsRise /\ Matching /\ ReignsLongest
    BY DEF LogInv
  <1>1. PICK x, y, e, z, c, h :
          /\ x = raft[n].log /\ y = hello[t].log /\ e = Len(hello[t].log)
          /\ z = raft'[n].log /\ c = raft[n].commit /\ h = hello[t].commit
    OBVIOUS
  <1>2. /\ OnlyRaft(n) /\ chosen' = chosen /\ hello[t].sent /\ raft[n].term <= t
        /\ raft[n].leads => raft[n].term < t
        /\ e >= 1 /\ Len(x) >= e - 1
        /\ \/ e <= Len(x) /\ x[e] = y[e] /\ z = x
           \/ ~(e <= Len(x) /\ x[e] = y[e]) /\ z = y
        /\ raft'[n].commit = IF c >= h THEN c ELSE h
        /\ raft'[n].term = t /\ ~raft'[n].leads
        /\ raft'[n].spoke = raft[n].spoke
    BY <1>0, <1>1, TakeAppendEffect
  <1>3. /\ x \in Seq(Entry) /\ y \in Seq(Entry) /\ x \in Logs /\ y \in Logs
        /\ Len(x) \in Nat /\ e \in Nat /\ e = Len(y) /\ c \in Nat /\ h \in Nat
        /\ raft[n].term \in Nat /\ t \in Nat /\ raft[n].spoke \in Nat
        /\ chosen \in Seq(Entry) /\ Len(chosen) \in Nat
    BY <1>1, <1>2, RaftTypes, HelloTypes, Bounds, IsLog DEF Types
  <1>4. /\ e \in 1..Len(y) /\ y[e].term = t /\ h < e
    BY <1>0, <1>1, <1>2, <1>3 DEF FirstAppends, EndsWithFirst
  <1>5. /\ c <= Len(chosen) /\ c <= Len(x) /\ SameTo(x, chosen, c) /\ Backed(c, raft[n].term)
        /\ h <= Len(chosen) /\ SameTo(y, chosen, h) /\ Backed(h, t)
    BY <1>0, <1>1, <1>2 DEF Commits, Holds
  <1>6. z \in Logs
    BY <1>2, <1>3
  <1>7. /\ raft[n].spoke <= raft[n].term
        /\ \A i \in 1..Len(x) : x[i].term <= raft[n].term
    BY <1>0, <1>1 DEF OwnTerms
  <1>8. \A i \in 1..Len(z) : z[i].term <= t
    <2>1. \A i \in 1..Len(x) : x[i].term <= t
      <3>1. \A i \in 1..Len(x) : x[i].term \in Nat
        BY <1>3, EntryTypes
      <3> QED
        BY <1>2, <1>3, <1>7, <3>1
    <2>2. \A i \in 1..Len(y) : y[i].term <= t
      BY <1>0, <1>3, <1>4 DEF TermsRise
    <2> QED
      BY <1>2, <2>1, <2>2
  <1>9. ASSUME Reigns(n)'
        PROVE  Reigns(n) /\ z = x /\ raft[n].term = t
    BY <1>1, <1>2, <1>9, TakeAppendReigns
  \* What the node has committed, or holds of what is stable, it keeps.
  <1>10. ASSUME NEW k \in Nat, Stable(k), k > 0 => chosen[k].term <= t,
                NEW j \in Nat, j <= k, j <= Len(x), SameTo(x, chosen, j)
         PROVE  j <= Len(z) /\ SameTo(z, chosen, j)
    <2>1. CASE z = x
      BY <1>10, <2>1
    <2>2. CASE z = y /\ ~(e <= Len(x) /\ x[e] = y[e])
      <3>1. \/ k <= Len(y) /\ SameTo(y, chosen, k)
            \/ e <= k /\ k <= Len(chosen) /\ SameTo(chosen, y, e)
        BY <1>1, <1>2, <1>10, HelloHolds DEF Holds
      <3>2. CASE k <= Len(y) /\ SameTo(y, chosen, k)
        BY <1>3, <1>10, <2>2, <3>2 DEF SameTo
      <3>3. CASE e <= k /\ k <= Len(chosen) /\ SameTo(chosen, y, e)
        <4>1. ~(e <= j)
          <5> SUFFICES ASSUME e <= j PROVE FALSE
            OBVIOUS
          <5>1. chosen[e] = y[e] /\ x[e] = chosen[e]
            BY <1>3, <1>4, <1>10, <3>3 DEF SameTo
          <5> QED
            BY <1>3, <1>10, <2>2, <5>1
        <4>2. \A i \in 1..j : y[i] = chosen[i]
          BY <1>3, <1>10, <3>3, <4>1 DEF SameTo
        <4> QED
          BY <1>3, <1>10, <2>2, <4>1, <4>2 DEF SameTo
      <3> QED
        BY <3>1, <3>2, <3>3
    <2> QED
      BY <1>2, <2>1, <2>2
  <1>11. c <= Len(z) /\ SameTo(z, chosen, c)
    <2>1. PICK k \in 0..Len(chosen) :
            c <= k /\ Stable(k) /\ (k > 0 => chosen[k].term <= raft[n].term)
      BY <1>5 DEF Backed
    <2>2. k > 0 => chosen[k].term <= t
      <3>1. k > 0 => chosen[k].term \in Nat
        BY <1>3, <2>1, EntryTypes
      <3> QED
        BY <1>2, <1>3, <2>1, <3>1
    <2> QED
      BY <1>3, <1>5, <1>10, <2>1, <2>2
  <1>12. h <= Len(z) /\ SameTo(z, chosen, h)
    <2>1. CASE z = y
      BY <1>3, <1>4, <1>5, <2>1
    <2>2. CASE e <= Len(x) /\ x[e] = y[e] /\ z = x
      <3>1. SameTo(x, y, e)
        BY <1>0, <1>3, <1>4, <2>2 DEF Matching
      <3> QED
        BY <1>3, <1>4, <1>5, <2>2, <3>1 DEF SameTo
    <2> QED
      BY <1>2, <2>1, <2>2
  <1>13. \A k \in 1..Len(chosen) : Stable(k) => KeepsFirst(k)
    <2> SUFFICES ASSUME NEW k \in 1..Len(chosen), Stable(k), NEW q \in Node,
                        raft[q].term >= chosen[k].term, Holds(raft[q].log, k)
                 PROVE  /\ k <= Len(raft'[q].log)
                        /\ SameTo(raft'[q].log, raft[q].log, k)
      BY DEF KeepsFirst
    <2>1. CASE q # n
      BY <1>2, <2>1 DEF OnlyRaft, Holds, SameTo
    <2>2. CASE q = n
      <3>1. k <= Len(x) /\ SameTo(x, chosen, k)
        BY <1>1, <2>2 DEF Holds
      <3>2. chosen[k].term <= t
        <4>1. chosen[k].term \in Nat
          BY <1>3, EntryTypes
        <4> QED
          BY <1>2, <1>3, <2>2, <4>1
      <3>3. k <= Len(z) /\ SameTo(z, chosen, k)
        BY <1>3, <1>10, <3>1, <3>2
      <3>4. SameTo(z, x, k)
        BY <3>1, <3>3 DEF SameTo
      <3> QED
        BY <1>1, <2>2, <3>3, <3>4
    <2> QED
      BY <2>1, <2>2
  <1>14. Sound => NodeFits(n)'
    <2> SUFFICES ASSUME Sound PROVE NodeFits(n)'
      OBVIOUS
    <2>1. CASE c >= h
      <3>1. raft'[n].commit = c
        BY <1>2, <2>1
      <3> QED
        BY <1>1, <1>2, <1>3, <1>5, <1>11, <3>1, NodeFitsFrom
    <2>2. CASE ~(c >= h)
      <3>1. raft'[n].commit = h
        BY <1>2, <2>2
      <3> QED
        BY <1>1, <1>2, <1>3, <1>5, <1>12, <3>1, NodeFitsFrom
    <2> QED
      BY <2>1, <2>2
  <1>15. /\ raft'[n].log \in Logs /\ raft[n].term <= raft'[n].term
         /\ Reigns(n)' => /\ Reigns(n) /\ raft'[n].log = raft[n].log
                          /\ raft'[n].term = raft[n].term
         /\ \A i \in 1..Len(raft'[n].log) : raft'[n].log[i].term <= raft'[n].term
    BY <1>1, <1>2, <1>6, <1>8, <1>9
  <1> QED
    BY <1>2, <1>13, <1>14, <1>15, FollowStep

LEMMA ReplicateLog ==
  ASSUME Types, Types', LogInv, NEW l \in Node, NEW n \in Node, Replicate(l, n)
  PROVE  LogInv'
  <1>0. /\ Commits /\ OwnTerms /\ OneReigns
    BY DEF LogInv
  <1>1. PICK x, z, c, h :
          /\ x = raft[n].log /\ z = raft[l].log /\ c = raft[n].commit /\ h = raft[l].commit
    OBVIOUS
  <1>2. /\ OnlyRaft(n) /\ chosen' = chosen
        /\ l # n /\ raft[l].leads /\ app[l].isLeader
        /\ raft[n].term = raft[l].term /\ raft[n].spoke = raft[n].term
        /\ raft'[n].term = raft[n].term /\ raft'[n].leads = raft[n].leads
        /\ raft'[n].log = z /\ raft'[n].spoke = raft[n].spoke
        /\ raft'[n].commit = IF c >= h THEN c ELSE h
    BY <1>1, ReplicateEffect
  <1>3. Reigns(l) /\ ~Reigns(n)
    BY ReplicateReigns
  <1>4. ~Reigns(n)' /\ ~raft'[n].leads
    BY <1>2, <1>3 DEF Reigns, OnlyRaft
  <1>5. /\ c \in Nat /\ h \in Nat /\ raft[n].term \in Nat
        /\ x \in Seq(Entry) /\ z \in Seq(Entry) /\ Len(x) \in Nat /\ Len(z) \in Nat
        /\ chosen \in Seq(Entry) /\ Len(chosen) \in Nat
    BY <1>1, RaftTypes DEF Types
  <1>6. /\ c <= Len(chosen) /\ c <= Len(x) /\ SameTo(x, chosen, c)
        /\ Backed(c, raft[n].term)
        /\ h <= Len(chosen) /\ h <= Len(z) /\ SameTo(z, chosen, h)
        /\ Backed(h, raft[n].term)
    BY <1>0, <1>1, <1>2 DEF Commits, Holds
  <1>7. \A i \in 1..Len(z) : z[i].term <= raft[n].term
    BY <1>0, <1>1, <1>2 DEF OwnTerms
  <1>8. ASSUME NEW k \in Nat, Stable(k), k > 0 => chosen[k].term <= raft[n].term
        PROVE  k <= Len(z) /\ SameTo(z, chosen, k)
    BY <1>1, <1>2, <1>3, <1>8, ReignHolds DEF Holds
  <1>9. c <= Len(z) /\ SameTo(z, chosen, c)
    <2>1. PICK k \in 0..Len(chosen) :
            c <= k /\ Stable(k) /\ (k > 0 => chosen[k].term <= raft[n].term)
      BY <1>6 DEF Backed
    <2>2. k \in Nat /\ k <= Len(z) /\ SameTo(z, chosen, k)
      BY <1>8, <2>1
    <2> QED
      BY <1>5, <2>1, <2>2 DEF SameTo
  <1>10. \A k \in 1..Len(chosen) : Stable(k) => KeepsFirst(k)
    <2> SUFFICES ASSUME NEW k \in 1..Len(chosen), Stable(k), NEW q \in Node,
                        raft[q].term >= chosen[k].term, Holds(raft[q].log, k)
                 PROVE  /\ k <= Len(raft'[q].log)
                        /\ SameTo(raft'[q].log, raft[q].log, k)
      BY DEF KeepsFirst
    <2>1. CASE q # n
      BY <1>2, <2>1 DEF OnlyRaft, Holds, SameTo
    <2>2. CASE q = n
      <3>1. SameTo(x, chosen, k)
        BY <1>1, <2>2 DEF Holds
      <3>2. chosen[k].term <= raft[n].term
        <4>1. chosen[k].term \in Nat
          BY <1>5, EntryTypes
        <4> QED
          BY <1>5, <2>2, <4>1
      <3>3. k <= Len(z) /\ SameTo(z, chosen, k)
        BY <1>8, <3>2
      <3>4. SameTo(z, x, k)
        BY <3>1, <3>3 DEF SameTo
      <3> QED
        BY <1>1, <1>2, <2>2, <3>3, <3>4
    <2> QED
      BY <2>1, <2>2
  <1>11. Sound => NodeFits(n)'
    <2> SUFFICES ASSUME Sound PROVE NodeFits(n)'
      OBVIOUS
    <2>1. raft[n].term <= raft'[n].term
      BY <1>2, <1>5
    <2>2. CASE c >= h
      <3>1. raft'[n].commit = c
        BY <1>2, <2>2
      <3> QED
        BY <1>2, <1>5, <1>6, <1>9, <2>1, <3>1, NodeFitsFrom
    <2>3. CASE ~(c >= h)
      <3>1. raft'[n].commit = h
        BY <1>2, <2>3
      <3> QED
        BY <1>2, <1>5, <1>6, <2>1, <3>1, NodeFitsFrom
    <2> QED
      BY <2>2, <2>3
  <1>12. /\ raft'[n].log \in Logs /\ raft[n].term <= raft'[n].term
         /\ \A i \in 1..Len(raft'[n].log) : raft'[n].log[i].term <= raft'[n].term
    BY <1>1, <1>2, <1>5, <1>7, IsLog
  <1> QED
    BY <1>2, <1>4, <1>10, <1>11, <1>12, FollowStep

----------------------------------------------------------------------------
(* Preservation: a leader appends an entry. *)

LEMMA AppendStep ==
  ASSUME Types, Types', LogInv, NEW n \in Node, NEW e \in Entry,
         raft'[n].log = Append(raft[n].log, e),
         \A m \in Node : m # n => raft'[m].log = raft[m].log,
         \A m \in Node : raft'[m].commit = raft[m].commit,
         TermsGrow, hello' = hello, chosen' = chosen,
         \A i \in 1..Len(raft[n].log) : raft[n].log[i].term <= e.term,
         \A y \in Logs : \A j \in 1..Len(y) : y[j].term = e.term =>
           j <= Len(raft[n].log) /\ raft[n].log[Len(raft[n].log)].term = e.term,
         \E Q \in Quorum : \A q \in Q : raft'[q].term >= e.term,
         \A k \in 1..Len(chosen) :
           Stable(k) /\ e.term > chosen[k].term => Holds(raft[n].log, k)
  PROVE  TermsRise' /\ TermsStarted' /\ Matching' /\ Commits'
  <1>0. TermsRise /\ TermsStarted /\ Matching /\ Commits
    BY DEF LogInv
  <1>1. PICK x, z, L : x = raft[n].log /\ z = Append(raft[n].log, e) /\ L = Len(raft[n].log) + 1
    OBVIOUS
  <1>2. /\ x \in Seq(Entry) /\ x \in Logs /\ Len(x) \in Nat /\ L \in Nat
        /\ z \in Seq(Entry) /\ Len(z) = L /\ z[L] = e /\ L = Len(x) + 1
        /\ \A i \in 1..Len(x) : z[i] = x[i]
    BY <1>1, RaftTypes, IsLog
  <1>3. \A y \in Logs' : y \in Logs \/ y = z
    BY <1>1 DEF Logs
  <1>4. e.term \in Nat
    BY Bounds DEF Entry
  <1>5. TermsRise'
    <2> SUFFICES ASSUME NEW y \in Logs', NEW i \in 1..Len(y), NEW j \in 1..Len(y), i <= j
                 PROVE  y[i].term <= y[j].term
      BY DEF TermsRise
    <2>1. CASE y \in Logs
      BY <1>0, <2>1 DEF TermsRise
    <2>2. CASE y = z /\ j <= Len(x)
      <3>1. i \in 1..Len(x) /\ j \in 1..Len(x) /\ z[i] = x[i] /\ z[j] = x[j]
        BY <1>2, <2>2
      <3> QED
        BY <1>0, <1>2, <2>2, <3>1 DEF TermsRise
    <2>3. CASE y = z /\ j > Len(x) /\ i <= Len(x)
      <3>1. j = L /\ i \in 1..Len(x)
        BY <1>2, <2>3
      <3> QED
        BY <1>1, <1>2, <2>3, <3>1
    <2>4. CASE y = z /\ j > Len(x) /\ i > Len(x)
      BY <1>2, <1>4, <2>4
    <2> QED
      BY <1>2, <1>3, <2>1, <2>2, <2>3, <2>4
  <1>6. TermsStarted'
    <2> SUFFICES ASSUME NEW y \in Logs', NEW i \in 1..Len(y)
                 PROVE  \E Q \in Quorum : \A q \in Q : raft'[q].term >= y[i].term
      BY DEF TermsStarted
    <2>1. ASSUME NEW w \in Logs, NEW j \in 1..Len(w)
          PROVE  \E Q \in Quorum : \A q \in Q : raft'[q].term >= w[j].term
      <3>1. PICK Q \in Quorum : \A q \in Q : raft[q].term >= w[j].term
        BY <1>0, <2>1 DEF TermsStarted
      <3>2. \A q \in Q : /\ raft'[q].term \in Nat /\ raft[q].term \in Nat
                         /\ raft'[q].term >= raft[q].term
        BY Bounds DEF Quorum, Types, RaftState, TermsGrow
      <3>3. w[j].term \in Nat
        BY <2>1, LogTypes, EntryTypes
      <3>4. \A q \in Q : raft'[q].term >= w[j].term
        BY <3>1, <3>2, <3>3
      <3> QED
        BY <3>4
    <2>2. CASE y \in Logs
      BY <2>1, <2>2
    <2>3. CASE y = z /\ i <= Len(x)
      <3>1. i \in 1..Len(x) /\ y[i] = x[i]
        BY <1>2, <2>3
      <3> QED
        BY <1>2, <2>1, <3>1
    <2>4. CASE y = z /\ i > Len(x)
      <3>1. y[i] = e
        BY <1>2, <2>4
      <3> QED
        BY <3>1
    <2> QED
      BY <1>2, <1>3, <2>2, <2>3, <2>4
  <1>7. Matching'
    <2> SUFFICES ASSUME NEW v \in Logs', NEW y \in Logs',
                        NEW i \in 1..Len(v), NEW j \in 1..Len(y),
                        j <= i, v[i].term = y[j].term
                 PROVE  SameTo(v, y, j)
      BY DEF Matching
    <2>1. CASE v \in Logs /\ y \in Logs
      BY <1>0, <2>1 DEF Matching
    <2>2. CASE v = z /\ y = z
      BY <2>2 DEF SameTo
    <2>3. CASE v = z /\ y \in Logs /\ i <= Len(x)
      <3>1. i \in 1..Len(x) /\ x[i] = v[i]
        BY <1>2, <2>3
      <3>2. SameTo(x, y, j)
        BY <1>0, <1>2, <2>3, <3>1 DEF Matching
      <3> QED
        BY <1>2, <2>3, <3>1, <3>2 DEF SameTo
    <2>4. CASE v = z /\ y \in Logs /\ i > Len(x)
      <3>1. v[i] = e
        BY <1>2, <2>4
      <3>2. j <= Len(x) /\ x[Len(x)].term = y[j].term
        BY <1>1, <2>4, <3>1
      <3>3. Len(x) \in 1..Len(x)
        BY <1>2, <3>2
      <3>4. SameTo(x, y, j)
        BY <1>0, <1>2, <2>4, <3>2, <3>3 DEF Matching
      <3> QED
        BY <1>2, <2>4, <3>2, <3>4 DEF SameTo
    <2>5. CASE v \in Logs /\ y = z /\ j <= Len(x)
      <3>1. j \in 1..Len(x) /\ x[j] = y[j]
        BY <1>2, <2>5
      <3>2. SameTo(v, x, j)
        BY <1>0, <1>2, <2>5, <3>1 DEF Matching
      <3> QED
        BY <1>2, <2>5, <3>1, <3>2 DEF SameTo
    <2>6. CASE v \in Logs /\ y = z /\ j > Len(x)
      <3>1. y[j] = e /\ v[i].term = e.term
        BY <1>2, <2>6
      <3>2. i <= Len(x)
        BY <1>1, <2>6, <3>1
      <3> QED
        BY <1>2, <2>6, <3>2
    <2>7. j <= Len(x) \/ j > Len(x)
      BY <1>2
    <2>8. i <= Len(x) \/ i > Len(x)
      BY <1>2, LogTypes
    <2> QED
      BY <1>3, <2>1, <2>2, <2>3, <2>4, <2>5, <2>6, <2>7, <2>8
  <1>8. \A k \in 1..Len(chosen) : Stable(k) => KeepsFirst(k)
    <2> SUFFICES ASSUME NEW k \in 1..Len(chosen), NEW q \in Node, Holds(raft[q].log, k)
                 PROVE  /\ k <= Len(raft'[q].log)
                        /\ SameTo(raft'[q].log, raft[q].log, k)
      BY DEF KeepsFirst
    <2>1. CASE q # n
      BY <2>1 DEF Holds, SameTo
    <2>2. CASE q = n
      <3>1. k <= Len(x)
        BY <1>1, <2>2 DEF Holds
      <3>2. k \in Nat /\ k <= Len(z)
        BY <1>2, <3>1 DEF Types
      <3>3. \A i \in 1..k : z[i] = x[i]
        BY <1>2, <3>1, <3>2
      <3> QED
        BY <1>1, <2>2, <3>2, <3>3 DEF SameTo
    <2> QED
      BY <2>1, <2>2
  <1>9. \A k \in 1..Len(chosen) : Stable(k) => NewLogsHold(k)
    <2> SUFFICES ASSUME NEW k \in 1..Len(chosen), Stable(k), NEW y \in Logs',
                        NEW i \in 1..Len(y), y[i].term > chosen[k].term
                 PROVE  k <= Len(y) /\ SameTo(y, chosen, k)
      BY DEF NewLogsHold
    <2>1. CASE y \in Logs
      BY <2>1 DEF Stable, Holds
    <2>2. CASE y = z
      <3>1. Holds(x, k)
        <4>1. CASE i <= Len(x)
          <5>1. i \in 1..Len(x) /\ x[i] = y[i]
            BY <1>2, <2>2, <4>1
          <5> QED
            BY <1>2, <5>1 DEF Stable
        <4>2. CASE i > Len(x)
          <5>1. y[i] = e
            BY <1>2, <2>2, <4>2
          <5> QED
            BY <1>1, <5>1
        <4> QED
          BY <1>2, <2>2, <4>1, <4>2
      <3> QED
        BY <1>2, <2>2, <3>1 DEF Holds, SameTo
    <2> QED
      BY <1>3, <2>1, <2>2
  <1>10. Sound
    BY <1>8, <1>9, ChosenStays DEF Sound
  <1>11. \A m \in Node : NodeFits(m)'
    <2> TAKE m \in Node
    <2>1. CASE m # n
      BY <1>0, <1>10, <2>1, SameLogsFit
    <2>2. CASE m = n
      <3>1. raft[n].commit <= Len(x) /\ raft[n].commit \in Nat
        BY <1>0, <1>1, RaftTypes DEF Commits, Holds
      <3>2. /\ raft[n].commit <= Len(raft'[n].log)
            /\ SameTo(raft'[n].log, raft[n].log, raft[n].commit)
        BY <1>1, <1>2, <3>1 DEF SameTo
      <3> QED
        BY <1>0, <1>10, <2>2, <3>2, NodeFitsStays
    <2> QED
      BY <2>1, <2>2
  <1>12. \A t \in Term : HelloFits(t)'
    BY <1>0, <1>10, HelloFitsStays
  <1>13. Commits'
    <2>1. Stable(Len(chosen))'
      BY <1>0, <1>10, TopStays
    <2> QED
      BY <1>11, <1>12, <2>1 DEF Commits, NodeFits, HelloFits
  <1> QED
    BY <1>5, <1>6, <1>7, <1>13

\* Whoever is elected holds what is committed: one of its voters does.
LEMMA ElectedHolds ==
  ASSUME Types, TermsRise, Matching, NEW n \in Node, NEW Q \in Quorum,
         \A m \in Q : UpToDate(raft[n].log, raft[m].log),
         NEW k \in 1..Len(chosen), Stable(k)
  PROVE  Holds(raft[n].log, k)
  <1>1. PICK P \in Quorum : \A q \in P :
          raft[q].term >= chosen[k].term /\ Holds(raft[q].log, k)
    BY DEF Stable
  <1>2. PICK m \in Node : m \in P /\ m \in Q
    BY QuorumsMeet
  <1>3. PICK x, y : x = raft[n].log /\ y = raft[m].log
    OBVIOUS
  <1>4. /\ x \in Seq(Entry) /\ y \in Seq(Entry) /\ x \in Logs /\ y \in Logs
        /\ Len(x) \in Nat /\ Len(y) \in Nat /\ chosen \in Seq(Entry)
    BY <1>3, RaftTypes, IsLog DEF Types
  <1>5. k <= Len(y) /\ y[k] = chosen[k]
    BY <1>1, <1>2, <1>3 DEF Holds, SameTo
  <1>6. /\ Len(y) \in 1..Len(y) /\ k \in 1..Len(y) /\ y # <<>>
        /\ LastTerm(y) = y[Len(y)].term
    BY <1>4, <1>5 DEF LastTerm, Last
  <1>7. y[Len(y)].term >= chosen[k].term
    <2>1. y[k].term <= y[Len(y)].term
      BY <1>4, <1>6 DEF TermsRise
    <2>2. y[k].term \in Nat /\ y[Len(y)].term \in Nat
      BY <1>4, <1>6, EntryTypes
    <2> QED
      BY <1>5, <2>1, <2>2
  <1>8. chosen[k].term \in Nat /\ chosen[k].term > 0 /\ y[Len(y)].term \in Nat
    BY <1>4, <1>6, EntryTypes, Bounds
  <1>9. /\ x # <<>> /\ Len(x) \in 1..Len(x) /\ LastTerm(x) = x[Len(x)].term
        /\ x[Len(x)].term \in Nat
    <2>1. LastTerm(x) > LastTerm(y) \/ LastTerm(x) = LastTerm(y)
      BY <1>2, <1>3 DEF UpToDate
    <2>2. x # <<>>
      BY <1>6, <1>7, <1>8, <2>1 DEF LastTerm
    <2>3. Len(x) \in 1..Len(x)
      BY <1>4, <2>2
    <2> QED
      BY <1>4, <2>2, <2>3, EntryTypes DEF LastTerm, Last
  <1>10. CASE x[Len(x)].term > chosen[k].term
    BY <1>3, <1>4, <1>9, <1>10 DEF Stable
  <1>11. CASE x[Len(x)].term = chosen[k].term
    <2>1. Len(x) >= Len(y)
      BY <1>2, <1>3, <1>6, <1>7, <1>8, <1>9, <1>11 DEF UpToDate
    <2>2. k <= Len(x)
      BY <1>4, <1>5, <2>1
    <2> QED
      BY <1>3, <1>4, <1>9, <1>11, <2>2, SameTermHolds
  <1>12. x[Len(x)].term >= chosen[k].term
    BY <1>2, <1>3, <1>6, <1>7, <1>8, <1>9 DEF UpToDate
  <1> QED
    BY <1>8, <1>9, <1>10, <1>11, <1>12

LEMMA ElectLog ==
  ASSUME Types, Types', LogInv, NEW n \in Node, NEW Q \in Quorum, Elect(n, Q)
  PROVE  LogInv'
  <1>0. /\ TermsRise /\ TermsStarted /\ Matching /\ OwnTerms /\ OneReigns
        /\ ReignsLongest /\ FirstAppends /\ Commits
    BY DEF LogInv
  <1>1. PICK t \in Term :
          /\ n \in Q /\ Q \subseteq Node
          /\ \A m \in Q : /\ raft[m].term < t
                          /\ Settled(m) /\ ~app[m].isLeader
                          /\ UpToDate(raft[n].log, raft[m].log)
                          /\ raft'[m].term = t /\ raft'[m].spoke = t
                          /\ raft'[m].leads = (m = n)
                          /\ raft'[m].commit = raft[m].commit
                          /\ m # n => raft'[m].log = raft[m].log
          /\ raft'[n].log = Append(raft[n].log, [term |-> t, data |-> NoOp])
          /\ \A m \in Node : m \notin Q => raft'[m] = raft[m]
          /\ raft' \in [Node -> RaftState]
          /\ UNCHANGED <<app, disk, hello, answer, chosen, crashes>>
    BY ElectEffect
  <1>2. PICK e : e = [term |-> t, data |-> NoOp]
    OBVIOUS
  <1>3. e \in Entry /\ e.term = t /\ t \in Nat /\ t > 0
    BY <1>2, Bounds DEF Entry
  <1>4. ASSUME NEW y \in Logs, NEW i \in 1..Len(y)
        PROVE  y[i].term < t
    <2>1. PICK s \in Nat : s = t - 1
      BY <1>3
    <2>2. \A q \in Q : raft[q].term <= s
      <3>1. \A q \in Q : raft[q].term \in Nat /\ raft[q].term < t
        BY <1>1, RaftTypes
      <3> QED
        BY <1>3, <2>1, <3>1
    <2>3. y[i].term <= s
      BY <1>0, <1>4, <2>2, QuorumBoundsLogs
    <2>4. y[i].term \in Nat
      BY <1>4, LogTypes, EntryTypes
    <2> QED
      BY <1>3, <2>1, <2>3, <2>4
  <1>5. raft[n].log \in Logs /\ raft[n].log \in Seq(Entry) /\ Len(raft[n].log) \in Nat
    BY IsLog, RaftTypes
  <1>6. TermsGrow
    <2> SUFFICES ASSUME NEW q \in Node PROVE raft'[q].term >= raft[q].term
      BY DEF TermsGrow
    <2>1. raft[q].term \in Nat
      BY RaftTypes
    <2> QED
      BY <1>1, <1>3, <2>1
  <1>7. TermsRise' /\ TermsStarted' /\ Matching' /\ Commits'
    <2>1. \A m \in Node : m # n => raft'[m].log = raft[m].log
      BY <1>1
    <2>2. \A m \in Node : raft'[m].commit = raft[m].commit
      BY <1>1
    <2>3. \A i \in 1..Len(raft[n].log) : raft[n].log[i].term <= e.term
      <3>1. \A i \in 1..Len(raft[n].log) : raft[n].log[i].term \in Nat
        BY <1>5, EntryTypes
      <3> QED
        BY <1>3, <1>4, <1>5, <3>1
    <2>4. \A y \in Logs : \A j \in 1..Len(y) : y[j].term # e.term
      BY <1>3, <1>4
    <2>5. \A q \in Q : raft'[q].term >= e.term
      BY <1>1, <1>3
    <2>6. \A k \in 1..Len(chosen) : Stable(k) => Holds(raft[n].log, k)
      BY <1>0, <1>1, ElectedHolds
    <2>7. raft'[n].log = Append(raft[n].log, e) /\ hello' = hello /\ chosen' = chosen
      BY <1>1, <1>2
    <2> QED
      BY <1>3, <1>6, <2>1, <2>2, <2>3, <2>4, <2>5, <2>6, <2>7, AppendStep
  <1>8. PICK x, z : x = raft[n].log /\ z = raft'[n].log
    OBVIOUS
  <1>9. /\ z \in Seq(Entry) /\ Len(z) = Len(x) + 1 /\ z[Len(z)] = e /\ z # <<>>
        /\ \A i \in 1..Len(x) : z[i] = x[i]
    BY <1>1, <1>2, <1>3, <1>5, <1>8
  <1>10. \A y \in Logs' : y \in Logs \/ y = z
    <2>1. \A m \in Node : m # n => raft'[m].log = raft[m].log
      BY <1>1
    <2> QED
      BY <1>1, <1>8, <2>1 DEF Logs
  <1>11. \A i \in 1..Len(z) : i < Len(z) => z[i].term < t
    <2> SUFFICES ASSUME NEW i \in 1..Len(z), i < Len(z) PROVE z[i].term < t
      OBVIOUS
    <2>1. i \in 1..Len(x) /\ z[i] = x[i]
      BY <1>5, <1>8, <1>9
    <2> QED
      BY <1>4, <1>5, <1>8, <2>1
  <1>12. OwnTerms'
    <2> SUFFICES ASSUME NEW m \in Node
                 PROVE  /\ raft'[m].spoke <= raft'[m].term
                        /\ raft'[m].leads => raft'[m].spoke = raft'[m].term
                        /\ \A i \in 1..Len(raft'[m].log) :
                             raft'[m].log[i].term <= raft'[m].term
      BY DEF OwnTerms
    <2>1. CASE m \notin Q
      BY <1>0, <1>1, <2>1 DEF OwnTerms
    <2>2. CASE m \in Q
      <3>1. raft'[m].spoke = t /\ raft'[m].term = t
        BY <1>1, <2>2
      <3>2. \A i \in 1..Len(raft'[m].log) : raft'[m].log[i].term <= t
        <4>1. CASE m = n
          <5> SUFFICES ASSUME NEW i \in 1..Len(z) PROVE z[i].term <= t
            BY <1>8, <4>1
          <5>1. CASE i = Len(z)
            BY <1>3, <1>9, <5>1
          <5>2. CASE i < Len(z)
            <6>1. z[i].term < t /\ z[i].term \in Nat
              BY <1>9, <1>11, <5>2, EntryTypes
            <6> QED
              BY <1>3, <6>1
          <5> QED
            BY <1>5, <1>8, <1>9, <5>1, <5>2
        <4>2. CASE m # n
          <5>1. raft'[m].log = raft[m].log /\ raft[m].log \in Logs
            BY <1>1, <2>2, <4>2, IsLog
          <5>2. \A i \in 1..Len(raft[m].log) : raft[m].log[i].term \in Nat
            BY RaftTypes, EntryTypes
          <5> QED
            BY <1>3, <1>4, <5>1, <5>2
        <4> QED
          BY <4>1, <4>2
      <3> QED
        BY <1>3, <3>1, <3>2
    <2> QED
      BY <2>1, <2>2
  \* A node that reigned still does, and never in the new term.
  <1>13. ASSUME NEW m \in Node, Reigns(m)', m # n
         PROVE  Reigns(m) /\ raft'[m] = raft[m] /\ raft[m].term # t
    <2>1. m \notin Q
      <3> SUFFICES ASSUME m \in Q PROVE FALSE
        OBVIOUS
      <3>1. ~raft'[m].leads /\ ~app'[m].isLeader
        BY <1>1, <1>13
      <3> QED
        BY <1>13, <3>1 DEF Reigns
    <2>2. raft'[m] = raft[m] /\ app' = app
      BY <1>1, <2>1
    <2>3. Reigns(m)
      BY <1>13, <2>2 DEF Reigns
    <2>4. /\ raft[m].log[Len(raft[m].log)].term = raft[m].term
          /\ Len(raft[m].log) \in 1..Len(raft[m].log)
      BY <2>3, ReigningTerm
    <2>5. raft[m].term < t
      BY <1>4, <2>4, IsLog
    <2> QED
      BY <1>3, <2>2, <2>3, <2>5, RaftTypes
  <1>14. OneReigns'
    <2> SUFFICES ASSUME NEW l \in Node, NEW m \in Node, Reigns(l)', Reigns(m)',
                        raft'[l].term = raft'[m].term
                 PROVE  l = m
      BY DEF OneReigns
    <2>1. raft'[n].term = t
      BY <1>1
    <2> QED
      BY <1>0, <1>13, <2>1 DEF OneReigns
  <1>15. ReignsLongest'
    <2> SUFFICES ASSUME NEW m \in Node, Reigns(m)'
                 PROVE  /\ raft'[m].log # <<>>
                        /\ raft'[m].log[Len(raft'[m].log)].term = raft'[m].term
                        /\ \A y \in Logs' : \A j \in 1..Len(y) :
                             y[j].term = raft'[m].term => j <= Len(raft'[m].log)
      BY DEF ReignsLongest
    <2>1. CASE m = n
      <3>1. raft'[n].term = t
        BY <1>1
      <3>2. ASSUME NEW y \in Logs', NEW j \in 1..Len(y), y[j].term = t
            PROVE  j <= Len(z)
        <4>1. CASE y \in Logs
          <5>1. y[j].term < t
            BY <1>4, <3>2, <4>1
          <5> QED
            BY <1>3, <3>2, <5>1
        <4>2. CASE y = z
          BY <3>2, <4>2
        <4> QED
          BY <1>10, <3>2, <4>1, <4>2
      <3> QED
        BY <1>3, <1>8, <1>9, <2>1, <3>1, <3>2
    <2>2. CASE m # n
      <3>1. Reigns(m) /\ raft'[m] = raft[m] /\ raft[m].term # t
        BY <1>13, <2>2
      <3>2. ASSUME NEW y \in Logs', NEW j \in 1..Len(y), y[j].term = raft[m].term
            PROVE  j <= Len(raft[m].log)
        <4>1. CASE y \in Logs
          BY <1>0, <3>1, <3>2, <4>1 DEF ReignsLongest
        <4>2. CASE y = z
          <5>1. j # Len(z)
            BY <1>3, <1>9, <3>1, <3>2, <4>2
          <5>2. j \in 1..Len(x) /\ z[j] = x[j]
            BY <1>5, <1>8, <1>9, <3>2, <4>2, <5>1
          <5> QED
            BY <1>0, <1>5, <1>8, <3>1, <3>2, <4>2, <5>2 DEF ReignsLongest
        <4> QED
          BY <1>10, <3>2, <4>1, <4>2
      <3> QED
        BY <1>0, <3>1, <3>2 DEF ReignsLongest
    <2> QED
      BY <2>1, <2>2
  <1>16. FirstAppends'
    <2>1. ASSUME NEW m \in Node, raft'[m].leads, ~app'[m].isLeader
          PROVE  /\ EndsWithFirst(raft'[m].log, raft'[m].term)
                 /\ raft'[m].commit < Len(raft'[m].log)
      <3>1. CASE m = n
        <4>1. raft'[n].term = t /\ raft'[n].commit = raft[n].commit
          BY <1>1
        <4>2. raft[n].commit <= Len(x) /\ raft[n].commit \in Nat
          BY <1>0, <1>8, RaftTypes DEF Commits, Holds
        <4>3. EndsWithFirst(z, t)
          BY <1>3, <1>9, <1>11 DEF EndsWithFirst
        <4> QED
          BY <1>5, <1>8, <1>9, <3>1, <4>1, <4>2, <4>3
      <3>2. CASE m # n
        <4>1. raft'[m] = raft[m] /\ app' = app
          BY <1>1, <2>1, <3>2
        <4> QED
          BY <1>0, <2>1, <4>1 DEF FirstAppends
      <3> QED
        BY <3>1, <3>2
    <2>2. hello' = hello
      BY <1>1
    <2> QED
      BY <1>0, <2>1, <2>2 DEF FirstAppends
  <1> QED
    BY <1>7, <1>12, <1>14, <1>15, <1>16 DEF LogInv

LEMMA ProposeLog ==
  ASSUME Types, Types', LogInv, NEW n \in Node, NEW p \in Proposal, Propose(n, p),
         raft[n].leads, app[n].ready, Readiness
  PROVE  LogInv'
  <1>0. /\ TermsRise /\ TermsStarted /\ Matching /\ OwnTerms /\ OneReigns
        /\ ReignsLongest /\ FirstAppends /\ Commits
    BY DEF LogInv
  <1>1. PICK e : e = [term |-> raft[n].term, data |-> p]
    OBVIOUS
  <1>2. /\ raft' \in [Node -> RaftState]
        /\ \A m \in Node : m # n => raft'[m] = raft[m] /\ app'[m] = app[m]
        /\ raft'[n].term = raft[n].term /\ raft'[n].leads = raft[n].leads
        /\ raft'[n].commit = raft[n].commit /\ raft'[n].spoke = raft[n].spoke
        /\ raft'[n].log = Append(raft[n].log, e)
        /\ app'[n].isLeader = app[n].isLeader
        /\ hello' = hello /\ chosen' = chosen /\ e \in Entry
    <2>1. ~(answer' = [answer EXCEPT ![p] = "rejected"] /\ UNCHANGED <<raft, app>>)
      <3> SUFFICES ASSUME raft' = raft PROVE FALSE
        OBVIOUS
      <3>1. raft' = [raft EXCEPT ![n] = [raft[n] EXCEPT !.log = Append(raft[n].log, e)]]
        BY <1>1 DEF Propose
      <3>2. raft[n] \in RaftState /\ raft[n].log \in Seq(Entry)
        BY RaftTypes
      <3>3. raft'[n].log = Append(raft[n].log, e)
        BY <3>1, <3>2 DEF Types, RaftState
      <3>4. e \in Entry
        BY <1>1, LeaderReigns, ReigningTerm DEF Entry
      <3>5. Len(Append(raft[n].log, e)) = Len(raft[n].log) + 1 /\ Len(raft[n].log) \in Nat
        BY <3>2, <3>4
      <3> QED
        BY <3>3, <3>5
    <2> QED
      BY <1>1, <2>1, ProposeEffect DEF OnlyApp
  <1>3. Reigns(n) /\ app[n].isLeader \in BOOLEAN
    BY LeaderReigns, AppTypes
  <1>4. PICK x, z : x = raft[n].log /\ z = raft'[n].log
    OBVIOUS
  <1>5. /\ x \in Logs /\ x \in Seq(Entry) /\ Len(x) \in Nat
        /\ Len(x) \in 1..Len(x) /\ x[Len(x)].term = raft[n].term
        /\ z \in Seq(Entry) /\ Len(z) = Len(x) + 1 /\ z[Len(z)] = e /\ z # <<>>
        /\ \A i \in 1..Len(x) : z[i] = x[i]
        /\ e.term = raft[n].term /\ e.term \in Nat
    BY <1>1, <1>2, <1>3, <1>4, IsLog, RaftTypes, ReigningTerm
  <1>6. \A y \in Logs : \A j \in 1..Len(y) : y[j].term = e.term => j <= Len(x)
    BY <1>0, <1>3, <1>4, <1>5 DEF ReignsLongest
  <1>7. TermsGrow
    BY <1>2, RaftTypes DEF TermsGrow
  <1>8. TermsRise' /\ TermsStarted' /\ Matching' /\ Commits'
    <2>1. \A m \in Node : m # n => raft'[m].log = raft[m].log
      BY <1>2
    <2>2. \A m \in Node : raft'[m].commit = raft[m].commit
      BY <1>2
    <2>3. \A i \in 1..Len(raft[n].log) : raft[n].log[i].term <= e.term
      BY <1>0, <1>5 DEF OwnTerms
    <2>4. \A y \in Logs : \A j \in 1..Len(y) : y[j].term = e.term =>
            j <= Len(raft[n].log) /\ raft[n].log[Len(raft[n].log)].term = e.term
      BY <1>4, <1>5, <1>6
    <2>5. \E Q \in Quorum : \A q \in Q : raft'[q].term >= e.term
      <3>1. PICK Q \in Quorum : \A q \in Q : raft[q].term >= x[Len(x)].term
        BY <1>0, <1>5 DEF TermsStarted
      <3>2. \A q \in Q : q \in Node /\ raft'[q].term = raft[q].term
        BY <1>2 DEF Quorum
      <3>3. \A q \in Q : raft'[q].term >= e.term
        BY <1>5, <3>1, <3>2
      <3> QED
        BY <3>3
    <2>6. \A k \in 1..Len(chosen) :
            Stable(k) /\ e.term > chosen[k].term => Holds(raft[n].log, k)
      BY <1>4, <1>5 DEF Stable
    <2> QED
      BY <1>2, <1>7, <2>1, <2>2, <2>3, <2>4, <2>5, <2>6, AppendStep
  <1>9. \A y \in Logs' : y \in Logs \/ y = z
    <2>1. \A m \in Node : m # n => raft'[m].log = raft[m].log
      BY <1>2
    <2> QED
      BY <1>2, <1>4, <2>1 DEF Logs
  <1>10. \A m \in Node : Reigns(m)' => Reigns(m) /\ raft'[m].term = raft[m].term
    BY <1>2 DEF Reigns
  <1>11. OwnTerms'
    <2> SUFFICES ASSUME NEW m \in Node
                 PROVE  /\ raft'[m].spoke <= raft'[m].term
                        /\ raft'[m].leads => raft'[m].spoke = raft'[m].term
                        /\ \A i \in 1..Len(raft'[m].log) :
                             raft'[m].log[i].term <= raft'[m].term
      BY DEF OwnTerms
    <2>1. CASE m # n
      BY <1>0, <1>2, <2>1 DEF OwnTerms
    <2>2. CASE m = n
      <3>1. \A i \in 1..Len(z) : z[i].term <= raft[n].term
        <4> TAKE i \in 1..Len(z)
        <4>1. CASE i = Len(z)
          BY <1>5, <4>1
        <4>2. CASE i # Len(z)
          <5>1. i \in 1..Len(x)
            BY <1>5, <4>2
          <5> QED
            BY <1>0, <1>4, <1>5, <5>1 DEF OwnTerms
        <4> QED
          BY <4>1, <4>2
      <3> QED
        BY <1>0, <1>2, <1>4, <2>2, <3>1 DEF OwnTerms
    <2> QED
      BY <2>1, <2>2
  <1>12. OneReigns'
    <2> SUFFICES ASSUME NEW l \in Node, NEW m \in Node, Reigns(l)', Reigns(m)',
                        raft'[l].term = raft'[m].term
                 PROVE  l = m
      BY DEF OneReigns
    <2> QED
      BY <1>0, <1>10 DEF OneReigns
  <1>13. ReignsLongest'
    <2> SUFFICES ASSUME NEW m \in Node, Reigns(m)'
                 PROVE  /\ raft'[m].log # <<>>
                        /\ raft'[m].log[Len(raft'[m].log)].term = raft'[m].term
                        /\ \A y \in Logs' : \A j \in 1..Len(y) :
                             y[j].term = raft'[m].term => j <= Len(raft'[m].log)
      BY DEF ReignsLongest
    <2>1. CASE m = n
      <3>1. ASSUME NEW y \in Logs', NEW j \in 1..Len(y), y[j].term = e.term
            PROVE  j <= Len(z)
        <4>1. CASE y \in Logs
          <5>1. j <= Len(x) /\ j \in Nat
            BY <1>6, <3>1, <4>1
          <5> QED
            BY <1>5, <5>1
        <4>2. CASE y = z
          BY <3>1, <4>2
        <4> QED
          BY <1>9, <3>1, <4>1, <4>2
      <3> QED
        BY <1>2, <1>4, <1>5, <2>1, <3>1
    <2>2. CASE m # n
      <3>1. Reigns(m) /\ raft'[m] = raft[m]
        BY <1>2, <1>10, <2>2
      <3>2. raft[m].term # raft[n].term
        BY <1>0, <1>3, <2>2, <3>1 DEF OneReigns
      <3>3. ASSUME NEW y \in Logs', NEW j \in 1..Len(y), y[j].term = raft[m].term
            PROVE  j <= Len(raft[m].log)
        <4>1. CASE y \in Logs
          BY <1>0, <3>1, <3>3, <4>1 DEF ReignsLongest
        <4>2. CASE y = z
          <5>1. j # Len(z)
            BY <1>5, <3>2, <3>3, <4>2
          <5>2. j \in 1..Len(x) /\ z[j] = x[j]
            BY <1>5, <3>3, <4>2, <5>1
          <5> QED
            BY <1>0, <1>5, <3>1, <3>3, <4>2, <5>2 DEF ReignsLongest
        <4> QED
          BY <1>9, <3>3, <4>1, <4>2
      <3> QED
        BY <1>0, <3>1, <3>3 DEF ReignsLongest
    <2> QED
      BY <2>1, <2>2
  <1>14. FirstAppends'
    <2>1. ASSUME NEW m \in Node, raft'[m].leads, ~app'[m].isLeader
          PROVE  /\ EndsWithFirst(raft'[m].log, raft'[m].term)
                 /\ raft'[m].commit < Len(raft'[m].log)
      <3>1. m # n
        BY <1>2, <2>1 DEF Readiness
      <3> QED
        BY <1>0, <1>2, <2>1, <3>1 DEF FirstAppends
    <2> QED
      BY <1>0, <1>2, <2>1 DEF FirstAppends
  <1> QED
    BY <1>8, <1>11, <1>12, <1>13, <1>14 DEF LogInv

----------------------------------------------------------------------------
(* Preservation: a leader commits. *)

LEMMA NewLogTypes ==
  ASSUME Types', NEW y \in Logs'
  PROVE  Len(y) \in Nat
  BY DEF Logs, Types, RaftState, Hello

\* Every log of the new state begins a log of the old one.
LEMMA PrefixLogs ==
  ASSUME Types, Types', TermsGrow, TermsRise, TermsStarted, Matching,
         \A y \in Logs' : \E x \in Logs : Len(y) <= Len(x) /\ SameTo(y, x, Len(y))
  PROVE  TermsRise' /\ TermsStarted' /\ Matching'
  <1>1. ASSUME NEW y \in Logs'
        PROVE  \E x \in Logs : /\ \A i \in 1..Len(y) : i \in 1..Len(x) /\ y[i] = x[i]
                               /\ x \in Seq(Entry)
    <2>1. PICK x \in Logs : Len(y) <= Len(x) /\ SameTo(y, x, Len(y))
      BY <1>1
    <2>2. x \in Seq(Entry) /\ Len(x) \in Nat
      BY LogTypes
    <2>3. Len(y) \in Nat
      BY <1>1, NewLogTypes
    <2>4. \A i \in 1..Len(y) : i \in 1..Len(x) /\ y[i] = x[i]
      BY <2>1, <2>2, <2>3 DEF SameTo
    <2> QED
      BY <2>2, <2>4
  <1>2. TermsRise'
    <2> SUFFICES ASSUME NEW y \in Logs', NEW i \in 1..Len(y), NEW j \in 1..Len(y), i <= j
                 PROVE  y[i].term <= y[j].term
      BY DEF TermsRise
    <2>1. PICK x \in Logs : \A k \in 1..Len(y) : k \in 1..Len(x) /\ y[k] = x[k]
      BY <1>1
    <2> QED
      BY <2>1 DEF TermsRise
  <1>3. TermsStarted'
    <2> SUFFICES ASSUME NEW y \in Logs', NEW i \in 1..Len(y)
                 PROVE  \E Q \in Quorum : \A q \in Q : raft'[q].term >= y[i].term
      BY DEF TermsStarted
    <2>1. PICK x \in Logs : /\ \A k \in 1..Len(y) : k \in 1..Len(x) /\ y[k] = x[k]
                            /\ x \in Seq(Entry)
      BY <1>1
    <2>2. PICK Q \in Quorum : \A q \in Q : raft[q].term >= x[i].term
      BY <2>1 DEF TermsStarted
    <2>3. \A q \in Q : /\ raft'[q].term \in Nat /\ raft[q].term \in Nat
                       /\ raft'[q].term >= raft[q].term
      BY Bounds DEF Quorum, Types, RaftState, TermsGrow
    <2>4. x[i].term \in Nat /\ x[i] = y[i]
      BY <2>1, EntryTypes
    <2>5. \A q \in Q : raft'[q].term >= y[i].term
      BY <2>2, <2>3, <2>4
    <2> QED
      BY <2>5
  <1>4. Matching'
    <2> SUFFICES ASSUME NEW v \in Logs', NEW y \in Logs',
                        NEW i \in 1..Len(v), NEW j \in 1..Len(y),
                        j <= i, v[i].term = y[j].term
                 PROVE  SameTo(v, y, j)
      BY DEF Matching
    <2>1. PICK a \in Logs : \A k \in 1..Len(v) : k \in 1..Len(a) /\ v[k] = a[k]
      BY <1>1
    <2>2. PICK b \in Logs : \A k \in 1..Len(y) : k \in 1..Len(b) /\ y[k] = b[k]
      BY <1>1
    <2>3. SameTo(a, b, j)
      BY <2>1, <2>2 DEF Matching
    <2>4. \A k \in 1..j : k \in 1..Len(v) /\ k \in 1..Len(y)
      <3>1. Len(v) \in Nat /\ Len(y) \in Nat
        BY NewLogTypes
      <3> QED
        BY <3>1
    <2> QED
      BY <2>1, <2>2, <2>3, <2>4 DEF SameTo
  <1> QED
    BY <1>2, <1>3, <1>4

LEMMA AdvanceCommitLog ==
  ASSUME Types, Types', LogInv, NEW l \in Node, NEW Q \in Quorum, AdvanceCommit(l, Q)
  PROVE  LogInv' /\ ChosenGrows
  <1>0. /\ TermsRise /\ TermsStarted /\ Matching /\ OwnTerms /\ OneReigns
        /\ ReignsLongest /\ FirstAppends /\ Commits
    BY DEF LogInv
  <1>1. PICK k \in 1..Len(raft[l].log) :
          /\ OnlyRaft(l) /\ l \in Q /\ Q \subseteq Node
          /\ raft[l].leads /\ app[l].isLeader
          /\ k > raft[l].commit /\ raft[l].log[k].term = raft[l].term
          /\ \A m \in Q : /\ raft[m].term = raft[l].term
                          /\ Len(raft[m].log) >= k
                          /\ raft[m].log[k] = raft[l].log[k]
          /\ raft'[l].commit = k /\ raft'[l].log = raft[l].log
          /\ raft'[l].term = raft[l].term /\ raft'[l].leads = raft[l].leads
          /\ raft'[l].spoke = raft[l].spoke
          /\ chosen' = IF k > Len(chosen) THEN SubSeq(raft[l].log, 1, k) ELSE chosen
    BY AdvanceCommitEffect
  <1>2. PICK x, K, t : x = raft[l].log /\ K = Len(chosen) /\ t = raft[l].term
    OBVIOUS
  <1>3. /\ x \in Seq(Entry) /\ x \in Logs /\ Len(x) \in Nat /\ K \in Nat /\ t \in Nat
        /\ k \in 1..Len(x) /\ k \in Nat /\ k > 0 /\ x[k].term = t
        /\ chosen \in Seq(Entry) /\ chosen' \in Seq(Entry) /\ Len(chosen') \in Nat
    BY <1>1, <1>2, RaftTypes, IsLog DEF Types
  <1>4. \A m \in Node : raft'[m].log = raft[m].log /\ raft'[m].term = raft[m].term
    BY <1>1 DEF OnlyRaft
  <1>5. Stable(K) /\ (K > 0 => chosen[K].term <= t)
    <2>1. Stable(K)
      BY <1>0, <1>2 DEF Commits
    <2>2. \A q \in Q : raft[q].term <= t
      BY <1>1, <1>2, <1>3
    <2> QED
      BY <1>3, <2>1, <2>2, QuorumBounds
  <1>6. K <= Len(x) /\ SameTo(x, chosen, K)
    BY <1>1, <1>2, <1>3, <1>5, LeaderReigns, ReignHolds DEF Holds
  \* The committed log is now the leader's up to k, or has been before.
  <1>7. /\ k <= Len(chosen') /\ SameTo(x, chosen', k)
        /\ Len(chosen') <= Len(x) /\ SameTo(chosen', x, Len(chosen'))
        /\ K <= Len(chosen') /\ SameTo(chosen', chosen, K)
    <2>1. CASE k > K
      <3>1. Len(chosen') = k /\ \A i \in 1..k : chosen'[i] = x[i]
        <4>1. chosen' = SubSeq(x, 1, k)
          BY <1>1, <1>2, <2>1
        <4> QED
          BY <1>3, <4>1
      <3> QED
        BY <1>3, <1>6, <2>1, <3>1 DEF SameTo
    <2>2. CASE ~(k > K)
      <3>1. chosen' = chosen
        BY <1>1, <1>2, <2>2
      <3> QED
        BY <1>2, <1>3, <1>6, <2>2, <3>1 DEF SameTo
    <2> QED
      BY <2>1, <2>2
  <1>8. ChosenGrows /\ TermsGrow
    BY <1>2, <1>4, <1>7, RaftTypes DEF ChosenGrows, TermsGrow
  <1>9. \A y \in Logs' : y \in Logs \/ y = chosen'
    BY <1>1, <1>4 DEF Logs, OnlyRaft
  <1>10. \A y \in Logs' : \E w \in Logs : Len(y) <= Len(w) /\ SameTo(y, w, Len(y))
    <2> TAKE y \in Logs'
    <2>1. CASE y \in Logs
      <3>1. Len(y) \in Nat
        BY <2>1, LogTypes
      <3>2. Len(y) <= Len(y) /\ SameTo(y, y, Len(y))
        BY <3>1 DEF SameTo
      <3> QED
        BY <2>1, <3>2
    <2>2. CASE y = chosen'
      BY <1>3, <1>7, <2>2
    <2> QED
      BY <1>9, <2>1, <2>2
  <1>11. TermsRise' /\ TermsStarted' /\ Matching'
    BY <1>0, <1>8, <1>10, PrefixLogs
  <1>12. \A j \in 1..Len(chosen) : Stable(j) => KeepsFirst(j)
    BY <1>4, SameLogsKeep
  <1>13. \A j \in 1..Len(chosen) : Stable(j) => NewLogsHold(j)
    <2> SUFFICES ASSUME NEW j \in 1..Len(chosen), Stable(j), NEW y \in Logs',
                        NEW i \in 1..Len(y), y[i].term > chosen[j].term
                 PROVE  j <= Len(y) /\ SameTo(y, chosen, j)
      BY DEF NewLogsHold
    <2>1. CASE y \in Logs
      BY <2>1 DEF Stable, Holds
    <2>2. CASE y = chosen'
      BY <1>2, <1>3, <1>7, <2>2 DEF SameTo
    <2> QED
      BY <1>9, <2>1, <2>2
  <1>14. Sound
    BY <1>8, <1>12, <1>13 DEF Sound
  <1>15. Stable(Len(chosen))' /\ chosen'[Len(chosen')].term <= t
    <2>1. CASE k > K
      <3>1. Len(chosen') = k
        BY <1>1, <1>2, <1>3, <2>1
      <3>2. chosen'[k] = x[k] /\ chosen'[k].term = t
        BY <1>3, <1>7 DEF SameTo
      <3>3. ASSUME NEW q \in Q
            PROVE  /\ raft'[q].term >= chosen'[k].term
                   /\ k <= Len(raft'[q].log) /\ SameTo(raft'[q].log, chosen', k)
        <4>1. q \in Node /\ raft[q].term = t /\ k <= Len(raft[q].log) /\ raft[q].log[k] = x[k]
          BY <1>1, <1>2, <1>3, RaftTypes
        <4>2. k \in 1..Len(raft[q].log) /\ raft[q].log \in Logs
          BY <1>3, <4>1, IsLog, RaftTypes
        <4>3. SameTo(raft[q].log, x, k)
          BY <1>0, <1>3, <4>1, <4>2 DEF Matching
        <4>4. SameTo(raft[q].log, chosen', k)
          BY <1>7, <4>3 DEF SameTo
        <4> QED
          BY <1>3, <1>4, <3>2, <4>1, <4>4
      <3>4. ASSUME NEW y \in Logs', NEW i \in 1..Len(y)
            PROVE  ~(y[i].term > chosen'[k].term)
        <4>1. PICK w \in Logs : Len(y) <= Len(w) /\ SameTo(y, w, Len(y))
          BY <1>10
        <4>2. Len(w) \in Nat /\ Len(y) \in Nat /\ w \in Seq(Entry)
          BY LogTypes, NewLogTypes
        <4>3. i \in 1..Len(w) /\ w[i] = y[i]
          BY <4>1, <4>2 DEF SameTo
        <4>4. \A q \in Q : raft[q].term <= t
          BY <1>1, <1>2, <1>3
        <4>5. w[i].term <= t /\ w[i].term \in Nat
          BY <1>0, <1>3, <4>2, <4>3, <4>4, QuorumBoundsLogs, EntryTypes
        <4> QED
          BY <1>3, <3>2, <4>3, <4>5
      <3>5. Stable(k)'
        <4>1. \A q \in Q : raft'[q].term >= chosen'[k].term /\ Holds(raft[q].log, k)'
          BY <1>7, <3>3 DEF Holds
        <4> QED
          BY <1>3, <1>7, <3>4, <4>1 DEF Stable
      <3> QED
        BY <1>3, <3>1, <3>2, <3>5 DEF Stable
    <2>2. CASE ~(k > K)
      <3>1. chosen' = chosen
        BY <1>1, <1>2, <2>2
      <3>2. K > 0 /\ K = Len(chosen')
        BY <1>2, <1>3, <2>2, <3>1
      <3> QED
        BY <1>0, <1>5, <1>14, <3>1, <3>2, TopStays
    <2> QED
      BY <2>1, <2>2
  <1>16. \A m \in Node : NodeFits(m)'
    <2> TAKE m \in Node
    <2>1. CASE m # l
      BY <1>0, <1>1, <1>14, <2>1, SameLogsFit DEF OnlyRaft
    <2>2. CASE m = l
      <3>1. Holds(raft[l].log, raft[l].commit)'
        BY <1>1, <1>2, <1>3, <1>7 DEF Holds
      <3>2. Backed(raft[l].commit, raft[l].term)'
        <4>1. PICK J : J = Len(chosen')
          OBVIOUS
        <4>2. J \in 0..Len(chosen') /\ k <= J /\ chosen'[J].term <= t
          BY <1>3, <1>7, <1>15, <4>1
        <4>3. Stable(J)'
          BY <1>15, <4>1 DEF Stable
        <4> QED
          BY <1>1, <1>2, <4>2, <4>3 DEF Backed
      <3> QED
        BY <2>2, <3>1, <3>2 DEF NodeFits
    <2> QED
      BY <2>1, <2>2
  <1>17. \A u \in Term : HelloFits(u)'
    BY <1>0, <1>1, <1>14, HelloFitsStays DEF OnlyRaft
  <1>18. Commits'
    BY <1>15, <1>16, <1>17 DEF Commits, NodeFits, HelloFits
  <1>19. OwnTerms'
    <2>1. \A m \in Node : raft'[m].spoke = raft[m].spoke /\ raft'[m].leads = raft[m].leads
      BY <1>1 DEF OnlyRaft
    <2> QED
      BY <1>0, <1>4, <2>1 DEF OwnTerms
  <1>20. \A m \in Node : Reigns(m)' => Reigns(m)
    BY <1>1 DEF Reigns, OnlyRaft
  <1>21. OneReigns'
    <2> SUFFICES ASSUME NEW n \in Node, NEW m \in Node, Reigns(n)', Reigns(m)',
                        raft'[n].term = raft'[m].term
                 PROVE  n = m
      BY DEF OneReigns
    <2> QED
      BY <1>0, <1>4, <1>20 DEF OneReigns
  <1>22. ReignsLongest'
    <2> SUFFICES ASSUME NEW m \in Node, Reigns(m)'
                 PROVE  /\ raft'[m].log # <<>>
                        /\ raft'[m].log[Len(raft'[m].log)].term = raft'[m].term
                        /\ \A y \in Logs' : \A j \in 1..Len(y) :
                             y[j].term = raft'[m].term => j <= Len(raft'[m].log)
      BY DEF ReignsLongest
    <2>1. ASSUME NEW y \in Logs', NEW j \in 1..Len(y), y[j].term = raft[m].term
          PROVE  j <= Len(raft[m].log)
      <3>1. PICK w \in Logs : Len(y) <= Len(w) /\ SameTo(y, w, Len(y))
        BY <1>10
      <3>2. Len(w) \in Nat /\ Len(y) \in Nat
        BY LogTypes, NewLogTypes
      <3>3. j \in 1..Len(w) /\ w[j] = y[j]
        BY <3>1, <3>2 DEF SameTo
      <3> QED
        BY <1>0, <1>20, <2>1, <3>3 DEF ReignsLongest
    <2> QED
      BY <1>0, <1>4, <1>20, <2>1 DEF ReignsLongest
  <1>23. FirstAppends'
    <2>1. ASSUME NEW m \in Node, raft'[m].leads, ~app'[m].isLeader
          PROVE  /\ EndsWithFirst(raft'[m].log, raft'[m].term)
                 /\ raft'[m].commit < Len(raft'[m].log)
      <3>1. m # l /\ app' = app
        BY <1>1, <2>1 DEF OnlyRaft
      <3> QED
        BY <1>0, <1>1, <2>1, <3>1 DEF FirstAppends, OnlyRaft
    <2> QED
      BY <1>0, <1>1, <2>1 DEF FirstAppends, OnlyRaft
  <1> QED
    BY <1>8, <1>11, <1>18, <1>19, <1>21, <1>22, <1>23 DEF LogInv

----------------------------------------------------------------------------
(* Preservation: types. *)

LEMMA TypesStep ==
  ASSUME RaftInv, Next
  PROVE  Types'
  <1>0. Types /\ LogInv /\ FirstAppends /\ Indices
    BY DEF RaftInv, LogInv
  <1>1. ASSUME NEW n \in Node, NEW Q \in Quorum, Elect(n, Q)
        PROVE  Types'
    <2>1. /\ raft' \in [Node -> RaftState]
          /\ UNCHANGED <<app, disk, hello, answer, chosen, crashes>>
      BY <1>0, <1>1, ElectEffect
    <2> QED
      BY <1>0, <2>1 DEF Types
  <1>2. ASSUME NEW n \in Node, NEW Q \in Quorum, AdvanceCommit(n, Q)
        PROVE  Types'
    <2>1. PICK k \in 1..Len(raft[n].log) :
            /\ OnlyRaft(n)
            /\ chosen' = IF k > Len(chosen) THEN SubSeq(raft[n].log, 1, k) ELSE chosen
      BY <1>0, <1>2, AdvanceCommitEffect
    <2>2. raft[n].log \in Seq(Entry) /\ Len(raft[n].log) \in Nat
      BY <1>0, RaftTypes
    <2>3. SubSeq(raft[n].log, 1, k) \in Seq(Entry)
      BY <2>2
    <2>4. chosen' \in Seq(Entry)
      BY <1>0, <2>1, <2>3 DEF Types
    <2> QED
      BY <1>0, <2>1, <2>4, OnlyRaftTypes
  <1>3. ASSUME NEW n \in Node, NEW t \in Term, TakeHeartbeat(n, t)
        PROVE  Types'
    <2>1. OnlyRaft(n) /\ chosen' = chosen
      BY <1>0, <1>3, TakeHeartbeatEffect
    <2> QED
      BY <1>0, <2>1, OnlyRaftTypes DEF Types
  <1>4. ASSUME NEW n \in Node, NEW t \in Term, TakeAppend(n, t)
        PROVE  Types'
    <2>1. OnlyRaft(n) /\ chosen' = chosen
      BY <1>0, <1>4, TakeAppendEffect
    <2> QED
      BY <1>0, <2>1, OnlyRaftTypes DEF Types
  <1>5. ASSUME NEW l \in Node, NEW n \in Node, Replicate(l, n)
        PROVE  Types'
    <2>1. OnlyRaft(n) /\ chosen' = chosen
      BY <1>0, <1>5, ReplicateEffect
    <2> QED
      BY <1>0, <2>1, OnlyRaftTypes DEF Types
  <1>6. ASSUME NEW n \in Node, NEW p \in Proposal, Propose(n, p)
        PROVE  Types'
    <2>1. raft' \in [Node -> RaftState] /\ app' \in [Node -> AppState]
      BY <1>0, <1>6, ProposeEffect DEF OnlyApp, Types
    <2>2. answer' \in [Proposal -> Answers]
      BY <1>0, <1>6, ProposeEffect DEF Types, Answers
    <2>3. UNCHANGED <<disk, hello, chosen, crashes>>
      BY <1>0, <1>6, ProposeEffect
    <2> QED
      BY <1>0, <2>1, <2>2, <2>3 DEF Types, Answers
  <1>7. ASSUME NEW n \in Node, StepDown(n)
        PROVE  Types'
    <2>1. OnlyRaft(n) /\ chosen' = chosen
      BY <1>0, <1>7, StepDownEffect
    <2> QED
      BY <1>0, <2>1, OnlyRaftTypes DEF Types
  <1>8. ASSUME NEW n \in Node, HandleReady(n)
        PROVE  Types'
    <2>1. /\ raft' \in [Node -> RaftState] /\ app' \in [Node -> AppState]
          /\ UNCHANGED <<disk, chosen, crashes>>
      BY <1>0, <1>8, HandleReadyEffect DEF OnlyApp
    <2>2. answer' \in [Proposal -> Answers]
      <3>1. \A p \in Proposal : Verdict(n, p) \in Answers /\ answer[p] \in Answers
        BY <1>0 DEF Verdict, Answers, Types
      <3>2. \/ answer' = answer
            \/ answer' = [p \in Proposal |-> IF Released(n, p) THEN Verdict(n, p)
                                             ELSE answer[p]]
        BY <1>8 DEF HandleReady
      <3> QED
        BY <1>0, <3>1, <3>2 DEF Types, Answers
    <2>3. hello' \in [Term -> Hello]
      <3>1. [sent |-> TRUE, log |-> raft[n].log, commit |-> raft[n].commit] \in Hello
        BY <1>0, RaftTypes DEF Hello
      <3>2. \/ hello' = hello
            \/ hello' = [hello EXCEPT ![raft[n].term] =
                           [sent |-> TRUE, log |-> raft[n].log, commit |-> raft[n].commit]]
        BY <1>8 DEF HandleReady
      <3> QED
        BY <1>0, <3>1, <3>2 DEF Types
    <2> QED
      BY <1>0, <2>1, <2>2, <2>3 DEF Types, Answers
  <1>9. ASSUME NEW n \in Node, Schedule(n)
        PROVE  Types'
    <2>1. /\ app' \in [Node -> AppState] /\ disk' \in [Node -> DiskState]
          /\ UNCHANGED <<raft, hello, chosen, crashes>>
      BY <1>9, ScheduleEffect DEF OnlyApp, OnlyDisk
    <2>2. answer' \in [Proposal -> Answers]
      <3>1. \/ answer' = answer
            \/ answer' = [p \in Proposal |->
                            IF \E w \in {v \in app[n].pending : v.index = app[n].scheduled + 1} :
                                 w.data = p
                            THEN "committed" ELSE answer[p]]
        BY <1>9, ScheduleEffect
      <3>2. \A p \in Proposal : answer[p] \in Answers
        BY <1>0 DEF Types, Answers
      <3> QED
        BY <1>0, <3>1, <3>2 DEF Types, Answers
    <2> QED
      BY <1>0, <2>1, <2>2 DEF Types, Answers
  <1>10. ASSUME NEW n \in Node, Write(n)
         PROVE  Types'
    BY <1>0, <1>10, WriteEffect DEF Types, OnlyApp, OnlyDisk
  <1>11. ASSUME NEW n \in Node, Finish(n)
         PROVE  Types'
    BY <1>0, <1>11, FinishEffect DEF Types, OnlyApp, OnlyDisk
  <1>12. ASSUME NEW n \in Node, Crash(n)
         PROVE  Types'
    <2>1. /\ raft' \in [Node -> RaftState] /\ app' \in [Node -> AppState]
          /\ UNCHANGED <<disk, hello, chosen>> /\ crashes' \in Nat
          /\ answer' = [p \in Proposal |-> IF \E w \in app[n].pending : w.data = p
                                           THEN "lost" ELSE answer[p]]
      BY <1>0, <1>12, CrashEffect DEF OnlyApp
    <2>2. answer' \in [Proposal -> Answers]
      BY <1>0, <2>1 DEF Types, Answers
    <2> QED
      BY <1>0, <2>1, <2>2 DEF Types, Answers
  <1> QED
    BY <1>1, <1>2, <1>3, <1>4, <1>5, <1>6, <1>7, <1>8, <1>9, <1>10, <1>11, <1>12
    DEF Next

----------------------------------------------------------------------------
(* Preservation: the indices of a node. *)

LEMMA CommitInLog ==
  ASSUME Types, LogInv, NEW n \in Node
  PROVE  /\ raft[n].commit \in Nat /\ raft[n].commit <= Len(raft[n].log)
         /\ raft[n].commit <= Len(chosen)
         /\ SameTo(raft[n].log, chosen, raft[n].commit)
  BY RaftTypes DEF LogInv, Commits, Holds

LEMMA IndicesFollow ==
  ASSUME Types, Types', Indices, app' = app, disk' = disk,
         \A m \in Node : raft'[m].commit >= raft[m].commit
  PROVE  Indices'
  <1> SUFFICES ASSUME NEW m \in Node
               PROVE  app[m].taken <= raft'[m].commit
    BY DEF Indices
  <1>1. raft[m].commit \in Nat /\ raft'[m].commit \in Nat /\ app[m].taken \in Nat
    BY RaftTypes, AppTypes DEF Types, RaftState
  <1> QED
    BY <1>1 DEF Indices

\* The indices of one node.
IndicesOf(n) ==
  /\ disk[n].applied <= app[n].scheduled
  /\ app[n].scheduled <= app[n].taken
  /\ app[n].taken <= raft[n].commit
  /\ app[n].job # NoJob => /\ app[n].job.index = app[n].scheduled
                           /\ app[n].job.data \in Proposal
  /\ app[n].written => app[n].job # NoJob

LEMMA IndicesOne ==
  ASSUME Indices, NEW n \in Node,
         \A m \in Node : m # n => /\ raft'[m] = raft[m] /\ app'[m] = app[m]
                                  /\ disk'[m] = disk[m],
         IndicesOf(n)'
  PROVE  Indices'
  BY DEF Indices, IndicesOf

LEMMA IndicesStep ==
  ASSUME RaftInv, Next, Types'
  PROVE  Indices'
  <1>0. Types /\ LogInv /\ FirstAppends /\ Indices
    BY DEF RaftInv, LogInv
  <1>a. \A m \in Node : /\ raft[m].commit \in Nat /\ app[m].taken \in Nat
                        /\ app[m].scheduled \in Nat /\ disk[m].applied \in Nat
                        /\ IndicesOf(m)
    BY <1>0, RaftTypes, AppTypes DEF Indices, IndicesOf
  <1>1. ASSUME NEW n \in Node, NEW Q \in Quorum, Elect(n, Q)
        PROVE  Indices'
    <2>1. \A m \in Node : raft'[m].commit = raft[m].commit /\ app' = app /\ disk' = disk
      BY <1>0, <1>1, ElectEffect
    <2> QED
      BY <1>0, <1>a, <2>1, IndicesFollow
  <1>2. ASSUME NEW n \in Node, NEW Q \in Quorum, AdvanceCommit(n, Q)
        PROVE  Indices'
    <2>1. PICK k \in 1..Len(raft[n].log) :
            OnlyRaft(n) /\ k > raft[n].commit /\ raft'[n].commit = k
      BY <1>0, <1>2, AdvanceCommitEffect
    <2>2. \A m \in Node : raft'[m].commit >= raft[m].commit
      BY <1>0, <1>a, <2>1, RaftTypes DEF OnlyRaft
    <2> QED
      BY <1>0, <2>1, <2>2, IndicesFollow DEF OnlyRaft
  <1>3. ASSUME NEW n \in Node, NEW t \in Term, TakeHeartbeat(n, t)
        PROVE  Indices'
    <2>1. OnlyRaft(n) /\ raft'[n].commit = raft[n].commit
      BY <1>0, <1>3, TakeHeartbeatEffect
    <2> QED
      BY <1>0, <1>a, <2>1, IndicesFollow DEF OnlyRaft
  <1>4. ASSUME NEW n \in Node, NEW t \in Term, TakeAppend(n, t)
        PROVE  Indices'
    <2>1. /\ OnlyRaft(n)
          /\ raft'[n].commit = IF raft[n].commit >= hello[t].commit
                               THEN raft[n].commit ELSE hello[t].commit
      BY <1>0, <1>4, TakeAppendEffect
    <2>2. \A m \in Node : raft'[m].commit >= raft[m].commit
      BY <1>0, <1>a, <2>1, HelloTypes DEF OnlyRaft
    <2> QED
      BY <1>0, <2>1, <2>2, IndicesFollow DEF OnlyRaft
  <1>5. ASSUME NEW l \in Node, NEW n \in Node, Replicate(l, n)
        PROVE  Indices'
    <2>1. /\ OnlyRaft(n)
          /\ raft'[n].commit = IF raft[n].commit >= raft[l].commit
                               THEN raft[n].commit ELSE raft[l].commit
      BY <1>0, <1>5, ReplicateEffect
    <2>2. \A m \in Node : raft'[m].commit >= raft[m].commit
      BY <1>a, <2>1 DEF OnlyRaft
    <2> QED
      BY <1>0, <2>1, <2>2, IndicesFollow DEF OnlyRaft
  <1>6. ASSUME NEW n \in Node, NEW p \in Proposal, Propose(n, p)
        PROVE  Indices'
    <2>1. \A m \in Node : /\ raft'[m].commit = raft[m].commit /\ disk'[m] = disk[m]
                          /\ app'[m].taken = app[m].taken /\ app'[m].job = app[m].job
                          /\ app'[m].scheduled = app[m].scheduled
                          /\ app'[m].written = app[m].written
      BY <1>0, <1>6, ProposeEffect DEF OnlyApp
    <2> QED
      BY <1>0, <2>1 DEF Indices
  <1>7. ASSUME NEW n \in Node, StepDown(n)
        PROVE  Indices'
    <2>1. OnlyRaft(n) /\ raft'[n].commit = raft[n].commit
      BY <1>0, <1>7, StepDownEffect
    <2> QED
      BY <1>0, <1>a, <2>1, IndicesFollow DEF OnlyRaft
  <1>8. ASSUME NEW n \in Node, HandleReady(n)
        PROVE  Indices'
    <2>1. /\ \A m \in Node : m # n => /\ raft'[m] = raft[m] /\ app'[m] = app[m]
                                      /\ disk'[m] = disk[m]
          /\ raft'[n].commit = raft[n].commit /\ disk'[n] = disk[n]
          /\ app'[n].taken = raft[n].commit
          /\ app'[n].scheduled = app[n].scheduled
          /\ app'[n].job = app[n].job /\ app'[n].written = app[n].written
      BY <1>0, <1>8, HandleReadyEffect DEF OnlyApp
    <2>2. IndicesOf(n)'
      BY <1>a, <2>1 DEF IndicesOf
    <2> QED
      BY <1>0, <2>1, <2>2, IndicesOne
  <1>9. ASSUME NEW n \in Node, Schedule(n)
        PROVE  Indices'
    <2>1. PICK i : i = app[n].scheduled + 1
      OBVIOUS
    <2>2. PICK mine : mine = {w \in app[n].pending : w.index = i}
      OBVIOUS
    <2>3. /\ \A m \in Node : m # n => /\ raft'[m] = raft[m] /\ app'[m] = app[m]
                                      /\ disk'[m] = disk[m]
          /\ raft'[n] = raft[n] /\ app[n].job = NoJob
          /\ i <= app[n].taken /\ i \in 1..Len(raft[n].log)
          /\ app'[n].scheduled = i /\ app'[n].taken = app[n].taken
          /\ app'[n].written = app[n].written
          /\ \/ disk'[n].applied = i /\ app'[n].job = NoJob
             \/ /\ raft[n].log[i].data # NoOp
                /\ disk'[n].applied = disk[n].applied
                /\ app'[n].job.index = i
                /\ app'[n].job.kind = IF mine = {} THEN "worker" ELSE "local"
                /\ mine = {} => app'[n].job.data = raft[n].log[i].data
                /\ mine # {} => \E w \in mine : app'[n].job.data = w.data
      BY <1>9, <2>1, <2>2, ScheduleEffect DEF OnlyApp, OnlyDisk
    <2>4. ~app[n].written
      BY <1>a, <2>3 DEF IndicesOf
    <2>5. app'[n].job # NoJob => app'[n].job.index = i /\ app'[n].job.data \in Proposal
      <3>1. raft[n].log[i].data # NoOp => raft[n].log[i].data \in Proposal
        BY <1>0, <2>3, RaftTypes, EntryTypes
      <3>2. \A w \in mine : w.data \in Proposal
        BY <1>0, <2>2, AppTypes DEF Waiter
      <3> QED
        BY <2>3, <3>1, <3>2
    <2>6. IndicesOf(n)'
      BY <1>a, <2>1, <2>3, <2>4, <2>5 DEF IndicesOf
    <2> QED
      BY <1>0, <2>3, <2>6, IndicesOne
  <1>10. ASSUME NEW n \in Node, Write(n)
         PROVE  Indices'
    <2>1. /\ \A m \in Node : m # n => /\ raft'[m] = raft[m] /\ app'[m] = app[m]
                                      /\ disk'[m] = disk[m]
          /\ raft'[n] = raft[n] /\ app[n].job # NoJob
          /\ app'[n].taken = app[n].taken /\ app'[n].scheduled = app[n].scheduled
          /\ app'[n].job = app[n].job /\ disk'[n].applied = disk[n].applied
      BY <1>10, WriteEffect DEF OnlyApp, OnlyDisk
    <2>2. IndicesOf(n)'
      BY <1>a, <2>1 DEF IndicesOf
    <2> QED
      BY <1>0, <2>1, <2>2, IndicesOne
  <1>11. ASSUME NEW n \in Node, Finish(n)
         PROVE  Indices'
    <2>1. /\ \A m \in Node : m # n => /\ raft'[m] = raft[m] /\ app'[m] = app[m]
                                      /\ disk'[m] = disk[m]
          /\ raft'[n] = raft[n] /\ app[n].written
          /\ app'[n].taken = app[n].taken /\ app'[n].scheduled = app[n].scheduled
          /\ app'[n].job = NoJob /\ ~app'[n].written
          /\ disk'[n].applied = app[n].job.index
      BY <1>11, FinishEffect DEF OnlyApp, OnlyDisk
    <2>2. IndicesOf(n)'
      BY <1>a, <2>1 DEF IndicesOf
    <2> QED
      BY <1>0, <2>1, <2>2, IndicesOne
  <1>12. ASSUME NEW n \in Node, Crash(n)
         PROVE  Indices'
    <2>1. /\ \A m \in Node : m # n => /\ raft'[m] = raft[m] /\ app'[m] = app[m]
                                      /\ disk'[m] = disk[m]
          /\ raft'[n].commit = raft[n].commit /\ disk'[n] = disk[n]
          /\ app'[n].taken = disk[n].applied /\ app'[n].scheduled = disk[n].applied
          /\ app'[n].job = NoJob /\ ~app'[n].written
      BY <1>0, <1>12, CrashEffect DEF OnlyApp
    <2>2. IndicesOf(n)'
      BY <1>a, <2>1 DEF IndicesOf
    <2> QED
      BY <1>0, <2>1, <2>2, IndicesOne
  <1> QED
    BY <1>1, <1>2, <1>3, <1>4, <1>5, <1>6, <1>7, <1>8, <1>9, <1>10, <1>11, <1>12
    DEF Next

----------------------------------------------------------------------------
(* Preservation: readiness. *)

\* The readiness of one node.
ReadinessOf(n) ==
  /\ app[n].ready => app[n].isLeader
  /\ app[n].barrier # NoBarrier =>
       /\ app[n].isLeader
       /\ app[n].barrier.term = raft[n].spoke
       /\ raft[n].spoke = raft[n].term =>
            /\ app[n].barrier.index \in 1..Len(raft[n].log)
            /\ raft[n].log[app[n].barrier.index].term = raft[n].term
  /\ app[n].ready /\ raft[n].spoke = raft[n].term =>
       \E b \in 1..Len(chosen) :
         b <= disk[n].applied /\ chosen[b].term = raft[n].term

LEMMA ReadinessKeeps ==
  ASSUME Types, Types', Readiness, ChosenGrows, NEW n \in Node,
         app'[n].isLeader = app[n].isLeader, app'[n].ready = app[n].ready,
         app'[n].barrier = app[n].barrier, disk'[n].applied = disk[n].applied,
         app[n].isLeader =>
           /\ raft'[n].spoke = raft[n].spoke
           /\ raft'[n].spoke = raft'[n].term =>
                /\ raft[n].term = raft'[n].term
                /\ Len(raft[n].log) <= Len(raft'[n].log)
                /\ SameTo(raft'[n].log, raft[n].log, Len(raft[n].log))
  PROVE  ReadinessOf(n)'
  <1>1. ReadinessOf(n)
    BY DEF Readiness, ReadinessOf
  <1>2. /\ Len(raft[n].log) \in Nat /\ Len(raft'[n].log) \in Nat
        /\ Len(chosen) \in Nat /\ Len(chosen') \in Nat
    BY RaftTypes DEF Types, RaftState
  <1>3. CASE ~app[n].isLeader
    BY <1>1, <1>3 DEF ReadinessOf
  <1>4. CASE app[n].isLeader /\ raft'[n].spoke # raft'[n].term
    BY <1>1, <1>4 DEF ReadinessOf
  <1>5. CASE app[n].isLeader /\ raft'[n].spoke = raft'[n].term
    <2>1. /\ raft[n].spoke = raft[n].term /\ raft'[n].spoke = raft[n].spoke
          /\ \A i \in 1..Len(raft[n].log) : /\ i \in 1..Len(raft'[n].log)
                                            /\ raft'[n].log[i] = raft[n].log[i]
      BY <1>2, <1>5 DEF SameTo
    <2>2. \A b \in 1..Len(chosen) : b \in 1..Len(chosen') /\ chosen'[b] = chosen[b]
      BY <1>2 DEF ChosenGrows, SameTo
    <2> QED
      BY <1>1, <1>5, <2>1, <2>2 DEF ReadinessOf
  <1> QED
    BY <1>3, <1>4, <1>5

\* What MaybeMarkLeaderReady makes of a sound barrier.
LEMMA ReadinessMarks ==
  ASSUME Types, Types', LogInv, NEW n \in Node, NEW ready, NEW barrier,
         chosen' = chosen, raft'[n].term = raft[n].term, raft'[n].log = raft[n].log,
         Marked(n, app'[n].isLeader, ready, barrier, disk'[n].applied, app'[n]),
         ready => app'[n].isLeader,
         barrier # NoBarrier =>
           /\ app'[n].isLeader
           /\ barrier.term = raft'[n].spoke
           /\ raft'[n].spoke = raft'[n].term =>
                /\ barrier.index \in 1..Len(raft[n].log)
                /\ raft[n].log[barrier.index].term = raft[n].term,
         ready /\ raft'[n].spoke = raft'[n].term =>
           \E b \in 1..Len(chosen) :
             b <= disk'[n].applied /\ chosen[b].term = raft[n].term
  PROVE  ReadinessOf(n)'
  <1>1. CASE app'[n].ready = ready /\ app'[n].barrier = barrier
    BY <1>1 DEF ReadinessOf
  <1>2. CASE /\ app'[n].isLeader /\ ~ready /\ barrier # NoBarrier
             /\ raft[n].term = barrier.term
             /\ raft[n].commit >= barrier.index /\ disk'[n].applied >= barrier.index
             /\ app'[n].ready /\ app'[n].barrier = NoBarrier
    <2>1. PICK b : b = barrier.index
      OBVIOUS
    <2>2. raft'[n].spoke = raft'[n].term
      BY <1>2
    <2>3. b \in 1..Len(raft[n].log) /\ raft[n].log[b].term = raft[n].term
      BY <1>2, <2>1, <2>2
    <2>4. b \in 1..Len(chosen) /\ chosen[b] = raft[n].log[b]
      <3>1. /\ raft[n].commit \in Nat /\ raft[n].commit <= Len(chosen)
            /\ \A i \in 1..raft[n].commit : raft[n].log[i] = chosen[i]
        BY CommitInLog DEF SameTo
      <3>2. b \in Nat /\ b >= 1 /\ Len(chosen) \in Nat
        BY <2>3, RaftTypes DEF Types
      <3>3. b \in 1..raft[n].commit
        BY <1>2, <2>1, <3>1, <3>2
      <3> QED
        BY <3>1, <3>2, <3>3
    <2>5. disk'[n].applied \in Nat /\ b <= disk'[n].applied
      BY <1>2, <2>1, <2>3 DEF Types, DiskState
    <2> QED
      BY <1>2, <2>2, <2>3, <2>4, <2>5 DEF ReadinessOf
  <1> QED
    BY <1>1, <1>2 DEF Marked

LEMMA ReadinessAll ==
  ASSUME \A n \in Node : ReadinessOf(n)'
  PROVE  Readiness'
  BY DEF Readiness, ReadinessOf

LEMMA ReadinessOne ==
  ASSUME Types, Readiness, NEW n \in Node, chosen' = chosen,
         \A m \in Node : m # n => /\ raft'[m] = raft[m] /\ app'[m] = app[m]
                                  /\ disk'[m] = disk[m],
         ReadinessOf(n)'
  PROVE  Readiness'
  <1> SUFFICES ASSUME NEW m \in Node, m # n
               PROVE  ReadinessOf(m)'
    BY ReadinessAll
  <1>1. ReadinessOf(m)
    BY DEF Readiness, ReadinessOf
  <1>2. raft'[m] = raft[m] /\ app'[m] = app[m] /\ disk'[m] = disk[m]
    OBVIOUS
  <1> QED
    BY <1>1, <1>2 DEF ReadinessOf

\* A step of raft-rs on node n.
LEMMA ReadinessFollows ==
  ASSUME Types, Types', Readiness, chosen' = chosen, NEW n \in Node, OnlyRaft(n),
         app[n].isLeader =>
           /\ raft'[n].spoke = raft[n].spoke
           /\ raft'[n].spoke = raft'[n].term =>
                raft[n].term = raft'[n].term /\ raft[n].log = raft'[n].log
  PROVE  Readiness'
  <1>1. ChosenGrows
    BY ChosenStays
  <1>2. SameTo(raft[n].log, raft[n].log, Len(raft[n].log)) /\ Len(raft[n].log) \in Nat
    BY RaftTypes DEF SameTo
  <1>3. app' = app /\ disk' = disk
    BY DEF OnlyRaft
  <1>4. ReadinessOf(n)'
    BY <1>1, <1>2, <1>3, ReadinessKeeps
  <1> QED
    BY <1>3, <1>4, ReadinessOne DEF OnlyRaft

LEMMA ReadinessStep ==
  ASSUME RaftInv, Next, Types'
  PROVE  Readiness'
  <1>0. Types /\ LogInv /\ FirstAppends /\ OwnTerms /\ Indices /\ Readiness
    BY DEF RaftInv, LogInv
  <1>1. ASSUME NEW n \in Node, NEW Q \in Quorum, Elect(n, Q)
        PROVE  Readiness'
    <2>1. /\ \A m \in Node : raft'[m] = raft[m] \/ ~app[m].isLeader
          /\ app' = app /\ disk' = disk /\ chosen' = chosen
      BY <1>0, <1>1, ElectEffect
    <2>2. ASSUME NEW m \in Node
          PROVE  ReadinessOf(m)'
      <3>1. SameTo(raft[m].log, raft[m].log, Len(raft[m].log)) /\ Len(raft[m].log) \in Nat
        BY <1>0, RaftTypes DEF SameTo
      <3> QED
        BY <1>0, <2>1, <3>1, ChosenStays, ReadinessKeeps
    <2> QED
      BY <2>2, ReadinessAll
  <1>2. ASSUME NEW n \in Node, NEW Q \in Quorum, AdvanceCommit(n, Q)
        PROVE  Readiness'
    <2>1. /\ OnlyRaft(n) /\ raft'[n].log = raft[n].log
          /\ raft'[n].term = raft[n].term /\ raft'[n].spoke = raft[n].spoke
      BY <1>0, <1>2, AdvanceCommitEffect
    <2>2. ChosenGrows
      BY <1>0, <1>2, AdvanceCommitLog
    <2>3. ASSUME NEW m \in Node
          PROVE  ReadinessOf(m)'
      <3>1. SameTo(raft[m].log, raft[m].log, Len(raft[m].log)) /\ Len(raft[m].log) \in Nat
        BY <1>0, RaftTypes DEF SameTo
      <3>2. /\ raft'[m].log = raft[m].log /\ raft'[m].term = raft[m].term
            /\ raft'[m].spoke = raft[m].spoke /\ app' = app /\ disk' = disk
        BY <2>1 DEF OnlyRaft
      <3> QED
        BY <1>0, <2>2, <3>1, <3>2, ReadinessKeeps
    <2> QED
      BY <2>3, ReadinessAll
  <1>3. ASSUME NEW n \in Node, NEW t \in Term, TakeHeartbeat(n, t)
        PROVE  Readiness'
    <2>1. /\ OnlyRaft(n) /\ chosen' = chosen /\ raft[n].term < t /\ raft'[n].term = t
          /\ raft'[n].spoke = raft[n].spoke /\ raft'[n].log = raft[n].log
      BY <1>0, <1>3, TakeHeartbeatEffect
    <2>2. raft'[n].spoke # raft'[n].term
      BY <1>0, <2>1, RaftTypes, Bounds DEF OwnTerms
    <2> QED
      BY <1>0, <2>1, <2>2, ReadinessFollows
  <1>4. ASSUME NEW n \in Node, NEW t \in Term, TakeAppend(n, t)
        PROVE  Readiness'
    <2>1. /\ OnlyRaft(n) /\ chosen' = chosen /\ raft'[n].term = t
          /\ raft'[n].spoke = raft[n].spoke
      BY <1>0, <1>4, TakeAppendEffect
    <2>2. ASSUME app[n].isLeader, raft'[n].spoke = raft'[n].term
          PROVE  raft[n].term = raft'[n].term /\ raft[n].log = raft'[n].log
      <3>1. Reigns(n)'
        BY <2>1, <2>2 DEF Reigns, OnlyRaft
      <3> QED
        BY <1>0, <1>4, <2>1, <3>1, TakeAppendReigns
    <2> QED
      BY <1>0, <2>1, <2>2, ReadinessFollows
  <1>5. ASSUME NEW l \in Node, NEW n \in Node, Replicate(l, n)
        PROVE  Readiness'
    <2>1. /\ OnlyRaft(n) /\ chosen' = chosen /\ raft[n].spoke = raft[n].term
      BY <1>0, <1>5, ReplicateEffect
    <2>2. ~app[n].isLeader
      BY <1>0, <1>5, <2>1, ReplicateReigns DEF Reigns
    <2> QED
      BY <1>0, <2>1, <2>2, ReadinessFollows
  <1>6. ASSUME NEW n \in Node, NEW p \in Proposal, Propose(n, p)
        PROVE  Readiness'
    <2>1. CASE UNCHANGED <<raft, app, disk, chosen>>
      BY <1>0, <2>1 DEF Readiness
    <2>2. CASE ~UNCHANGED <<raft, app, disk, chosen>>
      <3>1. /\ \A m \in Node : m # n => raft'[m] = raft[m] /\ app'[m] = app[m]
            /\ raft'[n].term = raft[n].term /\ raft'[n].spoke = raft[n].spoke
            /\ [term |-> raft[n].term, data |-> p] \in Entry
            /\ raft'[n].log = Append(raft[n].log, [term |-> raft[n].term, data |-> p])
            /\ app'[n].isLeader = app[n].isLeader /\ app'[n].ready = app[n].ready
            /\ app'[n].barrier = app[n].barrier
            /\ disk' = disk /\ chosen' = chosen
        BY <1>0, <1>6, <2>2, ProposeEffect DEF OnlyApp
      <3>2. /\ Len(raft[n].log) <= Len(raft'[n].log)
            /\ SameTo(raft'[n].log, raft[n].log, Len(raft[n].log))
        BY <1>0, <3>1, RaftTypes DEF SameTo
      <3>3. ReadinessOf(n)'
        BY <1>0, <3>1, <3>2, ChosenStays, ReadinessKeeps
      <3> QED
        BY <1>0, <3>1, <3>3, ReadinessOne
    <2> QED
      BY <2>1, <2>2
  <1>7. ASSUME NEW n \in Node, StepDown(n)
        PROVE  Readiness'
    BY <1>0, <1>7, StepDownEffect, ReadinessFollows
  <1>8. ASSUME NEW n \in Node, HandleReady(n)
        PROVE  Readiness'
    <2>1. /\ \A m \in Node : m # n => raft'[m] = raft[m] /\ app'[m] = app[m]
          /\ disk' = disk /\ chosen' = chosen
          /\ raft'[n].term = raft[n].term /\ raft'[n].log = raft[n].log
          /\ raft'[n].spoke = raft[n].term /\ app'[n].isLeader = raft[n].leads
      BY <1>0, <1>8, HandleReadyEffect DEF OnlyApp
    <2>2. CASE raft[n].leads /\ ~app[n].isLeader
      <3>1. PICK b : b = [term |-> raft[n].term, index |-> Len(raft[n].log)]
        OBVIOUS
      <3>2. b.term = raft[n].term /\ b.index = Len(raft[n].log)
        BY <3>1
      <3>3. Marked(n, app'[n].isLeader, FALSE, b, disk'[n].applied, app'[n])
        <4>1. Marked(n, TRUE, FALSE, b, disk[n].applied, app'[n])
          BY <1>0, <1>8, <2>2, <3>1, HandleReadyEffect
        <4> QED
          BY <2>1, <2>2, <4>1 DEF Marked
      <3>4. /\ Len(raft[n].log) \in 1..Len(raft[n].log)
            /\ raft[n].log[Len(raft[n].log)].term = raft[n].term
        BY <1>0, <2>2, LeaderReigns, ReigningTerm
      <3>5. ReadinessOf(n)'
        BY <1>0, <2>1, <2>2, <3>2, <3>3, <3>4, ReadinessMarks
      <3> QED
        BY <1>0, <2>1, <3>5, ReadinessOne
    <2>3. CASE ~raft[n].leads /\ app[n].isLeader
      <3>1. ~app'[n].ready /\ app'[n].barrier = NoBarrier
        BY <1>0, <1>8, <2>3, HandleReadyEffect
      <3>2. ReadinessOf(n)'
        BY <3>1 DEF ReadinessOf
      <3> QED
        BY <1>0, <2>1, <3>2, ReadinessOne
    <2>4. CASE raft[n].leads = app[n].isLeader
      <3>1. Marked(n, app[n].isLeader, app[n].ready, app[n].barrier, disk[n].applied, app'[n])
        BY <1>0, <1>8, <2>4, HandleReadyEffect
      <3>2. Marked(n, app'[n].isLeader, app[n].ready, app[n].barrier, disk'[n].applied, app'[n])
        BY <2>1, <2>4, <3>1 DEF Marked
      <3>3. ReadinessOf(n) /\ (app[n].isLeader => raft[n].spoke = raft[n].term)
        BY <1>0, <2>4 DEF Readiness, ReadinessOf, OwnTerms
      <3>4. PICK ready, barrier : ready = app[n].ready /\ barrier = app[n].barrier
        OBVIOUS
      <3>6. /\ Marked(n, app'[n].isLeader, ready, barrier, disk'[n].applied, app'[n])
            /\ ready => app'[n].isLeader
            /\ barrier # NoBarrier =>
                 /\ app'[n].isLeader
                 /\ barrier.term = raft'[n].spoke
                 /\ raft'[n].spoke = raft'[n].term =>
                      /\ barrier.index \in 1..Len(raft[n].log)
                      /\ raft[n].log[barrier.index].term = raft[n].term
            /\ ready /\ raft'[n].spoke = raft'[n].term =>
                 \E b \in 1..Len(chosen) :
                   b <= disk'[n].applied /\ chosen[b].term = raft[n].term
        BY <2>1, <2>4, <3>2, <3>3, <3>4 DEF ReadinessOf
      <3>5. ReadinessOf(n)'
        BY <1>0, <2>1, <3>6, ReadinessMarks
      <3> QED
        BY <1>0, <2>1, <3>5, ReadinessOne
    <2>5. raft[n].leads \in BOOLEAN /\ app[n].isLeader \in BOOLEAN
      BY <1>0, RaftTypes, AppTypes
    <2> QED
      BY <2>2, <2>3, <2>4, <2>5
  <1>a. ASSUME NEW n \in Node, UNCHANGED <<raft, chosen>>, OnlyApp(n), OnlyDisk(n),
               app'[n].isLeader = app[n].isLeader,
               disk[n].applied <= disk'[n].applied,
               Marked(n, app[n].isLeader, app[n].ready, app[n].barrier,
                      disk'[n].applied, app'[n])
        PROVE  Readiness'
    <2>1. ReadinessOf(n)
      BY <1>0 DEF Readiness, ReadinessOf
    <2>2. Marked(n, app'[n].isLeader, app[n].ready, app[n].barrier, disk'[n].applied, app'[n])
      BY <1>a DEF Marked
    <2>3. PICK ready, barrier : ready = app[n].ready /\ barrier = app[n].barrier
      OBVIOUS
    <2>4. ready /\ raft[n].spoke = raft[n].term =>
            \E b \in 1..Len(chosen) :
              b <= disk'[n].applied /\ chosen[b].term = raft[n].term
      <3>1. /\ disk[n].applied \in Nat /\ disk'[n].applied \in Nat
        BY <1>0, <1>a, AppTypes DEF OnlyDisk, DiskState
      <3> QED
        BY <1>a, <2>1, <2>3, <3>1 DEF ReadinessOf
    <2>6. /\ Marked(n, app'[n].isLeader, ready, barrier, disk'[n].applied, app'[n])
          /\ ready => app'[n].isLeader
          /\ barrier # NoBarrier =>
               /\ app'[n].isLeader
               /\ barrier.term = raft'[n].spoke
               /\ raft'[n].spoke = raft'[n].term =>
                    /\ barrier.index \in 1..Len(raft[n].log)
                    /\ raft[n].log[barrier.index].term = raft[n].term
      BY <1>a, <2>1, <2>2, <2>3 DEF ReadinessOf
    <2>5. ReadinessOf(n)'
      BY <1>0, <1>a, <2>4, <2>6, ReadinessMarks
    <2> QED
      BY <1>0, <1>a, <2>5, ReadinessOne DEF OnlyApp, OnlyDisk
  <1>b. \A n \in Node : /\ disk[n].applied \in Nat /\ app[n].scheduled \in Nat
                        /\ disk[n].applied <= app[n].scheduled
                        /\ app[n].written => app[n].job.index = app[n].scheduled
    BY <1>0, AppTypes DEF Indices
  <1>9. ASSUME NEW n \in Node, Schedule(n)
        PROVE  Readiness'
    <2>1. PICK i : i = app[n].scheduled + 1
      OBVIOUS
    <2>2. /\ UNCHANGED <<raft, chosen>> /\ OnlyApp(n) /\ OnlyDisk(n)
          /\ app'[n].isLeader = app[n].isLeader
          /\ \/ /\ disk'[n].applied = i
                /\ Marked(n, app[n].isLeader, app[n].ready, app[n].barrier, i, app'[n])
             \/ /\ disk'[n].applied = disk[n].applied
                /\ app'[n].ready = app[n].ready /\ app'[n].barrier = app[n].barrier
      BY <1>9, <2>1, ScheduleEffect
    <2>3. disk[n].applied <= disk'[n].applied
      BY <1>b, <2>1, <2>2
    <2>4. Marked(n, app[n].isLeader, app[n].ready, app[n].barrier, disk'[n].applied, app'[n])
      BY <2>2 DEF Marked
    <2> QED
      BY <1>a, <2>2, <2>3, <2>4
  <1>10. ASSUME NEW n \in Node, Write(n)
         PROVE  Readiness'
    <2>1. /\ UNCHANGED <<raft, chosen>> /\ OnlyApp(n) /\ OnlyDisk(n)
          /\ app'[n].isLeader = app[n].isLeader
          /\ disk'[n].applied = disk[n].applied
          /\ app'[n].ready = app[n].ready /\ app'[n].barrier = app[n].barrier
      BY <1>10, WriteEffect
    <2>2. Marked(n, app[n].isLeader, app[n].ready, app[n].barrier, disk'[n].applied, app'[n])
      BY <2>1 DEF Marked
    <2>3. disk[n].applied <= disk'[n].applied
      BY <1>b, <2>1
    <2> QED
      BY <1>a, <2>1, <2>2, <2>3
  <1>11. ASSUME NEW n \in Node, Finish(n)
         PROVE  Readiness'
    <2>1. /\ UNCHANGED <<raft, chosen>> /\ OnlyApp(n) /\ OnlyDisk(n) /\ app[n].written
          /\ app'[n].isLeader = app[n].isLeader
          /\ disk'[n].applied = app[n].job.index
          /\ Marked(n, app[n].isLeader, app[n].ready, app[n].barrier,
                    app[n].job.index, app'[n])
      BY <1>11, FinishEffect
    <2>2. disk[n].applied <= disk'[n].applied
      BY <1>b, <2>1
    <2> QED
      BY <1>a, <2>1, <2>2
  <1>12. ASSUME NEW n \in Node, Crash(n)
         PROVE  Readiness'
    <2>1. /\ \A m \in Node : m # n => raft'[m] = raft[m] /\ app'[m] = app[m]
          /\ disk' = disk /\ chosen' = chosen
          /\ ~app'[n].ready /\ app'[n].barrier = NoBarrier
      BY <1>0, <1>12, CrashEffect DEF OnlyApp
    <2>2. ReadinessOf(n)'
      BY <2>1 DEF ReadinessOf
    <2> QED
      BY <1>0, <2>1, <2>2, ReadinessOne
  <1> QED
    BY <1>1, <1>2, <1>3, <1>4, <1>5, <1>6, <1>7, <1>8, <1>9, <1>10, <1>11, <1>12
    DEF Next
----------------------------------------------------------------------------
(* The invariant of the logs, the indices and readiness. *)

LEMMA LogStep ==
  ASSUME RaftInv, Next, Types'
  PROVE  LogInv' /\ ChosenGrows
  <1>0. Types /\ LogInv /\ FirstAppends /\ Readiness
    BY DEF RaftInv, LogInv
  <1>1. ASSUME NEW n \in Node, NEW Q \in Quorum, Elect(n, Q)
        PROVE  LogInv' /\ ChosenGrows
    BY <1>0, <1>1, ElectLog, ElectEffect, ChosenStays
  <1>2. ASSUME NEW n \in Node, NEW Q \in Quorum, AdvanceCommit(n, Q)
        PROVE  LogInv' /\ ChosenGrows
    BY <1>0, <1>2, AdvanceCommitLog
  <1>3. ASSUME NEW n \in Node, NEW t \in Term, TakeHeartbeat(n, t)
        PROVE  LogInv' /\ ChosenGrows
    BY <1>0, <1>3, TakeHeartbeatLog, TakeHeartbeatEffect, ChosenStays
  <1>4. ASSUME NEW n \in Node, NEW t \in Term, TakeAppend(n, t)
        PROVE  LogInv' /\ ChosenGrows
    BY <1>0, <1>4, TakeAppendLog, TakeAppendEffect, ChosenStays
  <1>5. ASSUME NEW l \in Node, NEW n \in Node, Replicate(l, n)
        PROVE  LogInv' /\ ChosenGrows
    BY <1>0, <1>5, ReplicateLog, ReplicateEffect, ChosenStays
  <1>6. ASSUME NEW n \in Node, NEW p \in Proposal, Propose(n, p)
        PROVE  LogInv' /\ ChosenGrows
    <2>1. chosen' = chosen /\ hello' = hello
      BY <1>6 DEF Propose
    <2>2. CASE raft[n].leads /\ app[n].ready
      BY <1>0, <1>6, <2>1, <2>2, ProposeLog, ChosenStays
    <2>3. CASE ~(raft[n].leads /\ app[n].ready)
      <3>1. UNCHANGED <<raft, app>>
        BY <1>6, <2>3 DEF Propose
      <3> QED
        BY <1>0, <2>1, <3>1, LogFrame, ChosenStays
    <2> QED
      BY <2>2, <2>3
  <1>7. ASSUME NEW n \in Node, StepDown(n)
        PROVE  LogInv' /\ ChosenGrows
    <2>1. /\ OnlyRaft(n) /\ chosen' = chosen
          /\ raft'[n].term = raft[n].term /\ ~raft'[n].leads
          /\ raft'[n].log = raft[n].log /\ raft'[n].spoke = raft[n].spoke
          /\ raft'[n].commit = raft[n].commit
      BY <1>0, <1>7, StepDownEffect
    <2>2. /\ hello' = hello /\ app' = app
          /\ \A m \in Node : m # n => raft'[m] = raft[m] /\ app'[m] = app[m]
      BY <2>1 DEF OnlyRaft
    <2> QED
      BY <1>0, <2>1, <2>2, StopsLeading, ChosenStays
  <1>8. ASSUME NEW n \in Node, HandleReady(n)
        PROVE  LogInv' /\ ChosenGrows
    BY <1>0, <1>8, HandleReadyLog, HandleReadyEffect, ChosenStays
  <1>9. ASSUME NEW n \in Node, Schedule(n)
        PROVE  LogInv' /\ ChosenGrows
    <2>1. /\ UNCHANGED <<raft, hello, chosen>>
          /\ \A m \in Node : app'[m].isLeader = app[m].isLeader
      BY <1>9, ScheduleEffect DEF OnlyApp
    <2> QED
      BY <1>0, <2>1, LogFrame, ChosenStays
  <1>10. ASSUME NEW n \in Node, Write(n)
         PROVE  LogInv' /\ ChosenGrows
    <2>1. /\ UNCHANGED <<raft, hello, chosen>>
          /\ \A m \in Node : app'[m].isLeader = app[m].isLeader
      BY <1>10, WriteEffect DEF OnlyApp
    <2> QED
      BY <1>0, <2>1, LogFrame, ChosenStays
  <1>11. ASSUME NEW n \in Node, Finish(n)
         PROVE  LogInv' /\ ChosenGrows
    <2>1. /\ UNCHANGED <<raft, hello, chosen>>
          /\ \A m \in Node : app'[m].isLeader = app[m].isLeader
      BY <1>11, FinishEffect DEF OnlyApp
    <2> QED
      BY <1>0, <2>1, LogFrame, ChosenStays
  <1>12. ASSUME NEW n \in Node, Crash(n)
         PROVE  LogInv' /\ ChosenGrows
    <2>1. /\ hello' = hello /\ chosen' = chosen
          /\ \A m \in Node : m # n => raft'[m] = raft[m] /\ app'[m] = app[m]
          /\ raft'[n].term = raft[n].term /\ ~raft'[n].leads
          /\ raft'[n].log = raft[n].log /\ raft'[n].spoke = raft[n].spoke
          /\ raft'[n].commit = raft[n].commit /\ ~app'[n].isLeader
      BY <1>0, <1>12, CrashEffect DEF OnlyApp
    <2> QED
      BY <1>0, <2>1, StopsLeading, ChosenStays
  <1> QED
    BY <1>1, <1>2, <1>3, <1>4, <1>5, <1>6, <1>7, <1>8, <1>9, <1>10, <1>11, <1>12
    DEF Next

LEMMA RaftInit ==
  ASSUME Init
  PROVE  RaftInv
  <1>1. \A n \in Node : /\ raft[n] = [term |-> 0, leads |-> FALSE, log |-> <<>>,
                                      commit |-> 0, spoke |-> 0]
                        /\ raft[n].term = 0 /\ ~raft[n].leads /\ raft[n].log = <<>>
                        /\ raft[n].commit = 0 /\ raft[n].spoke = 0
    BY DEF Init
  <1>2. \A n \in Node : /\ app[n] = Idle /\ ~app[n].isLeader /\ ~app[n].ready
                        /\ app[n].barrier = NoBarrier /\ app[n].pending = {}
                        /\ app[n].taken = 0 /\ app[n].scheduled = 0
                        /\ app[n].job = NoJob /\ ~app[n].written
    BY DEF Init, Idle
  <1>3. \A n \in Node : /\ disk[n] = [applied |-> 0, data |-> <<>>]
                        /\ disk[n].applied = 0 /\ disk[n].data = <<>>
    BY DEF Init
  <1>4. \A t \in Term : hello[t] = NoHello /\ ~hello[t].sent
    BY DEF Init, NoHello
  <1>5. chosen = <<>> /\ crashes = 0 /\ answer = [p \in Proposal |-> "unasked"]
    BY DEF Init
  <1>6. Types
    <2>1. /\ NoBarrier \in [term : 0..MaxTerm, index : Nat]
          /\ NoJob \in [kind : {"none", "worker", "local"}, index : Nat,
                        data : Proposal \cup {NoOp}]
      BY Bounds DEF NoBarrier, NoJob
    <2>2. Idle \in AppState
      BY <2>1 DEF Idle, AppState
    <2>3. [term |-> 0, leads |-> FALSE, log |-> <<>>, commit |-> 0, spoke |-> 0] \in RaftState
      BY Bounds DEF RaftState
    <2>4. [applied |-> 0, data |-> <<>>] \in DiskState /\ NoHello \in Hello
      BY DEF DiskState, NoHello, Hello
    <2>5. raft \in [Node -> RaftState] /\ app \in [Node -> AppState]
      BY <2>2, <2>3 DEF Init
    <2>6. disk \in [Node -> DiskState] /\ hello \in [Term -> Hello]
      BY <2>4 DEF Init
    <2> QED
      BY <1>5, <2>5, <2>6 DEF Types
  <1>7. \A x \in Logs : x = <<>>
    BY <1>1, <1>4, <1>5 DEF Logs
  <1>8. TermsRise /\ TermsStarted /\ Matching
    BY <1>7 DEF TermsRise, TermsStarted, Matching
  <1>9. OwnTerms
    BY <1>1 DEF OwnTerms
  <1>10. \A n \in Node : ~Reigns(n)
    BY <1>1, <1>2 DEF Reigns
  <1>11. OneReigns /\ ReignsLongest
    BY <1>10 DEF OneReigns, ReignsLongest
  <1>12. FirstAppends
    BY <1>1, <1>4 DEF FirstAppends
  <1>13. Commits
    <2>1. Len(chosen) = 0 /\ Stable(0)
      BY <1>5 DEF Stable
    <2>2. \A n \in Node : Holds(raft[n].log, raft[n].commit)
      BY <1>1, <1>5 DEF Holds, SameTo
    <2>3. \A n \in Node : Backed(raft[n].commit, raft[n].term)
      BY <1>1, <2>1 DEF Backed
    <2> QED
      BY <1>4, <2>1, <2>2, <2>3 DEF Commits
  <1>14. Indices
    BY <1>1, <1>2, <1>3 DEF Indices
  <1>15. Readiness
    BY <1>2 DEF Readiness
  <1> QED
    BY <1>6, <1>8, <1>9, <1>11, <1>12, <1>13, <1>14, <1>15 DEF RaftInv, LogInv

LEMMA RaftStep ==
  ASSUME RaftInv, Next
  PROVE  RaftInv' /\ ChosenGrows
  BY TypesStep, LogStep, IndicesStep, ReadinessStep DEF RaftInv

LEMMA RaftStutter ==
  ASSUME RaftInv, UNCHANGED vars
  PROVE  RaftInv'
  <1>1. Types' /\ (\A n \in Node : app'[n].isLeader = app[n].isLeader)
    BY DEF RaftInv, Types, vars
  <1>2. LogInv'
    BY <1>1, LogFrame DEF RaftInv, vars
  <1> QED
    BY <1>1, <1>2 DEF RaftInv, Indices, Readiness, vars

\* The logs, the indices and the readiness of the loop in raft_node.rs are
\* sound whatever is elected, lost, delayed or crashes, messages of several
\* terms in one drain included: RaftInv is an invariant.
THEOREM RaftInvariantHolds == Spec => []RaftInv
  <1>1. Init => RaftInv
    BY RaftInit
  <1>2. RaftInv /\ [Next]_vars => RaftInv'
    BY RaftStep, RaftStutter
  <1> QED
    BY <1>1, <1>2, PTL DEF Spec

\* Every variable keeps its type, and on every node the durable, the scheduled,
\* the taken and the committed index follow one another within the log.
THEOREM TypeOKHolds == Spec => []TypeOK
  <1>1. RaftInv => TypeOK
    <2> SUFFICES ASSUME RaftInv PROVE TypeOK
      OBVIOUS
    <2>1. Types /\ LogInv /\ Indices
      BY DEF RaftInv
    <2>2. \A n \in Node : raft[n].commit <= Len(raft[n].log)
      BY <2>1, CommitInLog
    <2>3. \A n \in Node : /\ disk[n].applied <= app[n].scheduled
                          /\ app[n].scheduled <= app[n].taken
                          /\ app[n].taken <= raft[n].commit
      BY <2>1 DEF Indices
    <2>4. \A n \in Node :
            /\ app[n].isLeader \in BOOLEAN /\ app[n].ready \in BOOLEAN
            /\ app[n].barrier \in [term : 0..MaxTerm, index : Nat]
            /\ app[n].pending \subseteq Waiter
            /\ app[n].job \in [kind : {"none", "worker", "local"}, index : Nat,
                               data : Proposal \cup {NoOp}]
      BY <2>1, AppTypes
    <2> QED
      BY <2>1, <2>2, <2>3, <2>4 DEF TypeOK, Types, RaftState, DiskState
  <1> QED
    BY <1>1, RaftInvariantHolds, PTL

\* A leader reports itself ready only when its state machine has applied all
\* that was committed in earlier terms (maybe_mark_leader_ready and its
\* barrier), also where leadership changed between two Readys.
THEOREM ReadyIsCurrentHolds == Spec => []ReadyIsCurrent
  <1>1. RaftInv => ReadyIsCurrent
    <2> SUFFICES ASSUME RaftInv, NEW n \in Node, raft[n].leads, app[n].ready,
                        NEW i \in 1..Len(chosen), chosen[i].term < raft[n].term
                 PROVE  i <= disk[n].applied
      BY DEF ReadyIsCurrent
    <2>1. Types /\ TermsRise /\ OwnTerms /\ Readiness
      BY DEF RaftInv, LogInv
    <2>2. PICK b \in 1..Len(chosen) :
            b <= disk[n].applied /\ chosen[b].term = raft[n].term
      BY <2>1 DEF Readiness, OwnTerms
    <2>3. /\ chosen[i].term \in Nat /\ raft[n].term \in Nat /\ disk[n].applied \in Nat
      BY <2>1, EntryTypes, RaftTypes, AppTypes DEF Types
    <2>4. ~(b <= i)
      BY <2>1, <2>2, <2>3, IsLog DEF TermsRise
    <2> QED
      BY <2>2, <2>3, <2>4
  <1> QED
    BY <1>1, RaftInvariantHolds, PTL
----------------------------------------------------------------------------
(* Nobody is forgotten. *)

\* Node n keeps the waiters of those that are still to be answered.
LEMMA WaitersAnswered ==
  ASSUME NobodyForgotten, NEW n \in Node, \A m \in Node : m # n => app'[m] = app[m],
         \A p \in Proposal : answer'[p] = "waiting" =>
           \/ \E w \in app'[n].pending : w.data = p
           \/ /\ answer[p] = "waiting"
              /\ \A w \in app[n].pending : w.data = p => w \in app'[n].pending
  PROVE  NobodyForgotten'
  <1> SUFFICES ASSUME NEW p \in Proposal, answer'[p] = "waiting"
               PROVE  \E m \in Node : \E w \in app'[m].pending : w.data = p
    BY DEF NobodyForgotten
  <1>1. CASE \E w \in app'[n].pending : w.data = p
    BY <1>1
  <1>2. CASE /\ answer[p] = "waiting"
             /\ \A w \in app[n].pending : w.data = p => w \in app'[n].pending
    <2>1. PICK m \in Node : \E w \in app[m].pending : w.data = p
      BY <1>2 DEF NobodyForgotten
    <2>2. CASE m = n
      BY <1>2, <2>1, <2>2
    <2>3. CASE m # n
      BY <2>1, <2>3
    <2> QED
      BY <2>2, <2>3
  <1> QED
    BY <1>1, <1>2

LEMMA NobodyForgottenStep ==
  ASSUME RaftInv, NobodyForgotten, Next
  PROVE  NobodyForgotten'
  <1>0. Types /\ LogInv /\ FirstAppends
    BY DEF RaftInv, LogInv
  <1>1. CASE UNCHANGED <<app, answer>>
    BY <1>1 DEF NobodyForgotten
  <1>2. ASSUME NEW n \in Node, NEW q \in Proposal, Propose(n, q)
        PROVE  NobodyForgotten'
    <2>1. CASE UNCHANGED app /\ answer' = [answer EXCEPT ![q] = "rejected"]
      <3>1. \A p \in Proposal : answer'[p] = "waiting" => answer[p] = "waiting"
        BY <1>0, <2>1 DEF Types
      <3> QED
        BY <2>1, <3>1 DEF NobodyForgotten
    <2>2. CASE /\ OnlyApp(n)
               /\ app'[n].pending =
                    app[n].pending \cup {[index |-> Len(raft[n].log) + 1, data |-> q]}
               /\ answer' = [answer EXCEPT ![q] = "waiting"]
      <3>3. PICK w : w = [index |-> Len(raft[n].log) + 1, data |-> q]
        OBVIOUS
      <3>1. w \in app'[n].pending /\ w.data = q
        BY <2>2, <3>3
      <3>2. \A p \in Proposal : p # q => answer'[p] = answer[p]
        BY <1>0, <2>2 DEF Types
      <3> QED
        BY <2>2, <3>1, <3>2, WaitersAnswered DEF OnlyApp
    <2> QED
      BY <1>0, <1>2, <2>1, <2>2, ProposeEffect
  <1>3. ASSUME NEW n \in Node, HandleReady(n)
        PROVE  NobodyForgotten'
    <2>1. /\ \A m \in Node : m # n => app'[m] = app[m]
          /\ app'[n].pending = IF ~raft[n].leads /\ app[n].isLeader
                               THEN KeptWaiters(n) ELSE app[n].pending
      BY <1>0, <1>3, HandleReadyEffect DEF OnlyApp
    <2>2. CASE ~raft[n].leads /\ app[n].isLeader
      <3>1. answer' = [p \in Proposal |-> IF Released(n, p) THEN Verdict(n, p) ELSE answer[p]]
        BY <1>3, <2>2 DEF HandleReady
      <3>2. ASSUME NEW p \in Proposal, answer'[p] = "waiting"
            PROVE  /\ answer[p] = "waiting"
                   /\ \A w \in app[n].pending : w.data = p => w \in app'[n].pending
        <4>1. Verdict(n, p) # "waiting"
          BY DEF Verdict
        <4>2. ~Released(n, p)
          BY <3>1, <3>2, <4>1
        <4> QED
          BY <2>1, <2>2, <3>1, <3>2, <4>2 DEF Released
      <3> QED
        BY <2>1, <3>2, WaitersAnswered
    <2>3. CASE ~(~raft[n].leads /\ app[n].isLeader)
      <3>1. answer' = answer /\ app'[n].pending = app[n].pending
        BY <1>3, <2>1, <2>3 DEF HandleReady
      <3> QED
        BY <2>1, <3>1, WaitersAnswered
    <2> QED
      BY <2>2, <2>3
  <1>4. ASSUME NEW n \in Node, Schedule(n)
        PROVE  NobodyForgotten'
    <2>1. PICK mine : mine = {w \in app[n].pending : w.index = app[n].scheduled + 1}
      OBVIOUS
    <2>2. /\ \A m \in Node : m # n => app'[m] = app[m]
          /\ \/ answer' = answer /\ app'[n].pending = app[n].pending
             \/ /\ answer' = [p \in Proposal |->
                                IF \E w \in mine : w.data = p THEN "committed" ELSE answer[p]]
                /\ app'[n].pending = app[n].pending \ mine
      BY <1>4, <2>1, ScheduleEffect DEF OnlyApp
    <2>3. CASE answer' = answer /\ app'[n].pending = app[n].pending
      BY <2>2, <2>3, WaitersAnswered
    <2>4. CASE /\ answer' = [p \in Proposal |->
                                IF \E w \in mine : w.data = p THEN "committed" ELSE answer[p]]
               /\ app'[n].pending = app[n].pending \ mine
      <3>1. \A p \in Proposal : answer'[p] = "waiting" =>
              /\ answer[p] = "waiting"
              /\ \A w \in app[n].pending : w.data = p => w \in app'[n].pending
        BY <2>4
      <3> QED
        BY <2>2, <3>1, WaitersAnswered
    <2> QED
      BY <2>2, <2>3, <2>4
  <1>5. ASSUME NEW n \in Node, Write(n)
        PROVE  NobodyForgotten'
    BY <1>5, WriteEffect, WaitersAnswered DEF OnlyApp
  <1>6. ASSUME NEW n \in Node, Finish(n)
        PROVE  NobodyForgotten'
    BY <1>6, FinishEffect, WaitersAnswered DEF OnlyApp
  <1>7. ASSUME NEW n \in Node, Crash(n)
        PROVE  NobodyForgotten'
    <2>1. /\ \A m \in Node : m # n => app'[m] = app[m]
          /\ answer' = [p \in Proposal |-> IF \E w \in app[n].pending : w.data = p
                                           THEN "lost" ELSE answer[p]]
      BY <1>0, <1>7, CrashEffect DEF OnlyApp
    <2>2. \A p \in Proposal : answer'[p] = "waiting" =>
              /\ answer[p] = "waiting"
              /\ \A w \in app[n].pending : w.data = p => w \in app'[n].pending
      BY <2>1
    <2> QED
      BY <2>1, <2>2, WaitersAnswered
  <1>8. ASSUME NEW n \in Node, NEW Q \in Quorum, Elect(n, Q) \/ AdvanceCommit(n, Q)
        PROVE  UNCHANGED <<app, answer>>
    BY <1>8 DEF Elect, AdvanceCommit
  <1>9. ASSUME NEW n \in Node, NEW t \in Term, TakeHeartbeat(n, t) \/ TakeAppend(n, t)
        PROVE  UNCHANGED <<app, answer>>
    BY <1>9 DEF TakeHeartbeat, TakeAppend
  <1>10. ASSUME NEW n \in Node, NEW m \in Node, Replicate(n, m) \/ StepDown(n)
         PROVE  UNCHANGED <<app, answer>>
    BY <1>10 DEF Replicate, StepDown
  <1> QED
    BY <1>1, <1>2, <1>3, <1>4, <1>5, <1>6, <1>7, <1>8, <1>9, <1>10 DEF Next

\* A proposer that was told nothing yet is in the pending proposals of a node:
\* no path of the loop in raft_node.rs (leadership loss, application, crash)
\* drops a waiter without an answer.
THEOREM NobodyForgottenHolds == Spec => []NobodyForgotten
  <1>1. Init => NobodyForgotten
    BY DEF Init, NobodyForgotten
  <1>2. RaftInv /\ NobodyForgotten /\ [Next]_vars => NobodyForgotten'
    <2>1. CASE Next
      BY <2>1, NobodyForgottenStep
    <2>2. CASE UNCHANGED vars
      BY <2>2 DEF NobodyForgotten, vars
    <2> QED
      BY <2>1, <2>2
  <1> QED
    BY <1>1, <1>2, RaftInvariantHolds, PTL DEF Spec

----------------------------------------------------------------------------
(* What a state machine carries. *)

LEMMA CarriesStays ==
  ASSUME NEW x, NEW y, NEW data \in Seq(Proposal), NEW e \in Nat,
         SameTo(y, x, e), CarriesIn(x, data, e)
  PROVE  CarriesIn(y, data, e)
  <1>1. \A i \in 1..e : y[i] = x[i]
    BY DEF SameTo
  <1>2. PICK at \in [1..Len(data) -> 1..e] :
          /\ \A j, k \in 1..Len(data) : j < k => at[j] < at[k]
          /\ \A i \in 1..e : x[i].data # NoOp => \E k \in 1..Len(data) : at[k] = i
          /\ \A k \in 1..Len(data) : /\ x[at[k]].data # NoOp
                                     /\ data[k] = x[at[k]].data
    BY DEF CarriesIn
  <1>3. \A k \in 1..Len(data) : at[k] \in 1..e
    OBVIOUS
  <1>4. /\ \A i \in 1..e : y[i].data # NoOp => \E k \in 1..Len(data) : at[k] = i
        /\ \A k \in 1..Len(data) : /\ y[at[k]].data # NoOp
                                   /\ data[k] = y[at[k]].data
    BY <1>1, <1>2, <1>3
  <1> QED
    BY <1>2, <1>4 DEF CarriesIn

\* An empty entry adds nothing.
LEMMA CarriesSkip ==
  ASSUME NEW x, NEW data \in Seq(Proposal), NEW e \in Nat, CarriesIn(x, data, e),
         x[e + 1].data = NoOp
  PROVE  CarriesIn(x, data, e + 1)
  <1>1. PICK at \in [1..Len(data) -> 1..e] :
          /\ \A j, k \in 1..Len(data) : j < k => at[j] < at[k]
          /\ \A i \in 1..e : x[i].data # NoOp => \E k \in 1..Len(data) : at[k] = i
          /\ \A k \in 1..Len(data) : /\ x[at[k]].data # NoOp
                                     /\ data[k] = x[at[k]].data
    BY DEF CarriesIn
  <1>2. at \in [1..Len(data) -> 1..(e + 1)]
    <2>1. 1..e \subseteq 1..(e + 1)
      OBVIOUS
    <2> QED
      BY <2>1
  <1>3. \A i \in 1..(e + 1) : i \in 1..e \/ i = e + 1
    OBVIOUS
  <1>4. \A i \in 1..(e + 1) :
          x[i].data # NoOp => \E k \in 1..Len(data) : at[k] = i
    BY <1>1, <1>3
  <1> QED
    BY <1>1, <1>2, <1>4 DEF CarriesIn

\* Any other is appended.
LEMMA CarriesNext ==
  ASSUME NEW x, NEW data \in Seq(Proposal), NEW e \in Nat, CarriesIn(x, data, e),
         NEW p \in Proposal, x[e + 1].data = p
  PROVE  CarriesIn(x, Append(data, p), e + 1)
  <1>1. PICK at \in [1..Len(data) -> 1..e] :
          /\ \A j, k \in 1..Len(data) : j < k => at[j] < at[k]
          /\ \A i \in 1..e : x[i].data # NoOp => \E k \in 1..Len(data) : at[k] = i
          /\ \A k \in 1..Len(data) : /\ x[at[k]].data # NoOp
                                     /\ data[k] = x[at[k]].data
    BY DEF CarriesIn
  <1>2. PICK L \in Nat : L = Len(data)
    OBVIOUS
  <1>3. PICK new : new = Append(data, p)
    OBVIOUS
  <1>4. /\ Len(new) = L + 1 /\ new[L + 1] = p
        /\ \A k \in 1..L : new[k] = data[k]
    BY <1>2, <1>3
  <1>5. PICK to : to = [k \in 1..(L + 1) |-> IF k = L + 1 THEN e + 1 ELSE at[k]]
    OBVIOUS
  <1>6. /\ \A k \in 1..(L + 1) : k = L + 1 \/ k \in 1..L
        /\ \A k \in 1..L : k \in 1..(L + 1) /\ k # L + 1 /\ k < L + 1
        /\ L + 1 \in 1..(L + 1)
    OBVIOUS
  <1>7. /\ to[L + 1] = e + 1 /\ DOMAIN to = 1..(L + 1)
        /\ \A k \in 1..L : to[k] = at[k] /\ at[k] \in 1..e
    BY <1>2, <1>5, <1>6
  <1>8. to \in [1..(L + 1) -> 1..(e + 1)]
    <2>1. 1..e \subseteq 1..(e + 1) /\ e + 1 \in 1..(e + 1)
      OBVIOUS
    <2>2. \A k \in 1..(L + 1) : to[k] \in 1..(e + 1)
      BY <1>6, <1>7, <2>1
    <2> QED
      BY <1>5, <2>2
  <1>9. \A j, k \in 1..(L + 1) : j < k => to[j] < to[k]
    <2> SUFFICES ASSUME NEW j \in 1..(L + 1), NEW k \in 1..(L + 1), j < k
                 PROVE  to[j] < to[k]
      OBVIOUS
    <2>1. j \in 1..L
      OBVIOUS
    <2>2. CASE k = L + 1
      BY <1>7, <2>1, <2>2
    <2>3. CASE k \in 1..L
      BY <1>1, <1>2, <1>7, <2>1, <2>3
    <2> QED
      BY <1>6, <2>2, <2>3
  <1>10. ASSUME NEW i \in 1..(e + 1), x[i].data # NoOp
         PROVE  \E k \in 1..(L + 1) : to[k] = i
    <2>1. CASE i = e + 1
      BY <1>6, <1>7, <2>1
    <2>2. CASE i \in 1..e
      <3>1. PICK k \in 1..L : at[k] = i
        BY <1>1, <1>2, <1>10, <2>2
      <3> QED
        BY <1>6, <1>7, <3>1
    <2>3. i = e + 1 \/ i \in 1..e
      OBVIOUS
    <2> QED
      BY <2>1, <2>2, <2>3
  <1>11. ASSUME NEW k \in 1..(L + 1)
         PROVE  x[to[k]].data # NoOp /\ new[k] = x[to[k]].data
    <2>1. CASE k = L + 1
      BY <1>4, <1>7, <2>1, Bounds
    <2>2. CASE k \in 1..L
      BY <1>1, <1>2, <1>4, <1>7, <2>2
    <2> QED
      BY <1>6, <2>1, <2>2
  <1>12. CarriesIn(x, new, e + 1)
    <2>1. PICK D : D = 1..(L + 1)
      OBVIOUS
    <2>2. D = 1..Len(new) /\ to \in [D -> 1..(e + 1)]
      BY <1>4, <1>8, <2>1
    <2>3. /\ \A j, k \in D : j < k => to[j] < to[k]
          /\ \A i \in 1..(e + 1) : x[i].data # NoOp => \E k \in D : to[k] = i
          /\ \A k \in D : x[to[k]].data # NoOp /\ new[k] = x[to[k]].data
      BY <1>9, <1>10, <1>11, <2>1
    <2> QED
      BY <2>2, <2>3 DEF CarriesIn
  <1> QED
    BY <1>3, <1>12

LEMMA CarriesContains ==
  ASSUME NEW x, NEW data \in Seq(Proposal), NEW e \in Nat, CarriesIn(x, data, e)
  PROVE  /\ \A i \in 1..e : x[i].data # NoOp => Contains(data, x[i].data)
         /\ \A p : Contains(data, p) => \E i \in 1..e : x[i].data = p
  <1>1. PICK at \in [1..Len(data) -> 1..e] :
          /\ \A i \in 1..e : x[i].data # NoOp => \E k \in 1..Len(data) : at[k] = i
          /\ \A k \in 1..Len(data) : /\ x[at[k]].data # NoOp
                                     /\ data[k] = x[at[k]].data
    BY DEF CarriesIn
  <1>2. \A k \in 1..Len(data) : at[k] \in 1..e
    OBVIOUS
  <1>3. ASSUME NEW i \in 1..e, x[i].data # NoOp
        PROVE  Contains(data, x[i].data)
    <2>1. PICK k \in 1..Len(data) : at[k] = i
      BY <1>1, <1>3
    <2>2. data[k] = x[i].data
      BY <1>1, <2>1
    <2> QED
      BY <2>2 DEF Contains
  <1>4. ASSUME NEW p, Contains(data, p)
        PROVE  \E i \in 1..e : x[i].data = p
    <2>1. PICK k \in 1..Len(data) : data[k] = p
      BY <1>4 DEF Contains
    <2> QED
      BY <1>1, <1>2, <2>1
  <1> QED
    BY <1>3, <1>4

LEMMA CarriesNothing ==
  ASSUME NEW x
  PROVE  CarriesIn(x, <<>>, 0)
  <1>1. PICK at : at = [k \in {} |-> 0]
    OBVIOUS
  <1>2. 1..Len(<<>>) = {} /\ 1..0 = {}
    OBVIOUS
  <1>3. at \in [1..Len(<<>>) -> 1..0]
    BY <1>1, <1>2
  <1> QED
    BY <1>2, <1>3 DEF CarriesIn

----------------------------------------------------------------------------
(* Preservation: a proposal is in a log once, and only when it was made. *)

\* Nobody takes a proposal back.
AskedStays == \A p \in Proposal : answer[p] # "unasked" => answer'[p] # "unasked"

LEMMA ProposedFollows ==
  ASSUME Types, Types', Proposed, AskedStays,
         \A y \in Logs' : \E x \in Logs : Len(y) <= Len(x) /\ SameTo(y, x, Len(y))
  PROVE  Proposed'
  <1> SUFFICES ASSUME NEW y \in Logs'
               PROVE  /\ \A i, j \in 1..Len(y) :
                           y[i].data = y[j].data => i = j \/ y[i].data = NoOp
                      /\ \A i \in 1..Len(y) :
                           y[i].data # NoOp => answer'[y[i].data] # "unasked"
    BY DEF Proposed
  <1>1. PICK x \in Logs : Len(y) <= Len(x) /\ SameTo(y, x, Len(y))
    OBVIOUS
  <1>2. x \in Seq(Entry) /\ Len(x) \in Nat /\ Len(y) \in Nat
    BY LogTypes, NewLogTypes
  <1>3. \A i \in 1..Len(y) : i \in 1..Len(x) /\ y[i] = x[i]
    BY <1>1, <1>2 DEF SameTo
  <1>4. \A i \in 1..Len(x) : x[i].data # NoOp => x[i].data \in Proposal
    BY <1>2, EntryTypes
  <1> QED
    BY <1>3, <1>4 DEF Proposed, AskedStays

LEMMA ProposedSame ==
  ASSUME Types, Types', Proposed, AskedStays, Logs' \subseteq Logs
  PROVE  Proposed'
  <1>1. \A y \in Logs' : Len(y) <= Len(y) /\ SameTo(y, y, Len(y))
    BY NewLogTypes DEF SameTo
  <1> QED
    BY <1>1, ProposedFollows

\* One more entry: an empty one, or a proposal that is made now.
LEMMA ProposedAppend ==
  ASSUME Types, Types', Proposed, AskedStays, NEW x \in Logs, NEW e \in Entry,
         \A y \in Logs' : y \in Logs \/ y = Append(x, e),
         e.data # NoOp => answer[e.data] = "unasked" /\ answer'[e.data] # "unasked"
  PROVE  Proposed'
  <1> SUFFICES ASSUME NEW y \in Logs'
               PROVE  /\ \A i, j \in 1..Len(y) :
                           y[i].data = y[j].data => i = j \/ y[i].data = NoOp
                      /\ \A i \in 1..Len(y) :
                           y[i].data # NoOp => answer'[y[i].data] # "unasked"
    BY DEF Proposed
  <1>1. \A z \in Logs : \A i \in 1..Len(z) : z[i].data # NoOp =>
          z[i].data \in Proposal /\ answer[z[i].data] # "unasked"
                                 /\ answer'[z[i].data] # "unasked"
    <2>1. \A z \in Logs : \A i \in 1..Len(z) : z[i].data # NoOp => z[i].data \in Proposal
      BY LogTypes, EntryTypes
    <2> QED
      BY <2>1 DEF Proposed, AskedStays
  <1>2. CASE y \in Logs
    BY <1>1, <1>2 DEF Proposed
  <1>3. CASE y = Append(x, e)
    <2>1. x \in Seq(Entry) /\ Len(x) \in Nat
      BY LogTypes
    <2>2. \A i \in 1..Len(y) : \/ i \in 1..Len(x) /\ y[i] = x[i]
                               \/ i = Len(x) + 1 /\ y[i] = e
      BY <1>3, <2>1
    <2>3. \A i \in 1..Len(x) : x[i].data # NoOp => x[i].data # e.data
      BY <1>1
    <2> QED
      BY <1>1, <2>2, <2>3 DEF Proposed
  <1> QED
    BY <1>2, <1>3

LEMMA ProposedStep ==
  ASSUME RaftInv, Proposed, Next, Types'
  PROVE  Proposed'
  <1>0. Types /\ LogInv /\ FirstAppends /\ Indices
    BY DEF RaftInv, LogInv
  <1>1. ASSUME NEW n \in Node, NEW Q \in Quorum, Elect(n, Q)
        PROVE  Proposed'
    <2>1. PICK t \in Term :
            /\ n \in Q /\ Q \subseteq Node
            /\ \A m \in Q : /\ raft[m].term < t
                            /\ Settled(m) /\ ~app[m].isLeader
                            /\ UpToDate(raft[n].log, raft[m].log)
                            /\ raft'[m].term = t /\ raft'[m].spoke = t
                            /\ raft'[m].leads = (m = n)
                            /\ raft'[m].commit = raft[m].commit
                            /\ m # n => raft'[m].log = raft[m].log
            /\ raft'[n].log = Append(raft[n].log, [term |-> t, data |-> NoOp])
            /\ \A m \in Node : m \notin Q => raft'[m] = raft[m]
            /\ raft' \in [Node -> RaftState]
            /\ UNCHANGED <<app, disk, hello, answer, chosen, crashes>>
      BY <1>0, <1>1, ElectEffect
    <2>2. PICK e : e = [term |-> t, data |-> NoOp]
      OBVIOUS
    <2>3. e \in Entry /\ e.data = NoOp
      BY <2>2 DEF Entry
    <2>4. \A m \in Node : m # n => raft'[m].log = raft[m].log
      BY <2>1
    <2>5. \A y \in Logs' : y \in Logs \/ y = Append(raft[n].log, e)
      BY <2>1, <2>2, <2>4 DEF Logs
    <2>6. AskedStays
      BY <2>1 DEF AskedStays
    <2> QED
      BY <1>0, <2>3, <2>5, <2>6, IsLog, ProposedAppend
  <1>2. ASSUME NEW n \in Node, NEW Q \in Quorum, AdvanceCommit(n, Q)
        PROVE  Proposed'
    <2>1. PICK k \in 1..Len(raft[n].log) :
            /\ OnlyRaft(n) /\ raft'[n].log = raft[n].log
            /\ chosen' = IF k > Len(chosen) THEN SubSeq(raft[n].log, 1, k) ELSE chosen
      BY <1>0, <1>2, AdvanceCommitEffect
    <2>2. AskedStays
      BY <2>1 DEF AskedStays, OnlyRaft
    <2>3. \A m \in Node : raft'[m].log = raft[m].log
      BY <2>1 DEF OnlyRaft
    <2>4. \A y \in Logs' : y \in Logs \/ y = SubSeq(raft[n].log, 1, k)
      BY <2>1, <2>3 DEF Logs, OnlyRaft
    <2>5. PICK x : x = raft[n].log
      OBVIOUS
    <2>6. x \in Logs /\ x \in Seq(Entry) /\ k \in 1..Len(x)
      BY <1>0, <2>5, IsLog, RaftTypes
    <2>7. PICK z : z = SubSeq(x, 1, k)
      OBVIOUS
    <2>8. Len(z) <= Len(x) /\ SameTo(z, x, Len(z))
      BY <2>6, <2>7 DEF SameTo
    <2>9. \A y \in Logs' : \E v \in Logs : Len(y) <= Len(v) /\ SameTo(y, v, Len(y))
      <3>1. \A y \in Logs' : Len(y) <= Len(y) /\ SameTo(y, y, Len(y))
        BY NewLogTypes DEF SameTo
      <3> QED
        BY <2>4, <2>5, <2>6, <2>7, <2>8, <3>1
    <2> QED
      BY <1>0, <2>2, <2>9, ProposedFollows
  <1>3. ASSUME NEW n \in Node, OnlyRaft(n), chosen' = chosen, raft'[n].log \in Logs
        PROVE  Proposed'
    <2>1. AskedStays
      BY <1>3 DEF AskedStays, OnlyRaft
    <2> QED
      BY <1>0, <1>3, <2>1, OnlyRaftLogs, ProposedSame
  <1>4. ASSUME NEW n \in Node, NEW t \in Term, TakeHeartbeat(n, t)
        PROVE  Proposed'
    BY <1>0, <1>3, <1>4, TakeHeartbeatEffect, IsLog
  <1>5. ASSUME NEW n \in Node, NEW t \in Term, TakeAppend(n, t)
        PROVE  Proposed'
    <2>1. /\ OnlyRaft(n) /\ chosen' = chosen /\ hello[t].sent
          /\ raft'[n].log = raft[n].log \/ raft'[n].log = hello[t].log
      BY <1>0, <1>5, TakeAppendEffect
    <2> QED
      BY <1>3, <2>1, IsLog
  <1>6. ASSUME NEW l \in Node, NEW n \in Node, Replicate(l, n)
        PROVE  Proposed'
    BY <1>0, <1>3, <1>6, ReplicateEffect, IsLog
  <1>7. ASSUME NEW n \in Node, StepDown(n)
        PROVE  Proposed'
    BY <1>0, <1>3, <1>7, StepDownEffect, IsLog
  <1>8. ASSUME NEW n \in Node, NEW p \in Proposal, Propose(n, p)
        PROVE  Proposed'
    <2>1. answer[p] = "unasked" /\ UNCHANGED <<hello, chosen>>
      BY <1>0, <1>8, ProposeEffect
    <2>2. \/ answer' = [answer EXCEPT ![p] = "waiting"]
          \/ answer' = [answer EXCEPT ![p] = "rejected"]
      BY <1>0, <1>8, ProposeEffect
    <2>3. answer'[p] # "unasked" /\ AskedStays
      BY <1>0, <2>2 DEF AskedStays, Types
    <2>4. CASE raft' = raft
      <3>1. Logs' \subseteq Logs
        BY <2>1, <2>4 DEF Logs
      <3> QED
        BY <1>0, <2>3, <3>1, ProposedSame
    <2>5. CASE raft' # raft
      <3>1. PICK e : e = [term |-> raft[n].term, data |-> p]
        OBVIOUS
      <3>2. /\ e \in Entry /\ raft'[n].log = Append(raft[n].log, e)
            /\ \A m \in Node : m # n => raft'[m] = raft[m]
        BY <1>0, <1>8, <2>5, <3>1, ProposeEffect
      <3>3. e.data = p
        BY <3>1
      <3>4. \A y \in Logs' : y \in Logs \/ y = Append(raft[n].log, e)
        <4>1. \A m \in Node : m # n => raft'[m].log = raft[m].log
          BY <3>2
        <4> QED
          BY <2>1, <3>2, <4>1 DEF Logs
      <3> QED
        BY <1>0, <2>1, <2>3, <3>2, <3>3, <3>4, IsLog, ProposedAppend
    <2> QED
      BY <2>4, <2>5
  <1>9. ASSUME NEW n \in Node, HandleReady(n)
        PROVE  Proposed'
    <2>1. AskedStays
      <3>1. \A p \in Proposal : Verdict(n, p) # "unasked"
        BY DEF Verdict
      <3>2. \A p \in Proposal : answer'[p] = answer[p] \/ answer'[p] = Verdict(n, p)
        BY <1>9 DEF HandleReady
      <3> QED
        BY <3>1, <3>2 DEF AskedStays
    <2>2. Logs' \subseteq Logs
      <3>1. /\ \A m \in Node : raft'[m].log = raft[m].log
            /\ chosen' = chosen
        BY <1>0, <1>9, HandleReadyEffect
      <3>2. \A t \in Term : hello'[t].sent =>
              hello'[t] = hello[t] \/ hello'[t].log = raft[n].log
        BY <1>0, <1>9 DEF HandleReady, Types
      <3> QED
        BY <3>1, <3>2 DEF Logs
    <2> QED
      BY <1>0, <2>1, <2>2, ProposedSame
  <1>10. ASSUME UNCHANGED <<hello, chosen>>,
                \A m \in Node : raft'[m].log = raft[m].log, AskedStays
         PROVE  Proposed'
    <2>1. Logs' \subseteq Logs
      BY <1>10 DEF Logs
    <2> QED
      BY <1>0, <1>10, <2>1, ProposedSame
  <1>11. ASSUME NEW n \in Node, Schedule(n)
         PROVE  Proposed'
    <2>1. AskedStays
      BY <1>11, ScheduleEffect DEF AskedStays
    <2> QED
      BY <1>10, <1>11, <2>1, ScheduleEffect
  <1>12. ASSUME NEW n \in Node, Write(n) \/ Finish(n)
         PROVE  Proposed'
    <2>1. UNCHANGED <<raft, hello, chosen, answer>>
      BY <1>12 DEF Write, Finish
    <2> QED
      BY <1>10, <2>1 DEF AskedStays
  <1>13. ASSUME NEW n \in Node, Crash(n)
         PROVE  Proposed'
    <2>1. UNCHANGED <<hello, chosen>> /\ (\A m \in Node : raft'[m].log = raft[m].log)
      BY <1>0, <1>13, CrashEffect
    <2>2. AskedStays
      BY <1>0, <1>13, CrashEffect DEF AskedStays
    <2> QED
      BY <1>10, <2>1, <2>2
  <1> QED
    BY <1>1, <1>2, <1>4, <1>5, <1>6, <1>7, <1>8, <1>9, <1>11, <1>12, <1>13 DEF Next
----------------------------------------------------------------------------
(* Preservation: the waiters, when a node handles a Ready between terms. *)

\* The waiters of one node.
WaitersOf(n) ==
  /\ \A w \in app[n].pending : w.index > app[n].scheduled
  /\ \A w \in app[n].pending :
       /\ w.index <= raft[n].commit => Owns(n, w)
       /\ ~app[n].isLeader => w.index <= raft[n].commit
  /\ app[n].isLeader =>
       (\A w \in app[n].pending : Owns(n, w)) \/ (~Reigns(n) /\ Taken(n))

LEMMA WaitersAll ==
  (Waiters <=> \A n \in Node : WaitersOf(n))
  BY DEF Waiters, WaitersOf

LEMMA WaitersOne ==
  ASSUME Waiters, NEW n \in Node,
         \A m \in Node : m # n => raft'[m] = raft[m] /\ app'[m] = app[m],
         WaitersOf(n)'
  PROVE  Waiters'
  <1> SUFFICES ASSUME NEW m \in Node, m # n
               PROVE  WaitersOf(m)'
    BY DEF Waiters, WaitersOf
  <1>1. WaitersOf(m)
    BY WaitersAll
  <1>2. raft'[m] = raft[m] /\ app'[m] = app[m]
    OBVIOUS
  <1>3. (Reigns(m)' <=> Reigns(m)) /\ (Taken(m)' <=> Taken(m))
    BY <1>2 DEF Reigns, Taken, Owns
  <1>4. \A w : Owns(m, w)' <=> Owns(m, w)
    BY <1>2 DEF Owns
  <1> QED
    BY <1>1, <1>2, <1>3, <1>4 DEF WaitersOf

\* What is owned and committed stays owned.
LEMMA OwnsStays ==
  ASSUME Types, Types', LogInv, LogInv', ChosenGrows, NEW n \in Node,
         raft[n].commit <= raft'[n].commit, NEW w \in Waiter,
         w.index <= raft[n].commit, Owns(n, w)
  PROVE  Owns(n, w)'
  <1>1. w.index \in Nat /\ w.index >= 1
    BY DEF Waiter
  <1>2. PICK i \in Nat : i = w.index /\ i >= 1
    BY <1>1
  <1>3. /\ raft[n].commit \in Nat /\ raft[n].commit <= Len(chosen)
        /\ raft[n].log[i] = chosen[i]
    BY <1>2, CommitInLog DEF SameTo
  <1>4. /\ raft'[n].commit \in Nat /\ raft'[n].commit <= Len(raft'[n].log)
        /\ SameTo(raft'[n].log, chosen', raft'[n].commit)
        /\ Len(raft'[n].log) \in Nat
    BY DEF Types, RaftState, LogInv, Commits, Holds
  <1>5. raft'[n].log[i] = chosen'[i] /\ i \in 1..Len(raft'[n].log)
    BY <1>2, <1>3, <1>4 DEF SameTo
  <1>6. chosen'[i] = chosen[i]
    <2>1. Len(chosen) \in Nat
      BY DEF Types
    <2>2. i \in 1..Len(chosen)
      BY <1>2, <1>3, <2>1
    <2> QED
      BY <2>2 DEF ChosenGrows, SameTo
  <1> QED
    BY <1>2, <1>3, <1>5, <1>6 DEF Owns

\* A node that does not lead, and whose commit index does not fall.
LEMMA WaitersFollow ==
  ASSUME Types, Types', LogInv, LogInv', ChosenGrows, NEW n \in Node, WaitersOf(n),
         ~app[n].isLeader, ~app'[n].isLeader, raft[n].commit <= raft'[n].commit,
         app'[n].pending = app[n].pending, app'[n].scheduled = app[n].scheduled
  PROVE  WaitersOf(n)'
  <1>1. /\ app[n].pending \subseteq Waiter /\ raft[n].commit \in Nat
        /\ raft'[n].commit \in Nat
    BY AppTypes, RaftTypes DEF Types, RaftState
  <1>2. ASSUME NEW w \in app[n].pending
        PROVE  Owns(n, w)' /\ w.index <= raft'[n].commit /\ w.index > app[n].scheduled
    <2>1. /\ w.index <= raft[n].commit /\ Owns(n, w) /\ w.index > app[n].scheduled
      BY <1>2 DEF WaitersOf
    <2>2. w \in Waiter /\ w.index \in Nat
      BY <1>1, <1>2 DEF Waiter
    <2> QED
      BY <1>1, <2>1, <2>2, OwnsStays
  <1> QED
    BY <1>2 DEF WaitersOf

\* A node whose log and commit index stay.
LEMMA WaitersKeep ==
  ASSUME Types, NEW n \in Node, WaitersOf(n),
         raft'[n].log = raft[n].log, raft'[n].commit = raft[n].commit,
         app'[n].pending \subseteq app[n].pending,
         \A w \in app'[n].pending : w.index > app'[n].scheduled,
         ~app'[n].isLeader => \A w \in app'[n].pending : w.index <= raft[n].commit,
         app'[n].isLeader => \/ Reigns(n) \/ ~app[n].isLeader
                             \/ /\ Reigns(n)' <=> Reigns(n)
                                /\ raft'[n].term = raft[n].term
  PROVE  WaitersOf(n)'
  <1>1. \A w : Owns(n, w)' <=> Owns(n, w)
    BY DEF Owns
  <1>2. /\ \A w \in app[n].pending :
             /\ w.index <= raft[n].commit => Owns(n, w)
             /\ ~app[n].isLeader => w.index <= raft[n].commit
        /\ app[n].isLeader =>
             (\A w \in app[n].pending : Owns(n, w)) \/ (~Reigns(n) /\ Taken(n))
    BY DEF WaitersOf
  <1>3. raft'[n].term = raft[n].term /\ Taken(n) => Taken(n)'
    <2> SUFFICES ASSUME raft'[n].term = raft[n].term, Taken(n)
                 PROVE  Taken(n)'
      OBVIOUS
    <2>1. PICK e \in 1..Len(raft[n].log) :
            /\ raft[n].log[e].term = raft[n].term
            /\ \A i \in 1..Len(raft[n].log) : i < e => raft[n].log[i].term < raft[n].term
            /\ \A w \in app[n].pending : w.index < e => Owns(n, w)
      BY DEF Taken
    <2>2. \A w \in app'[n].pending : w.index < e => Owns(n, w)'
      BY <1>1, <2>1
    <2> QED
      BY <2>1, <2>2 DEF Taken
  <1>4. app'[n].isLeader =>
          (\A w \in app'[n].pending : Owns(n, w)') \/ (~Reigns(n)' /\ Taken(n)')
    BY <1>1, <1>2, <1>3
  <1> QED
    BY <1>1, <1>2, <1>4 DEF WaitersOf

\* The first append of a term replaces the end of a log only from the term's
\* first entry on, and none of what it says is committed.
LEMMA WaitersTake ==
  ASSUME ~Stall, RaftInv, Types', LogInv', NEW n \in Node, NEW t \in Term,
         WaitersOf(n), TakeAppend(n, t), app[n].isLeader
  PROVE  WaitersOf(n)'
  <1>0. Types /\ LogInv /\ FirstAppends /\ OwnTerms /\ Matching
    BY DEF RaftInv, LogInv
  <1>1. PICK x, y, e, c, h :
          /\ x = raft[n].log /\ y = hello[t].log /\ e = Len(hello[t].log)
          /\ c = raft[n].commit /\ h = hello[t].commit
    OBVIOUS
  <1>2. /\ OnlyRaft(n) /\ chosen' = chosen /\ hello[t].sent /\ raft[n].term <= t
        /\ raft[n].term < t => Settled(n)
        /\ e >= 1 /\ Len(x) >= e - 1 /\ (e > 1 => x[e - 1] = y[e - 1])
        /\ \/ e <= Len(x) /\ x[e] = y[e] /\ raft'[n].log = x
           \/ ~(e <= Len(x) /\ x[e] = y[e]) /\ raft'[n].log = y
        /\ raft'[n].commit = IF c >= h THEN c ELSE h
        /\ raft'[n].term = t
    BY <1>0, <1>1, TakeAppendEffect
  <1>3. /\ x \in Seq(Entry) /\ y \in Seq(Entry) /\ Len(x) \in Nat /\ e \in Nat /\ e = Len(y)
        /\ c \in Nat /\ h \in Nat /\ x \in Logs /\ y \in Logs /\ t \in Nat
        /\ raft[n].term \in Nat /\ raft[n].spoke \in Nat
    BY <1>0, <1>1, <1>2, RaftTypes, HelloTypes, IsLog, Bounds
  <1>4. /\ app' = app /\ app[n].pending \subseteq Waiter
        /\ ChosenGrows /\ c <= raft'[n].commit
    BY <1>0, <1>2, <1>3, AppTypes, ChosenStays DEF OnlyRaft
  <1>5. /\ h < e /\ y[e].term = t
        /\ \A i \in 1..e : i < e => y[i].term < t
    BY <1>0, <1>1, <1>2, <1>3 DEF FirstAppends, EndsWithFirst
  <1>6. \A i \in 1..(e - 1) : i \in 1..Len(x) /\ x[i] = y[i]
    <2>1. CASE e = 1
      BY <2>1
    <2>2. CASE e > 1
      <3>1. e - 1 \in 1..Len(x) /\ e - 1 \in 1..Len(y) /\ x[e - 1].term = y[e - 1].term
        BY <1>2, <1>3, <2>2
      <3>2. SameTo(x, y, e - 1)
        BY <1>0, <1>3, <3>1 DEF Matching
      <3> QED
        BY <3>1, <3>2, <1>3 DEF SameTo
    <2> QED
      BY <1>2, <1>3, <2>1, <2>2
  <1>7. \A w \in app[n].pending :
          /\ w.index \in Nat /\ w.index >= 1 /\ w.index > app[n].scheduled
          /\ w.index <= c => Owns(n, w)'
    <2> TAKE w \in app[n].pending
    <2>1. w \in Waiter /\ w.index \in Nat /\ w.index >= 1
      BY <1>4 DEF Waiter
    <2>2. w.index > app[n].scheduled /\ (w.index <= c => Owns(n, w))
      BY <1>1 DEF WaitersOf
    <2> QED
      BY <1>0, <1>1, <1>4, <2>1, <2>2, OwnsStays
  <1>8. (\A w \in app[n].pending : Owns(n, w)) \/ (~Reigns(n) /\ Taken(n))
    BY DEF WaitersOf
  <1>9. raft[n].term < t => \A w \in app[n].pending : Owns(n, w)
    <2> SUFFICES ASSUME raft[n].term < t PROVE Reigns(n)
      BY <1>8
    <2> QED
      BY <1>2 DEF Settled, Reigns
  <1>10. CASE raft'[n].log = x /\ \A w \in app[n].pending : Owns(n, w)
    <2>1. \A w \in app[n].pending : Owns(n, w)'
      BY <1>1, <1>10 DEF Owns
    <2> QED
      BY <1>4, <1>7, <2>1 DEF WaitersOf
  \* The append brings a log of another term.
  <1>11. CASE raft'[n].log = y /\ ~(e <= Len(x) /\ x[e] = y[e])
              /\ \A w \in app[n].pending : Owns(n, w)
    <2>1. \A w \in app[n].pending : w.index < e => Owns(n, w)'
      <3> SUFFICES ASSUME NEW w \in app[n].pending, w.index < e
                   PROVE  Owns(n, w)'
        OBVIOUS
      <3>1. PICK i \in Nat : i = w.index /\ i >= 1
        BY <1>7
      <3>2. i \in 1..(e - 1) /\ i \in 1..Len(y)
        BY <1>3, <3>1
      <3>3. x[i].data = w.data
        BY <1>1, <1>11, <3>1 DEF Owns
      <3> QED
        BY <1>6, <1>11, <3>1, <3>2, <3>3 DEF Owns
    <2>2. \A w \in app[n].pending : w.index <= raft'[n].commit => Owns(n, w)'
      <3> SUFFICES ASSUME NEW w \in app[n].pending, w.index <= raft'[n].commit
                   PROVE  Owns(n, w)'
        OBVIOUS
      <3>1. w.index \in Nat
        BY <1>7
      <3>2. w.index <= c \/ w.index < e
        BY <1>2, <1>3, <1>5, <3>1
      <3> QED
        BY <1>7, <2>1, <3>2
    <2>3. ~Reigns(n)'
      <3> SUFFICES ASSUME Reigns(n)' PROVE FALSE
        OBVIOUS
      <3>1. raft'[n].log = raft[n].log
        BY <1>0, TakeAppendReigns
      <3>2. x = y
        BY <1>1, <1>11, <3>1
      <3> QED
        BY <1>3, <1>11, <3>2
    <2>4. Taken(n)'
      <3>1. /\ e \in 1..Len(raft'[n].log) /\ raft'[n].log[e].term = raft'[n].term
            /\ \A i \in 1..Len(raft'[n].log) : i < e => raft'[n].log[i].term < raft'[n].term
        BY <1>2, <1>3, <1>5, <1>11
      <3> QED
        BY <1>4, <2>1, <3>1 DEF Taken
    <2> QED
      BY <1>4, <1>7, <2>2, <2>3, <2>4 DEF WaitersOf
  \* It is the append that the node has taken before.
  <1>12. CASE ~(\A w \in app[n].pending : Owns(n, w))
    <2>1. ~Reigns(n) /\ Taken(n) /\ raft[n].term = t
      BY <1>2, <1>3, <1>8, <1>9, <1>12
    <2>2. PICK d \in 1..Len(x) :
            /\ x[d].term = t
            /\ \A i \in 1..Len(x) : i < d => x[i].term < t
            /\ \A w \in app[n].pending : w.index < d => Owns(n, w)
      BY <1>1, <2>1 DEF Taken
    <2>3. d = e
      <3>1. d \in Nat /\ d >= 1 /\ e \in 1..Len(y)
        BY <1>2, <1>3, <2>2
      <3>2. CASE d < e
        <4>1. d \in 1..(e - 1) /\ d \in 1..e
          BY <1>3, <3>1, <3>2
        <4>2. x[d] = y[d] /\ y[d].term < t
          BY <1>5, <1>6, <3>2, <4>1
        <4> QED
          BY <1>3, <2>2, <4>2
      <3>3. CASE e < d
        <4>1. SameTo(x, y, e)
          BY <1>0, <1>3, <1>5, <2>2, <3>1, <3>3 DEF Matching
        <4>2. e \in 1..Len(x) /\ x[e] = y[e] /\ x[e].term < t
          BY <1>3, <2>2, <3>1, <3>3, <4>1 DEF SameTo
        <4> QED
          BY <1>3, <1>5, <4>2
      <3> QED
        BY <1>3, <3>1, <3>2, <3>3
    <2>4. e <= Len(x) /\ x[e] = y[e]
      <3>1. SameTo(x, y, e)
        BY <1>0, <1>2, <1>3, <1>5, <2>2, <2>3 DEF Matching
      <3> QED
        BY <1>2, <1>3, <2>2, <2>3, <3>1 DEF SameTo
    <2>5. raft'[n].log = x /\ raft'[n].log = raft[n].log
      BY <1>1, <1>2, <2>4
    <2>6. \A w : Owns(n, w)' <=> Owns(n, w)
      BY <2>5 DEF Owns
    <2>7. \A w \in app[n].pending : w.index <= raft'[n].commit => Owns(n, w)'
      <3> SUFFICES ASSUME NEW w \in app[n].pending, w.index <= raft'[n].commit
                   PROVE  Owns(n, w)'
        OBVIOUS
      <3>1. w.index \in Nat
        BY <1>7
      <3>2. w.index <= c \/ w.index < d
        BY <1>2, <1>3, <1>5, <2>3, <3>1
      <3> QED
        BY <1>7, <2>2, <2>6, <3>2
    <2>8. ~Reigns(n)'
      BY <1>0, <2>1, TakeAppendReigns
    <2>9. Taken(n)'
      BY <1>1, <1>2, <1>4, <2>1, <2>5, <2>6 DEF Taken
    <2> QED
      BY <1>4, <1>7, <2>7, <2>8, <2>9 DEF WaitersOf
  <1> QED
    BY <1>2, <1>10, <1>11, <1>12

LEMMA WaitersStep ==
  ASSUME ~Stall, RaftInv, RaftInv', ChosenGrows, Waiters, Next
  PROVE  Waiters'
  <1>0. /\ Types /\ LogInv /\ FirstAppends /\ OwnTerms /\ Indices /\ Readiness
        /\ Types' /\ LogInv'
    BY DEF RaftInv, LogInv
  <1>a. \A m \in Node : /\ WaitersOf(m) /\ app[m].pending \subseteq Waiter
                        /\ raft[m].commit \in Nat /\ app[m].scheduled \in Nat
                        /\ raft[m].commit <= Len(raft[m].log)
                        /\ app[m].scheduled <= raft[m].commit
    <2> TAKE m \in Node
    <2>1. /\ raft[m].commit \in Nat /\ app[m].scheduled \in Nat /\ app[m].taken \in Nat
          /\ app[m].scheduled <= app[m].taken /\ app[m].taken <= raft[m].commit
      BY <1>0, RaftTypes, AppTypes DEF Indices
    <2> QED
      BY <1>0, <2>1, WaitersAll, CommitInLog, AppTypes
  <1>1. ASSUME NEW n \in Node, NEW Q \in Quorum, Elect(n, Q)
        PROVE  Waiters'
    <2>1. /\ app' = app
          /\ \A m \in Node : \/ raft'[m] = raft[m]
                             \/ ~app[m].isLeader /\ raft'[m].commit = raft[m].commit
      BY <1>0, <1>1, ElectEffect
    <2>2. ASSUME NEW m \in Node
          PROVE  WaitersOf(m)'
      <3>1. CASE ~app[m].isLeader
        BY <1>0, <1>a, <2>1, <3>1, WaitersFollow
      <3>2. CASE raft'[m] = raft[m]
        <4>1. Reigns(m)' <=> Reigns(m)
          BY <2>1, <3>2 DEF Reigns
        <4>2. /\ \A w \in app[m].pending : w.index > app[m].scheduled
              /\ ~app[m].isLeader => \A w \in app[m].pending : w.index <= raft[m].commit
          BY <1>a DEF WaitersOf
        <4> QED
          BY <1>0, <1>a, <2>1, <3>2, <4>1, <4>2, WaitersKeep
      <3> QED
        BY <2>1, <3>1, <3>2
    <2> QED
      BY <2>2 DEF Waiters, WaitersOf
  <1>2. ASSUME NEW n \in Node, NEW Q \in Quorum, AdvanceCommit(n, Q)
        PROVE  Waiters'
    <2>1. /\ OnlyRaft(n) /\ raft[n].leads /\ app[n].isLeader
          /\ raft'[n].log = raft[n].log
      BY <1>0, <1>2, AdvanceCommitEffect
    <2>2. \A w \in app[n].pending : Owns(n, w) /\ w.index > app[n].scheduled
      BY <1>0, <1>a, <2>1, LeaderReigns DEF WaitersOf
    <2>3. \A w \in app[n].pending : Owns(n, w)'
      BY <2>1, <2>2 DEF Owns
    <2>4. WaitersOf(n)'
      BY <2>1, <2>2, <2>3 DEF WaitersOf, OnlyRaft
    <2> QED
      BY <2>1, <2>4, WaitersOne DEF OnlyRaft
  \* A step that keeps log, commit index and waiters of its node.
  <1>b. ASSUME NEW n \in Node,
               \A m \in Node : m # n => raft'[m] = raft[m] /\ app'[m] = app[m],
               raft'[n].log = raft[n].log, raft'[n].commit = raft[n].commit,
               app'[n].pending = app[n].pending, app'[n].scheduled = app[n].scheduled,
               app'[n].isLeader = app[n].isLeader,
               app[n].isLeader => Reigns(n) \/ raft'[n] = raft[n]
        PROVE  Waiters'
    <2>1. /\ \A w \in app[n].pending : w.index > app[n].scheduled
          /\ ~app[n].isLeader => \A w \in app[n].pending : w.index <= raft[n].commit
      BY <1>a DEF WaitersOf
    <2>2. raft'[n] = raft[n] => (Reigns(n)' <=> Reigns(n))
      BY <1>b DEF Reigns
    <2>3. WaitersOf(n)'
      BY <1>0, <1>a, <1>b, <2>1, <2>2, WaitersKeep
    <2> QED
      BY <1>b, <2>3, WaitersOne
  <1>3. ASSUME NEW n \in Node, NEW t \in Term, TakeHeartbeat(n, t)
        PROVE  Waiters'
    <2>1. /\ OnlyRaft(n) /\ raft'[n].log = raft[n].log
          /\ raft'[n].commit = raft[n].commit /\ Settled(n)
      BY <1>0, <1>3, TakeHeartbeatEffect
    <2>2. app[n].isLeader => Reigns(n)
      BY <2>1 DEF Settled, Reigns
    <2> QED
      BY <1>b, <2>1, <2>2 DEF OnlyRaft
  <1>4. ASSUME NEW n \in Node, NEW t \in Term, TakeAppend(n, t)
        PROVE  Waiters'
    <2>1. /\ OnlyRaft(n)
          /\ raft'[n].commit = IF raft[n].commit >= hello[t].commit
                               THEN raft[n].commit ELSE hello[t].commit
      BY <1>0, <1>4, TakeAppendEffect
    <2>2. raft[n].commit <= raft'[n].commit
      BY <1>0, <1>a, <2>1, HelloTypes
    <2>3. CASE app[n].isLeader
      BY <1>0, <1>4, <1>a, <2>1, <2>3, WaitersTake, WaitersOne DEF OnlyRaft
    <2>4. CASE ~app[n].isLeader
      <3>1. app' = app
        BY <2>1 DEF OnlyRaft
      <3>2. WaitersOf(n)'
        BY <1>0, <1>a, <2>2, <2>4, <3>1, WaitersFollow
      <3> QED
        BY <2>1, <3>2, WaitersOne DEF OnlyRaft
    <2> QED
      BY <2>3, <2>4
  <1>5. ASSUME NEW l \in Node, NEW n \in Node, Replicate(l, n)
        PROVE  Waiters'
    <2>1. /\ OnlyRaft(n) /\ raft[n].spoke = raft[n].term
          /\ raft'[n].commit = IF raft[n].commit >= raft[l].commit
                               THEN raft[n].commit ELSE raft[l].commit
      BY <1>0, <1>5, ReplicateEffect
    <2>2. ~app[n].isLeader
      BY <1>0, <1>5, <2>1, ReplicateReigns DEF Reigns
    <2>3. raft[n].commit <= raft'[n].commit /\ app' = app
      BY <1>a, <2>1 DEF OnlyRaft
    <2>4. WaitersOf(n)'
      BY <1>0, <1>a, <2>2, <2>3, WaitersFollow
    <2> QED
      BY <2>1, <2>4, WaitersOne DEF OnlyRaft
  <1>6. ASSUME NEW n \in Node, NEW p \in Proposal, Propose(n, p)
        PROVE  Waiters'
    <2>1. CASE UNCHANGED <<raft, app>>
      BY <1>b, <1>6, <2>1
    <2>2. CASE ~UNCHANGED <<raft, app>>
      <3>1. PICK new, e : /\ new = [index |-> Len(raft[n].log) + 1, data |-> p]
                          /\ e = [term |-> raft[n].term, data |-> p]
        OBVIOUS
      <3>2. /\ raft[n].leads /\ app[n].ready /\ e \in Entry
            /\ \A m \in Node : m # n => raft'[m] = raft[m] /\ app'[m] = app[m]
            /\ raft'[n].log = Append(raft[n].log, e)
            /\ app'[n].pending = app[n].pending \cup {new}
            /\ app'[n].isLeader = app[n].isLeader
            /\ app'[n].scheduled = app[n].scheduled
        BY <1>0, <1>6, <2>2, <3>1, ProposeEffect DEF OnlyApp
      <3>3. Reigns(n) /\ app[n].isLeader
        BY <1>0, <3>2, LeaderReigns DEF Readiness
      <3>4. \A w \in app[n].pending : Owns(n, w) /\ w.index > app[n].scheduled
        BY <1>a, <3>3 DEF WaitersOf
      <3>5. PICK x, L : x = raft[n].log /\ L = Len(raft[n].log)
        OBVIOUS
      <3>6. x \in Seq(Entry) /\ L \in Nat /\ L = Len(x)
        BY <1>0, <3>5, RaftTypes
      <3>7. \A w \in app[n].pending : Owns(n, w)'
        <4>1. \A i \in 1..L : i \in 1..Len(raft'[n].log) /\ raft'[n].log[i] = x[i]
          BY <3>2, <3>5, <3>6
        <4> QED
          BY <3>4, <3>5, <4>1 DEF Owns
      <3>8. Owns(n, new)' /\ new.index > app[n].scheduled
        <4>1. new.index = L + 1 /\ new.data = p /\ e.data = p
          BY <3>1, <3>5
        <4>2. L + 1 \in 1..Len(raft'[n].log) /\ raft'[n].log[L + 1] = e
          BY <3>2, <3>5, <3>6
        <4>3. L + 1 > app[n].scheduled
          BY <1>a, <3>5, <3>6
        <4> QED
          BY <4>1, <4>2, <4>3 DEF Owns
      <3>9. WaitersOf(n)'
        <4>1. \A w \in app'[n].pending : Owns(n, w)' /\ w.index > app'[n].scheduled
          BY <3>2, <3>4, <3>7, <3>8
        <4> QED
          BY <3>2, <3>3, <4>1 DEF WaitersOf
      <3> QED
        BY <3>2, <3>9, WaitersOne
    <2> QED
      BY <2>1, <2>2
  <1>7. ASSUME NEW n \in Node, StepDown(n)
        PROVE  Waiters'
    <2>1. /\ OnlyRaft(n) /\ raft'[n].log = raft[n].log
          /\ raft'[n].commit = raft[n].commit /\ raft[n].leads
      BY <1>0, <1>7, StepDownEffect
    <2> QED
      BY <1>0, <1>b, <2>1, LeaderReigns DEF OnlyRaft
  <1>8. ASSUME NEW n \in Node, HandleReady(n)
        PROVE  Waiters'
    <2>1. /\ \A m \in Node : m # n => raft'[m] = raft[m] /\ app'[m] = app[m]
          /\ raft'[n].log = raft[n].log /\ raft'[n].commit = raft[n].commit
          /\ app'[n].isLeader = raft[n].leads
          /\ app'[n].scheduled = app[n].scheduled
          /\ app'[n].pending = IF ~raft[n].leads /\ app[n].isLeader
                               THEN KeptWaiters(n) ELSE app[n].pending
      BY <1>0, <1>8, HandleReadyEffect DEF OnlyApp
    <2>2. /\ app'[n].pending \subseteq app[n].pending
          /\ \A w \in app[n].pending : w.index > app[n].scheduled
      BY <1>a, <2>1 DEF KeptWaiters, WaitersOf
    <2>3. ~raft[n].leads => \A w \in app'[n].pending : w.index <= raft[n].commit
      BY <1>a, <2>1 DEF KeptWaiters, WaitersOf
    <2>4. raft[n].leads => Reigns(n)
      BY <1>0, LeaderReigns
    <2>5. WaitersOf(n)'
      BY <1>0, <1>a, <2>1, <2>2, <2>3, <2>4, WaitersKeep
    <2> QED
      BY <2>1, <2>5, WaitersOne
  <1>9. ASSUME NEW n \in Node, Schedule(n)
        PROVE  Waiters'
    <2>1. PICK i : i = app[n].scheduled + 1
      OBVIOUS
    <2>2. PICK mine : mine = {w \in app[n].pending : w.index = i}
      OBVIOUS
    <2>3. /\ \A m \in Node : m # n => raft'[m] = raft[m] /\ app'[m] = app[m]
          /\ raft' = raft /\ i <= app[n].taken
          /\ app'[n].scheduled = i /\ app'[n].isLeader = app[n].isLeader
          /\ \/ raft[n].log[i].data = NoOp /\ app'[n].pending = app[n].pending
             \/ app'[n].pending = app[n].pending \ mine
      BY <1>9, <2>1, <2>2, ScheduleEffect DEF OnlyApp
    <2>4. i \in Nat /\ i <= raft[n].commit
      <3>1. app[n].taken \in Nat /\ app[n].taken <= raft[n].commit
        BY <1>0, AppTypes DEF Indices
      <3> QED
        BY <1>a, <2>1, <2>3, <3>1
    <2>5. ASSUME NEW w \in app[n].pending
          PROVE  /\ w.index \in Nat /\ w.index >= i /\ w.data \in Proposal
                 /\ w.index = i => raft[n].log[i].data = w.data
      <3>1. w.index \in Nat /\ w.data \in Proposal
        BY <1>a, <2>5 DEF Waiter
      <3>2. w.index > app[n].scheduled /\ (w.index <= raft[n].commit => Owns(n, w))
        BY <1>a, <2>5 DEF WaitersOf
      <3>3. w.index >= i
        BY <1>a, <2>1, <3>1, <3>2
      <3> QED
        BY <2>4, <3>1, <3>2, <3>3 DEF Owns
    <2>6. \A w \in app'[n].pending : w \in app[n].pending /\ w.index # i
      BY <2>2, <2>3, <2>5, Bounds
    <2>7. \A w \in app'[n].pending : w.index > app'[n].scheduled
      BY <2>3, <2>4, <2>5, <2>6
    <2>8. ~app[n].isLeader => \A w \in app'[n].pending : w.index <= raft[n].commit
      BY <1>a, <2>6 DEF WaitersOf
    <2>9. Reigns(n)' <=> Reigns(n)
      BY <2>3 DEF Reigns
    <2>10. WaitersOf(n)'
      BY <1>0, <1>a, <2>3, <2>6, <2>7, <2>8, <2>9, WaitersKeep
    <2> QED
      BY <2>3, <2>10, WaitersOne
  <1>10. ASSUME NEW n \in Node, Write(n)
         PROVE  Waiters'
    BY <1>b, <1>10, WriteEffect DEF OnlyApp
  <1>11. ASSUME NEW n \in Node, Finish(n)
         PROVE  Waiters'
    BY <1>b, <1>11, FinishEffect DEF OnlyApp
  <1>12. ASSUME NEW n \in Node, Crash(n)
         PROVE  Waiters'
    <2>1. /\ \A m \in Node : m # n => raft'[m] = raft[m] /\ app'[m] = app[m]
          /\ ~app'[n].isLeader /\ app'[n].pending = {}
      BY <1>0, <1>12, CrashEffect DEF OnlyApp
    <2>2. WaitersOf(n)'
      BY <2>1 DEF WaitersOf
    <2> QED
      BY <2>1, <2>2, WaitersOne
  <1> QED
    BY <1>1, <1>2, <1>3, <1>4, <1>5, <1>6, <1>7, <1>8, <1>9, <1>10, <1>11, <1>12
    DEF Next
----------------------------------------------------------------------------
(* Preservation: honest answers. *)

LEMMA HonestStays ==
  ASSUME Types, Types', ChosenGrows, HonestAnswer,
         \A p \in Proposal : answer'[p] = "committed" =>
           \/ answer[p] = "committed"
           \/ \E i \in 1..Len(chosen) : chosen[i].data = p
  PROVE  HonestAnswer'
  <1> SUFFICES ASSUME NEW p \in Proposal, answer'[p] = "committed"
               PROVE  \E i \in 1..Len(chosen') : chosen'[i].data = p
    BY DEF HonestAnswer
  <1>1. PICK i \in 1..Len(chosen) : chosen[i].data = p
    BY DEF HonestAnswer
  <1>2. Len(chosen) \in Nat /\ Len(chosen') \in Nat
    BY DEF Types
  <1>3. i \in 1..Len(chosen') /\ chosen'[i] = chosen[i]
    BY <1>1, <1>2 DEF ChosenGrows, SameTo
  <1> QED
    BY <1>1, <1>3

\* What node n schedules is the committed entry, and the waiter's own.
LEMMA ScheduledEntry ==
  ASSUME RaftInv, Waiters, NEW n \in Node, Schedule(n)
  PROVE  LET i == app[n].scheduled + 1
         IN /\ i \in 1..Len(chosen) /\ i <= raft[n].commit
            /\ raft[n].log[i] = chosen[i]
            /\ \A w \in app[n].pending : w.index = i => w.data = chosen[i].data
  <1>1. PICK i : i = app[n].scheduled + 1
    OBVIOUS
  <1>2. Types /\ LogInv /\ Indices
    BY DEF RaftInv
  <1>3. i <= app[n].taken /\ i \in 1..Len(raft[n].log)
    BY <1>1, ScheduleEffect
  <1>4. /\ app[n].taken \in Nat /\ app[n].taken <= raft[n].commit
        /\ raft[n].commit \in Nat /\ raft[n].commit <= Len(chosen)
        /\ Len(chosen) \in Nat /\ i \in Nat /\ i >= 1
        /\ SameTo(raft[n].log, chosen, raft[n].commit)
    BY <1>2, <1>3, AppTypes, CommitInLog, RaftTypes DEF Indices, Types
  <1>5. i \in 1..Len(chosen) /\ i <= raft[n].commit /\ i \in 1..raft[n].commit
    BY <1>3, <1>4
  <1>6. raft[n].log[i] = chosen[i]
    BY <1>4, <1>5 DEF SameTo
  <1>7. \A w \in app[n].pending : w.index = i => w.data = chosen[i].data
    BY <1>5, <1>6 DEF Waiters, Owns
  <1> QED
    BY <1>1, <1>5, <1>6, <1>7

LEMMA HonestStep ==
  ASSUME RaftInv, Types', ChosenGrows, Waiters, HonestAnswer, Next
  PROVE  HonestAnswer'
  <1>0. Types /\ LogInv /\ Indices
    BY DEF RaftInv
  <1>1. CASE answer' = answer
    BY <1>0, <1>1, HonestStays
  <1>2. ASSUME NEW n \in Node, NEW q \in Proposal, Propose(n, q)
        PROVE  HonestAnswer'
    <2>1. \/ answer' = [answer EXCEPT ![q] = "waiting"]
          \/ answer' = [answer EXCEPT ![q] = "rejected"]
      BY <1>0, <1>2, ProposeEffect
    <2>2. \A p \in Proposal : answer'[p] = "committed" => answer[p] = "committed"
      BY <1>0, <2>1 DEF Types
    <2> QED
      BY <1>0, <2>2, HonestStays
  <1>3. ASSUME NEW n \in Node, HandleReady(n)
        PROVE  HonestAnswer'
    <2>1. \A p \in Proposal : Verdict(n, p) # "committed"
      <3>1. \A w \in app[n].pending : ~(w.index <= disk[n].applied)
        <4> TAKE w \in app[n].pending
        <4>1. w.index \in Nat
          BY <1>0, AppTypes DEF Waiter
        <4>2. /\ disk[n].applied \in Nat /\ app[n].scheduled \in Nat
              /\ disk[n].applied <= app[n].scheduled /\ w.index > app[n].scheduled
          BY <1>0, AppTypes DEF Indices, Waiters
        <4> QED
          BY <4>1, <4>2
      <3> QED
        BY <3>1 DEF Verdict
    <2>2. \A p \in Proposal : answer'[p] = answer[p] \/ answer'[p] = Verdict(n, p)
      BY <1>3 DEF HandleReady
    <2> QED
      BY <1>0, <2>1, <2>2, HonestStays
  <1>4. ASSUME NEW n \in Node, Schedule(n)
        PROVE  HonestAnswer'
    <2>1. PICK i : i = app[n].scheduled + 1
      OBVIOUS
    <2>2. PICK mine : mine = {w \in app[n].pending : w.index = i}
      OBVIOUS
    <2>3. \/ answer' = answer
          \/ answer' = [p \in Proposal |->
                          IF \E w \in mine : w.data = p THEN "committed" ELSE answer[p]]
      BY <1>4, <2>1, <2>2, ScheduleEffect
    <2>4. i \in 1..Len(chosen) /\ \A w \in mine : w.data = chosen[i].data
      BY <1>4, <2>1, <2>2, ScheduledEntry
    <2>5. \A p \in Proposal : answer'[p] = "committed" =>
            \/ answer[p] = "committed"
            \/ \E j \in 1..Len(chosen) : chosen[j].data = p
      BY <2>3, <2>4
    <2> QED
      BY <1>0, <2>5, HonestStays
  <1>5. ASSUME NEW n \in Node, Crash(n)
        PROVE  HonestAnswer'
    <2>1. \A p \in Proposal : answer'[p] = "committed" => answer[p] = "committed"
      BY <1>0, <1>5, CrashEffect
    <2> QED
      BY <1>0, <2>1, HonestStays
  <1>6. ASSUME NEW n \in Node, NEW Q \in Quorum, Elect(n, Q) \/ AdvanceCommit(n, Q)
        PROVE  answer' = answer
    BY <1>6 DEF Elect, AdvanceCommit
  <1>7. ASSUME NEW n \in Node, NEW t \in Term, TakeHeartbeat(n, t) \/ TakeAppend(n, t)
        PROVE  answer' = answer
    BY <1>7 DEF TakeHeartbeat, TakeAppend
  <1>8. ASSUME NEW n \in Node, NEW m \in Node,
               Replicate(n, m) \/ StepDown(n) \/ Write(n) \/ Finish(n)
        PROVE  answer' = answer
    BY <1>8 DEF Replicate, StepDown, Write, Finish
  <1> QED
    BY <1>1, <1>2, <1>3, <1>4, <1>5, <1>6, <1>7, <1>8 DEF Next

----------------------------------------------------------------------------
(* Preservation: the state machines. *)

\* The state machine of one node.
MachineOf(n) ==
  /\ app[n].job = NoJob => app[n].scheduled = disk[n].applied
  /\ app[n].job # NoJob =>
       /\ app[n].job.kind # "none"
       /\ app[n].scheduled = disk[n].applied + 1
       /\ chosen[app[n].scheduled].data = app[n].job.data
       /\ app[n].job.data # NoOp
  /\ app[n].written => CarriesIn(chosen, disk[n].data, app[n].scheduled)
  /\ ~app[n].written => CarriesIn(chosen, disk[n].data, disk[n].applied) \/ Ahead(n)

LEMMA MachinesAll ==
  Machines <=> \A n \in Node : MachineOf(n)
  BY DEF Machines, MachineOf

LEMMA MachineBounds ==
  ASSUME RaftInv, NEW n \in Node
  PROVE  /\ disk[n].applied \in Nat /\ app[n].scheduled \in Nat /\ Len(chosen) \in Nat
         /\ disk[n].applied <= app[n].scheduled /\ app[n].scheduled <= raft[n].commit
         /\ raft[n].commit \in Nat /\ raft[n].commit <= Len(chosen)
         /\ raft[n].commit <= Len(raft[n].log) /\ Len(raft[n].log) \in Nat
         /\ disk[n].data \in Seq(Proposal)
         /\ app[n].pending \subseteq Waiter
  <1>1. Types /\ LogInv /\ Indices
    BY DEF RaftInv
  <1>2. app[n].taken \in Nat /\ app[n].scheduled \in Nat /\ disk[n].applied \in Nat
    BY <1>1, AppTypes
  <1>3. /\ disk[n].applied <= app[n].scheduled /\ app[n].scheduled <= app[n].taken
        /\ app[n].taken <= raft[n].commit
    BY <1>1 DEF Indices
  <1>4. raft[n].commit \in Nat /\ raft[n].commit <= Len(chosen) /\ Len(chosen) \in Nat
    BY <1>1, CommitInLog DEF Types
  <1> QED
    BY <1>1, <1>2, <1>3, <1>4, AppTypes, CommitInLog, RaftTypes

\* A step that leaves state machine and job of node n alone.
LEMMA MachineKeeps ==
  ASSUME RaftInv, Types', ChosenGrows, NEW n \in Node, MachineOf(n),
         raft[n].commit <= raft'[n].commit,
         disk'[n] = disk[n], app'[n].job = app[n].job,
         app'[n].written = app[n].written, app'[n].scheduled = app[n].scheduled,
         \A w \in app'[n].pending : w \in app[n].pending \/ w.index > raft[n].commit
  PROVE  MachineOf(n)'
  <1>1. /\ disk[n].applied \in Nat /\ app[n].scheduled \in Nat /\ Len(chosen) \in Nat
        /\ disk[n].applied <= app[n].scheduled /\ app[n].scheduled <= raft[n].commit
        /\ raft[n].commit \in Nat /\ raft[n].commit <= Len(chosen)
        /\ disk[n].data \in Seq(Proposal)
    BY MachineBounds
  <1>2. raft'[n].commit \in Nat /\ Len(chosen') \in Nat
    BY DEF Types, RaftState
  <1>3. /\ disk[n].applied <= Len(chosen) /\ app[n].scheduled <= Len(chosen)
        /\ \A i \in 1..Len(chosen) : chosen'[i] = chosen[i] /\ i <= Len(chosen')
    BY <1>1, <1>2 DEF ChosenGrows, SameTo
  <1>4. \A e \in Nat : e <= Len(chosen) /\ CarriesIn(chosen, disk[n].data, e) =>
          CarriesIn(chosen', disk[n].data, e)
    <2>1. \A e \in Nat : e <= Len(chosen) => SameTo(chosen', chosen, e)
      BY <1>1, <1>3 DEF SameTo
    <2>2. PICK x, y, data : x = chosen /\ y = chosen' /\ data = disk[n].data
      OBVIOUS
    <2>3. \A e \in Nat : e <= Len(chosen) /\ CarriesIn(x, data, e) => CarriesIn(y, data, e)
      BY <1>1, <2>1, <2>2, CarriesStays
    <2> QED
      BY <2>2, <2>3
  <1>5. app[n].job # NoJob => app[n].scheduled \in 1..Len(chosen)
    BY <1>1, <1>3 DEF MachineOf
  <1>6. Ahead(n) => Ahead(n)'
    <2> SUFFICES ASSUME Ahead(n) PROVE Ahead(n)'
      OBVIOUS
    <2>1. PICK i \in Nat : i = disk[n].applied + 1
      BY <1>1
    <2>2. /\ i <= Len(chosen) /\ chosen[i].data # NoOp
          /\ i <= raft[n].commit /\ CarriesIn(chosen, disk[n].data, i)
          /\ \A w \in app[n].pending : w.index # i
          /\ app[n].job.kind # "local"
      BY <2>1 DEF Ahead
    <2>3. i \in 1..Len(chosen) /\ i <= raft'[n].commit
      BY <1>1, <1>2, <2>1, <2>2
    <2>4. CarriesIn(chosen', disk[n].data, i)
      BY <1>4, <2>2
    <2>5. \A w \in app'[n].pending : w.index # i
      BY <1>1, <2>2
    <2>6. i = disk'[n].applied + 1 /\ i <= Len(chosen') /\ chosen'[i].data # NoOp
      BY <1>3, <2>1, <2>2, <2>3
    <2> QED
      BY <2>2, <2>3, <2>4, <2>5, <2>6 DEF Ahead
  <1> QED
    BY <1>1, <1>3, <1>4, <1>5, <1>6 DEF MachineOf

LEMMA MachinesOne ==
  ASSUME Machines, NEW n \in Node, chosen' = chosen,
         \A m \in Node : m # n => /\ raft'[m] = raft[m] /\ app'[m] = app[m]
                                  /\ disk'[m] = disk[m],
         MachineOf(n)'
  PROVE  Machines'
  <1> SUFFICES ASSUME NEW m \in Node, m # n
               PROVE  MachineOf(m)'
    BY DEF Machines, MachineOf
  <1>1. MachineOf(m)
    BY MachinesAll
  <1>2. raft'[m] = raft[m] /\ app'[m] = app[m] /\ disk'[m] = disk[m]
    OBVIOUS
  <1>3. Ahead(m)' <=> Ahead(m)
    BY <1>2 DEF Ahead
  <1> QED
    BY <1>1, <1>2, <1>3 DEF MachineOf

\* The worker finds an entry's marker exactly when the entry was written.
LEMMA MachineWrites ==
  ASSUME RaftInv, Proposed, NEW n \in Node, MachineOf(n), Write(n)
  PROVE  MachineOf(n)'
  <1>1. PICK d, i, p, a : /\ d = disk[n].data /\ i = app[n].scheduled
                          /\ p = app[n].job.data /\ a = disk[n].applied
    OBVIOUS
  <1>2. /\ chosen' = chosen /\ app[n].job # NoJob /\ ~app[n].written
        /\ app'[n].scheduled = app[n].scheduled /\ app'[n].job = app[n].job
        /\ app'[n].written /\ disk'[n].applied = disk[n].applied
        /\ disk'[n].data = IF app[n].job.kind = "worker" /\ Contains(d, p)
                           THEN d ELSE Append(d, p)
    BY <1>1, WriteEffect
  <1>3. /\ app[n].job.kind # "none" /\ i = a + 1 /\ chosen[i].data = p /\ p # NoOp
    BY <1>1, <1>2 DEF MachineOf
  <1>4. CarriesIn(chosen, d, a) \/ (CarriesIn(chosen, d, i) /\ app[n].job.kind # "local")
    BY <1>1, <1>2, <1>3 DEF MachineOf, Ahead
  <1>5. /\ d \in Seq(Proposal) /\ a \in Nat /\ i \in 1..Len(chosen) /\ i \in Nat
        /\ Types /\ p \in Proposal /\ Len(chosen) \in Nat
        /\ app[n].job.kind \in {"worker", "local"}
    <2>1. /\ Types /\ p \in Proposal
      BY <1>1, <1>2 DEF RaftInv, Indices
    <2>2. app[n].job.kind \in {"none", "worker", "local"}
      BY <2>1, AppTypes
    <2>3. /\ a \in Nat /\ i \in Nat /\ i <= Len(chosen) /\ Len(chosen) \in Nat
          /\ d \in Seq(Proposal)
      BY <1>1, MachineBounds
    <2> QED
      BY <1>3, <2>1, <2>2, <2>3
  <1>6. \A j \in 1..Len(chosen) : chosen[j].data = p => j = i
    BY <1>3, <1>5, IsLog DEF Proposed
  <1>7. CarriesIn(chosen, d, a) => ~Contains(d, p)
    <2> SUFFICES ASSUME CarriesIn(chosen, d, a), Contains(d, p)
                 PROVE  FALSE
      OBVIOUS
    <2>1. PICK j \in 1..a : chosen[j].data = p
      <3>1. PICK x : x = chosen
        OBVIOUS
      <3> QED
        BY <1>5, <3>1, CarriesContains
    <2> QED
      BY <1>3, <1>5, <1>6, <2>1
  <1>8. CarriesIn(chosen, d, i) => Contains(d, p)
    <2>1. PICK x : x = chosen
      OBVIOUS
    <2>2. i \in 1..i
      BY <1>5
    <2> QED
      BY <1>3, <1>5, <2>1, <2>2, CarriesContains
  <1>9. CarriesIn(chosen, d, a) => CarriesIn(chosen, Append(d, p), i)
    <2>1. PICK x : x = chosen
      OBVIOUS
    <2> QED
      BY <1>3, <1>5, <2>1, CarriesNext
  <1>10. CarriesIn(chosen, disk'[n].data, i)
    BY <1>2, <1>4, <1>5, <1>7, <1>8, <1>9
  <1> QED
    BY <1>1, <1>2, <1>3, <1>10 DEF MachineOf

LEMMA MachineSchedules ==
  ASSUME RaftInv, Waiters, NEW n \in Node, MachineOf(n), Schedule(n)
  PROVE  MachineOf(n)'
  <1>1. PICK d, a, i : d = disk[n].data /\ a = disk[n].applied /\ i = app[n].scheduled + 1
    OBVIOUS
  <1>2. PICK mine : mine = {w \in app[n].pending : w.index = i}
    OBVIOUS
  <1>3. /\ raft' = raft /\ chosen' = chosen /\ app[n].job = NoJob
        /\ app'[n].scheduled = i /\ app'[n].written = app[n].written
        /\ disk'[n].data = d
        /\ \/ /\ raft[n].log[i].data = NoOp
              /\ disk'[n].applied = i /\ app'[n].job = NoJob
           \/ /\ raft[n].log[i].data # NoOp
              /\ disk'[n].applied = a
              /\ app'[n].pending = app[n].pending \ mine
              /\ app'[n].job.index = i
              /\ app'[n].job.kind = IF mine = {} THEN "worker" ELSE "local"
              /\ mine = {} => app'[n].job.data = raft[n].log[i].data
              /\ mine # {} => \E w \in mine : app'[n].job.data = w.data
    BY <1>1, <1>2, ScheduleEffect
  <1>4. /\ i \in 1..Len(chosen) /\ i <= raft[n].commit /\ raft[n].log[i] = chosen[i]
        /\ \A w \in mine : w.data = chosen[i].data
    BY <1>1, <1>2, ScheduledEntry
  <1>5. ~app[n].written /\ i = a + 1 /\ a \in Nat /\ d \in Seq(Proposal)
    <2>1. ~app[n].written
      BY <1>3 DEF RaftInv, Indices
    <2>2. app[n].scheduled = a
      BY <1>1, <1>3 DEF MachineOf
    <2> QED
      BY <1>1, <2>1, <2>2, MachineBounds
  <1>6. CarriesIn(chosen, d, a) \/ Ahead(n)
    BY <1>1, <1>5 DEF MachineOf
  <1>7. CASE raft[n].log[i].data = NoOp
    <2>1. CarriesIn(chosen, d, a)
      BY <1>1, <1>4, <1>5, <1>6, <1>7 DEF Ahead
    <2>2. CarriesIn(chosen, d, i)
      <3>1. PICK x : x = chosen
        OBVIOUS
      <3> QED
        BY <1>4, <1>5, <1>7, <2>1, <3>1, CarriesSkip
    <2> QED
      BY <1>3, <1>5, <1>7, <2>2 DEF MachineOf
  <1>8. CASE raft[n].log[i].data # NoOp
    <2>1. app'[n].job.data = chosen[i].data /\ chosen[i].data # NoOp
      BY <1>3, <1>4, <1>8
    <2>2. app'[n].job.kind # "none"
      BY <1>3, <1>8
    <2>3. Ahead(n) => Ahead(n)'
      <3> SUFFICES ASSUME Ahead(n) PROVE Ahead(n)'
        OBVIOUS
      <3>1. /\ i <= Len(chosen) /\ i <= raft[n].commit /\ CarriesIn(chosen, d, i)
            /\ \A w \in app[n].pending : w.index # i
        BY <1>1, <1>5 DEF Ahead
      <3>2. app'[n].job.kind # "local" /\ \A w \in app'[n].pending : w.index # i
        BY <1>2, <1>3, <1>8, <3>1
      <3>3. i = disk'[n].applied + 1
        BY <1>3, <1>5, <1>8
      <3> QED
        BY <1>3, <2>1, <3>1, <3>2, <3>3 DEF Ahead
    <2>4. i = disk'[n].applied + 1
      BY <1>3, <1>5, <1>8
    <2>5. app'[n].job # NoJob
      BY <2>2 DEF NoJob
    <2> QED
      BY <1>3, <1>5, <1>6, <1>8, <2>1, <2>2, <2>3, <2>4, <2>5 DEF MachineOf
  <1> QED
    BY <1>7, <1>8

\* A crash between the write and the mark leaves the state machine ahead.
LEMMA MachineCrashes ==
  ASSUME RaftInv, NEW n \in Node, MachineOf(n), Crash(n)
  PROVE  MachineOf(n)'
  <1>1. PICK d, a, i : d = disk[n].data /\ a = disk[n].applied /\ i = disk[n].applied + 1
    OBVIOUS
  <1>2. /\ chosen' = chosen /\ disk' = disk /\ raft'[n].commit = raft[n].commit
        /\ app'[n].scheduled = a /\ app'[n].pending = {} /\ app'[n].job = NoJob
        /\ ~app'[n].written
    BY <1>1, CrashEffect DEF RaftInv
  <1>3. NoJob.kind = "none"
    BY DEF NoJob
  <1>4. CASE ~app[n].written
    <2>1. Ahead(n) => Ahead(n)'
      BY <1>2, <1>3 DEF Ahead
    <2>2. CarriesIn(chosen, d, a) \/ Ahead(n)
      BY <1>1, <1>4 DEF MachineOf
    <2> QED
      BY <1>1, <1>2, <2>1, <2>2 DEF MachineOf
  <1>5. CASE app[n].written
    <2>1. app[n].job # NoJob
      BY <1>5 DEF RaftInv, Indices
    <2>2. /\ app[n].scheduled = i /\ chosen[i].data = app[n].job.data
          /\ app[n].job.data # NoOp /\ CarriesIn(chosen, d, i)
      BY <1>1, <1>5, <2>1 DEF MachineOf
    <2>3. i <= Len(chosen) /\ i <= raft[n].commit
      BY <2>2, MachineBounds
    <2>4. Ahead(n)'
      BY <1>1, <1>2, <1>3, <2>2, <2>3 DEF Ahead
    <2> QED
      BY <1>1, <1>2, <2>4 DEF MachineOf
  <1> QED
    BY <1>4, <1>5

LEMMA MachinesStep ==
  ASSUME RaftInv, Types', ChosenGrows, Waiters, Proposed, Machines, Next
  PROVE  Machines'
  <1>0. /\ Types /\ LogInv /\ FirstAppends /\ Indices
    BY DEF RaftInv, LogInv
  <1>a. \A m \in Node : /\ MachineOf(m) /\ raft[m].commit \in Nat
                        /\ raft[m].commit <= Len(raft[m].log) /\ Len(raft[m].log) \in Nat
    BY MachinesAll, MachineBounds
  <1>b. ASSUME app' = app, disk' = disk,
               \A m \in Node : raft[m].commit <= raft'[m].commit
        PROVE  Machines'
    <2>1. ASSUME NEW m \in Node
          PROVE  MachineOf(m)'
      BY <1>a, <1>b, MachineKeeps
    <2> QED
      BY <2>1 DEF Machines, MachineOf
  <1>1. ASSUME NEW n \in Node, NEW Q \in Quorum, Elect(n, Q)
        PROVE  Machines'
    <2>1. /\ app' = app /\ disk' = disk
          /\ \A m \in Node : raft'[m].commit = raft[m].commit
      BY <1>0, <1>1, ElectEffect
    <2> QED
      BY <1>a, <1>b, <2>1
  <1>2. ASSUME NEW n \in Node, NEW Q \in Quorum, AdvanceCommit(n, Q)
        PROVE  Machines'
    <2>1. PICK k \in 1..Len(raft[n].log) :
            OnlyRaft(n) /\ k > raft[n].commit /\ raft'[n].commit = k
      BY <1>0, <1>2, AdvanceCommitEffect
    <2>2. \A m \in Node : raft[m].commit <= raft'[m].commit
      BY <1>a, <2>1 DEF OnlyRaft
    <2> QED
      BY <1>b, <2>1, <2>2 DEF OnlyRaft
  <1>3. ASSUME NEW n \in Node, NEW t \in Term, TakeHeartbeat(n, t)
        PROVE  Machines'
    <2>1. OnlyRaft(n) /\ raft'[n].commit = raft[n].commit
      BY <1>0, <1>3, TakeHeartbeatEffect
    <2> QED
      BY <1>a, <1>b, <2>1 DEF OnlyRaft
  <1>4. ASSUME NEW n \in Node, NEW t \in Term, TakeAppend(n, t)
        PROVE  Machines'
    <2>1. /\ OnlyRaft(n)
          /\ raft'[n].commit = IF raft[n].commit >= hello[t].commit
                               THEN raft[n].commit ELSE hello[t].commit
      BY <1>0, <1>4, TakeAppendEffect
    <2>2. \A m \in Node : raft[m].commit <= raft'[m].commit
      BY <1>0, <1>a, <2>1, HelloTypes DEF OnlyRaft
    <2> QED
      BY <1>b, <2>1, <2>2 DEF OnlyRaft
  <1>5. ASSUME NEW l \in Node, NEW n \in Node, Replicate(l, n)
        PROVE  Machines'
    <2>1. /\ OnlyRaft(n)
          /\ raft'[n].commit = IF raft[n].commit >= raft[l].commit
                               THEN raft[n].commit ELSE raft[l].commit
      BY <1>0, <1>5, ReplicateEffect
    <2>2. \A m \in Node : raft[m].commit <= raft'[m].commit
      BY <1>a, <2>1 DEF OnlyRaft
    <2> QED
      BY <1>b, <2>1, <2>2 DEF OnlyRaft
  <1>6. ASSUME NEW n \in Node, NEW p \in Proposal, Propose(n, p)
        PROVE  Machines'
    <2>1. CASE UNCHANGED <<raft, app>>
      <3>1. disk' = disk
        BY <1>6 DEF Propose
      <3> QED
        BY <1>a, <1>b, <2>1, <3>1
    <2>2. CASE ~UNCHANGED <<raft, app>>
      <3>1. PICK new : new = [index |-> Len(raft[n].log) + 1, data |-> p]
        OBVIOUS
      <3>2. /\ \A m \in Node : m # n => /\ raft'[m] = raft[m] /\ app'[m] = app[m]
                                        /\ disk'[m] = disk[m]
            /\ disk'[n] = disk[n] /\ chosen' = chosen /\ raft'[n].commit = raft[n].commit
            /\ app'[n].pending = app[n].pending \cup {new}
            /\ app'[n].scheduled = app[n].scheduled
            /\ app'[n].job = app[n].job /\ app'[n].written = app[n].written
        BY <1>0, <1>6, <2>2, <3>1, ProposeEffect DEF OnlyApp
      <3>3. new.index > raft[n].commit
        BY <1>a, <3>1
      <3>4. MachineOf(n)'
        BY <1>a, <3>2, <3>3, MachineKeeps
      <3> QED
        BY <3>2, <3>4, MachinesOne
    <2> QED
      BY <2>1, <2>2
  <1>7. ASSUME NEW n \in Node, StepDown(n)
        PROVE  Machines'
    <2>1. OnlyRaft(n) /\ raft'[n].commit = raft[n].commit
      BY <1>0, <1>7, StepDownEffect
    <2> QED
      BY <1>a, <1>b, <2>1 DEF OnlyRaft
  <1>8. ASSUME NEW n \in Node, HandleReady(n)
        PROVE  Machines'
    <2>1. /\ \A m \in Node : m # n => /\ raft'[m] = raft[m] /\ app'[m] = app[m]
                                      /\ disk'[m] = disk[m]
          /\ disk'[n] = disk[n] /\ chosen' = chosen /\ raft'[n].commit = raft[n].commit
          /\ app'[n].pending \subseteq app[n].pending
          /\ app'[n].scheduled = app[n].scheduled
          /\ app'[n].job = app[n].job /\ app'[n].written = app[n].written
      BY <1>0, <1>8, HandleReadyEffect DEF OnlyApp, KeptWaiters
    <2>2. MachineOf(n)'
      BY <1>a, <2>1, MachineKeeps
    <2> QED
      BY <2>1, <2>2, MachinesOne
  <1>9. ASSUME NEW n \in Node, Schedule(n)
        PROVE  Machines'
    <2>1. /\ \A m \in Node : m # n => /\ raft'[m] = raft[m] /\ app'[m] = app[m]
                                      /\ disk'[m] = disk[m]
          /\ chosen' = chosen
      BY <1>9, ScheduleEffect DEF OnlyApp, OnlyDisk
    <2> QED
      BY <1>9, <1>a, <2>1, MachineSchedules, MachinesOne
  <1>10. ASSUME NEW n \in Node, Write(n)
         PROVE  Machines'
    <2>1. /\ \A m \in Node : m # n => /\ raft'[m] = raft[m] /\ app'[m] = app[m]
                                      /\ disk'[m] = disk[m]
          /\ chosen' = chosen
      BY <1>10, WriteEffect DEF OnlyApp, OnlyDisk
    <2> QED
      BY <1>10, <1>a, <2>1, MachineWrites, MachinesOne
  <1>11. ASSUME NEW n \in Node, Finish(n)
         PROVE  Machines'
    <2>1. /\ \A m \in Node : m # n => /\ raft'[m] = raft[m] /\ app'[m] = app[m]
                                      /\ disk'[m] = disk[m]
          /\ chosen' = chosen /\ app[n].written
          /\ app'[n].scheduled = app[n].scheduled /\ app'[n].job = NoJob
          /\ ~app'[n].written /\ disk'[n].applied = app[n].job.index
          /\ disk'[n].data = disk[n].data
      BY <1>11, FinishEffect DEF OnlyApp, OnlyDisk
    <2>2. app[n].job.index = app[n].scheduled
      BY <1>0, <2>1 DEF Indices
    <2>3. CarriesIn(chosen, disk[n].data, app[n].scheduled)
      BY <1>a, <2>1 DEF MachineOf
    <2>4. MachineOf(n)'
      BY <2>1, <2>2, <2>3 DEF MachineOf
    <2> QED
      BY <2>1, <2>4, MachinesOne
  <1>12. ASSUME NEW n \in Node, Crash(n)
         PROVE  Machines'
    <2>1. /\ \A m \in Node : m # n => /\ raft'[m] = raft[m] /\ app'[m] = app[m]
                                      /\ disk'[m] = disk[m]
          /\ chosen' = chosen
      BY <1>0, <1>12, CrashEffect DEF OnlyApp
    <2> QED
      BY <1>12, <1>a, <2>1, MachineCrashes, MachinesOne
  <1> QED
    BY <1>1, <1>2, <1>3, <1>4, <1>5, <1>6, <1>7, <1>8, <1>9, <1>10, <1>11, <1>12
    DEF Next

----------------------------------------------------------------------------
(* The invariant of the loop. *)

LEMMA LoopInit ==
  ASSUME Init
  PROVE  LoopInv
  <1>1. RaftInv
    BY RaftInit
  <1>2. \A n \in Node : /\ app[n].pending = {} /\ ~app[n].isLeader /\ app[n].job = NoJob
                        /\ ~app[n].written /\ app[n].scheduled = 0
    BY DEF Init, Idle
  <1>3. \A n \in Node : disk[n].applied = 0 /\ disk[n].data = <<>>
    BY DEF Init
  <1>4. Waiters
    BY <1>2 DEF Waiters
  <1>5. Machines
    <2>1. PICK x : x = chosen
      OBVIOUS
    <2>2. CarriesIn(chosen, <<>>, 0)
      BY <2>1, CarriesNothing
    <2> QED
      BY <1>2, <1>3, <2>2 DEF Machines
  <1>6. Proposed
    <2>1. \A x \in Logs : x = <<>>
      BY DEF Init, NoHello, Logs
    <2> QED
      BY <2>1 DEF Proposed
  <1>7. HonestAnswer
    BY DEF Init, HonestAnswer
  <1> QED
    BY <1>1, <1>4, <1>5, <1>6, <1>7 DEF LoopInv

LEMMA LoopStep ==
  ASSUME ~Stall, LoopInv, [Next]_vars
  PROVE  LoopInv'
  <1>0. RaftInv /\ Waiters /\ Machines /\ Proposed /\ HonestAnswer
    BY DEF LoopInv
  <1>1. CASE Next
    <2>1. RaftInv' /\ ChosenGrows /\ Types'
      BY <1>0, <1>1, RaftStep DEF RaftInv
    <2> QED
      BY <1>0, <1>1, <2>1, WaitersStep, MachinesStep, ProposedStep, HonestStep DEF LoopInv
  <1>2. CASE UNCHANGED vars
    <2>1. RaftInv'
      BY <1>0, <1>2, RaftStutter
    <2>2. Waiters'
      BY <1>0, <1>2 DEF vars, Waiters, Owns, Reigns, Taken
    <2>3. Machines'
      BY <1>0, <1>2 DEF vars, Machines, Ahead
    <2>4. Logs' = Logs
      BY <1>2 DEF vars, Logs
    <2>5. Proposed' /\ HonestAnswer'
      BY <1>0, <1>2, <2>4 DEF vars, Proposed, HonestAnswer
    <2> QED
      BY <2>1, <2>2, <2>3, <2>5 DEF LoopInv
  <1> QED
    BY <1>1, <1>2

\* Waiters, state machines and answers stay in step with the committed log
\* whatever is elected, replaced, scheduled or crashes, while a node handles a
\* Ready between messages of two terms: LoopInv is an invariant.
THEOREM LoopInvariantHolds ==
  ASSUME ~Stall
  PROVE  Spec => []LoopInv
  <1>1. Init => LoopInv
    BY LoopInit
  <1>2. LoopInv /\ [Next]_vars => LoopInv'
    BY LoopStep
  <1> QED
    BY <1>1, <1>2, PTL DEF Spec

\* Who was told that its proposal is committed has it in the committed log, so
\* a client is never acknowledged a write that a later leader has replaced
\* (classify_committed_entry, revoke_application_leadership).
THEOREM HonestAnswerHolds ==
  ASSUME ~Stall
  PROVE  Spec => []HonestAnswer
  <1>1. LoopInv => HonestAnswer
    BY DEF LoopInv
  <1>2. Spec => []LoopInv
    BY LoopInvariantHolds
  <1> QED
    BY <1>1, <1>2, PTL

\* Every state machine holds the proposals of a beginning of the committed log,
\* each once and in order, whether the leader's committer or the worker wrote
\* them and wherever the process stopped in between.
THEOREM SameStateMachineHolds ==
  ASSUME ~Stall
  PROVE  Spec => []SameStateMachine
  <1>1. LoopInv => SameStateMachine
    <2> SUFFICES ASSUME LoopInv, NEW n \in Node
                 PROVE  \E e \in 0..Len(chosen) : Carries(disk[n].data, e)
      BY DEF SameStateMachine
    <2>1. RaftInv /\ MachineOf(n)
      BY MachinesAll DEF LoopInv
    <2>2. /\ disk[n].applied \in Nat /\ app[n].scheduled \in Nat /\ Len(chosen) \in Nat
          /\ disk[n].applied <= app[n].scheduled /\ app[n].scheduled <= raft[n].commit
          /\ raft[n].commit \in Nat /\ raft[n].commit <= Len(chosen)
      BY <2>1, MachineBounds
    <2>3. /\ app[n].scheduled \in 0..Len(chosen) /\ disk[n].applied \in 0..Len(chosen)
          /\ disk[n].applied + 1 <= Len(chosen) => disk[n].applied + 1 \in 0..Len(chosen)
      BY <2>2
    <2>4. \E e \in 0..Len(chosen) : CarriesIn(chosen, disk[n].data, e)
      BY <2>1, <2>3 DEF MachineOf, Ahead
    <2>5. PICK e \in 0..Len(chosen) : CarriesIn(chosen, disk[n].data, e)
      BY <2>4
    <2>6. Carries(disk[n].data, e)
      BY <2>5 DEF Carries, CarriesIn
    <2> QED
      BY <2>6
  <1>2. Spec => []LoopInv
    BY LoopInvariantHolds
  <1> QED
    BY <1>1, <1>2, PTL

\* Once a node has handled its Ready, whoever waits on it waits for an entry
\* that carries its own proposal; on a node that does not lead, for one that is
\* committed (the waiters kept when leadership is lost).
THEOREM WaitersOwnTheirEntryHolds ==
  ASSUME ~Stall
  PROVE  Spec => []WaitersOwnTheirEntry
  <1>1. LoopInv => WaitersOwnTheirEntry
    <2> SUFFICES ASSUME LoopInv, NEW n \in Node, Settled(n), NEW w \in app[n].pending
                 PROVE  /\ w.index <= Len(raft[n].log)
                        /\ raft[n].log[w.index].data = w.data
                        /\ app[n].isLeader \/ w.index <= raft[n].commit
      BY DEF WaitersOwnTheirEntry
    <2>1. /\ w.index <= raft[n].commit => Owns(n, w)
          /\ ~app[n].isLeader => w.index <= raft[n].commit
          /\ app[n].isLeader => Owns(n, w) \/ ~Reigns(n)
      BY DEF LoopInv, Waiters
    <2>2. app[n].isLeader => Reigns(n)
      BY DEF Settled, Reigns
    <2>3. Owns(n, w)
      BY <2>1, <2>2
    <2>4. Len(raft[n].log) \in Nat
      BY RaftTypes DEF LoopInv, RaftInv
    <2> QED
      BY <2>1, <2>3, <2>4 DEF Owns
  <1>2. Spec => []LoopInv
    BY LoopInvariantHolds
  <1> QED
    BY <1>1, <1>2, PTL
=============================================================================
