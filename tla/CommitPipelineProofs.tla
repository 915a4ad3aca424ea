------------------------ MODULE CommitPipelineProofs ------------------------
(***************************************************************************)
(* Proofs about CommitPipeline, for any transactions, timestamps, queue    *)
(* length, rejections and restarts. The argument has three layers:         *)
(*   - order: what was admitted last is above everything in flight and     *)
(*     above the latest snapshot, a prepared transaction keeps everybody   *)
(*     else out until it is resolved, and prepared transactions are        *)
(*     written lowest first;                                               *)
(*   - contents: a write in flight holds the latest snapshot and what is   *)
(*     queued before it;                                                   *)
(*   - redo records: a transaction that was written where it was prepared  *)
(*     has a written entry in the queue or no redo record.                 *)
(***************************************************************************)
EXTENDS CommitPipeline, FiniteSetTheorems, WellFoundedInduction, TLAPS

----------------------------------------------------------------------------
(* Order. *)

QEntry == [kind : Kinds, ts : 0..MaxTs, txn : SUBSET Txn, holds : SUBSET Ts,
           queued : SUBSET Ts, state : {"flying", "written", "rejected"}]

Prepares == [Txn -> [ts : 0..MaxTs, holds : SUBSET Ts]]

\* The entry of a commit or a delta, and the entry that resolves a
\* transaction.
Snaps(e) == e.kind \in {"commit", "delta"}
Resolves(e) == e.kind \in {"prepared", "rollback"}

\* An entry e in flight, with the prepared transactions p, the last assigned
\* timestamp la and the latest snapshot's timestamp lt: nothing that is
\* assigned later can be at or below it, it is above the latest snapshot, no
\* prepared transaction is below a commit or a delta, and the transaction
\* that is being written is the lowest.
EntryFits(e, p, la, lt) ==
  /\ e.ts <= la \/ e.ts <= lt
  /\ Snaps(e) => /\ lt < e.ts
                 /\ \A t \in Txn : p[t].ts # 0 => e.ts < p[t].ts
  /\ Resolves(e) => \E t \in Txn : e.txn = {t} /\ p[t].ts = e.ts /\ e.ts # 0
  /\ e.kind = "prepared" => \A t \in Txn : p[t].ts # 0 => e.ts <= p[t].ts
  /\ e.kind = "barrier" => e.ts # 0

\* The queue: a commit or a delta is above everything in front of it, and a
\* transaction is resolved once.
QueueFits(q, p, la, lt) ==
  /\ \A i \in DOMAIN q : EntryFits(q[i], p, la, lt)
  /\ \A i, j \in DOMAIN q : i < j /\ Snaps(q[j]) => q[i].ts < q[j].ts
  /\ \A i, j \in DOMAIN q :
       Resolves(q[i]) /\ Resolves(q[j]) /\ q[i].txn = q[j].txn => i = j

\* The prepared transactions.
PrepFits(p, la, lt) ==
  /\ \A t \in Txn : p[t].ts # 0 => lt < p[t].ts /\ p[t].ts <= la
  /\ \A t, u \in Txn : p[t].ts # 0 /\ p[t].ts = p[u].ts => t = u

\* What was answered, as long as the process lives.
AnswersFit ==
  restarts = 0 => answered <= latest /\ \A c \in closed : c <= latest

OrderInv ==
  /\ TypeOK
  /\ QueueFits(queue, prepared, lastAssigned, latest)
  /\ PrepFits(prepared, lastAssigned, latest)
  /\ repeatable <= latest
  /\ recovering # {} => queue = <<>>
  /\ AnswersFit
  /\ NeverTooLate

----------------------------------------------------------------------------
(* Contents. *)

IsWrite(e) == e.kind \in {"commit", "delta", "prepared"}

\* Nothing was rejected, and transactions were prepared one after the other.
Clean == alone /\ rejects = 0

\* The timestamps of the writes in the first k entries of a queue.
WrittenUpTo(q, k) == {q[j].ts : j \in {i \in DOMAIN q : i <= k /\ IsWrite(q[i])}}

\* Those of all its writes, and of its commits and deltas.
AllWritten(q) == {q[j].ts : j \in {i \in DOMAIN q : IsWrite(q[i])}}
SnapTs(q) == {q[j].ts : j \in {i \in DOMAIN q : Snaps(q[i])}}

HoldsFit(q, s) ==
  \A i \in DOMAIN q : IsWrite(q[i]) =>
    /\ q[i].holds = s \cup WrittenUpTo(q, i)
    /\ Snaps(q[i]) => q[i].queued = q[i].holds

PreparedFit(q, p, s) ==
  /\ \A t, u \in Txn : p[t].ts # 0 /\ p[u].ts # 0 => t = u
  /\ \A t \in Txn : p[t].ts # 0 =>
       p[t].holds = s \cup SnapTs(q) \cup {p[t].ts}

DiskFit(q, s, d) ==
  /\ \A c \in d : c \in s \/ \E i \in DOMAIN q : IsWrite(q[i]) /\ q[i].ts = c
  /\ s \subseteq d
  /\ \A i \in DOMAIN q : q[i].state = "written" /\ IsWrite(q[i]) => q[i].ts \in d

ContentInv ==
  Clean =>
    /\ HoldsFit(queue, snap)
    /\ PreparedFit(queue, prepared, snap)
    /\ DiskFit(queue, snap, disk)
    /\ \A c \in snap : c <= latest
    /\ \A i \in DOMAIN queue : queue[i].state # "rejected"

----------------------------------------------------------------------------
(* Redo records. *)

\* A prepared transaction has a redo record, which is no higher; records are
\* of different transactions, at timestamps that were handed out.
RedoFits ==
  /\ \A t \in Txn : prepared[t].ts # 0 => redo[t] # 0 /\ redo[t] <= prepared[t].ts
  /\ \A t \in recovering : redo[t] # 0
  /\ \A t \in Txn : redo[t] # 0 => redo[t] \in issued
  /\ \A t, u \in Txn : redo[t] # 0 /\ redo[t] = redo[u] => t = u

\* What a recovery has loaded is not below what was written.
RecoveryFits == recovering # {} => \A c \in disk : c <= latest

\* A transaction that was written and still has its record: where it was
\* prepared, it is the written entry of the queue; elsewhere, it was staged
\* above its record.
CarriedFits ==
  \A a \in carried :
    /\ a[1] \in issued /\ a[2] \in disk /\ a[1] <= a[2]
    /\ \A t \in Txn : redo[t] = a[1] =>
         IF a[1] = a[2]
         THEN \E i \in DOMAIN queue : /\ queue[i].kind = "prepared"
                                      /\ queue[i].txn = {t}
                                      /\ queue[i].state = "written"
         ELSE prepared[t].ts = 0 \/ a[1] < prepared[t].ts

RedoInv == RedoFits /\ RecoveryFits /\ CarriedFits /\ CarriedOutOnce

PipelineInv == OrderInv /\ ContentInv /\ RedoInv

----------------------------------------------------------------------------
(* Minimum, maximum and the types. *)

LEMMA MinOfNaturals ==
  ASSUME NEW S \in SUBSET Nat, S # {}
  PROVE  Min(S) \in S /\ \A y \in S : Min(S) <= y
  <1>1. PICK x \in S : \A y \in S : ~ (<<y, x>> \in OpToRel(<, Nat))
    BY WFMin, NatLessThanWellFounded
  <1>2. \A y \in S : x <= y
    <2> TAKE y \in S
    <2>1. ~ (y < x)
      BY <1>1 DEF OpToRel
    <2> QED
      BY <2>1
  <1> QED
    BY <1>2 DEF Min

LEMMA MaxOfBounded ==
  ASSUME NEW b \in Nat, NEW S \in SUBSET (0..b), S # {}
  PROVE  Max(S) \in S /\ \A y \in S : y <= Max(S)
  <1> DEFINE R == {b - y : y \in S}
  <1>1. R \in SUBSET Nat /\ R # {}
    <2>1. \A y \in S : b - y \in Nat
      OBVIOUS
    <2> QED
      BY <2>1
  <1>2. PICK x \in S : Min(R) = b - x
    BY <1>1, MinOfNaturals
  <1>3. \A y \in S : b - x <= b - y
    BY <1>1, <1>2, MinOfNaturals
  <1>4. \A y \in S : x >= y
    BY <1>3
  <1> QED
    BY <1>4 DEF Max

LEMMA Bounds == MaxTs \in Nat /\ 0 \in 0..MaxTs /\ Ts \subseteq 0..MaxTs
  BY PipelineAssumption DEF Ts

LEMMA Types ==
  ASSUME TypeOK
  PROVE  /\ lastAssigned \in 0..MaxTs /\ barrierFloor \in 0..MaxTs
         /\ latest \in 0..MaxTs /\ repeatable \in 0..MaxTs
         /\ global \in 0..MaxTs /\ answered \in 0..MaxTs
         /\ lastAssigned \in Nat /\ latest \in Nat /\ repeatable \in Nat
         /\ answered \in Nat /\ MaxTs \in Nat
         /\ queue \in Seq(QEntry)
         /\ \A i \in DOMAIN queue : queue[i] \in QEntry
         /\ prepared \in Prepares
         /\ \A t \in Txn : prepared[t].ts \in 0..MaxTs /\ prepared[t].ts \in Nat
         /\ \A i \in DOMAIN queue : queue[i].ts \in 0..MaxTs /\ queue[i].ts \in Nat
  <1>1. MaxTs \in Nat
    BY Bounds
  <1>2. /\ lastAssigned \in 0..MaxTs /\ barrierFloor \in 0..MaxTs
        /\ latest \in 0..MaxTs /\ repeatable \in 0..MaxTs
        /\ global \in 0..MaxTs /\ answered \in 0..MaxTs
    BY DEF TypeOK
  <1>3. queue \in Seq(QEntry) /\ prepared \in Prepares
    BY DEF TypeOK, QEntry, Prepares
  <1>4. \A i \in DOMAIN queue : queue[i] \in QEntry
    BY <1>3
  <1>5. \A e \in QEntry : e.ts \in 0..MaxTs
    BY DEF QEntry
  <1>6. \A t \in Txn : prepared[t].ts \in 0..MaxTs
    BY <1>3 DEF Prepares
  <1> QED
    BY <1>1, <1>2, <1>3, <1>4, <1>5, <1>6

----------------------------------------------------------------------------
(* The queue. *)

LEMMA AppendFacts ==
  ASSUME NEW S, NEW q \in Seq(S), NEW e \in S
  PROVE  /\ Append(q, e) \in Seq(S) /\ Len(q) \in Nat
         /\ DOMAIN q = 1..Len(q) /\ DOMAIN Append(q, e) = 1..(Len(q) + 1)
         /\ \A i \in DOMAIN q : i \in DOMAIN Append(q, e) /\ Append(q, e)[i] = q[i]
         /\ Append(q, e)[Len(q) + 1] = e /\ Len(q) + 1 \in DOMAIN Append(q, e)
         /\ \A i \in DOMAIN Append(q, e) : i \in DOMAIN q \/ i = Len(q) + 1
         /\ \A i \in DOMAIN q : i < Len(q) + 1
  OBVIOUS

LEMMA TailFacts ==
  ASSUME NEW S, NEW q \in Seq(S), q # <<>>
  PROVE  /\ Tail(q) \in Seq(S) /\ Len(q) \in Nat \ {0}
         /\ DOMAIN q = 1..Len(q) /\ DOMAIN Tail(q) = 1..(Len(q) - 1)
         /\ \A i \in DOMAIN Tail(q) : i + 1 \in DOMAIN q /\ Tail(q)[i] = q[i + 1]
         /\ \A i \in DOMAIN q : i = 1 \/ (i - 1 \in DOMAIN Tail(q) /\ Tail(q)[i - 1] = q[i])
         /\ 1 \in DOMAIN q /\ Head(q) = q[1] /\ Head(q) \in S
  <1>1. Len(q) \in Nat \ {0} /\ DOMAIN q = 1..Len(q)
    OBVIOUS
  <1>2. Tail(q) \in Seq(S) /\ Len(Tail(q)) = Len(q) - 1
    BY <1>1
  <1>3. DOMAIN Tail(q) = 1..(Len(q) - 1)
    BY <1>2
  <1>4. \A i \in 1..(Len(q) - 1) : Tail(q)[i] = q[i + 1]
    BY <1>1, <1>2
  <1>5. 1 \in DOMAIN q /\ Head(q) = q[1] /\ Head(q) \in S
    BY <1>1
  <1>6. \A i \in DOMAIN q : i = 1 \/ (i - 1 \in 1..(Len(q) - 1) /\ Tail(q)[i - 1] = q[i])
    <2> SUFFICES ASSUME NEW i \in DOMAIN q, i # 1
                 PROVE  i - 1 \in 1..(Len(q) - 1) /\ Tail(q)[i - 1] = q[i]
      OBVIOUS
    <2>1. i - 1 \in 1..(Len(q) - 1) /\ (i - 1) + 1 = i
      BY <1>1
    <2> QED
      BY <1>4, <2>1
  <1> QED
    BY <1>1, <1>2, <1>3, <1>4, <1>5, <1>6

\* Two queues whose entries are of the same kind, timestamp and transaction.
Similar(q, r) ==
  /\ DOMAIN q = DOMAIN r
  /\ \A i \in DOMAIN q : q[i].kind = r[i].kind /\ q[i].ts = r[i].ts /\ q[i].txn = r[i].txn

LEMMA FitsSimilar ==
  ASSUME NEW q, NEW r, NEW p, NEW la, NEW lt, Similar(q, r), QueueFits(q, p, la, lt)
  PROVE  QueueFits(r, p, la, lt)
  <1>1. DOMAIN r = DOMAIN q
    BY DEF Similar
  <1>2. ASSUME NEW i \in DOMAIN q
        PROVE  /\ r[i].kind = q[i].kind /\ r[i].ts = q[i].ts /\ r[i].txn = q[i].txn
               /\ Snaps(r[i]) <=> Snaps(q[i])
               /\ Resolves(r[i]) <=> Resolves(q[i])
    BY DEF Similar, Snaps, Resolves
  <1>3. \A i \in DOMAIN r : EntryFits(r[i], p, la, lt)
    <2> SUFFICES ASSUME NEW i \in DOMAIN q PROVE EntryFits(r[i], p, la, lt)
      BY <1>1
    <2>1. EntryFits(q[i], p, la, lt)
      BY DEF QueueFits
    <2> QED
      BY <1>2, <2>1 DEF EntryFits
  <1>4. \A i, j \in DOMAIN r : i < j /\ Snaps(r[j]) => r[i].ts < r[j].ts
    BY <1>1, <1>2 DEF QueueFits
  <1>5. \A i, j \in DOMAIN r :
          Resolves(r[i]) /\ Resolves(r[j]) /\ r[i].txn = r[j].txn => i = j
    BY <1>1, <1>2 DEF QueueFits
  <1> QED
    BY <1>3, <1>4, <1>5 DEF QueueFits

\* A new entry at the end, with a timestamp that may have been assigned for it.
LEMMA FitsAppend ==
  ASSUME NEW q \in Seq(QEntry), NEW e \in QEntry, NEW p,
         NEW la \in Nat, NEW lb \in Nat, NEW lt \in Nat, la <= lb,
         QueueFits(q, p, la, lt), EntryFits(e, p, lb, lt),
         Snaps(e) => \A i \in DOMAIN q : q[i].ts < e.ts,
         Resolves(e) => \A i \in DOMAIN q : Resolves(q[i]) => q[i].txn # e.txn
  PROVE  QueueFits(Append(q, e), p, lb, lt)
  <1> DEFINE r == Append(q, e)
             n == Len(q) + 1
  <1>1. /\ n \in DOMAIN r /\ r[n] = e
        /\ \A i \in DOMAIN q : i \in DOMAIN r /\ r[i] = q[i]
        /\ \A i \in DOMAIN r : i \in DOMAIN q \/ i = n
        /\ \A i \in DOMAIN q : i < n /\ ~ (n < i) /\ i # n
        /\ n \in Nat
    BY AppendFacts
  <1>2. \A i \in DOMAIN q : q[i].ts \in Nat
    <2>1. \A x \in QEntry : x.ts \in Nat
      BY Bounds DEF QEntry
    <2> QED
      BY <2>1
  <1> HIDE DEF r, n
  <1>3. \A i \in DOMAIN r : EntryFits(r[i], p, lb, lt)
    <2> SUFFICES ASSUME NEW i \in DOMAIN q PROVE EntryFits(q[i], p, lb, lt)
      BY <1>1
    <2>1. EntryFits(q[i], p, la, lt)
      BY DEF QueueFits
    <2>2. q[i].ts <= lb \/ q[i].ts <= lt
      BY <1>2, <2>1 DEF EntryFits
    <2> QED
      BY <2>1, <2>2 DEF EntryFits
  <1>4. \A i, j \in DOMAIN r : i < j /\ Snaps(r[j]) => r[i].ts < r[j].ts
    <2> SUFFICES ASSUME NEW i \in DOMAIN r, NEW j \in DOMAIN r, i < j, Snaps(r[j])
                 PROVE  r[i].ts < r[j].ts
      OBVIOUS
    <2>1. i \in DOMAIN q
      BY <1>1
    <2>2. CASE j \in DOMAIN q
      BY <1>1, <2>1, <2>2 DEF QueueFits
    <2>3. CASE j = n
      BY <1>1, <2>1, <2>3
    <2> QED
      BY <1>1, <2>2, <2>3
  <1>5. \A i, j \in DOMAIN r :
          Resolves(r[i]) /\ Resolves(r[j]) /\ r[i].txn = r[j].txn => i = j
    BY <1>1 DEF QueueFits
  <1> QED
    BY <1>3, <1>4, <1>5 DEF QueueFits, r

\* The first entry is taken: the latest snapshot may grow, but not past the
\* rest, and the transaction the entry resolves is forgotten.
LEMMA FitsTail ==
  ASSUME NEW q \in Seq(QEntry), q # <<>>, NEW p, NEW u,
         NEW la \in Nat, NEW lt \in Nat, NEW lu \in Nat, lt <= lu,
         QueueFits(q, p, la, lt),
         \A t \in Txn : \/ u[t].ts = p[t].ts
                        \/ u[t].ts = 0 /\ Resolves(q[1]) /\ q[1].txn = {t},
         \A i \in DOMAIN q : i # 1 /\ Snaps(q[i]) => lu < q[i].ts
  PROVE  QueueFits(Tail(q), u, la, lu)
  <1> DEFINE r == Tail(q)
  <1>1. /\ \A i \in DOMAIN r : i \in Nat /\ i + 1 \in DOMAIN q /\ i + 1 # 1 /\ r[i] = q[i + 1]
        /\ 1 \in DOMAIN q
    BY TailFacts
  <1>2. \A i \in DOMAIN q : q[i].ts \in Nat
    <2>1. \A x \in QEntry : x.ts \in Nat
      BY Bounds DEF QEntry
    <2> QED
      BY <2>1
  <1> HIDE DEF r
  <1>3. \A i \in DOMAIN r : EntryFits(r[i], u, la, lu)
    <2> SUFFICES ASSUME NEW i \in DOMAIN q, i # 1 PROVE EntryFits(q[i], u, la, lu)
      BY <1>1
    <2>1. EntryFits(q[i], p, la, lt)
      BY DEF QueueFits
    <2>2. q[i].ts <= la \/ q[i].ts <= lu
      BY <1>2, <2>1 DEF EntryFits
    <2>3. \A t \in Txn : u[t].ts # 0 => p[t].ts = u[t].ts
      OBVIOUS
    <2>4. Resolves(q[i]) => \E t \in Txn : q[i].txn = {t} /\ u[t].ts = q[i].ts /\ q[i].ts # 0
      <3> SUFFICES ASSUME Resolves(q[i])
                   PROVE  \E t \in Txn : q[i].txn = {t} /\ u[t].ts = q[i].ts /\ q[i].ts # 0
        OBVIOUS
      <3>1. PICK t \in Txn : q[i].txn = {t} /\ p[t].ts = q[i].ts /\ q[i].ts # 0
        BY <2>1 DEF EntryFits
      <3>2. ~ (Resolves(q[1]) /\ q[1].txn = {t})
        BY <1>1, <3>1 DEF QueueFits
      <3> QED
        BY <3>1, <3>2
    <2>5. Snaps(q[i]) => lu < q[i].ts /\ \A t \in Txn : u[t].ts # 0 => q[i].ts < u[t].ts
      BY <2>1, <2>3 DEF EntryFits
    <2>6. q[i].kind = "prepared" => \A t \in Txn : u[t].ts # 0 => q[i].ts <= u[t].ts
      BY <2>1, <2>3 DEF EntryFits
    <2> QED
      BY <2>1, <2>2, <2>4, <2>5, <2>6 DEF EntryFits
  <1>4. \A i, j \in DOMAIN r : i < j /\ Snaps(r[j]) => r[i].ts < r[j].ts
    <2> SUFFICES ASSUME NEW i \in DOMAIN r, NEW j \in DOMAIN r, i < j, Snaps(r[j])
                 PROVE  r[i].ts < r[j].ts
      OBVIOUS
    <2>1. i + 1 < j + 1
      BY <1>1
    <2> QED
      BY <1>1, <2>1 DEF QueueFits
  <1>5. \A i, j \in DOMAIN r :
          Resolves(r[i]) /\ Resolves(r[j]) /\ r[i].txn = r[j].txn => i = j
    <2> SUFFICES ASSUME NEW i \in DOMAIN r, NEW j \in DOMAIN r,
                        Resolves(r[i]), Resolves(r[j]), r[i].txn = r[j].txn
                 PROVE  i = j
      OBVIOUS
    <2>1. i + 1 = j + 1
      BY <1>1 DEF QueueFits
    <2> QED
      BY <1>1, <2>1
  <1> QED
    BY <1>3, <1>4, <1>5 DEF QueueFits, r

----------------------------------------------------------------------------
(* The operators of the actions. *)

LEMMA EntryFacts ==
  ASSUME NEW kind \in Kinds, NEW ts \in 0..MaxTs, NEW txn \in SUBSET Txn,
         NEW holds \in SUBSET Ts
  PROVE  LET e == Entry(kind, ts, txn, holds) IN
         /\ e \in QEntry
         /\ e.kind = kind /\ e.ts = ts /\ e.txn = txn
         /\ e.holds = holds /\ e.queued = holds /\ e.state = "flying"
  BY DEF Entry, QEntry

LEMMA FloorFacts ==
  ASSUME TypeOK, NEW ts \in Nat, ts >= LocalCommitFloor
  PROVE  ts > latest /\ ts > lastAssigned
  <1> DEFINE S == {latest, lastAssigned}
  <1>1. /\ lastAssigned \in 0..MaxTs /\ latest \in 0..MaxTs /\ MaxTs \in Nat
        /\ lastAssigned \in Nat /\ latest \in Nat
    BY Types
  <1>2. Max(S) \in S /\ \A y \in S : y <= Max(S)
    BY <1>1, MaxOfBounded
  <1>3. Max(S) \in Nat /\ latest <= Max(S) /\ lastAssigned <= Max(S)
    BY <1>1, <1>2
  <1> HIDE DEF S
  <1>4. ts >= Max(S) + 1
    BY DEF LocalCommitFloor, S
  <1> QED
    BY <1>1, <1>3, <1>4

\* What is above the last assigned timestamp and the latest snapshot is
\* above everything in flight.
LEMMA AboveAll ==
  ASSUME OrderInv, NEW ts \in Nat, ts > latest, ts > lastAssigned
  PROVE  /\ \A i \in DOMAIN queue : queue[i].ts < ts
         /\ \A t \in Txn : prepared[t].ts < ts
  <1>1. /\ lastAssigned \in Nat /\ latest \in Nat
        /\ \A t \in Txn : prepared[t].ts \in Nat
        /\ \A i \in DOMAIN queue : queue[i].ts \in Nat
    BY Types DEF OrderInv
  <1>2. \A i \in DOMAIN queue : queue[i].ts <= lastAssigned \/ queue[i].ts <= latest
    BY DEF OrderInv, QueueFits, EntryFits
  <1>3. \A t \in Txn : prepared[t].ts = 0 \/ prepared[t].ts <= lastAssigned
    BY DEF OrderInv, PrepFits
  <1> QED
    BY <1>1, <1>2, <1>3

LEMMA QueuedFacts ==
  ASSUME TypeOK
  PROVE  /\ Queued # {} => /\ Max(Queued) \in Queued
                           /\ \A i \in Queued : i <= Max(Queued)
         /\ \A i : i \in Queued <=> i \in DOMAIN queue /\ Snaps(queue[i])
  <1>1. queue \in Seq(QEntry)
    BY Types
  <1>2. Len(queue) \in Nat /\ DOMAIN queue = 1..Len(queue)
    BY <1>1
  <1>3. Queued \in SUBSET (0..Len(queue))
    BY <1>2 DEF Queued
  <1>4. \A i : i \in Queued <=> i \in DOMAIN queue /\ Snaps(queue[i])
    BY DEF Queued, Snaps
  <1> QED
    BY <1>2, <1>3, <1>4, MaxOfBounded

LEMMA BaseType ==
  ASSUME TypeOK
  PROVE  BaseSnapshot \in SUBSET Ts
  <1>1. snap \in SUBSET Ts
    BY DEF TypeOK
  <1>2. \A i \in Queued : queue[i].queued \in SUBSET Ts
    <2>1. \A e \in QEntry : e.queued \in SUBSET Ts
      BY DEF QEntry
    <2>2. \A i \in Queued : queue[i] \in QEntry
      BY Types DEF Queued
    <2> QED
      BY <2>1, <2>2
  <1>3. CASE Queued = {}
    BY <1>1, <1>3 DEF BaseSnapshot
  <1>4. CASE Queued # {}
    BY <1>2, <1>4, QueuedFacts DEF BaseSnapshot
  <1> QED
    BY <1>3, <1>4

LEMMA UnresolvedFacts ==
  ASSUME TypeOK
  PROVE  /\ \A t : t \in Unresolved <=> t \in Txn /\ prepared[t].ts # 0
         /\ \A x : x \in PreparedTs <=> \E t \in Txn : prepared[t].ts # 0 /\ x = prepared[t].ts
         /\ PreparedTs \in SUBSET (0..MaxTs) /\ PreparedTs \in SUBSET Nat
         /\ PreparedTs # {} => /\ Min(PreparedTs) \in PreparedTs
                               /\ \A x \in PreparedTs : Min(PreparedTs) <= x
  <1>1. \A t : t \in Unresolved <=> t \in Txn /\ prepared[t].ts # 0
    BY DEF Unresolved
  <1>2. \A x : x \in PreparedTs <=> \E t \in Txn : prepared[t].ts # 0 /\ x = prepared[t].ts
    BY <1>1 DEF PreparedTs
  <1>3. PreparedTs \in SUBSET (0..MaxTs) /\ PreparedTs \in SUBSET Nat
    BY <1>2, Types
  <1> QED
    BY <1>1, <1>2, <1>3, MinOfNaturals

----------------------------------------------------------------------------
(* Order: the steps that queue an entry. *)

LEMMA PrepLater ==
  ASSUME NEW p \in Prepares, NEW la \in Nat, NEW lb \in Nat, NEW lt \in Nat, la <= lb,
         PrepFits(p, la, lt)
  PROVE  PrepFits(p, lb, lt)
  <1>1. \A t \in Txn : p[t].ts \in Nat
    BY Bounds DEF Prepares
  <1> QED
    BY <1>1 DEF PrepFits

LEMMA OrderAppend ==
  ASSUME OrderInv, Running, NEW e \in QEntry, queue' = Append(queue, e),
         lastAssigned' \in 0..MaxTs, lastAssigned <= lastAssigned',
         barrierFloor' \in 0..MaxTs, bumping' \in BOOLEAN, issued' \subseteq Ts,
         UNCHANGED <<closed, latest, snap, repeatable, prepared, recovering,
                     stopped, durable, history>>,
         EntryFits(e, prepared, lastAssigned', latest),
         Snaps(e) => \A i \in DOMAIN queue : queue[i].ts < e.ts,
         Resolves(e) => \A i \in DOMAIN queue : Resolves(queue[i]) => queue[i].txn # e.txn
  PROVE  OrderInv'
  <1>1. /\ queue \in Seq(QEntry) /\ prepared \in Prepares
        /\ lastAssigned \in Nat /\ latest \in Nat /\ lastAssigned' \in Nat
    BY Types, Bounds DEF OrderInv
  <1>2. QueueFits(queue', prepared, lastAssigned', latest)
    BY <1>1, FitsAppend DEF OrderInv
  <1>3. PrepFits(prepared, lastAssigned', latest)
    BY <1>1, PrepLater DEF OrderInv
  <1>4. TypeOK'
    <2>1. queue' \in Seq(QEntry)
      BY <1>1, AppendFacts
    <2>2. {lastAssigned', barrierFloor', latest', repeatable', global', answered'}
            \subseteq 0..MaxTs
      BY Types DEF OrderInv, durable, history
    <2> QED
      BY <2>1, <2>2 DEF OrderInv, TypeOK, QEntry, durable, history
  <1>5. recovering' = {}
    BY DEF Running
  <1>6. AnswersFit' /\ NeverTooLate'
    BY DEF OrderInv, AnswersFit, NeverTooLate, history
  <1>7. repeatable' <= latest'
    BY DEF OrderInv
  <1> QED
    BY <1>2, <1>3, <1>4, <1>5, <1>6, <1>7 DEF OrderInv

LEMMA StartCommitOrder ==
  ASSUME OrderInv, NEW ts \in Ts, StartCommit(ts)
  PROVE  OrderInv'
  <1> DEFINE h == BaseSnapshot \cup {ts}
             e == Entry("commit", ts, {}, h)
  <1>1. Running /\ queue' = Append(queue, e) /\ lastAssigned' = ts
    BY DEF StartCommit, Enqueue
  <1>2. ts \in Nat /\ ts \in 0..MaxTs
    BY Bounds DEF Ts
  <1>3. ts > latest /\ ts > lastAssigned
    BY <1>2, FloorFacts DEF StartCommit, NextTs, OrderInv
  <1>4. h \in SUBSET Ts
    BY BaseType DEF OrderInv
  <1>5. /\ e \in QEntry /\ e.kind = "commit" /\ e.ts = ts
    <2>1. "commit" \in Kinds /\ {} \in SUBSET Txn
      BY DEF Kinds
    <2> HIDE DEF h
    <2>2. Entry("commit", ts, {}, h) \in QEntry
      BY <1>2, <1>4, <2>1, EntryFacts
    <2>3. e.kind = "commit" /\ e.ts = ts
      BY DEF Entry
    <2> QED
      BY <2>2, <2>3
  <1> HIDE DEF e, h
  <1>6. \A t \in Txn : prepared[t].ts = 0
    BY UnresolvedFacts DEF StartCommit, OrderInv
  <1>7. \A i \in DOMAIN queue : queue[i].ts < ts
    BY <1>2, <1>3, AboveAll
  <1>8. EntryFits(e, prepared, lastAssigned', latest)
    BY <1>1, <1>2, <1>3, <1>5, <1>6 DEF EntryFits, Snaps, Resolves
  <1>9. ~Resolves(e)
    BY <1>5 DEF Resolves
  <1>10. issued' \subseteq Ts /\ bumping' \in BOOLEAN /\ barrierFloor' \in 0..MaxTs
    BY Types DEF StartCommit, OrderInv, TypeOK
  <1>11. UNCHANGED <<closed, latest, snap, repeatable, prepared, recovering,
                     stopped, durable, history>>
    BY DEF StartCommit
  <1>12. lastAssigned' \in 0..MaxTs /\ lastAssigned <= lastAssigned'
    <2>1. lastAssigned \in Nat
      BY Types DEF OrderInv
    <2> QED
      BY <1>1, <1>2, <1>3, <2>1
  <1> QED
    BY <1>1, <1>5, <1>7, <1>8, <1>9, <1>10, <1>11, <1>12, OrderAppend

\* The timestamp a replica delta gets is above everything, which leaves no
\* room below a prepared transaction.
LEMMA DeltaFacts ==
  ASSUME OrderInv, NEW origin \in Ts, ApplyDelta(origin)
  PROVE  \E ts \in Ts :
           /\ ts > latest /\ ts > lastAssigned
           /\ queue' = Append(queue, Entry("delta", ts, {}, BaseSnapshot \cup {ts}))
           /\ lastAssigned' = ts
           /\ \A t \in Txn : prepared[t].ts = 0
  <1> DEFINE S == {origin, latest + 1, lastAssigned + 1}
             ts == Max(S)
  <1>1. /\ lastAssigned \in 0..MaxTs /\ latest \in 0..MaxTs
        /\ lastAssigned \in Nat /\ latest \in Nat /\ MaxTs \in Nat
    BY Types DEF OrderInv
  <1>2. S \in SUBSET (0..(MaxTs + 1)) /\ S # {}
    BY <1>1 DEF Ts
  <1>3. ts \in S /\ \A y \in S : y <= ts
    <2> HIDE DEF S
    <2> QED
      BY <1>1, <1>2, MaxOfBounded
  <1>4. latest + 1 <= ts /\ lastAssigned + 1 <= ts
    BY <1>3
  <1>5. /\ ts \in Ts
        /\ \A p \in PreparedTs : ts < p
        /\ queue' = Append(queue, Entry("delta", ts, {}, BaseSnapshot \cup {ts}))
        /\ lastAssigned' = ts
    BY DEF ApplyDelta, Enqueue
  <1> HIDE DEF ts
  <1>6. ts \in Nat
    BY <1>1, <1>5 DEF Ts
  <1>7. ts > latest /\ ts > lastAssigned
    BY <1>1, <1>4, <1>6
  <1>8. \A t \in Txn : prepared[t].ts < ts
    BY <1>6, <1>7, AboveAll
  <1>9. \A t \in Txn : prepared[t].ts = 0
    <2> SUFFICES ASSUME NEW t \in Txn, prepared[t].ts # 0 PROVE FALSE
      OBVIOUS
    <2>1. prepared[t].ts \in PreparedTs
      BY UnresolvedFacts DEF OrderInv
    <2>2. prepared[t].ts \in Nat
      BY Types DEF OrderInv
    <2> QED
      BY <1>5, <1>6, <1>8, <2>1, <2>2
  <1> QED
    BY <1>5, <1>7, <1>9

LEMMA ApplyDeltaOrder ==
  ASSUME OrderInv, NEW origin \in Ts, ApplyDelta(origin)
  PROVE  OrderInv'
  <1>1. PICK ts \in Ts :
           /\ ts > latest /\ ts > lastAssigned
           /\ queue' = Append(queue, Entry("delta", ts, {}, BaseSnapshot \cup {ts}))
           /\ lastAssigned' = ts
           /\ \A t \in Txn : prepared[t].ts = 0
    BY DeltaFacts
  <1> DEFINE h == BaseSnapshot \cup {ts}
             e == Entry("delta", ts, {}, h)
  <1>2. ts \in Nat /\ ts \in 0..MaxTs
    BY Bounds DEF Ts
  <1>3. queue' = Append(queue, e)
    BY <1>1
  <1>4. h \in SUBSET Ts
    BY BaseType DEF OrderInv
  <1>5. /\ e \in QEntry /\ e.kind = "delta" /\ e.ts = ts
    <2>1. "delta" \in Kinds /\ {} \in SUBSET Txn
      BY DEF Kinds
    <2> HIDE DEF h
    <2> QED
      BY <1>2, <1>4, <2>1, EntryFacts
  <1> HIDE DEF e, h
  <1>6. \A i \in DOMAIN queue : queue[i].ts < ts
    BY <1>1, <1>2, AboveAll
  <1>7. EntryFits(e, prepared, lastAssigned', latest)
    BY <1>1, <1>2, <1>5 DEF EntryFits, Snaps, Resolves
  <1>8. ~Resolves(e)
    BY <1>5 DEF Resolves
  <1>9. issued' \subseteq Ts /\ bumping' \in BOOLEAN /\ barrierFloor' \in 0..MaxTs
    BY Types DEF ApplyDelta, OrderInv, TypeOK
  <1>10. Running /\ UNCHANGED <<closed, latest, snap, repeatable, prepared, recovering,
                                stopped, durable, history>>
    BY DEF ApplyDelta
  <1>11. lastAssigned' \in 0..MaxTs /\ lastAssigned <= lastAssigned'
    <2>1. lastAssigned \in Nat
      BY Types DEF OrderInv
    <2> QED
      BY <1>1, <1>2, <2>1
  <1> QED
    BY <1>3, <1>5, <1>6, <1>7, <1>8, <1>9, <1>10, <1>11, OrderAppend

\* The entry that resolves a transaction, and which is the only one.
LEMMA ResolverOrder ==
  ASSUME OrderInv, NEW t \in Txn, Running, prepared[t].ts # 0,
         ~InFlight(t, "prepared"), ~InFlight(t, "rollback"),
         NEW e \in QEntry, Resolves(e), e.ts = prepared[t].ts, e.txn = {t},
         e.kind = "prepared" => \A u \in Txn : prepared[u].ts # 0 => e.ts <= prepared[u].ts,
         queue' = Append(queue, e),
         UNCHANGED <<lastAssigned, barrierFloor, closed, latest, snap, repeatable,
                     prepared, bumping, recovering, stopped, durable, issued, history>>
  PROVE  OrderInv'
  <1>1. lastAssigned \in 0..MaxTs /\ barrierFloor \in 0..MaxTs /\ lastAssigned \in Nat
    BY Types DEF OrderInv
  <1>2. e.ts <= lastAssigned
    BY DEF OrderInv, PrepFits
  <1>3. ~Snaps(e)
    BY DEF Resolves, Snaps
  <1>4. EntryFits(e, prepared, lastAssigned', latest)
    BY <1>2, <1>3 DEF EntryFits
  <1>5. \A i \in DOMAIN queue : Resolves(queue[i]) => queue[i].txn # e.txn
    BY DEF Resolves, InFlight
  <1>6. bumping' \in BOOLEAN /\ issued' \subseteq Ts
    BY DEF OrderInv, TypeOK
  <1> QED
    BY <1>1, <1>3, <1>4, <1>5, <1>6, OrderAppend

LEMMA StartCommitPreparedOrder ==
  ASSUME OrderInv, NEW t \in Txn, StartCommitPrepared(t)
  PROVE  OrderInv'
  <1> DEFINE e == Entry("prepared", prepared[t].ts, {t}, prepared[t].holds)
  <1>1. prepared[t].ts # 0 /\ prepared[t].ts = Min(PreparedTs)
    BY DEF StartCommitPrepared, MayCommit
  <1>2. prepared[t].ts \in 0..MaxTs /\ prepared[t].holds \in SUBSET Ts
    BY Types DEF OrderInv, Prepares
  <1>3. e \in QEntry /\ e.kind = "prepared" /\ e.ts = prepared[t].ts /\ e.txn = {t}
    <2>1. "prepared" \in Kinds /\ {t} \in SUBSET Txn
      BY DEF Kinds
    <2> QED
      BY <1>2, <2>1, EntryFacts
  <1>4. queue' = Append(queue, e)
    BY DEF StartCommitPrepared, Enqueue
  <1> HIDE DEF e
  <1>5. \A u \in Txn : prepared[u].ts # 0 => e.ts <= prepared[u].ts
    BY <1>1, <1>3, UnresolvedFacts DEF OrderInv
  <1>6. Resolves(e)
    BY <1>3 DEF Resolves
  <1> QED
    BY <1>1, <1>3, <1>4, <1>5, <1>6, ResolverOrder DEF StartCommitPrepared

LEMMA StartRollbackPreparedOrder ==
  ASSUME OrderInv, NEW t \in Txn, StartRollbackPrepared(t)
  PROVE  OrderInv'
  <1> DEFINE e == Entry("rollback", prepared[t].ts, {t}, {})
  <1>1. prepared[t].ts # 0
    BY DEF StartRollbackPrepared
  <1>2. prepared[t].ts \in 0..MaxTs
    BY Types DEF OrderInv
  <1>3. e \in QEntry /\ e.kind = "rollback" /\ e.ts = prepared[t].ts /\ e.txn = {t}
    <2>1. "rollback" \in Kinds /\ {t} \in SUBSET Txn /\ {} \in SUBSET Ts
      BY DEF Kinds
    <2> QED
      BY <1>2, <2>1, EntryFacts
  <1>4. queue' = Append(queue, e)
    BY DEF StartRollbackPrepared, Enqueue
  <1> HIDE DEF e
  <1>5. Resolves(e) /\ e.kind # "prepared"
    BY <1>3 DEF Resolves
  <1> QED
    BY <1>1, <1>3, <1>4, <1>5, ResolverOrder DEF StartRollbackPrepared

\* The timestamp of a bump or a heartbeat: nothing later is at or below it.
LEMMA TakeFacts ==
  ASSUME OrderInv, NEW ts \in 0..MaxTs, TakeMaxRepeatable(ts)
  PROVE  /\ lastAssigned' \in 0..MaxTs /\ lastAssigned <= lastAssigned'
         /\ issued' \subseteq Ts
         /\ ts <= lastAssigned' \/ ts <= latest
  <1>1. /\ lastAssigned \in 0..MaxTs /\ lastAssigned \in Nat /\ latest \in Nat
        /\ ts \in Nat /\ issued \subseteq Ts /\ repeatable <= latest
        /\ \A i \in DOMAIN queue : queue[i].ts \in Nat
    <2>1. issued \subseteq Ts /\ repeatable <= latest
      BY DEF OrderInv, TypeOK
    <2> QED
      BY <2>1, Types, Bounds DEF OrderInv
  <1>2. /\ NextMaxRepeatable(ts)
        /\ lastAssigned' = IF TakesMaintenanceTs THEN ts ELSE lastAssigned
        /\ issued' = IF TakesMaintenanceTs THEN issued \cup {ts} ELSE issued
    BY DEF TakeMaxRepeatable
  <1>3. CASE Unresolved # {}
    <2>1. ts = repeatable
      BY <1>2, <1>3 DEF NextMaxRepeatable
    <2>2. lastAssigned' = lastAssigned /\ issued' = issued
      BY <1>2, <1>3 DEF TakesMaintenanceTs
    <2> QED
      BY <1>1, <2>1, <2>2
  <1>4. CASE Unresolved = {} /\ Pending # {}
    <2>1. ts = Min(PendingTs) - 1
      BY <1>2, <1>4 DEF NextMaxRepeatable
    <2>2. lastAssigned' = lastAssigned /\ issued' = issued
      BY <1>2, <1>4 DEF TakesMaintenanceTs
    <2>3. \A i \in Pending : i \in DOMAIN queue
      BY DEF Pending
    <2>4. PendingTs \in SUBSET Nat /\ PendingTs # {}
      BY <1>1, <1>4, <2>3 DEF PendingTs
    <2>5. Min(PendingTs) \in PendingTs
      BY <2>4, MinOfNaturals
    <2>6. PICK i \in DOMAIN queue : queue[i].ts = Min(PendingTs)
      BY <2>3, <2>5 DEF PendingTs
    <2>7. queue[i].ts <= lastAssigned \/ queue[i].ts <= latest
      BY DEF OrderInv, QueueFits, EntryFits
    <2> QED
      BY <1>1, <2>1, <2>2, <2>6, <2>7
  <1>5. CASE Unresolved = {} /\ Pending = {}
    <2>1. ts \in Ts /\ NextTs(ts, LocalCommitFloor)
      BY <1>2, <1>5 DEF NextMaxRepeatable
    <2>2. lastAssigned' = ts /\ issued' = issued \cup {ts}
      BY <1>2, <1>5 DEF TakesMaintenanceTs
    <2>3. ts > lastAssigned
      BY <1>1, <2>1, FloorFacts DEF NextTs, OrderInv
    <2> QED
      BY <1>1, <2>1, <2>2, <2>3
  <1> QED
    BY <1>3, <1>4, <1>5

LEMMA BumpOrder ==
  ASSUME OrderInv, NEW ts \in 0..MaxTs, Bump(ts)
  PROVE  OrderInv'
  <1> DEFINE e == Entry("bump", ts, {}, {})
  <1>1. Running /\ queue' = Append(queue, e) /\ TakeMaxRepeatable(ts) /\ bumping' = TRUE
    BY DEF Bump, Enqueue
  <1>2. e \in QEntry /\ e.kind = "bump" /\ e.ts = ts
    <2>1. "bump" \in Kinds /\ {} \in SUBSET Txn /\ {} \in SUBSET Ts
      BY DEF Kinds
    <2> QED
      BY <2>1, EntryFacts
  <1> HIDE DEF e
  <1>3. /\ lastAssigned' \in 0..MaxTs /\ lastAssigned <= lastAssigned'
        /\ issued' \subseteq Ts
        /\ ts <= lastAssigned' \/ ts <= latest
    BY <1>1, TakeFacts
  <1>4. EntryFits(e, prepared, lastAssigned', latest) /\ ~Snaps(e) /\ ~Resolves(e)
    BY <1>2, <1>3 DEF EntryFits, Snaps, Resolves
  <1>5. barrierFloor' \in 0..MaxTs /\ bumping' \in BOOLEAN
    BY <1>1, Types DEF Bump, OrderInv
  <1>6. UNCHANGED <<closed, latest, snap, repeatable, prepared, recovering,
                     stopped, durable, history>>
    BY DEF Bump, history
  <1> QED
    BY <1>1, <1>2, <1>3, <1>4, <1>5, <1>6, OrderAppend

\* What a latest read barrier has to reach.
LEMMA CloseFacts ==
  ASSUME TypeOK, NEW ts \in Nat, CloseMinimum <= ts
  PROVE  lastAssigned <= ts /\ latest <= ts
  <1> DEFINE S == {lastAssigned, latest} \cup QueuedTs \cup PreparedTs
  <1>1. /\ lastAssigned \in 0..MaxTs /\ latest \in 0..MaxTs /\ MaxTs \in Nat
        /\ lastAssigned \in Nat /\ latest \in Nat
    BY Types
  <1>2. QueuedTs \in SUBSET (0..MaxTs)
    <2>1. \A i \in Queued : queue[i].ts \in 0..MaxTs
      BY Types, QueuedFacts
    <2> QED
      BY <2>1 DEF QueuedTs
  <1>3. S \in SUBSET (0..MaxTs) /\ S # {}
    BY <1>1, <1>2, UnresolvedFacts
  <1>4. lastAssigned \in S /\ latest \in S
    OBVIOUS
  <1>5. CloseMinimum = Max(S)
    BY DEF CloseMinimum
  <1> HIDE DEF S
  <1>6. Max(S) \in S /\ \A y \in S : y <= Max(S)
    BY <1>1, <1>3, MaxOfBounded
  <1>7. Max(S) \in Nat
    <2>1. Max(S) \in 0..MaxTs
      BY <1>3, <1>6
    <2> QED
      BY <1>1, <2>1
  <1> QED
    BY <1>1, <1>4, <1>5, <1>6, <1>7

LEMMA CloseWithBarrierOrder ==
  ASSUME OrderInv, NEW ts \in Ts, NEW include \in BOOLEAN, CloseWithBarrier(ts, include)
  PROVE  OrderInv'
  <1> DEFINE e == Entry("barrier", ts, {}, {})
  <1>1. /\ Running /\ queue' = Append(queue, e)
        /\ lastAssigned' = ts /\ barrierFloor' = ts
    BY DEF CloseWithBarrier, Enqueue
  <1>2. ts \in 0..MaxTs /\ ts \in Nat /\ ts # 0
    BY Bounds DEF Ts
  <1>3. e \in QEntry /\ e.kind = "barrier" /\ e.ts = ts
    <2>1. "barrier" \in Kinds /\ {} \in SUBSET Txn /\ {} \in SUBSET Ts
      BY DEF Kinds
    <2> QED
      BY <1>2, <2>1, EntryFacts
  <1> HIDE DEF e
  <1>4. lastAssigned <= ts
    BY <1>2, CloseFacts DEF CloseWithBarrier, NeedsBarrier, OrderInv
  <1>5. EntryFits(e, prepared, lastAssigned', latest) /\ ~Snaps(e) /\ ~Resolves(e)
    BY <1>1, <1>2, <1>3 DEF EntryFits, Snaps, Resolves
  <1>6. bumping' \in BOOLEAN /\ issued' \subseteq Ts
    BY DEF CloseWithBarrier, OrderInv, TypeOK
  <1>7. UNCHANGED <<closed, latest, snap, repeatable, prepared, recovering,
                     stopped, durable, history>>
    BY DEF CloseWithBarrier
  <1> QED
    BY <1>1, <1>2, <1>3, <1>4, <1>5, <1>6, <1>7, OrderAppend

----------------------------------------------------------------------------
(* Order: the steps that leave the order of the queue alone. *)

LEMMA OrderQuiet ==
  ASSUME OrderInv, TypeOK', Similar(queue, queue'), lastAssigned <= lastAssigned',
         recovering # {} => queue' = <<>>, AnswersFit',
         UNCHANGED <<latest, repeatable, prepared, recovering, stopped>>
  PROVE  OrderInv'
  <1>1. /\ prepared \in Prepares /\ lastAssigned \in Nat /\ latest \in Nat
        /\ queue \in Seq(QEntry)
    BY Types DEF OrderInv
  <1>2. lastAssigned' \in Nat
    BY Bounds DEF TypeOK
  <1>3. QueueFits(queue', prepared, lastAssigned, latest)
    BY FitsSimilar DEF OrderInv
  <1>4. QueueFits(queue', prepared, lastAssigned', latest)
    <2>1. \A i \in DOMAIN queue' : queue'[i].ts \in Nat
      BY <1>1, Types DEF OrderInv, Similar
    <2>2. ASSUME NEW i \in DOMAIN queue'
          PROVE  EntryFits(queue'[i], prepared, lastAssigned', latest)
      <3>1. EntryFits(queue'[i], prepared, lastAssigned, latest)
        BY <1>3 DEF QueueFits
      <3>2. queue'[i].ts <= lastAssigned' \/ queue'[i].ts <= latest
        BY <1>1, <1>2, <2>1, <3>1 DEF EntryFits
      <3> QED
        BY <3>1, <3>2 DEF EntryFits
    <2> QED
      BY <1>3, <2>2 DEF QueueFits
  <1>5. PrepFits(prepared, lastAssigned', latest)
    BY <1>1, <1>2, PrepLater DEF OrderInv
  <1> QED
    BY <1>4, <1>5 DEF OrderInv, NeverTooLate

LEMMA SimilarSame ==
  ASSUME NEW q
  PROVE  Similar(q, q)
  BY DEF Similar

LEMMA HeartbeatOrder ==
  ASSUME OrderInv, NEW ts \in 0..MaxTs, Heartbeat(ts)
  PROVE  OrderInv'
  <1>1. lastAssigned' \in 0..MaxTs /\ lastAssigned <= lastAssigned' /\ issued' \subseteq Ts
    BY TakeFacts DEF Heartbeat
  <1>2. UNCHANGED <<barrierFloor, closed, latest, snap, repeatable, queue,
                    prepared, bumping, recovering, stopped, durable, history>>
    BY DEF Heartbeat
  <1>3. TypeOK'
    <2>1. {lastAssigned', barrierFloor', latest', repeatable', global', answered'}
            \subseteq 0..MaxTs
      BY <1>1, <1>2, Types DEF OrderInv, durable, history
    <2> QED
      BY <1>1, <1>2, <2>1 DEF OrderInv, TypeOK, durable, history
  <1>4. AnswersFit'
    BY <1>2 DEF OrderInv, AnswersFit, history
  <1> QED
    BY <1>1, <1>2, <1>3, <1>4, SimilarSame, OrderQuiet DEF OrderInv

LEMMA RememberFacts ==
  ASSUME NEW ts
  PROVE  Remember(ts) \subseteq closed \cup {ts}
  BY DEF Remember

LEMMA AnsweredFacts ==
  ASSUME TypeOK, NEW ts \in 0..MaxTs
  PROVE  /\ Max({answered, ts}) \in 0..MaxTs
         /\ Max({answered, ts}) = answered \/ Max({answered, ts}) = ts
  <1>1. answered \in 0..MaxTs /\ MaxTs \in Nat
    BY Types
  <1>2. {answered, ts} \in SUBSET (0..MaxTs) /\ {answered, ts} # {}
    BY <1>1
  <1>3. Max({answered, ts}) \in {answered, ts}
    BY <1>1, <1>2, MaxOfBounded
  <1> QED
    BY <1>1, <1>3

LEMMA CloseAtOnceOrder ==
  ASSUME OrderInv, NEW ts \in Ts, NEW include \in BOOLEAN, CloseAtOnce(ts, include)
  PROVE  OrderInv'
  <1>1. /\ ClosesAtOnce(ts, include) /\ closed' = Remember(ts)
        /\ answered' = Max({answered, ts})
    BY DEF CloseAtOnce
  <1>2. ts \in 0..MaxTs
    BY Bounds DEF Ts
  <1>3. /\ answered' \in 0..MaxTs
        /\ answered' = answered \/ answered' = ts
    BY <1>1, <1>2, AnsweredFacts DEF OrderInv
  <1>4. closed' \subseteq closed \cup {ts}
    BY <1>1, RememberFacts
  <1>5. UNCHANGED <<lastAssigned, barrierFloor, latest, snap, repeatable, queue,
                    prepared, bumping, recovering, stopped, durable, issued,
                    carried, alone, rejects, restarts>>
    BY DEF CloseAtOnce
  <1>6. TypeOK'
    <2>1. {lastAssigned', barrierFloor', latest', repeatable', global', answered'}
            \subseteq 0..MaxTs
      BY <1>3, <1>5, Types DEF OrderInv, durable
    <2>2. closed' \subseteq Ts
      BY <1>4 DEF OrderInv, TypeOK
    <2> QED
      BY <1>5, <2>1, <2>2 DEF OrderInv, TypeOK, durable
  <1>7. ts \in closed \/ ts <= latest
    BY <1>1 DEF ClosesAtOnce
  <1>8. AnswersFit'
    BY <1>3, <1>4, <1>5, <1>7 DEF OrderInv, AnswersFit
  <1>9. lastAssigned <= lastAssigned'
    BY <1>5, Types DEF OrderInv
  <1> QED
    BY <1>5, <1>6, <1>8, <1>9, SimilarSame, OrderQuiet DEF OrderInv

\* A write ends in one way or the other.
LEMMA StateChange ==
  ASSUME TypeOK, NEW i \in DOMAIN queue, NEW s \in {"flying", "written", "rejected"},
         queue' = [queue EXCEPT ![i].state = s]
  PROVE  /\ queue' \in Seq(QEntry) /\ Similar(queue, queue')
         /\ DOMAIN queue' = DOMAIN queue
         /\ \A j \in DOMAIN queue : j # i => queue'[j] = queue[j]
         /\ queue'[i].kind = queue[i].kind /\ queue'[i].ts = queue[i].ts
         /\ queue'[i].txn = queue[i].txn /\ queue'[i].holds = queue[i].holds
         /\ queue'[i].queued = queue[i].queued /\ queue'[i].state = s
  <1> DEFINE e == [queue[i] EXCEPT !.state = s]
  <1>1. queue \in Seq(QEntry) /\ queue[i] \in QEntry
    BY Types
  <1>2. /\ e \in QEntry /\ e.kind = queue[i].kind /\ e.ts = queue[i].ts
        /\ e.txn = queue[i].txn /\ e.holds = queue[i].holds
        /\ e.queued = queue[i].queued /\ e.state = s
    BY <1>1 DEF QEntry
  <1>3. queue' = [queue EXCEPT ![i] = e]
    OBVIOUS
  <1> HIDE DEF e
  <1>4. DOMAIN queue = 1..Len(queue) /\ Len(queue) \in Nat
    BY <1>1
  <1>5. queue' \in Seq(QEntry) /\ DOMAIN queue' = DOMAIN queue
    BY <1>1, <1>2, <1>3, <1>4
  <1>6. queue'[i] = e /\ \A j \in DOMAIN queue : j # i => queue'[j] = queue[j]
    BY <1>3
  <1>7. Similar(queue, queue')
    BY <1>2, <1>5, <1>6 DEF Similar
  <1> QED
    BY <1>2, <1>5, <1>6, <1>7

\* While a recovery is going on nothing is in flight.
LEMMA NoRecovery ==
  ASSUME OrderInv, NEW i \in DOMAIN queue
  PROVE  recovering = {}
  BY DEF OrderInv

LEMMA PersistOrder ==
  ASSUME OrderInv, RedoFits, NEW i \in DOMAIN queue, Persist(i)
  PROVE  OrderInv'
  <1>1. /\ queue' = [queue EXCEPT ![i].state = "written"]
        /\ UNCHANGED <<lastAssigned, barrierFloor, closed, latest, snap, repeatable,
                       prepared, bumping, recovering, stopped, redo, issued, answered,
                       alone, rejects, restarts>>
    BY DEF Persist
  <1>2. queue' \in Seq(QEntry) /\ Similar(queue, queue')
    BY <1>1, StateChange DEF OrderInv
  <1>3. queue[i] \in QEntry /\ queue[i].ts \in 0..MaxTs /\ global \in 0..MaxTs
    BY Types DEF OrderInv
  <1>4. queue[i].kind \in {"commit", "delta", "prepared"} => queue[i].ts \in Ts
    <2>1. EntryFits(queue[i], prepared, lastAssigned, latest)
      BY DEF OrderInv, QueueFits
    <2>2. latest \in Nat /\ MaxTs \in Nat
      BY Types DEF OrderInv
    <2>3. queue[i].kind \in {"commit", "delta", "prepared"} => queue[i].ts # 0
      BY <1>3, <2>1, <2>2 DEF EntryFits, Snaps, Resolves
    <2> QED
      BY <1>3, <2>2, <2>3 DEF Ts
  <1>5. disk' \subseteq Ts
    BY <1>4 DEF Persist, OrderInv, TypeOK
  <1>6. global' \in 0..MaxTs
    BY <1>3 DEF Persist
  <1>7. carried' \subseteq Ts \X Ts
    <2>1. carried \subseteq Ts \X Ts
      BY DEF OrderInv, TypeOK
    <2>2. CASE queue[i].kind # "prepared"
      BY <2>1, <2>2 DEF Persist
    <2>3. CASE queue[i].kind = "prepared"
      <3>1. carried' = carried \cup {<<redo[t], queue[i].ts>> : t \in queue[i].txn}
        BY <2>3 DEF Persist
      <3>2. PICK t \in Txn : queue[i].txn = {t} /\ prepared[t].ts # 0
        BY <2>3 DEF OrderInv, QueueFits, EntryFits, Resolves
      <3>3. redo[t] \in Ts
        <4>1. redo[t] \in 0..MaxTs /\ redo[t] # 0
          BY <3>2 DEF OrderInv, TypeOK, RedoFits
        <4> QED
          BY <4>1, Bounds DEF Ts
      <3> QED
        BY <1>4, <2>1, <2>3, <3>1, <3>2, <3>3
    <2> QED
      BY <2>2, <2>3
  <1>8. TypeOK'
    <2>1. {lastAssigned', barrierFloor', latest', repeatable', global', answered'}
            \subseteq 0..MaxTs
      BY <1>1, <1>6, Types DEF OrderInv
    <2> QED
      BY <1>1, <1>2, <1>5, <1>7, <2>1 DEF OrderInv, TypeOK, QEntry
  <1>9. AnswersFit'
    BY <1>1 DEF OrderInv, AnswersFit
  <1>10. lastAssigned <= lastAssigned'
    BY <1>1, Types DEF OrderInv
  <1> QED
    BY <1>1, <1>2, <1>8, <1>9, <1>10, NoRecovery, OrderQuiet

LEMMA RejectOrder ==
  ASSUME OrderInv, NEW i \in DOMAIN queue, Reject(i)
  PROVE  OrderInv'
  <1>1. /\ queue' = [queue EXCEPT ![i].state = "rejected"]
        /\ UNCHANGED <<lastAssigned, barrierFloor, closed, latest, snap, repeatable,
                       prepared, bumping, recovering, stopped, durable, issued,
                       answered, carried, alone, restarts>>
        /\ rejects < MaxRejects /\ rejects' = rejects + 1
    BY DEF Reject
  <1>2. queue' \in Seq(QEntry) /\ Similar(queue, queue')
    BY <1>1, StateChange DEF OrderInv
  <1>3. TypeOK'
    <2>1. {lastAssigned', barrierFloor', latest', repeatable', global', answered'}
            \subseteq 0..MaxTs
      BY <1>1, Types DEF OrderInv, durable
    <2>2. rejects' \in 0..MaxRejects
      BY <1>1, PipelineAssumption DEF OrderInv, TypeOK
    <2> QED
      BY <1>1, <1>2, <2>1, <2>2 DEF OrderInv, TypeOK, QEntry, durable
  <1>4. AnswersFit'
    BY <1>1 DEF OrderInv, AnswersFit
  <1>5. lastAssigned <= lastAssigned'
    BY <1>1, Types DEF OrderInv
  <1> QED
    BY <1>1, <1>2, <1>3, <1>4, <1>5, NoRecovery, OrderQuiet

----------------------------------------------------------------------------
(* Order: a transaction is prepared. *)

\* A live prepare is above the latest snapshot and above what is queued, and
\* no prepared transaction is being written.
LEMMA PrepareFacts ==
  ASSUME OrderInv, NEW t \in Txn, NEW ts \in Ts, Prepare(t, ts)
  PROVE  /\ ts \in Nat /\ ts # 0 /\ latest < ts
         /\ \A i \in DOMAIN queue : /\ queue[i].kind # "prepared" /\ queue[i].kind # "commit"
                                    /\ Snaps(queue[i]) => queue[i].ts < ts
         /\ \A u \in Txn : prepared[u].ts # 0 => prepared[u].ts # ts
         /\ prepared[t].ts = 0
  <1> DEFINE S == {barrierFloor, latest} \cup QueuedTs
  <1>1. /\ barrierFloor \in 0..MaxTs /\ latest \in 0..MaxTs /\ MaxTs \in Nat
        /\ latest \in Nat
        /\ \A i \in DOMAIN queue : queue[i].ts \in 0..MaxTs /\ queue[i].ts \in Nat
    BY Types DEF OrderInv
  <1>2. QueuedTs \in SUBSET (0..MaxTs)
    <2>1. \A i \in Queued : queue[i].ts \in 0..MaxTs
      BY <1>1, QueuedFacts DEF OrderInv
    <2> QED
      BY <2>1 DEF QueuedTs
  <1>3. S \in SUBSET (0..MaxTs) /\ S # {}
    BY <1>1, <1>2
  <1>4. latest \in S /\ \A i \in DOMAIN queue : Snaps(queue[i]) => queue[i].ts \in S
    BY QueuedFacts DEF QueuedTs, OrderInv
  <1>5. ts >= Max(S) + 1
    BY DEF Prepare, ExplicitPrepareCommitFloor
  <1> HIDE DEF S
  <1>6. Max(S) \in 0..MaxTs /\ \A y \in S : y <= Max(S)
    <2>1. Max(S) \in S /\ \A y \in S : y <= Max(S)
      BY <1>1, <1>3, MaxOfBounded
    <2> QED
      BY <1>3, <2>1
  <1>7. ts \in Nat /\ ts # 0
    BY <1>1 DEF Ts
  <1>8. Max(S) \in Nat /\ latest < ts
    BY <1>1, <1>4, <1>5, <1>6, <1>7
  <1>9. \A i \in DOMAIN queue : Snaps(queue[i]) => queue[i].ts < ts
    BY <1>1, <1>4, <1>5, <1>6, <1>7, <1>8
  <1>10. \A i \in DOMAIN queue : queue[i].kind # "prepared" /\ queue[i].kind # "commit"
    <2> SUFFICES ASSUME NEW i \in DOMAIN queue PROVE queue[i].kind # "prepared" /\ queue[i].kind # "commit"
      OBVIOUS
    <2>1. Pending = {} /\ \A u \in Txn : ~InFlight(u, "prepared")
      BY DEF Prepare, PrepareBlocked
    <2>2. queue[i].kind # "commit"
      BY <2>1 DEF Pending
    <2>3. queue[i].kind = "prepared" => \E u \in Txn : queue[i].txn = {u}
      BY DEF OrderInv, QueueFits, EntryFits, Resolves
    <2> QED
      BY <2>1, <2>2, <2>3 DEF InFlight
  <1>11. \A u \in Txn : prepared[u].ts # 0 => prepared[u].ts # ts
    BY UnresolvedFacts DEF Prepare, OrderInv
  <1> QED
    BY <1>7, <1>8, <1>9, <1>10, <1>11 DEF Prepare

\* Staging a transaction t at ts, of a prepare or of a recovery.
LEMMA OrderStage ==
  ASSUME OrderInv, NEW t \in Txn, NEW ts \in 0..MaxTs, NEW h \in SUBSET Ts,
         prepared' = [prepared EXCEPT ![t] = [ts |-> ts, holds |-> h]],
         lastAssigned' = Max({lastAssigned, ts}),
         queue' = queue, latest' = latest,
         latest < ts, \A u \in Txn : prepared[u].ts # 0 => prepared[u].ts # ts,
         \A i \in DOMAIN queue : /\ queue[i].kind # "prepared"
                                 /\ Snaps(queue[i]) => queue[i].ts < ts
                                 /\ Resolves(queue[i]) => queue[i].txn # {t}
  PROVE  /\ QueueFits(queue', prepared', lastAssigned', latest')
         /\ PrepFits(prepared', lastAssigned', latest')
         /\ lastAssigned' \in 0..MaxTs /\ prepared' \in Prepares
         /\ prepared'[t].ts = ts /\ prepared'[t].holds = h
         /\ \A u \in Txn : u # t => prepared'[u] = prepared[u]
  <1>1. /\ lastAssigned \in 0..MaxTs /\ lastAssigned \in Nat /\ latest \in Nat
        /\ MaxTs \in Nat /\ ts \in Nat /\ prepared \in Prepares
        /\ \A u \in Txn : prepared[u].ts \in Nat
        /\ \A i \in DOMAIN queue : queue[i].ts \in Nat
    BY Types DEF OrderInv
  <1>2. lastAssigned' \in 0..MaxTs /\ lastAssigned <= lastAssigned' /\ ts <= lastAssigned'
    <2> DEFINE S == {lastAssigned, ts}
    <2>1. S \in SUBSET (0..MaxTs) /\ S # {}
      BY <1>1
    <2>2. lastAssigned \in S /\ ts \in S /\ lastAssigned' = Max(S)
      OBVIOUS
    <2> HIDE DEF S
    <2>3. Max(S) \in S /\ \A y \in S : y <= Max(S)
      BY <1>1, <2>1, MaxOfBounded
    <2> QED
      BY <2>1, <2>2, <2>3
  <1>3. lastAssigned' \in Nat
    BY <1>1, <1>2
  <1> DEFINE r == [ts |-> ts, holds |-> h]
  <1>4. r.ts = ts /\ r.holds = h /\ r \in [ts : 0..MaxTs, holds : SUBSET Ts]
    OBVIOUS
  <1>5. prepared' = [prepared EXCEPT ![t] = r]
    OBVIOUS
  <1> HIDE DEF r
  <1>6. /\ prepared' \in Prepares
        /\ prepared'[t].ts = ts /\ prepared'[t].holds = h
        /\ \A u \in Txn : u # t => prepared'[u] = prepared[u]
    BY <1>1, <1>4, <1>5 DEF Prepares
  <1>7. PrepFits(prepared', lastAssigned', latest)
    <2>1. \A u \in Txn : u # t /\ prepared'[u].ts # 0 =>
            latest < prepared'[u].ts /\ prepared'[u].ts <= lastAssigned'
      BY <1>1, <1>2, <1>3, <1>6 DEF OrderInv, PrepFits
    <2>2. latest < prepared'[t].ts /\ prepared'[t].ts <= lastAssigned'
      BY <1>2, <1>6
    <2>3. ASSUME NEW u \in Txn, NEW v \in Txn,
                 prepared'[u].ts # 0, prepared'[u].ts = prepared'[v].ts
          PROVE  u = v
      BY <1>6, <2>3 DEF OrderInv, PrepFits
    <2> QED
      BY <2>1, <2>2, <2>3 DEF PrepFits
  <1>8. ASSUME NEW i \in DOMAIN queue
        PROVE  EntryFits(queue[i], prepared', lastAssigned', latest)
    <2>1. EntryFits(queue[i], prepared, lastAssigned, latest)
      BY DEF OrderInv, QueueFits
    <2>2. queue[i].ts <= lastAssigned' \/ queue[i].ts <= latest
      BY <1>1, <1>2, <1>3, <2>1 DEF EntryFits
    <2>3. Snaps(queue[i]) => /\ latest < queue[i].ts
                             /\ \A u \in Txn : prepared'[u].ts # 0 => queue[i].ts < prepared'[u].ts
      BY <1>6, <2>1 DEF EntryFits
    <2>4. Resolves(queue[i]) => \E u \in Txn : /\ queue[i].txn = {u}
                                               /\ prepared'[u].ts = queue[i].ts /\ queue[i].ts # 0
      BY <1>6, <2>1 DEF EntryFits
    <2> QED
      BY <2>1, <2>2, <2>3, <2>4 DEF EntryFits
  <1>9. QueueFits(queue, prepared', lastAssigned', latest)
    BY <1>8 DEF OrderInv, QueueFits
  <1> QED
    BY <1>2, <1>6, <1>7, <1>9

LEMMA PrepareStages ==
  ASSUME OrderInv, NEW t \in Txn, NEW ts \in Ts, Prepare(t, ts)
  PROVE  /\ QueueFits(queue', prepared', lastAssigned', latest')
         /\ PrepFits(prepared', lastAssigned', latest')
         /\ lastAssigned' \in 0..MaxTs /\ prepared' \in Prepares
         /\ prepared'[t].ts = ts /\ prepared'[t].holds = BaseSnapshot \cup {ts}
         /\ \A u \in Txn : u # t => prepared'[u] = prepared[u]
  <1>1. PICK h \in SUBSET Ts : h = BaseSnapshot \cup {ts}
    BY BaseType DEF OrderInv
  <1>2. /\ prepared' = [prepared EXCEPT ![t] = [ts |-> ts, holds |-> h]]
        /\ lastAssigned' = Max({lastAssigned, ts})
        /\ queue' = queue /\ latest' = latest
    BY <1>1 DEF Prepare
  <1>3. ts \in 0..MaxTs
    BY Bounds DEF Ts
  <1>4. /\ latest < ts /\ prepared[t].ts = 0
        /\ \A u \in Txn : prepared[u].ts # 0 => prepared[u].ts # ts
        /\ \A i \in DOMAIN queue : /\ queue[i].kind # "prepared"
                                   /\ Snaps(queue[i]) => queue[i].ts < ts
    BY PrepareFacts
  <1>5. \A i \in DOMAIN queue : /\ queue[i].kind # "prepared"
                                /\ Snaps(queue[i]) => queue[i].ts < ts
                                /\ Resolves(queue[i]) => queue[i].txn # {t}
    <2>1. \A i \in DOMAIN queue : Resolves(queue[i]) => queue[i].txn # {t}
      BY <1>4 DEF OrderInv, QueueFits, EntryFits
    <2> QED
      BY <1>4, <2>1
  <1>6. /\ QueueFits(queue', prepared', lastAssigned', latest')
        /\ PrepFits(prepared', lastAssigned', latest')
        /\ lastAssigned' \in 0..MaxTs /\ prepared' \in Prepares
        /\ prepared'[t].ts = ts /\ prepared'[t].holds = h
        /\ \A u \in Txn : u # t => prepared'[u] = prepared[u]
    BY <1>2, <1>3, <1>4, <1>5, OrderStage
  <1> QED
    BY <1>1, <1>6

LEMMA PrepareOrder ==
  ASSUME OrderInv, NEW t \in Txn, NEW ts \in Ts, Prepare(t, ts)
  PROVE  OrderInv'
  <1>1. /\ QueueFits(queue', prepared', lastAssigned', latest')
        /\ PrepFits(prepared', lastAssigned', latest')
        /\ lastAssigned' \in 0..MaxTs /\ prepared' \in Prepares
    BY PrepareStages
  <1>2. /\ UNCHANGED <<barrierFloor, closed, latest, snap, repeatable, queue,
                       bumping, recovering, stopped, global, disk, answered, carried,
                       rejects, restarts>>
        /\ redo' = [redo EXCEPT ![t] = ts] /\ issued' = issued \cup {ts}
        /\ alone' = (alone /\ Unresolved = {})
    BY DEF Prepare
  <1>3. TypeOK'
    <2>1. {lastAssigned', barrierFloor', latest', repeatable', global', answered'}
            \subseteq 0..MaxTs
      BY <1>1, <1>2, Types DEF OrderInv
    <2>2. redo' \in [Txn -> 0..MaxTs] /\ issued' \subseteq Ts
      BY <1>2, Bounds DEF OrderInv, TypeOK
    <2>3. alone' \in BOOLEAN
      BY <1>2
    <2> QED
      BY <1>1, <1>2, <2>1, <2>2, <2>3 DEF OrderInv, TypeOK, Prepares
  <1>4. AnswersFit' /\ NeverTooLate'
    BY <1>2 DEF OrderInv, AnswersFit, NeverTooLate
  <1>5. recovering' # {} => queue' = <<>>
    BY <1>2 DEF OrderInv
  <1>6. repeatable' <= latest'
    BY <1>2 DEF OrderInv
  <1> QED
    BY <1>1, <1>3, <1>4, <1>5, <1>6 DEF OrderInv

----------------------------------------------------------------------------
(* Order: restart and recovery. *)

LEMMA NoPrepareFacts ==
  /\ NoPrepare.ts = 0 /\ NoPrepare \in [ts : 0..MaxTs, holds : SUBSET Ts]
  BY Bounds DEF NoPrepare

LEMMA RestartFacts ==
  ASSUME TypeOK, NEW clock \in 0..MaxTs, Restart(clock)
  PROVE  /\ latest' \in 0..MaxTs
         /\ \A c \in disk : c <= latest'
         /\ \A t \in Txn : prepared'[t] = NoPrepare
         /\ prepared' \in Prepares /\ DOMAIN queue' = {}
  <1> DEFINE S == {clock, global} \cup disk
  <1>1. MaxTs \in Nat /\ global \in 0..MaxTs
    BY Types
  <1>2. disk \in SUBSET (0..MaxTs)
    BY Bounds DEF TypeOK
  <1>3. S \in SUBSET (0..MaxTs) /\ S # {} /\ disk \subseteq S
    BY <1>1, <1>2
  <1>4. latest' = Max(S)
    BY DEF Restart, IdleRepeatableTs
  <1> HIDE DEF S
  <1>5. Max(S) \in S /\ \A y \in S : y <= Max(S)
    BY <1>1, <1>3, MaxOfBounded
  <1>6. latest' \in 0..MaxTs /\ \A c \in disk : c <= latest'
    BY <1>3, <1>4, <1>5
  <1>7. prepared' = [t \in Txn |-> NoPrepare] /\ queue' = <<>>
    BY DEF Restart
  <1>8. prepared' \in Prepares /\ \A t \in Txn : prepared'[t] = NoPrepare
    BY <1>7, NoPrepareFacts DEF Prepares
  <1> QED
    BY <1>6, <1>7, <1>8

LEMMA RestartOrder ==
  ASSUME OrderInv, NEW clock \in 0..MaxTs, Restart(clock)
  PROVE  OrderInv'
  <1>1. /\ latest' \in 0..MaxTs
        /\ \A t \in Txn : prepared'[t] = NoPrepare
        /\ prepared' \in Prepares /\ DOMAIN queue' = {}
    BY RestartFacts DEF OrderInv
  <1>2. /\ restarts < MaxRestarts /\ restarts' = restarts + 1
        /\ repeatable' = latest' /\ global' = latest' /\ barrierFloor' = latest'
        /\ snap' = disk /\ lastAssigned' = 0 /\ closed' = {} /\ queue' = <<>>
        /\ bumping' = FALSE /\ stopped' = "no"
        /\ redo' = [t \in Txn |-> IF AlreadyCommitted(t) THEN 0 ELSE redo[t]]
        /\ recovering' = {t \in Txn : redo'[t] # 0}
        /\ UNCHANGED <<disk, issued, answered, carried, alone, rejects>>
    BY DEF Restart
  <1>3. TypeOK'
    <2>1. {lastAssigned', barrierFloor', latest', repeatable', global', answered'}
            \subseteq 0..MaxTs
      BY <1>1, <1>2, Types, Bounds DEF OrderInv
    <2>2. redo' \in [Txn -> 0..MaxTs]
      BY <1>2, Bounds DEF OrderInv, TypeOK
    <2>3. restarts' \in 0..MaxRestarts /\ restarts' # 0
      BY <1>2, PipelineAssumption DEF OrderInv, TypeOK
    <2>4. queue' \in Seq(QEntry)
      BY <1>2
    <2> QED
      BY <1>1, <1>2, <2>1, <2>2, <2>3, <2>4 DEF OrderInv, TypeOK, Prepares, QEntry
  <1>4. QueueFits(queue', prepared', lastAssigned', latest')
    BY <1>1 DEF QueueFits
  <1>5. PrepFits(prepared', lastAssigned', latest')
    BY <1>1, NoPrepareFacts DEF PrepFits
  <1>6. AnswersFit'
    <2>1. restarts' # 0
      BY <1>2 DEF OrderInv, TypeOK
    <2> QED
      BY <2>1 DEF AnswersFit
  <1>7. repeatable' <= latest' /\ NeverTooLate' /\ queue' = <<>>
    BY <1>1, <1>2, Bounds DEF NeverTooLate
  <1> QED
    BY <1>3, <1>4, <1>5, <1>6, <1>7 DEF OrderInv

\* A recovery stages a transaction above everything it has loaded and staged.
LEMMA RecoverFacts ==
  ASSUME OrderInv, NEW t \in Txn, Recover(t)
  PROVE  \E ts \in Ts :
           /\ ts \in Nat /\ latest < ts /\ redo[t] <= ts
           /\ \A u \in Txn : prepared[u].ts # 0 => prepared[u].ts < ts
           /\ prepared' = [prepared EXCEPT ![t] = [ts |-> ts, holds |-> snap \cup {ts}]]
           /\ lastAssigned' = Max({lastAssigned, ts})
  <1> DEFINE S == {latest} \cup PreparedTs
             f == Max(S) + 1
             R == {redo[t], f}
             ts == Max(R)
  <1>1. /\ latest \in 0..MaxTs /\ latest \in Nat /\ MaxTs \in Nat
        /\ \A u \in Txn : prepared[u].ts \in Nat
    BY Types DEF OrderInv
  <1>2. S \in SUBSET (0..MaxTs) /\ S # {} /\ latest \in S /\ PreparedTs \subseteq S
    BY <1>1, UnresolvedFacts DEF OrderInv
  <1>3. ReplayedPrepareCommitFloor = f
    BY DEF ReplayedPrepareCommitFloor
  <1>4. /\ ts \in Ts /\ lastAssigned' = Max({lastAssigned, ts})
        /\ prepared' = [prepared EXCEPT ![t] = [ts |-> ts, holds |-> snap \cup {ts}]]
    BY <1>3 DEF Recover
  <1> HIDE DEF S
  <1>5. Max(S) \in 0..MaxTs /\ \A y \in S : y <= Max(S)
    <2>1. Max(S) \in S /\ \A y \in S : y <= Max(S)
      BY <1>1, <1>2, MaxOfBounded
    <2> QED
      BY <1>2, <2>1
  <1>6. redo[t] \in 0..MaxTs
    BY DEF OrderInv, TypeOK
  <1>7. f \in 0..(MaxTs + 1) /\ f \in Nat /\ \A y \in S : y \in Nat /\ y < f
    BY <1>1, <1>2, <1>5
  <1> HIDE DEF f
  <1>8. R \in SUBSET (0..(MaxTs + 1)) /\ R # {} /\ redo[t] \in R /\ f \in R
    BY <1>1, <1>6, <1>7
  <1> HIDE DEF R
  <1>9. ts \in R /\ \A y \in R : y <= ts
    <2>1. MaxTs + 1 \in Nat
      BY <1>1
    <2>2. Max(R) \in R /\ \A y \in R : y <= Max(R)
      BY <1>8, <2>1, MaxOfBounded
    <2> QED
      BY <2>2
  <1> HIDE DEF ts
  <1>10. ts \in Nat /\ redo[t] <= ts /\ f <= ts
    <2>1. ts \in Ts
      BY <1>4
    <2>2. ts \in Nat
      BY <1>1, <2>1 DEF Ts
    <2> QED
      BY <1>8, <1>9, <2>2
  <1>11. \A y \in S : y < ts
    BY <1>7, <1>10
  <1>12. \A u \in Txn : prepared[u].ts # 0 => prepared[u].ts \in S
    BY <1>2, UnresolvedFacts DEF OrderInv
  <1> QED
    BY <1>2, <1>4, <1>10, <1>11, <1>12

LEMMA RecoverStages ==
  ASSUME OrderInv, NEW t \in Txn, NEW ts \in Ts, t \in recovering,
         latest < ts, \A u \in Txn : prepared[u].ts # 0 => prepared[u].ts < ts,
         prepared' = [prepared EXCEPT ![t] = [ts |-> ts, holds |-> snap \cup {ts}]],
         lastAssigned' = Max({lastAssigned, ts}), queue' = queue, latest' = latest
  PROVE  /\ QueueFits(queue', prepared', lastAssigned', latest')
         /\ PrepFits(prepared', lastAssigned', latest')
         /\ lastAssigned' \in 0..MaxTs /\ prepared' \in Prepares
         /\ prepared'[t].ts = ts /\ prepared'[t].holds = snap \cup {ts}
         /\ \A u \in Txn : u # t => prepared'[u] = prepared[u]
  <1>1. PICK h \in SUBSET Ts : h = snap \cup {ts}
    BY DEF OrderInv, TypeOK
  <1>2. prepared' = [prepared EXCEPT ![t] = [ts |-> ts, holds |-> h]]
    BY <1>1
  <1>3. DOMAIN queue = {}
    BY DEF OrderInv
  <1>4. ts \in 0..MaxTs /\ ts \in Nat
    BY Bounds DEF Ts
  <1>5. \A u \in Txn : prepared[u].ts # 0 => prepared[u].ts # ts
    BY <1>4, Types DEF OrderInv
  <1>6. \A i \in DOMAIN queue : /\ queue[i].kind # "prepared"
                                /\ Snaps(queue[i]) => queue[i].ts < ts
                                /\ Resolves(queue[i]) => queue[i].txn # {t}
    BY <1>3
  <1>7. /\ QueueFits(queue', prepared', lastAssigned', latest')
        /\ PrepFits(prepared', lastAssigned', latest')
        /\ lastAssigned' \in 0..MaxTs /\ prepared' \in Prepares
        /\ prepared'[t].ts = ts /\ prepared'[t].holds = h
        /\ \A u \in Txn : u # t => prepared'[u] = prepared[u]
    BY <1>2, <1>4, <1>5, <1>6, OrderStage
  <1> QED
    BY <1>1, <1>7

LEMMA RecoverOrder ==
  ASSUME OrderInv, NEW t \in Txn, Recover(t)
  PROVE  OrderInv'
  <1>1. PICK ts \in Ts :
           /\ ts \in Nat /\ latest < ts /\ redo[t] <= ts
           /\ \A u \in Txn : prepared[u].ts # 0 => prepared[u].ts < ts
           /\ prepared' = [prepared EXCEPT ![t] = [ts |-> ts, holds |-> snap \cup {ts}]]
           /\ lastAssigned' = Max({lastAssigned, ts})
    BY RecoverFacts
  <1>2. /\ t \in recovering /\ recovering' = recovering \ {t}
        /\ alone' = (alone /\ Unresolved = {})
        /\ UNCHANGED <<barrierFloor, closed, latest, snap, repeatable, queue,
                       bumping, stopped, durable, issued, answered, carried, rejects,
                       restarts>>
    BY DEF Recover
  <1>3. /\ QueueFits(queue', prepared', lastAssigned', latest')
        /\ PrepFits(prepared', lastAssigned', latest')
        /\ lastAssigned' \in 0..MaxTs /\ prepared' \in Prepares
    BY <1>1, <1>2, RecoverStages
  <1>4. TypeOK'
    <2>1. {lastAssigned', barrierFloor', latest', repeatable', global', answered'}
            \subseteq 0..MaxTs
      BY <1>2, <1>3, Types DEF OrderInv, durable
    <2>2. alone' \in BOOLEAN /\ recovering' \subseteq Txn
      BY <1>2 DEF OrderInv, TypeOK
    <2> QED
      BY <1>2, <1>3, <2>1, <2>2 DEF OrderInv, TypeOK, Prepares, durable
  <1>5. AnswersFit' /\ NeverTooLate' /\ repeatable' <= latest'
    BY <1>2 DEF OrderInv, AnswersFit, NeverTooLate
  <1>6. queue' = <<>>
    BY <1>2 DEF OrderInv
  <1> QED
    BY <1>3, <1>4, <1>5, <1>6 DEF OrderInv

----------------------------------------------------------------------------
(* Order: the steps that take the first entry. *)

LEMMA OrderTail ==
  ASSUME OrderInv, TypeOK', queue # <<>>, Similar(Tail(queue), queue'),
         lastAssigned' = lastAssigned, recovering' = recovering, latest <= latest',
         \A t \in Txn : \/ prepared'[t] = prepared[t]
                        \/ /\ prepared'[t].ts = 0
                           /\ Resolves(queue[1]) /\ queue[1].txn = {t},
         \A t \in Txn : prepared'[t].ts # 0 => latest' < prepared'[t].ts,
         \A i \in DOMAIN queue : i # 1 /\ Snaps(queue[i]) => latest' < queue[i].ts,
         repeatable' <= latest', AnswersFit', NeverTooLate'
  PROVE  OrderInv'
  <1>1. /\ queue \in Seq(QEntry) /\ lastAssigned \in Nat /\ latest \in Nat
    BY Types DEF OrderInv
  <1>2. latest' \in Nat
    BY Bounds DEF TypeOK
  <1>3. \A t \in Txn : \/ prepared'[t].ts = prepared[t].ts
                       \/ prepared'[t].ts = 0 /\ Resolves(queue[1]) /\ queue[1].txn = {t}
    OBVIOUS
  <1>4. QueueFits(Tail(queue), prepared', lastAssigned, latest')
    BY <1>1, <1>2, <1>3, FitsTail DEF OrderInv
  <1>5. QueueFits(queue', prepared', lastAssigned', latest')
    BY <1>4, FitsSimilar
  <1>6. PrepFits(prepared', lastAssigned', latest')
    BY <1>3 DEF OrderInv, PrepFits
  <1>7. recovering' = {}
    BY DEF OrderInv
  <1> QED
    BY <1>5, <1>6, <1>7 DEF OrderInv

LEMMA HeadFacts ==
  ASSUME OrderInv, queue # <<>>
  PROVE  /\ 1 \in DOMAIN queue /\ Head(queue) = queue[1] /\ queue[1] \in QEntry
         /\ queue[1].ts \in Nat /\ queue[1].ts \in 0..MaxTs
         /\ Tail(queue) \in Seq(QEntry)
         /\ \A i \in DOMAIN queue : i # 1 /\ Snaps(queue[i]) => queue[1].ts < queue[i].ts
         /\ EntryFits(queue[1], prepared, lastAssigned, latest)
  <1>1. queue \in Seq(QEntry)
    BY Types DEF OrderInv
  <1>2. /\ 1 \in DOMAIN queue /\ Head(queue) = queue[1] /\ queue[1] \in QEntry
        /\ Tail(queue) \in Seq(QEntry)
        /\ DOMAIN queue = 1..Len(queue) /\ Len(queue) \in Nat
    BY <1>1, TailFacts
  <1>3. \A i \in DOMAIN queue : i # 1 => 1 < i
    BY <1>2
  <1>4. queue[1].ts \in Nat /\ queue[1].ts \in 0..MaxTs
    BY <1>2, Types DEF OrderInv
  <1> QED
    BY <1>2, <1>3, <1>4 DEF OrderInv, QueueFits

\* The first entry is dropped and nothing else of the order changes.
LEMMA OrderDrop ==
  ASSUME OrderInv, queue # <<>>, Similar(Tail(queue), queue'), queue' \in Seq(QEntry),
         bumping' \in BOOLEAN, stopped' \in {"no", "regressed"},
         UNCHANGED <<lastAssigned, barrierFloor, closed, latest, snap, repeatable,
                     prepared, recovering, durable, issued, history>>
  PROVE  OrderInv'
  <1>1. TypeOK'
    <2>1. {lastAssigned', barrierFloor', latest', repeatable', global', answered'}
            \subseteq 0..MaxTs
      BY Types DEF OrderInv, durable, history
    <2> QED
      BY <2>1 DEF OrderInv, TypeOK, QEntry, durable, history
  <1>2. AnswersFit' /\ NeverTooLate' /\ repeatable' <= latest'
    BY DEF OrderInv, AnswersFit, NeverTooLate, history
  <1>3. latest <= latest'
    BY Types DEF OrderInv
  <1>4. \A t \in Txn : prepared'[t] = prepared[t]
    OBVIOUS
  <1>5. \A t \in Txn : prepared'[t].ts # 0 => latest' < prepared'[t].ts
    BY DEF OrderInv, PrepFits
  <1>6. \A i \in DOMAIN queue : i # 1 /\ Snaps(queue[i]) => latest' < queue[i].ts
    BY DEF OrderInv, QueueFits, EntryFits
  <1> QED
    BY <1>1, <1>2, <1>3, <1>4, <1>5, <1>6, OrderTail

LEMMA RebasedFacts ==
  ASSUME NEW q \in Seq(QEntry), snap \subseteq Ts,
         \A i \in DOMAIN q : q[i].kind = "commit" => q[i].ts \in Ts
  PROVE  Rebased(q) \in Seq(QEntry) /\ Similar(q, Rebased(q))
  <1> DEFINE h(i) == snap \cup {q[j].ts : j \in {k \in 1..i : q[k].kind = "commit"}}
             r(i) == IF q[i].kind = "commit" THEN [q[i] EXCEPT !.holds = h(i)] ELSE q[i]
  <1>1. Len(q) \in Nat /\ DOMAIN q = 1..Len(q)
    OBVIOUS
  <1>2. Rebased(q) = [i \in DOMAIN q |-> r(i)]
    BY DEF Rebased
  <1>3. ASSUME NEW i \in DOMAIN q
        PROVE  r(i) \in QEntry /\ r(i).kind = q[i].kind /\ r(i).ts = q[i].ts /\ r(i).txn = q[i].txn
    <2>1. h(i) \in SUBSET Ts
      <3>1. \A j \in 1..i : j \in DOMAIN q
        BY <1>1
      <3> QED
        BY <3>1
    <2>2. q[i] \in QEntry
      OBVIOUS
    <2> HIDE DEF h
    <2> QED
      BY <2>1, <2>2 DEF QEntry
  <1> HIDE DEF r
  <1>4. \A i \in DOMAIN q : Rebased(q)[i] = r(i)
    BY <1>2
  <1>5. DOMAIN Rebased(q) = DOMAIN q
    BY <1>2
  <1>6. Rebased(q) \in [1..Len(q) -> QEntry]
    BY <1>1, <1>2, <1>3
  <1>7. Rebased(q) \in Seq(QEntry)
    BY <1>1, <1>6
  <1> QED
    BY <1>3, <1>4, <1>5, <1>7 DEF Similar

LEMMA DropRejectedOrder ==
  ASSUME OrderInv, DropRejected
  PROVE  OrderInv'
  <1>1. /\ queue # <<>> /\ stopped = "no"
        /\ queue' = IF Head(queue).kind = "commit" THEN Rebased(Tail(queue)) ELSE Tail(queue)
        /\ UNCHANGED <<lastAssigned, barrierFloor, closed, latest, snap, repeatable,
                       prepared, bumping, recovering, stopped, durable, issued, history>>
    BY DEF DropRejected, HeadIs
  <1>2. queue \in Seq(QEntry) /\ Tail(queue) \in Seq(QEntry)
    BY <1>1, HeadFacts, Types DEF OrderInv
  <1>3. \A i \in DOMAIN Tail(queue) : Tail(queue)[i].kind = "commit" => Tail(queue)[i].ts \in Ts
    <2>1. \A i \in DOMAIN queue : queue[i].kind = "commit" => latest < queue[i].ts
      BY DEF OrderInv, QueueFits, EntryFits, Snaps
    <2>2. \A i \in DOMAIN queue : queue[i].kind = "commit" => queue[i].ts \in Ts
      BY <2>1, Types, Bounds DEF OrderInv, Ts
    <2> QED
      BY <1>1, <1>2, <2>2, TailFacts
  <1>4. queue' \in Seq(QEntry) /\ Similar(Tail(queue), queue')
    <2>1. snap \subseteq Ts
      BY DEF OrderInv, TypeOK
    <2>2. /\ Rebased(Tail(queue)) \in Seq(QEntry)
          /\ Similar(Tail(queue), Rebased(Tail(queue)))
      BY <1>2, <1>3, <2>1, RebasedFacts
    <2> QED
      BY <1>1, <1>2, <2>2, SimilarSame
  <1>5. bumping' \in BOOLEAN
    BY <1>1 DEF OrderInv, TypeOK
  <1> QED
    BY <1>1, <1>4, <1>5, OrderDrop

LEMMA SkipRepeatableOrder ==
  ASSUME OrderInv, SkipRepeatable
  PROVE  OrderInv'
  <1>1. /\ queue # <<>> /\ queue' = Tail(queue) /\ stopped = "no" /\ bumping' = FALSE
        /\ UNCHANGED <<lastAssigned, barrierFloor, closed, latest, snap, repeatable,
                       prepared, recovering, stopped, durable, issued, history>>
    BY DEF SkipRepeatable, HeadIs
  <1>2. queue' \in Seq(QEntry)
    BY <1>1, HeadFacts
  <1> QED
    BY <1>1, <1>2, SimilarSame, OrderDrop

LEMMA BarrierLosesLeaderOrder ==
  ASSUME OrderInv, BarrierLosesLeader
  PROVE  OrderInv'
  <1>1. /\ queue # <<>> /\ queue' = Tail(queue) /\ stopped = "no"
        /\ UNCHANGED <<lastAssigned, barrierFloor, closed, latest, snap, repeatable,
                       prepared, bumping, recovering, stopped, durable, issued, history>>
    BY DEF BarrierLosesLeader, HeadIs
  <1>2. queue' \in Seq(QEntry) /\ bumping' \in BOOLEAN
    BY <1>1, HeadFacts DEF OrderInv, TypeOK
  <1> QED
    BY <1>1, <1>2, SimilarSame, OrderDrop

LEMMA PublishRepeatableOrder ==
  ASSUME OrderInv, PublishRepeatable
  PROVE  OrderInv'
  <1> DEFINE e == queue[1]
  <1>1. /\ queue # <<>> /\ queue' = Tail(queue) /\ stopped = "no"
        /\ UNCHANGED <<lastAssigned, barrierFloor, snap, prepared, recovering,
                       durable, issued, carried, alone, rejects, restarts>>
    BY DEF PublishRepeatable, HeadIs
  <1>2. /\ Head(queue) = e /\ e.ts \in Nat /\ e.ts \in 0..MaxTs
        /\ queue' \in Seq(QEntry)
        /\ \A i \in DOMAIN queue : i # 1 /\ Snaps(queue[i]) => e.ts < queue[i].ts
    BY <1>1, HeadFacts
  <1>3. CASE e.ts < repeatable
    <2>1. stopped' = "regressed" /\ UNCHANGED <<repeatable, latest, closed, bumping, answered>>
      BY <1>2, <1>3 DEF PublishRepeatable
    <2>2. bumping' \in BOOLEAN
      BY <2>1 DEF OrderInv, TypeOK
    <2> QED
      BY <1>1, <1>2, <2>1, <2>2, SimilarSame, OrderDrop DEF history
  <1>4. CASE ~ (e.ts < repeatable)
    <2>1. /\ ~BehindPrepare(e.ts)
          /\ repeatable' = e.ts /\ latest' = Max({latest, e.ts})
          /\ closed' = IF e.kind = "barrier" THEN Remember(e.ts) ELSE closed
          /\ answered' = IF e.kind = "barrier" THEN Max({answered, e.ts}) ELSE answered
          /\ bumping' = FALSE /\ stopped' = stopped
      BY <1>2, <1>4 DEF PublishRepeatable
    <2>2. latest \in 0..MaxTs /\ latest \in Nat /\ MaxTs \in Nat /\ answered \in 0..MaxTs
      BY Types DEF OrderInv
    <2>3. /\ latest' \in 0..MaxTs /\ latest' \in Nat
          /\ latest <= latest' /\ e.ts <= latest'
          /\ latest' = latest \/ latest' = e.ts
      <3>1. {latest, e.ts} \in SUBSET (0..MaxTs) /\ {latest, e.ts} # {}
        BY <1>2, <2>2
      <3>2. Max({latest, e.ts}) \in {latest, e.ts} /\ \A y \in {latest, e.ts} : y <= Max({latest, e.ts})
        BY <2>2, <3>1, MaxOfBounded
      <3> QED
        BY <1>2, <2>1, <2>2, <3>2
    <2>4. /\ answered' \in 0..MaxTs
          /\ answered' = answered \/ answered' = e.ts
      BY <1>2, <2>1, <2>2, AnsweredFacts DEF OrderInv
    <2>5. closed' \subseteq closed \cup {e.ts} /\ closed' \subseteq Ts
      <3>1. closed \subseteq Ts /\ Remember(e.ts) \subseteq closed \cup {e.ts}
        BY RememberFacts DEF OrderInv, TypeOK
      <3>2. CASE e.kind # "barrier"
        BY <2>1, <3>1, <3>2
      <3>3. CASE e.kind = "barrier"
        <4>1. e.ts # 0
          BY <1>1, <3>3, HeadFacts DEF EntryFits
        <4>2. e.ts \in Ts
          BY <1>2, <2>2, <4>1 DEF Ts
        <4> QED
          BY <2>1, <3>1, <3>3, <4>2
      <3> QED
        BY <3>2, <3>3
    <2>6. TypeOK'
      <3>1. {lastAssigned', barrierFloor', latest', repeatable', global', answered'}
              \subseteq 0..MaxTs
        BY <1>1, <1>2, <2>1, <2>3, <2>4, Types DEF OrderInv, durable
      <3> QED
        BY <1>1, <1>2, <2>1, <2>5, <3>1 DEF OrderInv, TypeOK, QEntry, durable
    <2>7. AnswersFit'
      <3> SUFFICES ASSUME restarts = 0
                   PROVE  answered' <= latest' /\ \A c \in closed' : c <= latest'
        BY <1>1 DEF AnswersFit
      <3>1. answered <= latest /\ \A c \in closed : c <= latest
        BY DEF OrderInv, AnswersFit
      <3>2. answered \in Nat /\ \A c \in closed : c \in Nat
        BY <2>2, Bounds DEF OrderInv, TypeOK, Ts
      <3> QED
        BY <2>2, <2>3, <2>4, <2>5, <3>1, <3>2
    <2>8. \A t \in Txn : prepared'[t].ts # 0 => latest' < prepared'[t].ts
      <3> SUFFICES ASSUME NEW t \in Txn, prepared[t].ts # 0 PROVE latest' < prepared[t].ts
        BY <1>1
      <3>1. latest < prepared[t].ts
        BY DEF OrderInv, PrepFits
      <3>2. prepared[t].ts \in PreparedTs
        BY UnresolvedFacts DEF OrderInv
      <3>3. ~ (prepared[t].ts <= e.ts)
        BY <2>1, <3>2 DEF BehindPrepare
      <3>4. prepared[t].ts \in Nat
        BY Types DEF OrderInv
      <3> QED
        BY <1>2, <2>3, <3>1, <3>3, <3>4
    <2>9. \A i \in DOMAIN queue : i # 1 /\ Snaps(queue[i]) => latest' < queue[i].ts
      <3>1. \A i \in DOMAIN queue : Snaps(queue[i]) => latest < queue[i].ts
        BY DEF OrderInv, QueueFits, EntryFits
      <3> QED
        BY <1>2, <2>3, <3>1
    <2>10. repeatable' <= latest' /\ NeverTooLate'
      BY <1>1, <2>1, <2>3 DEF NeverTooLate
    <2>11. Similar(Tail(queue), queue') /\ \A t \in Txn : prepared'[t] = prepared[t]
      BY <1>1, SimilarSame
    <2> QED
      BY <1>1, <2>3, <2>6, <2>7, <2>8, <2>9, <2>10, <2>11, OrderTail
  <1> QED
    BY <1>3, <1>4

\* The transaction t is forgotten.
Forgotten(t) ==
  /\ prepared' = [prepared EXCEPT ![t] = NoPrepare]
  /\ redo' = [redo EXCEPT ![t] = 0]

LEMMA ForgottenFacts ==
  ASSUME TypeOK, NEW t \in Txn, Forgotten(t)
  PROVE  /\ prepared' \in Prepares /\ redo' \in [Txn -> 0..MaxTs]
         /\ prepared'[t].ts = 0 /\ redo'[t] = 0
         /\ \A u \in Txn : u # t => prepared'[u] = prepared[u] /\ redo'[u] = redo[u]
  <1>1. prepared \in Prepares /\ redo \in [Txn -> 0..MaxTs] /\ 0 \in 0..MaxTs
    BY Types, Bounds DEF TypeOK
  <1>2. prepared' \in Prepares /\ redo' \in [Txn -> 0..MaxTs]
    BY <1>1, NoPrepareFacts DEF Forgotten, Prepares
  <1> QED
    BY <1>1, <1>2, NoPrepareFacts DEF Forgotten, Prepares

\* A write whose turn it is, is above the latest snapshot: publish_commit
\* and its relatives never find it too late.
LEMMA PublishWriteFacts ==
  ASSUME OrderInv, PublishWrite
  PROVE  /\ queue # <<>> /\ queue' = Tail(queue) /\ queue[1].state = "written"
         /\ latest < queue[1].ts /\ latest' = queue[1].ts /\ snap' = queue[1].holds
         /\ stopped' = stopped
         /\ \/ Snaps(queue[1]) /\ UNCHANGED <<prepared, redo>>
            \/ /\ queue[1].kind = "prepared"
               /\ \E t \in Txn : queue[1].txn = {t} /\ Forgotten(t) /\ prepared[t].ts = queue[1].ts
         /\ UNCHANGED <<lastAssigned, barrierFloor, closed, repeatable, bumping,
                        recovering, global, disk, issued, history>>
  <1> DEFINE e == queue[1]
  <1>1. /\ queue # <<>> /\ queue' = Tail(queue)
        /\ UNCHANGED <<lastAssigned, barrierFloor, closed, repeatable, bumping,
                       recovering, global, disk, issued, history>>
    BY DEF PublishWrite, HeadIs
  <1>2. Head(queue) = e /\ e.ts \in Nat /\ EntryFits(e, prepared, lastAssigned, latest)
    BY <1>1, HeadFacts
  <1>3. e.kind \in {"commit", "delta", "prepared"} /\ e.state = "written"
    BY <1>2 DEF PublishWrite, HeadIs
  <1>4. latest < e.ts
    <2>1. CASE Snaps(e)
      BY <1>2, <2>1 DEF EntryFits
    <2>2. CASE e.kind = "prepared"
      <3>1. PICK t \in Txn : prepared[t].ts = e.ts /\ e.ts # 0
        BY <1>2, <2>2 DEF EntryFits, Resolves
      <3> QED
        BY <3>1 DEF OrderInv, PrepFits
    <2> QED
      BY <1>3, <2>1, <2>2 DEF Snaps
  <1>5. latest' = e.ts /\ snap' = e.holds /\ stopped' = stopped
    BY <1>2, <1>4 DEF PublishWrite
  <1>6. CASE e.kind = "prepared"
    <2>1. PICK t \in Txn : e.txn = {t} /\ prepared[t].ts = e.ts
      BY <1>2, <1>6 DEF EntryFits, Resolves
    <2>2. Forgotten(t)
      BY <1>2, <1>4, <1>6, <2>1 DEF PublishWrite, Forget, Forgotten
    <2> QED
      BY <1>1, <1>3, <1>4, <1>5, <1>6, <2>1, <2>2
  <1>7. CASE e.kind # "prepared"
    <2>1. UNCHANGED <<prepared, redo>>
      BY <1>2, <1>7 DEF PublishWrite
    <2>2. Snaps(e)
      BY <1>3, <1>7 DEF Snaps
    <2> QED
      BY <1>1, <1>3, <1>4, <1>5, <2>1, <2>2
  <1> QED
    BY <1>6, <1>7

LEMMA PublishWriteOrder ==
  ASSUME OrderInv, PublishWrite
  PROVE  OrderInv'
  <1> DEFINE e == queue[1]
  <1>1. /\ queue # <<>> /\ queue' = Tail(queue)
        /\ latest < e.ts /\ latest' = e.ts /\ snap' = e.holds /\ stopped' = stopped
        /\ \/ Snaps(e) /\ UNCHANGED <<prepared, redo>>
           \/ /\ e.kind = "prepared"
              /\ \E t \in Txn : e.txn = {t} /\ Forgotten(t) /\ prepared[t].ts = e.ts
        /\ UNCHANGED <<lastAssigned, barrierFloor, closed, repeatable, bumping,
                       recovering, global, disk, issued, history>>
    BY PublishWriteFacts
  <1>2. /\ e \in QEntry /\ e.ts \in Nat /\ e.ts \in 0..MaxTs /\ queue' \in Seq(QEntry)
        /\ \A i \in DOMAIN queue : i # 1 /\ Snaps(queue[i]) => e.ts < queue[i].ts
        /\ EntryFits(e, prepared, lastAssigned, latest)
    BY <1>1, HeadFacts
  <1>3. /\ prepared' \in Prepares /\ redo' \in [Txn -> 0..MaxTs]
        /\ \A t \in Txn : \/ prepared'[t] = prepared[t]
                          \/ prepared'[t].ts = 0 /\ Resolves(e) /\ e.txn = {t}
        /\ \A t \in Txn : prepared'[t].ts # 0 => e.ts < prepared'[t].ts
    <2>1. CASE Snaps(e) /\ UNCHANGED <<prepared, redo>>
      <3>1. \A t \in Txn : prepared[t].ts # 0 => e.ts < prepared[t].ts
        BY <1>2, <2>1 DEF EntryFits
      <3> QED
        BY <2>1, <3>1, Types DEF OrderInv, TypeOK, Prepares
    <2>2. ASSUME e.kind = "prepared", NEW t \in Txn, e.txn = {t}, Forgotten(t),
                 prepared[t].ts = e.ts
          PROVE  /\ prepared' \in Prepares /\ redo' \in [Txn -> 0..MaxTs]
                 /\ \A u \in Txn : \/ prepared'[u] = prepared[u]
                                   \/ prepared'[u].ts = 0 /\ Resolves(e) /\ e.txn = {u}
                 /\ \A u \in Txn : prepared'[u].ts # 0 => e.ts < prepared'[u].ts
      <3>1. /\ prepared' \in Prepares /\ redo' \in [Txn -> 0..MaxTs]
            /\ prepared'[t].ts = 0
            /\ \A u \in Txn : u # t => prepared'[u] = prepared[u]
        BY <2>2, ForgottenFacts DEF OrderInv
      <3>2. Resolves(e)
        BY <2>2 DEF Resolves
      <3>3. ASSUME NEW u \in Txn, u # t, prepared[u].ts # 0
            PROVE  e.ts < prepared[u].ts
        <4>1. e.ts <= prepared[u].ts
          BY <1>2, <2>2, <3>3 DEF EntryFits
        <4>2. e.ts # prepared[u].ts
          BY <2>2, <3>3 DEF OrderInv, PrepFits
        <4>3. prepared[u].ts \in Nat
          BY Types DEF OrderInv
        <4> QED
          BY <1>2, <4>1, <4>2, <4>3
      <3> QED
        BY <2>2, <3>1, <3>2, <3>3
    <2> QED
      BY <1>1, <2>1, <2>2
  <1>4. snap' \subseteq Ts
    BY <1>1, <1>2 DEF QEntry
  <1> HIDE DEF e
  <1>5. TypeOK'
    <2>1. {lastAssigned', barrierFloor', latest', repeatable', global', answered'}
            \subseteq 0..MaxTs
      BY <1>1, <1>2, Types DEF OrderInv, history
    <2> QED
      BY <1>1, <1>2, <1>3, <1>4, <2>1 DEF OrderInv, TypeOK, QEntry, Prepares, history
  <1>6. latest \in Nat /\ repeatable \in Nat /\ answered \in Nat /\ \A c \in closed : c \in Nat
    BY Types, Bounds DEF OrderInv, TypeOK, Ts
  <1>7. AnswersFit' /\ NeverTooLate' /\ repeatable' <= latest' /\ latest <= latest'
    BY <1>1, <1>2, <1>6 DEF OrderInv, AnswersFit, NeverTooLate, history
  <1>8. Similar(Tail(queue), queue')
    BY <1>1, SimilarSame
  <1> QED
    BY <1>1, <1>2, <1>3, <1>5, <1>7, <1>8, OrderTail DEF e

LEMMA PublishRollbackFacts ==
  ASSUME OrderInv, PublishRollback
  PROVE  /\ queue # <<>> /\ queue' = Tail(queue) /\ queue[1].kind = "rollback"
         /\ \E t \in Txn : queue[1].txn = {t} /\ Forgotten(t)
         /\ UNCHANGED <<lastAssigned, barrierFloor, closed, latest, snap, repeatable,
                        bumping, recovering, stopped, global, disk, issued, history>>
  <1>1. queue # <<>> /\ queue' = Tail(queue)
    BY DEF PublishRollback, HeadIs
  <1>2. Head(queue) = queue[1] /\ EntryFits(queue[1], prepared, lastAssigned, latest)
    BY <1>1, HeadFacts
  <1>3. queue[1].kind = "rollback"
    BY <1>2 DEF PublishRollback, HeadIs
  <1>4. PICK t \in Txn : queue[1].txn = {t}
    BY <1>2, <1>3 DEF EntryFits, Resolves
  <1>5. Forgotten(t)
    BY <1>2, <1>4 DEF PublishRollback, Forget, Forgotten
  <1> QED
    BY <1>1, <1>3, <1>4, <1>5 DEF PublishRollback

LEMMA PublishRollbackOrder ==
  ASSUME OrderInv, PublishRollback
  PROVE  OrderInv'
  <1>1. /\ queue # <<>> /\ queue' = Tail(queue) /\ queue[1].kind = "rollback"
        /\ UNCHANGED <<lastAssigned, barrierFloor, closed, latest, snap, repeatable,
                       bumping, recovering, stopped, global, disk, issued, history>>
    BY PublishRollbackFacts
  <1>2. PICK t \in Txn : queue[1].txn = {t} /\ Forgotten(t)
    BY PublishRollbackFacts
  <1>3. /\ prepared' \in Prepares /\ redo' \in [Txn -> 0..MaxTs]
        /\ prepared'[t].ts = 0
        /\ \A u \in Txn : u # t => prepared'[u] = prepared[u]
    BY <1>2, ForgottenFacts DEF OrderInv
  <1>4. \A u \in Txn : \/ prepared'[u] = prepared[u]
                       \/ prepared'[u].ts = 0 /\ Resolves(queue[1]) /\ queue[1].txn = {u}
    BY <1>1, <1>2, <1>3 DEF Resolves
  <1>5. queue' \in Seq(QEntry)
    BY <1>1, HeadFacts
  <1>6. TypeOK'
    <2>1. {lastAssigned', barrierFloor', latest', repeatable', global', answered'}
            \subseteq 0..MaxTs
      BY <1>1, Types DEF OrderInv, history
    <2> QED
      BY <1>1, <1>3, <1>5, <2>1 DEF OrderInv, TypeOK, QEntry, Prepares, history
  <1>7. AnswersFit' /\ NeverTooLate' /\ repeatable' <= latest' /\ latest <= latest'
    BY <1>1, Types DEF OrderInv, AnswersFit, NeverTooLate, history
  <1>8. \A u \in Txn : prepared'[u].ts # 0 => latest' < prepared'[u].ts
    BY <1>1, <1>3 DEF OrderInv, PrepFits
  <1>9. \A i \in DOMAIN queue : i # 1 /\ Snaps(queue[i]) => latest' < queue[i].ts
    BY <1>1 DEF OrderInv, QueueFits, EntryFits
  <1>10. Similar(Tail(queue), queue')
    BY <1>1, SimilarSame
  <1> QED
    BY <1>1, <1>4, <1>6, <1>7, <1>8, <1>9, <1>10, OrderTail

LEMMA OrderInit == Init => OrderInv
  <1> SUFFICES ASSUME Init PROVE OrderInv
    OBVIOUS
  <1>1. prepared \in Prepares /\ \A t \in Txn : prepared[t] = NoPrepare
    BY NoPrepareFacts DEF Init, Prepares
  <1>2. TypeOK
    <2>1. {lastAssigned, barrierFloor, latest, repeatable, global, answered} \subseteq 0..MaxTs
      BY Bounds DEF Init
    <2>2. redo \in [Txn -> 0..MaxTs] /\ rejects \in 0..MaxRejects /\ restarts \in 0..MaxRestarts
      BY Bounds, PipelineAssumption DEF Init
    <2>3. queue \in Seq(QEntry)
      BY DEF Init
    <2> QED
      BY <1>1, <2>1, <2>2, <2>3 DEF Init, TypeOK, Prepares, QEntry
  <1>3. QueueFits(queue, prepared, lastAssigned, latest)
    BY DEF Init, QueueFits
  <1>4. PrepFits(prepared, lastAssigned, latest)
    BY <1>1, NoPrepareFacts DEF PrepFits
  <1> QED
    BY <1>2, <1>3, <1>4 DEF OrderInv, Init, AnswersFit, NeverTooLate

----------------------------------------------------------------------------
(* Redo records. *)

LEMMA CarriedTypes ==
  ASSUME TypeOK
  PROVE  /\ \A a \in carried : a[1] \in Nat /\ a[2] \in Nat /\ a[1] # 0 /\ a = <<a[1], a[2]>>
         /\ \A t \in Txn : redo[t] \in Nat
         /\ \A c \in disk : c \in Nat
  <1>1. carried \subseteq Ts \X Ts /\ disk \subseteq Ts /\ redo \in [Txn -> 0..MaxTs]
    BY DEF TypeOK
  <1>2. \A c \in Ts : c \in Nat /\ c # 0
    BY Bounds DEF Ts
  <1>3. \A c \in 0..MaxTs : c \in Nat
    BY Bounds
  <1> QED
    BY <1>1, <1>2, <1>3

\* The written entries of transactions in q are still in r.
Kept(q, r) ==
  \A i \in DOMAIN q : q[i].kind = "prepared" /\ q[i].state = "written" =>
    \E j \in DOMAIN r : r[j].kind = "prepared" /\ r[j].state = "written" /\ r[j].txn = q[i].txn

LEMMA RedoQuiet ==
  ASSUME OrderInv, RedoInv, Kept(queue, queue'), issued \subseteq issued',
         latest' \in Nat, latest <= latest',
         UNCHANGED <<prepared, redo, recovering, disk, carried>>
  PROVE  RedoInv'
  <1>1. RedoFits'
    BY DEF RedoInv, RedoFits
  <1>2. RecoveryFits'
    <2>1. latest \in Nat /\ \A c \in disk : c \in Nat
      BY Types, CarriedTypes DEF OrderInv
    <2> QED
      BY <2>1 DEF RedoInv, RecoveryFits
  <1>3. CarriedFits'
    <2> SUFFICES ASSUME NEW a \in carried
                 PROVE  /\ a[1] \in issued' /\ a[2] \in disk /\ a[1] <= a[2]
                        /\ \A t \in Txn : redo[t] = a[1] =>
                             IF a[1] = a[2]
                             THEN \E i \in DOMAIN queue' : /\ queue'[i].kind = "prepared"
                                                           /\ queue'[i].txn = {t}
                                                           /\ queue'[i].state = "written"
                             ELSE prepared[t].ts = 0 \/ a[1] < prepared[t].ts
      BY DEF CarriedFits
    <2>1. a[1] \in issued /\ a[2] \in disk /\ a[1] <= a[2]
      BY DEF RedoInv, CarriedFits
    <2>2. ASSUME NEW t \in Txn, redo[t] = a[1], a[1] = a[2]
          PROVE  \E i \in DOMAIN queue' : /\ queue'[i].kind = "prepared"
                                          /\ queue'[i].txn = {t}
                                          /\ queue'[i].state = "written"
      <3>1. PICK i \in DOMAIN queue : /\ queue[i].kind = "prepared" /\ queue[i].txn = {t}
                                      /\ queue[i].state = "written"
        BY <2>2 DEF RedoInv, CarriedFits
      <3> QED
        BY <3>1 DEF Kept
    <2>3. ASSUME NEW t \in Txn, redo[t] = a[1], a[1] # a[2]
          PROVE  prepared[t].ts = 0 \/ a[1] < prepared[t].ts
      BY <2>3 DEF RedoInv, CarriedFits
    <2> QED
      BY <2>1, <2>2, <2>3
  <1>4. CarriedOutOnce'
    BY DEF RedoInv, CarriedOutOnce
  <1> QED
    BY <1>1, <1>2, <1>3, <1>4 DEF RedoInv

LEMMA KeptAppend ==
  ASSUME NEW q \in Seq(QEntry), NEW e
  PROVE  Kept(q, Append(q, e))
  BY DEF Kept

LEMMA KeptTail ==
  ASSUME NEW q \in Seq(QEntry), q # <<>>,
         ~ (q[1].kind = "prepared" /\ q[1].state = "written")
  PROVE  Kept(q, Tail(q))
  <1> DEFINE r == Tail(q)
  <1>1. \A i \in DOMAIN q : i = 1 \/ (i - 1 \in DOMAIN r /\ r[i - 1] = q[i])
    BY TailFacts
  <1> QED
    BY <1>1 DEF Kept

LEMMA KeptSame ==
  ASSUME NEW q
  PROVE  Kept(q, q)
  BY DEF Kept

\* A step that queues an entry.
LEMMA RedoAppend ==
  ASSUME OrderInv, RedoInv, NEW e, queue' = Append(queue, e),
         issued \subseteq issued', UNCHANGED <<latest, prepared, recovering, durable, history>>
  PROVE  RedoInv'
  <1>1. queue \in Seq(QEntry) /\ latest \in Nat
    BY Types DEF OrderInv
  <1>2. Kept(queue, queue')
    BY <1>1, KeptAppend
  <1> QED
    BY <1>1, <1>2, RedoQuiet DEF durable, history

\* A step that takes the first entry, which is not a written transaction.
LEMMA RedoDrop ==
  ASSUME OrderInv, RedoInv, queue # <<>>, queue' = Tail(queue),
         ~ (queue[1].kind = "prepared" /\ queue[1].state = "written"),
         latest' \in Nat, latest <= latest', issued' = issued,
         UNCHANGED <<prepared, redo, recovering, disk, carried>>
  PROVE  RedoInv'
  <1>1. queue \in Seq(QEntry)
    BY Types DEF OrderInv
  <1>2. Kept(queue, queue')
    BY <1>1, KeptTail
  <1> QED
    BY <1>2, RedoQuiet

\* The entry that resolves t is taken, and t is forgotten with its record.
LEMMA RedoForget ==
  ASSUME OrderInv, RedoInv, NEW t \in Txn, queue # <<>>, queue' = Tail(queue),
         queue[1].txn = {t}, Forgotten(t),
         UNCHANGED <<recovering, disk, carried, issued>>
  PROVE  RedoInv'
  <1>1. /\ prepared'[t].ts = 0 /\ redo'[t] = 0
        /\ \A u \in Txn : u # t => prepared'[u] = prepared[u] /\ redo'[u] = redo[u]
    BY ForgottenFacts DEF OrderInv
  <1>2. 1 \in DOMAIN queue /\ queue \in Seq(QEntry)
    BY HeadFacts, Types DEF OrderInv
  <1>3. recovering = {}
    BY <1>2, NoRecovery
  <1>4. RedoFits' /\ RecoveryFits'
    BY <1>1, <1>3 DEF RedoInv, RedoFits, RecoveryFits
  <1>5. CarriedFits'
    <2> SUFFICES ASSUME NEW a \in carried
                 PROVE  /\ a[1] \in issued /\ a[2] \in disk /\ a[1] <= a[2]
                        /\ \A u \in Txn : redo'[u] = a[1] =>
                             IF a[1] = a[2]
                             THEN \E i \in DOMAIN queue' : /\ queue'[i].kind = "prepared"
                                                           /\ queue'[i].txn = {u}
                                                           /\ queue'[i].state = "written"
                             ELSE prepared'[u].ts = 0 \/ a[1] < prepared'[u].ts
      BY DEF CarriedFits
    <2>1. a[1] \in issued /\ a[2] \in disk /\ a[1] <= a[2]
      BY DEF RedoInv, CarriedFits
    <2>2. ASSUME NEW u \in Txn, redo'[u] = a[1]
          PROVE  u # t /\ redo[u] = a[1] /\ prepared'[u] = prepared[u]
      BY <1>1, <2>2, CarriedTypes DEF OrderInv
    <2>3. ASSUME NEW u \in Txn, redo'[u] = a[1], a[1] = a[2]
          PROVE  \E i \in DOMAIN queue' : /\ queue'[i].kind = "prepared"
                                          /\ queue'[i].txn = {u}
                                          /\ queue'[i].state = "written"
      <3>1. PICK i \in DOMAIN queue : /\ queue[i].kind = "prepared" /\ queue[i].txn = {u}
                                      /\ queue[i].state = "written"
        BY <2>2, <2>3 DEF RedoInv, CarriedFits
      <3>2. i # 1
        BY <2>2, <2>3, <3>1
      <3>3. i - 1 \in DOMAIN queue' /\ queue'[i - 1] = queue[i]
        BY <1>2, <3>2, TailFacts
      <3> QED
        BY <3>1, <3>3
    <2>4. ASSUME NEW u \in Txn, redo'[u] = a[1], a[1] # a[2]
          PROVE  prepared'[u].ts = 0 \/ a[1] < prepared'[u].ts
      BY <2>2, <2>4 DEF RedoInv, CarriedFits
    <2> QED
      BY <2>1, <2>3, <2>4
  <1>6. CarriedOutOnce'
    BY DEF RedoInv, CarriedOutOnce
  <1> QED
    BY <1>4, <1>5, <1>6 DEF RedoInv

LEMMA PersistRedo ==
  ASSUME OrderInv, RedoInv, NEW i \in DOMAIN queue, Persist(i)
  PROVE  RedoInv'
  <1> DEFINE e == queue[i]
  <1>1. /\ queue' = [queue EXCEPT ![i].state = "written"] /\ e.state = "flying"
        /\ disk' = IF e.kind \in {"commit", "delta", "prepared"} THEN disk \cup {e.ts} ELSE disk
        /\ carried' = IF e.kind = "prepared"
                      THEN carried \cup {<<redo[t], e.ts>> : t \in e.txn} ELSE carried
        /\ UNCHANGED <<prepared, recovering, redo, issued>>
    BY DEF Persist
  <1>2. recovering = {} /\ disk \subseteq disk'
    BY <1>1, NoRecovery
  <1>3. /\ DOMAIN queue' = DOMAIN queue
        /\ \A j \in DOMAIN queue : j # i => queue'[j] = queue[j]
        /\ queue'[i].kind = e.kind /\ queue'[i].txn = e.txn /\ queue'[i].state = "written"
    BY <1>1, StateChange DEF OrderInv
  <1> HIDE DEF e
  <1>4. RedoFits' /\ RecoveryFits'
    BY <1>1, <1>2 DEF RedoInv, RedoFits, RecoveryFits
  <1> DEFINE Fits(a) ==
        /\ a[1] \in issued /\ a[2] \in disk' /\ a[1] <= a[2]
        /\ \A t \in Txn : redo[t] = a[1] =>
             IF a[1] = a[2]
             THEN \E j \in DOMAIN queue' : /\ queue'[j].kind = "prepared"
                                           /\ queue'[j].txn = {t}
                                           /\ queue'[j].state = "written"
             ELSE prepared[t].ts = 0 \/ a[1] < prepared[t].ts
  <1>5. ASSUME NEW a \in carried PROVE Fits(a)
    <2>1. a[1] \in issued /\ a[2] \in disk' /\ a[1] <= a[2]
      BY <1>2 DEF RedoInv, CarriedFits
    <2>2. ASSUME NEW t \in Txn, redo[t] = a[1], a[1] = a[2]
          PROVE  \E j \in DOMAIN queue' : /\ queue'[j].kind = "prepared"
                                          /\ queue'[j].txn = {t}
                                          /\ queue'[j].state = "written"
      <3>1. PICK j \in DOMAIN queue : /\ queue[j].kind = "prepared" /\ queue[j].txn = {t}
                                      /\ queue[j].state = "written"
        BY <2>2 DEF RedoInv, CarriedFits
      <3>2. j # i
        BY <1>1, <3>1 DEF e
      <3> QED
        BY <1>3, <3>1, <3>2
    <2>3. ASSUME NEW t \in Txn, redo[t] = a[1], a[1] # a[2]
          PROVE  prepared[t].ts = 0 \/ a[1] < prepared[t].ts
      BY <2>3 DEF RedoInv, CarriedFits
    <2> QED
      BY <2>1, <2>2, <2>3
  <1>6. CASE e.kind # "prepared"
    <2>1. carried' = carried
      BY <1>1, <1>6
    <2>2. CarriedFits'
      BY <1>1, <1>5, <2>1 DEF CarriedFits
    <2>3. CarriedOutOnce'
      BY <2>1 DEF RedoInv, CarriedOutOnce
    <2> QED
      BY <1>4, <2>2, <2>3 DEF RedoInv
  <1>7. CASE e.kind = "prepared"
    <2>1. PICK t \in Txn : e.txn = {t} /\ prepared[t].ts = e.ts /\ e.ts # 0
      BY <1>7 DEF OrderInv, QueueFits, EntryFits, Resolves, e
    <2> DEFINE b == <<redo[t], e.ts>>
    <2>2. carried' = carried \cup {b} /\ e.ts \in disk'
      BY <1>1, <1>7, <2>1
    <2>3. redo[t] # 0 /\ redo[t] <= e.ts /\ redo[t] \in issued
      BY <2>1 DEF RedoInv, RedoFits
    <2>4. e.ts \in Nat /\ redo[t] \in Nat
      BY Types, CarriedTypes DEF OrderInv, e
    <2>5. b[1] = redo[t] /\ b[2] = e.ts
      OBVIOUS
    <2> HIDE DEF b
    <2>6. Fits(b)
      <3>1. \A u \in Txn : redo[u] = redo[t] => u = t
        BY <2>3 DEF RedoInv, RedoFits
      <3>2. \E j \in DOMAIN queue' : /\ queue'[j].kind = "prepared"
                                     /\ queue'[j].txn = {t}
                                     /\ queue'[j].state = "written"
        BY <1>3, <1>7, <2>1
      <3>3. redo[t] # e.ts => redo[t] < prepared[t].ts
        BY <2>1, <2>3, <2>4
      <3> QED
        BY <2>2, <2>3, <2>5, <3>1, <3>2, <3>3
    <2>7. CarriedFits'
      BY <1>1, <1>5, <2>2, <2>6 DEF CarriedFits
    <2>8. ASSUME NEW a \in carried, a[1] = b[1] PROVE a[1] # a[2] /\ b[1] # b[2]
      <3>1. a[1] # a[2]
        <4> SUFFICES ASSUME a[1] = a[2] PROVE FALSE
          OBVIOUS
        <4>1. PICK j \in DOMAIN queue : /\ queue[j].kind = "prepared" /\ queue[j].txn = {t}
                                        /\ queue[j].state = "written"
          BY <2>5, <2>8 DEF RedoInv, CarriedFits
        <4>2. j = i
          BY <1>7, <2>1, <4>1 DEF OrderInv, QueueFits, Resolves, e
        <4> QED
          BY <1>1, <4>1, <4>2 DEF e
      <3>2. prepared[t].ts = 0 \/ a[1] < prepared[t].ts
        BY <2>5, <2>8, <3>1 DEF RedoInv, CarriedFits
      <3> QED
        BY <2>1, <2>4, <2>5, <2>8, <3>1, <3>2
    <2>9. CarriedOutOnce'
      <3> SUFFICES ASSUME NEW a \in carried', NEW c \in carried', a[1] = c[1], a[1] = a[2]
                   PROVE  c = a
        BY DEF CarriedOutOnce
      <3>1. CASE a \in carried /\ c \in carried
        BY <3>1 DEF RedoInv, CarriedOutOnce
      <3>2. CASE a \in carried /\ c = b
        BY <2>8, <3>2
      <3>3. CASE a = b /\ c \in carried
        BY <2>8, <3>3
      <3> QED
        BY <2>2, <3>1, <3>2, <3>3
    <2> QED
      BY <1>4, <2>7, <2>9 DEF RedoInv
  <1> QED
    BY <1>6, <1>7

LEMMA PrepareRedo ==
  ASSUME OrderInv, RedoInv, NEW t \in Txn, NEW ts \in Ts, Prepare(t, ts)
  PROVE  RedoInv'
  <1>1. /\ prepared'[t].ts = ts
        /\ \A u \in Txn : u # t => prepared'[u] = prepared[u]
    BY PrepareStages
  <1>2. /\ redo' = [redo EXCEPT ![t] = ts] /\ issued' = issued \cup {ts} /\ ts \notin issued
        /\ UNCHANGED <<latest, queue, recovering, disk, carried>> /\ recovering = {}
    BY DEF Prepare, Running
  <1>3. redo'[t] = ts /\ \A u \in Txn : u # t => redo'[u] = redo[u]
    BY <1>2 DEF OrderInv, TypeOK
  <1>4. ts \in Nat /\ ts # 0
    BY Bounds DEF Ts
  <1>5. RedoFits'
    <2>1. \A u \in Txn : prepared'[u].ts # 0 => redo'[u] # 0 /\ redo'[u] <= prepared'[u].ts
      BY <1>1, <1>3, <1>4 DEF RedoInv, RedoFits
    <2>2. \A u \in Txn : redo'[u] # 0 => redo'[u] \in issued'
      BY <1>2, <1>3 DEF RedoInv, RedoFits
    <2>3. \A u, v \in Txn : redo'[u] # 0 /\ redo'[u] = redo'[v] => u = v
      BY <1>2, <1>3, <1>4 DEF RedoInv, RedoFits
    <2> QED
      BY <1>2, <2>1, <2>2, <2>3 DEF RedoFits
  <1>6. RecoveryFits'
    BY <1>2 DEF RecoveryFits
  <1>7. CarriedFits'
    <2> SUFFICES ASSUME NEW a \in carried
                 PROVE  /\ a[1] \in issued' /\ a[2] \in disk /\ a[1] <= a[2]
                        /\ \A u \in Txn : redo'[u] = a[1] =>
                             IF a[1] = a[2]
                             THEN \E i \in DOMAIN queue : /\ queue[i].kind = "prepared"
                                                          /\ queue[i].txn = {u}
                                                          /\ queue[i].state = "written"
                             ELSE prepared'[u].ts = 0 \/ a[1] < prepared'[u].ts
      BY <1>2 DEF CarriedFits
    <2>1. a[1] \in issued /\ a[2] \in disk /\ a[1] <= a[2]
      BY DEF RedoInv, CarriedFits
    <2>2. \A u \in Txn : redo'[u] = a[1] => redo[u] = a[1] /\ prepared'[u] = prepared[u]
      BY <1>1, <1>2, <1>3, <2>1
    <2> QED
      BY <1>2, <2>1, <2>2 DEF RedoInv, CarriedFits
  <1>8. CarriedOutOnce'
    BY <1>2 DEF RedoInv, CarriedOutOnce
  <1> QED
    BY <1>5, <1>6, <1>7, <1>8 DEF RedoInv

LEMMA RestartRedo ==
  ASSUME OrderInv, RedoInv, NEW clock \in 0..MaxTs, Restart(clock)
  PROVE  RedoInv'
  <1>1. /\ \A c \in disk : c <= latest'
        /\ \A t \in Txn : prepared'[t] = NoPrepare
    BY RestartFacts DEF OrderInv
  <1>2. /\ redo' = [t \in Txn |-> IF AlreadyCommitted(t) THEN 0 ELSE redo[t]]
        /\ recovering' = {t \in Txn : redo'[t] # 0}
        /\ UNCHANGED <<disk, issued, carried>>
    BY DEF Restart
  <1>3. \A t \in Txn : redo'[t] = 0 \/ (redo'[t] = redo[t] /\ redo[t] \notin disk)
    BY <1>2 DEF AlreadyCommitted
  <1>4. RedoFits'
    BY <1>1, <1>2, <1>3, NoPrepareFacts DEF RedoInv, RedoFits
  <1>5. RecoveryFits'
    BY <1>1, <1>2 DEF RecoveryFits
  <1>6. CarriedFits'
    <2> SUFFICES ASSUME NEW a \in carried
                 PROVE  /\ a[1] \in issued /\ a[2] \in disk /\ a[1] <= a[2]
                        /\ \A t \in Txn : redo'[t] = a[1] => a[1] # a[2] /\ prepared'[t].ts = 0
      BY <1>2 DEF CarriedFits
    <2>1. a[1] \in issued /\ a[2] \in disk /\ a[1] <= a[2] /\ a[1] # 0
      BY CarriedTypes DEF OrderInv, RedoInv, CarriedFits
    <2> QED
      BY <1>1, <1>3, <2>1, NoPrepareFacts
  <1>7. CarriedOutOnce'
    BY <1>2 DEF RedoInv, CarriedOutOnce
  <1> QED
    BY <1>4, <1>5, <1>6, <1>7 DEF RedoInv

LEMMA RecoverRedo ==
  ASSUME OrderInv, RedoInv, NEW t \in Txn, Recover(t)
  PROVE  RedoInv'
  <1>1. PICK ts \in Ts :
           /\ ts \in Nat /\ latest < ts /\ redo[t] <= ts
           /\ \A u \in Txn : prepared[u].ts # 0 => prepared[u].ts < ts
           /\ prepared' = [prepared EXCEPT ![t] = [ts |-> ts, holds |-> snap \cup {ts}]]
           /\ lastAssigned' = Max({lastAssigned, ts})
    BY RecoverFacts
  <1>2. /\ t \in recovering /\ recovering' = recovering \ {t}
        /\ UNCHANGED <<latest, queue, redo, disk, issued, carried>>
    BY DEF Recover, durable
  <1>3. /\ prepared'[t].ts = ts
        /\ \A u \in Txn : u # t => prepared'[u] = prepared[u]
    BY <1>1, <1>2, RecoverStages
  <1>4. RedoFits' /\ RecoveryFits'
    BY <1>1, <1>2, <1>3 DEF RedoInv, RedoFits, RecoveryFits
  <1>5. CarriedFits'
    <2> SUFFICES ASSUME NEW a \in carried
                 PROVE  /\ a[1] \in issued /\ a[2] \in disk /\ a[1] <= a[2]
                        /\ \A u \in Txn : redo[u] = a[1] =>
                             IF a[1] = a[2]
                             THEN \E i \in DOMAIN queue : /\ queue[i].kind = "prepared"
                                                          /\ queue[i].txn = {u}
                                                          /\ queue[i].state = "written"
                             ELSE prepared'[u].ts = 0 \/ a[1] < prepared'[u].ts
      BY <1>2 DEF CarriedFits
    <2>1. a[1] \in issued /\ a[2] \in disk /\ a[1] <= a[2]
      BY DEF RedoInv, CarriedFits
    <2>2. a[1] < ts
      <3>1. a[2] <= latest
        BY <1>2, <2>1 DEF RedoInv, RecoveryFits
      <3>2. a[1] \in Nat /\ a[2] \in Nat /\ latest \in Nat
        BY CarriedTypes, Types DEF OrderInv
      <3> QED
        BY <1>1, <2>1, <3>1, <3>2
    <2>3. \A u \in Txn : redo[u] = a[1] =>
             IF a[1] = a[2]
             THEN \E i \in DOMAIN queue : /\ queue[i].kind = "prepared"
                                          /\ queue[i].txn = {u}
                                          /\ queue[i].state = "written"
             ELSE prepared[u].ts = 0 \/ a[1] < prepared[u].ts
      BY DEF RedoInv, CarriedFits
    <2> QED
      BY <1>3, <2>1, <2>2, <2>3
  <1>6. CarriedOutOnce'
    BY <1>2 DEF RedoInv, CarriedOutOnce
  <1> QED
    BY <1>4, <1>5, <1>6 DEF RedoInv

LEMMA RedoInit == Init => RedoInv
  <1> SUFFICES ASSUME Init PROVE RedoInv
    OBVIOUS
  <1>1. \A t \in Txn : prepared[t] = NoPrepare /\ redo[t] = 0
    BY DEF Init
  <1>2. recovering = {} /\ carried = {}
    BY DEF Init
  <1> QED
    BY <1>1, <1>2, NoPrepareFacts
       DEF RedoInv, RedoFits, RecoveryFits, CarriedFits, CarriedOutOnce

----------------------------------------------------------------------------
(* Contents. *)

LEMMA WrittenFacts ==
  ASSUME NEW q
  PROVE  /\ \A k, c : c \in WrittenUpTo(q, k) <=>
              \E j \in DOMAIN q : j <= k /\ IsWrite(q[j]) /\ q[j].ts = c
         /\ \A c : c \in AllWritten(q) <=> \E j \in DOMAIN q : IsWrite(q[j]) /\ q[j].ts = c
         /\ \A c : c \in SnapTs(q) <=> \E j \in DOMAIN q : Snaps(q[j]) /\ q[j].ts = c
  <1>1. \A k, c : c \in WrittenUpTo(q, k) <=>
              \E j \in DOMAIN q : j <= k /\ IsWrite(q[j]) /\ q[j].ts = c
    BY DEF WrittenUpTo
  <1>2. \A c : c \in AllWritten(q) <=> \E j \in DOMAIN q : IsWrite(q[j]) /\ q[j].ts = c
    BY DEF AllWritten
  <1>3. \A c : c \in SnapTs(q) <=> \E j \in DOMAIN q : Snaps(q[j]) /\ q[j].ts = c
    BY DEF SnapTs
  <1> QED
    BY <1>1, <1>2, <1>3

\* A new entry holds what is queued before it, if it is a write.
LEMMA HoldsAppend ==
  ASSUME NEW q \in Seq(QEntry), NEW e \in QEntry, NEW s, HoldsFit(q, s),
         IsWrite(e) => e.holds = s \cup AllWritten(q) \cup {e.ts},
         Snaps(e) => e.queued = e.holds
  PROVE  HoldsFit(Append(q, e), s)
  <1> DEFINE r == Append(q, e)
             n == Len(q) + 1
  <1>1. /\ n \in DOMAIN r /\ r[n] = e /\ n \in Nat
        /\ \A i \in DOMAIN q : i \in DOMAIN r /\ r[i] = q[i]
        /\ \A i \in DOMAIN r : i \in DOMAIN q \/ i = n
        /\ \A i \in DOMAIN q : i \in Nat /\ i < n /\ i <= n /\ ~ (n <= i)
    BY AppendFacts
  <1> HIDE DEF r, n
  <1>2. ASSUME NEW i \in DOMAIN q PROVE WrittenUpTo(r, i) = WrittenUpTo(q, i)
    <2>1. ASSUME NEW c
          PROVE  c \in WrittenUpTo(r, i) <=> c \in WrittenUpTo(q, i)
      <3>1. c \in WrittenUpTo(r, i) <=> \E j \in DOMAIN r : j <= i /\ IsWrite(r[j]) /\ r[j].ts = c
        BY DEF WrittenUpTo
      <3>2. c \in WrittenUpTo(q, i) <=> \E j \in DOMAIN q : j <= i /\ IsWrite(q[j]) /\ q[j].ts = c
        BY DEF WrittenUpTo
      <3> QED
        BY <1>1, <3>1, <3>2
    <2> QED
      BY <2>1
  <1>3. IsWrite(e) => WrittenUpTo(r, n) = AllWritten(q) \cup {e.ts}
    <2> SUFFICES ASSUME IsWrite(e), NEW c
                 PROVE  c \in WrittenUpTo(r, n) <=> c \in AllWritten(q) \/ c = e.ts
      OBVIOUS
    <2>1. c \in WrittenUpTo(r, n) <=> \E j \in DOMAIN r : j <= n /\ IsWrite(r[j]) /\ r[j].ts = c
      BY WrittenFacts
    <2>2. c \in AllWritten(q) <=> \E j \in DOMAIN q : IsWrite(q[j]) /\ q[j].ts = c
      BY WrittenFacts
    <2> QED
      BY <1>1, <2>1, <2>2
  <1>4. ASSUME NEW i \in DOMAIN r, IsWrite(r[i])
        PROVE  /\ r[i].holds = s \cup WrittenUpTo(r, i)
               /\ Snaps(r[i]) => r[i].queued = r[i].holds
    <2>1. CASE i \in DOMAIN q
      BY <1>1, <1>2, <1>4, <2>1 DEF HoldsFit
    <2>2. CASE i = n
      BY <1>1, <1>3, <1>4, <2>2
    <2> QED
      BY <1>1, <2>1, <2>2
  <1> QED
    BY <1>4 DEF HoldsFit, r

LEMMA PreparedAppend ==
  ASSUME NEW q \in Seq(QEntry), NEW e \in QEntry, NEW s, NEW p, PreparedFit(q, p, s),
         Snaps(e) => \A t \in Txn : p[t].ts = 0
  PROVE  PreparedFit(Append(q, e), p, s)
  <1> DEFINE r == Append(q, e)
             n == Len(q) + 1
  <1>1. /\ n \in DOMAIN r /\ r[n] = e
        /\ \A i \in DOMAIN q : i \in DOMAIN r /\ r[i] = q[i]
        /\ \A i \in DOMAIN r : i \in DOMAIN q \/ i = n
    BY AppendFacts
  <1> HIDE DEF r, n
  <1>2. CASE Snaps(e)
    BY <1>2 DEF PreparedFit
  <1>3. CASE ~Snaps(e)
    <2>1. SnapTs(r) = SnapTs(q)
      <3> SUFFICES ASSUME NEW c PROVE c \in SnapTs(r) <=> c \in SnapTs(q)
        OBVIOUS
      <3>1. c \in SnapTs(r) <=> \E j \in DOMAIN r : Snaps(r[j]) /\ r[j].ts = c
        BY WrittenFacts
      <3>2. c \in SnapTs(q) <=> \E j \in DOMAIN q : Snaps(q[j]) /\ q[j].ts = c
        BY WrittenFacts
      <3> QED
        BY <1>1, <1>3, <3>1, <3>2
    <2> QED
      BY <2>1 DEF PreparedFit, r
  <1> QED
    BY <1>2, <1>3

LEMMA DiskAppend ==
  ASSUME NEW q \in Seq(QEntry), NEW e \in QEntry, NEW s, NEW d, DiskFit(q, s, d),
         e.state = "flying"
  PROVE  DiskFit(Append(q, e), s, d)
  <1> DEFINE r == Append(q, e)
             n == Len(q) + 1
  <1>1. /\ n \in DOMAIN r /\ r[n] = e
        /\ \A i \in DOMAIN q : i \in DOMAIN r /\ r[i] = q[i]
        /\ \A i \in DOMAIN r : i \in DOMAIN q \/ i = n
    BY AppendFacts
  <1> HIDE DEF r, n
  <1> QED
    BY <1>1 DEF DiskFit, r

LEMMA ContentAppend ==
  ASSUME OrderInv, ContentInv, NEW e \in QEntry, queue' = Append(queue, e),
         e.state = "flying",
         UNCHANGED <<latest, snap, prepared, durable, history>>,
         Clean => /\ IsWrite(e) => e.holds = snap \cup AllWritten(queue) \cup {e.ts}
                  /\ Snaps(e) => e.queued = e.holds /\ \A t \in Txn : prepared[t].ts = 0
  PROVE  ContentInv'
  <1> SUFFICES ASSUME Clean'
               PROVE  /\ HoldsFit(queue', snap') /\ PreparedFit(queue', prepared', snap')
                      /\ DiskFit(queue', snap', disk')
                      /\ \A c \in snap' : c <= latest'
                      /\ \A i \in DOMAIN queue' : queue'[i].state # "rejected"
    BY DEF ContentInv
  <1>1. Clean
    BY DEF Clean, history
  <1>2. queue \in Seq(QEntry)
    BY Types DEF OrderInv
  <1>3. HoldsFit(queue', snap)
    BY <1>1, <1>2, HoldsAppend DEF ContentInv
  <1>4. PreparedFit(queue', prepared, snap)
    BY <1>1, <1>2, PreparedAppend DEF ContentInv
  <1>5. DiskFit(queue', snap, disk)
    BY <1>1, <1>2, DiskAppend DEF ContentInv
  <1>6. \A i \in DOMAIN queue' : queue'[i].state # "rejected"
    BY <1>1, <1>2, AppendFacts DEF ContentInv
  <1>7. \A c \in snap' : c <= latest'
    BY <1>1 DEF ContentInv
  <1> QED
    BY <1>3, <1>4, <1>5, <1>6, <1>7 DEF durable

\* base_snapshot_for_new_writes is the latest snapshot with everything that
\* is queued.
LEMMA BaseFacts ==
  ASSUME OrderInv, ContentInv, Clean,
         \A i \in DOMAIN queue : queue[i].kind # "prepared"
  PROVE  /\ BaseSnapshot = snap \cup AllWritten(queue)
         /\ SnapTs(queue) = AllWritten(queue)
  <1>1. \A i \in DOMAIN queue : IsWrite(queue[i]) <=> Snaps(queue[i])
    BY DEF IsWrite, Snaps
  <1>2. SnapTs(queue) = AllWritten(queue)
    <2> SUFFICES ASSUME NEW c PROVE c \in SnapTs(queue) <=> c \in AllWritten(queue)
      OBVIOUS
    <2>1. c \in SnapTs(queue) <=> \E j \in DOMAIN queue : Snaps(queue[j]) /\ queue[j].ts = c
      BY WrittenFacts
    <2>2. c \in AllWritten(queue) <=> \E j \in DOMAIN queue : IsWrite(queue[j]) /\ queue[j].ts = c
      BY WrittenFacts
    <2> QED
      BY <1>1, <2>1, <2>2
  <1>3. CASE Queued = {}
    <2>1. \A i \in DOMAIN queue : ~IsWrite(queue[i])
      BY <1>1, <1>3, QueuedFacts DEF OrderInv
    <2>2. AllWritten(queue) = {}
      BY <2>1, WrittenFacts
    <2> QED
      BY <1>2, <1>3, <2>2 DEF BaseSnapshot
  <1>4. CASE Queued # {}
    <2>1. PICK m \in DOMAIN queue : /\ m = Max(Queued) /\ Snaps(queue[m])
                                    /\ \A i \in Queued : i <= m
      BY <1>4, QueuedFacts DEF OrderInv
    <2>2. queue[m].queued = queue[m].holds /\ queue[m].holds = snap \cup WrittenUpTo(queue, m)
      BY <1>1, <2>1 DEF ContentInv, HoldsFit
    <2>3. WrittenUpTo(queue, m) = AllWritten(queue)
      <3> SUFFICES ASSUME NEW c PROVE c \in WrittenUpTo(queue, m) <=> c \in AllWritten(queue)
        OBVIOUS
      <3>1. c \in WrittenUpTo(queue, m) <=>
              \E j \in DOMAIN queue : j <= m /\ IsWrite(queue[j]) /\ queue[j].ts = c
        BY WrittenFacts
      <3>2. c \in AllWritten(queue) <=> \E j \in DOMAIN queue : IsWrite(queue[j]) /\ queue[j].ts = c
        BY WrittenFacts
      <3>3. \A j \in DOMAIN queue : IsWrite(queue[j]) => j <= m
        BY <1>1, <2>1, QueuedFacts DEF OrderInv
      <3> QED
        BY <3>1, <3>2, <3>3
    <2> QED
      BY <1>2, <1>4, <2>1, <2>2, <2>3 DEF BaseSnapshot
  <1> QED
    BY <1>3, <1>4

\* A commit or a delta is queued: nothing is prepared.
LEMMA SnapContent ==
  ASSUME OrderInv, ContentInv, NEW ts \in Ts, NEW kind \in {"commit", "delta"},
         queue' = Append(queue, Entry(kind, ts, {}, BaseSnapshot \cup {ts})),
         \A t \in Txn : prepared[t].ts = 0,
         UNCHANGED <<latest, snap, prepared, durable, history>>
  PROVE  ContentInv'
  <1>1. PICK h \in SUBSET Ts : h = BaseSnapshot \cup {ts}
    BY BaseType DEF OrderInv
  <1> DEFINE e == Entry(kind, ts, {}, h)
  <1>2. /\ e \in QEntry /\ e.kind = kind /\ e.ts = ts /\ e.holds = h
        /\ e.queued = h /\ e.state = "flying"
    <2>1. kind \in Kinds /\ {} \in SUBSET Txn /\ ts \in 0..MaxTs
      BY Bounds DEF Kinds, Ts
    <2> QED
      BY <2>1, EntryFacts
  <1>3. queue' = Append(queue, e)
    BY <1>1
  <1> HIDE DEF e
  <1>4. \A i \in DOMAIN queue : queue[i].kind # "prepared"
    BY DEF OrderInv, QueueFits, EntryFits, Resolves
  <1>5. Clean => h = snap \cup AllWritten(queue) \cup {ts}
    BY <1>1, <1>4, BaseFacts
  <1> QED
    BY <1>2, <1>3, <1>5, ContentAppend

LEMMA StartCommitPreparedContent ==
  ASSUME OrderInv, ContentInv, NEW t \in Txn, StartCommitPrepared(t)
  PROVE  ContentInv'
  <1>1. PICK h \in SUBSET Ts : h = prepared[t].holds
    BY Types DEF OrderInv, Prepares
  <1>2. PICK ts \in 0..MaxTs : ts = prepared[t].ts
    BY Types DEF OrderInv
  <1> DEFINE e == Entry("prepared", ts, {t}, h)
  <1>3. /\ e \in QEntry /\ e.kind = "prepared" /\ e.ts = ts /\ e.holds = h
        /\ e.state = "flying"
    <2>1. "prepared" \in Kinds /\ {t} \in SUBSET Txn
      BY DEF Kinds
    <2> QED
      BY <2>1, EntryFacts
  <1>4. queue' = Append(queue, e) /\ prepared[t].ts # 0 /\ ~InFlight(t, "prepared")
    BY <1>1, <1>2 DEF StartCommitPrepared, Enqueue, MayCommit
  <1> HIDE DEF e
  <1>5. ASSUME Clean PROVE h = snap \cup AllWritten(queue) \cup {ts}
    <2>1. \A i \in DOMAIN queue : queue[i].kind # "prepared"
      <3> SUFFICES ASSUME NEW i \in DOMAIN queue, queue[i].kind = "prepared" PROVE FALSE
        OBVIOUS
      <3>1. PICK u \in Txn : queue[i].txn = {u} /\ prepared[u].ts = queue[i].ts /\ queue[i].ts # 0
        BY DEF OrderInv, QueueFits, EntryFits, Resolves
      <3>2. u = t
        BY <1>4, <1>5, <3>1 DEF ContentInv, PreparedFit
      <3> QED
        BY <1>4, <3>1, <3>2 DEF InFlight
    <2>2. SnapTs(queue) = AllWritten(queue)
      BY <1>5, <2>1, BaseFacts
    <2>3. h = snap \cup SnapTs(queue) \cup {ts}
      BY <1>1, <1>2, <1>4, <1>5 DEF ContentInv, PreparedFit
    <2> QED
      BY <2>2, <2>3
  <1>6. ~Snaps(e)
    BY <1>3 DEF Snaps
  <1>7. UNCHANGED <<latest, snap, prepared, durable, history>>
    BY DEF StartCommitPrepared
  <1> QED
    BY <1>3, <1>4, <1>5, <1>6, <1>7, ContentAppend

\* The first entry is taken; if it is a write, the snapshot is what it holds.
LEMMA HoldsTail ==
  ASSUME NEW q \in Seq(QEntry), q # <<>>, NEW s, NEW z, HoldsFit(q, s),
         z = IF IsWrite(q[1]) THEN q[1].holds ELSE s
  PROVE  /\ HoldsFit(Tail(q), z)
         /\ IsWrite(q[1]) => z = s \cup {q[1].ts}
  <1> DEFINE r == Tail(q)
  <1>1. /\ 1 \in DOMAIN q
        /\ \A i \in DOMAIN r : i \in Nat /\ i + 1 \in DOMAIN q /\ r[i] = q[i + 1]
        /\ \A i \in DOMAIN q : i \in Nat /\ 1 <= i
        /\ \A i \in DOMAIN q : i = 1 \/ (i - 1 \in DOMAIN r /\ r[i - 1] = q[i])
    BY TailFacts
  <1> HIDE DEF r
  <1>2. IsWrite(q[1]) => z = s \cup {q[1].ts}
    <2> SUFFICES ASSUME IsWrite(q[1]) PROVE q[1].holds = s \cup {q[1].ts}
      OBVIOUS
    <2>1. q[1].holds = s \cup WrittenUpTo(q, 1)
      BY <1>1 DEF HoldsFit
    <2>2. ASSUME NEW c PROVE c \in WrittenUpTo(q, 1) <=> c = q[1].ts
      <3>1. c \in WrittenUpTo(q, 1) <=> \E j \in DOMAIN q : j <= 1 /\ IsWrite(q[j]) /\ q[j].ts = c
        BY DEF WrittenUpTo
      <3>2. \A j \in DOMAIN q : j <= 1 <=> j = 1
        BY <1>1
      <3> QED
        BY <1>1, <3>1, <3>2
    <2> QED
      BY <2>1, <2>2
  <1>3. ASSUME NEW i \in DOMAIN r
        PROVE  s \cup WrittenUpTo(q, i + 1) = z \cup WrittenUpTo(r, i)
    <2> SUFFICES ASSUME NEW c
                 PROVE  c \in s \/ c \in WrittenUpTo(q, i + 1) <=> c \in z \/ c \in WrittenUpTo(r, i)
      OBVIOUS
    <2>1. c \in WrittenUpTo(q, i + 1) <=>
            \E j \in DOMAIN q : j <= i + 1 /\ IsWrite(q[j]) /\ q[j].ts = c
      BY DEF WrittenUpTo
    <2>2. c \in WrittenUpTo(r, i) <=> \E j \in DOMAIN r : j <= i /\ IsWrite(r[j]) /\ r[j].ts = c
      BY DEF WrittenUpTo
    <2>3. c \in z <=> c \in s \/ (IsWrite(q[1]) /\ c = q[1].ts)
      BY <1>2
    <2>4. c \in WrittenUpTo(q, i + 1) => c \in WrittenUpTo(r, i) \/ (IsWrite(q[1]) /\ c = q[1].ts)
      <3> SUFFICES ASSUME NEW j \in DOMAIN q, j <= i + 1, IsWrite(q[j]), q[j].ts = c, j # 1
                   PROVE  c \in WrittenUpTo(r, i)
        BY <2>1
      <3>1. j - 1 \in DOMAIN r /\ r[j - 1] = q[j] /\ j - 1 <= i
        BY <1>1
      <3> QED
        BY <2>2, <3>1
    <2>5. c \in WrittenUpTo(r, i) => c \in WrittenUpTo(q, i + 1)
      <3> SUFFICES ASSUME NEW j \in DOMAIN r, j <= i, IsWrite(r[j]), r[j].ts = c
                   PROVE  c \in WrittenUpTo(q, i + 1)
        BY <2>2
      <3>1. j + 1 \in DOMAIN q /\ r[j] = q[j + 1] /\ j + 1 <= i + 1
        BY <1>1
      <3> QED
        BY <2>1, <3>1
    <2>6. IsWrite(q[1]) /\ c = q[1].ts => c \in WrittenUpTo(q, i + 1)
      <3>1. 1 <= i + 1
        BY <1>1
      <3> QED
        BY <1>1, <2>1, <3>1
    <2> QED
      BY <2>3, <2>4, <2>5, <2>6
  <1>4. ASSUME NEW i \in DOMAIN r, IsWrite(r[i])
        PROVE  /\ r[i].holds = z \cup WrittenUpTo(r, i)
               /\ Snaps(r[i]) => r[i].queued = r[i].holds
    <2>1. i + 1 \in DOMAIN q /\ r[i] = q[i + 1]
      BY <1>1
    <2>2. /\ q[i + 1].holds = s \cup WrittenUpTo(q, i + 1)
          /\ Snaps(q[i + 1]) => q[i + 1].queued = q[i + 1].holds
      BY <1>4, <2>1 DEF HoldsFit
    <2> QED
      BY <1>3, <2>1, <2>2
  <1> QED
    BY <1>2, <1>4 DEF HoldsFit, r

LEMMA PreparedTail ==
  ASSUME NEW q \in Seq(QEntry), q # <<>>, NEW s, NEW z, NEW p, NEW u, PreparedFit(q, p, s),
         z = IF IsWrite(q[1]) THEN s \cup {q[1].ts} ELSE s,
         \A t \in Txn : u[t] = p[t] \/ u[t].ts = 0,
         q[1].kind = "prepared" => \A t \in Txn : u[t].ts = 0
  PROVE  PreparedFit(Tail(q), u, z)
  <1> DEFINE r == Tail(q)
  <1>1. /\ 1 \in DOMAIN q
        /\ \A i \in DOMAIN r : i + 1 \in DOMAIN q /\ r[i] = q[i + 1]
        /\ \A i \in DOMAIN q : i = 1 \/ (i - 1 \in DOMAIN r /\ r[i - 1] = q[i])
    BY TailFacts
  <1> HIDE DEF r
  <1>2. CASE q[1].kind = "prepared"
    BY <1>2 DEF PreparedFit
  <1>3. CASE q[1].kind # "prepared"
    <2>1. IsWrite(q[1]) <=> Snaps(q[1])
      BY <1>3 DEF IsWrite, Snaps
    <2>2. ASSUME NEW c PROVE c \in s \/ c \in SnapTs(q) <=> c \in z \/ c \in SnapTs(r)
      <3>1. c \in SnapTs(q) <=> \E j \in DOMAIN q : Snaps(q[j]) /\ q[j].ts = c
        BY WrittenFacts
      <3>2. c \in SnapTs(r) <=> \E j \in DOMAIN r : Snaps(r[j]) /\ r[j].ts = c
        BY WrittenFacts
      <3>3. c \in z <=> c \in s \/ (Snaps(q[1]) /\ c = q[1].ts)
        BY <2>1
      <3>4. c \in SnapTs(q) <=> c \in SnapTs(r) \/ (Snaps(q[1]) /\ c = q[1].ts)
        BY <1>1, <3>1, <3>2
      <3> QED
        BY <3>3, <3>4
    <2>3. s \cup SnapTs(q) = z \cup SnapTs(r)
      BY <2>2
    <2> QED
      BY <2>3 DEF PreparedFit, r
  <1> QED
    BY <1>2, <1>3

LEMMA DiskTail ==
  ASSUME NEW q \in Seq(QEntry), q # <<>>, NEW s, NEW z, NEW d, DiskFit(q, s, d),
         z = IF IsWrite(q[1]) THEN s \cup {q[1].ts} ELSE s,
         IsWrite(q[1]) => q[1].state = "written"
  PROVE  DiskFit(Tail(q), z, d)
  <1> DEFINE r == Tail(q)
  <1>1. /\ 1 \in DOMAIN q
        /\ \A i \in DOMAIN r : i + 1 \in DOMAIN q /\ r[i] = q[i + 1]
        /\ \A i \in DOMAIN q : i = 1 \/ (i - 1 \in DOMAIN r /\ r[i - 1] = q[i])
    BY TailFacts
  <1> HIDE DEF r
  <1>2. ASSUME NEW c \in d
        PROVE  c \in z \/ \E i \in DOMAIN r : IsWrite(r[i]) /\ r[i].ts = c
    <2>1. CASE c \in s
      BY <2>1
    <2>2. ASSUME NEW i \in DOMAIN q, IsWrite(q[i]), q[i].ts = c
          PROVE  c \in z \/ \E j \in DOMAIN r : IsWrite(r[j]) /\ r[j].ts = c
      BY <1>1, <2>2
    <2> QED
      BY <2>1, <2>2 DEF DiskFit
  <1>3. z \subseteq d
    BY <1>1 DEF DiskFit
  <1>4. \A i \in DOMAIN r : r[i].state = "written" /\ IsWrite(r[i]) => r[i].ts \in d
    BY <1>1 DEF DiskFit
  <1> QED
    BY <1>2, <1>3, <1>4 DEF DiskFit, r

LEMMA ContentTail ==
  ASSUME OrderInv, ContentInv, queue # <<>>, queue' = Tail(queue),
         snap' = IF IsWrite(queue[1]) THEN queue[1].holds ELSE snap,
         IsWrite(queue[1]) => queue[1].state = "written" /\ latest' = queue[1].ts,
         latest' \in Nat, latest <= latest',
         \A t \in Txn : prepared'[t] = prepared[t] \/ prepared'[t].ts = 0,
         queue[1].kind = "prepared" =>
           \E t \in Txn : prepared[t].ts # 0 /\ prepared'[t].ts = 0,
         UNCHANGED <<disk, alone, rejects>>
  PROVE  ContentInv'
  <1> SUFFICES ASSUME Clean'
               PROVE  /\ HoldsFit(queue', snap') /\ PreparedFit(queue', prepared', snap')
                      /\ DiskFit(queue', snap', disk')
                      /\ \A c \in snap' : c <= latest'
                      /\ \A i \in DOMAIN queue' : queue'[i].state # "rejected"
    BY DEF ContentInv
  <1>1. Clean
    BY DEF Clean
  <1>2. queue \in Seq(QEntry) /\ latest \in Nat
    BY Types DEF OrderInv
  <1>3. /\ HoldsFit(queue', snap')
        /\ IsWrite(queue[1]) => snap' = snap \cup {queue[1].ts}
    BY <1>1, <1>2, HoldsTail DEF ContentInv
  <1>4. snap' = IF IsWrite(queue[1]) THEN snap \cup {queue[1].ts} ELSE snap
    BY <1>3
  <1>5. queue[1].kind = "prepared" => \A t \in Txn : prepared'[t].ts = 0
    <2> SUFFICES ASSUME queue[1].kind = "prepared", NEW u \in Txn PROVE prepared'[u].ts = 0
      OBVIOUS
    <2>1. PICK t \in Txn : prepared[t].ts # 0 /\ prepared'[t].ts = 0
      OBVIOUS
    <2>2. prepared[u].ts # 0 => u = t
      BY <1>1, <2>1 DEF ContentInv, PreparedFit
    <2> QED
      BY <2>1, <2>2
  <1>6. PreparedFit(queue', prepared', snap')
    BY <1>1, <1>2, <1>4, <1>5, PreparedTail DEF ContentInv
  <1>7. DiskFit(queue', snap', disk)
    BY <1>1, <1>2, <1>4, DiskTail DEF ContentInv
  <1>8. \A c \in snap' : c <= latest'
    <2>1. \A c \in snap : c <= latest /\ c \in Nat
      <3>1. \A c \in Ts : c \in Nat
        BY Bounds DEF Ts
      <3> QED
        BY <1>1, <3>1 DEF ContentInv, OrderInv, TypeOK
    <2> QED
      BY <1>2, <1>4, <2>1
  <1>9. \A i \in DOMAIN queue' : queue'[i].state # "rejected"
    BY <1>1, <1>2, TailFacts DEF ContentInv
  <1> QED
    BY <1>3, <1>6, <1>7, <1>8, <1>9

LEMMA PublishWriteContent ==
  ASSUME OrderInv, ContentInv, PublishWrite
  PROVE  ContentInv'
  <1> DEFINE e == queue[1]
  <1>1. /\ queue # <<>> /\ queue' = Tail(queue) /\ e.state = "written"
        /\ latest < e.ts /\ latest' = e.ts /\ snap' = e.holds
        /\ \/ Snaps(e) /\ UNCHANGED <<prepared, redo>>
           \/ /\ e.kind = "prepared"
              /\ \E t \in Txn : e.txn = {t} /\ Forgotten(t) /\ prepared[t].ts = e.ts
        /\ UNCHANGED <<disk, alone, rejects>>
    BY PublishWriteFacts DEF history
  <1>2. e.ts \in Nat /\ latest \in Nat
    BY <1>1, HeadFacts, Types DEF OrderInv
  <1>3. IsWrite(e) /\ latest <= latest'
    BY <1>1, <1>2 DEF IsWrite, Snaps
  <1>4. /\ \A t \in Txn : prepared'[t] = prepared[t] \/ prepared'[t].ts = 0
        /\ e.kind = "prepared" => \E t \in Txn : prepared[t].ts # 0 /\ prepared'[t].ts = 0
    <2>1. CASE Snaps(e) /\ UNCHANGED <<prepared, redo>>
      BY <2>1 DEF Snaps
    <2>2. ASSUME NEW t \in Txn, Forgotten(t), prepared[t].ts = e.ts
          PROVE  /\ \A u \in Txn : prepared'[u] = prepared[u] \/ prepared'[u].ts = 0
                 /\ \E u \in Txn : prepared[u].ts # 0 /\ prepared'[u].ts = 0
      <3>1. /\ prepared'[t].ts = 0
            /\ \A u \in Txn : u # t => prepared'[u] = prepared[u]
        BY <2>2, ForgottenFacts DEF OrderInv
      <3>2. prepared[t].ts # 0
        BY <1>1, <1>2, <2>2
      <3> QED
        BY <3>1, <3>2
    <2> QED
      BY <1>1, <2>1, <2>2
  <1> QED
    BY <1>1, <1>2, <1>3, <1>4, ContentTail

\* An entry that is no write is taken.
LEMMA ContentDrop ==
  ASSUME OrderInv, ContentInv, queue # <<>>, queue' = Tail(queue), ~IsWrite(queue[1]),
         latest' \in Nat, latest <= latest',
         \A t \in Txn : prepared'[t] = prepared[t] \/ prepared'[t].ts = 0,
         UNCHANGED <<snap, disk, alone, rejects>>
  PROVE  ContentInv'
  <1>1. queue[1].kind # "prepared"
    BY DEF IsWrite
  <1> QED
    BY <1>1, ContentTail

LEMMA PrepareContent ==
  ASSUME OrderInv, ContentInv, NEW t \in Txn, NEW ts \in Ts, Prepare(t, ts)
  PROVE  ContentInv'
  <1> SUFFICES ASSUME Clean'
               PROVE  /\ HoldsFit(queue', snap') /\ PreparedFit(queue', prepared', snap')
                      /\ DiskFit(queue', snap', disk')
                      /\ \A c \in snap' : c <= latest'
                      /\ \A i \in DOMAIN queue' : queue'[i].state # "rejected"
    BY DEF ContentInv
  <1>1. /\ UNCHANGED <<latest, snap, queue, disk, rejects>>
        /\ alone' = (alone /\ Unresolved = {})
    BY DEF Prepare
  <1>2. Clean /\ Unresolved = {}
    BY <1>1 DEF Clean
  <1>3. \A u \in Txn : prepared[u].ts = 0
    BY <1>2, UnresolvedFacts DEF OrderInv
  <1>4. /\ prepared'[t].ts = ts /\ prepared'[t].holds = BaseSnapshot \cup {ts}
        /\ \A u \in Txn : u # t => prepared'[u] = prepared[u]
    BY PrepareStages
  <1>5. \A i \in DOMAIN queue : queue[i].kind # "prepared"
    BY PrepareFacts
  <1>6. BaseSnapshot = snap \cup SnapTs(queue)
    BY <1>2, <1>5, BaseFacts
  <1>7. PreparedFit(queue, prepared', snap)
    <2>1. \A u \in Txn : prepared'[u].ts # 0 => u = t
      BY <1>3, <1>4
    <2> QED
      BY <1>4, <1>6, <2>1 DEF PreparedFit
  <1> QED
    BY <1>1, <1>2, <1>7 DEF ContentInv

LEMMA RecoverContent ==
  ASSUME OrderInv, ContentInv, NEW t \in Txn, Recover(t)
  PROVE  ContentInv'
  <1> SUFFICES ASSUME Clean'
               PROVE  /\ HoldsFit(queue', snap') /\ PreparedFit(queue', prepared', snap')
                      /\ DiskFit(queue', snap', disk')
                      /\ \A c \in snap' : c <= latest'
                      /\ \A i \in DOMAIN queue' : queue'[i].state # "rejected"
    BY DEF ContentInv
  <1>1. /\ UNCHANGED <<latest, snap, queue, disk, rejects>> /\ t \in recovering
        /\ alone' = (alone /\ Unresolved = {})
    BY DEF Recover, durable
  <1>2. Clean /\ Unresolved = {}
    BY <1>1 DEF Clean
  <1>3. \A u \in Txn : prepared[u].ts = 0
    BY <1>2, UnresolvedFacts DEF OrderInv
  <1>4. PICK ts \in Ts :
           /\ ts \in Nat /\ latest < ts /\ redo[t] <= ts
           /\ \A u \in Txn : prepared[u].ts # 0 => prepared[u].ts < ts
           /\ prepared' = [prepared EXCEPT ![t] = [ts |-> ts, holds |-> snap \cup {ts}]]
           /\ lastAssigned' = Max({lastAssigned, ts})
    BY RecoverFacts
  <1>5. /\ prepared'[t].ts = ts /\ prepared'[t].holds = snap \cup {ts}
        /\ \A u \in Txn : u # t => prepared'[u] = prepared[u]
    BY <1>1, <1>4, RecoverStages
  <1>6. SnapTs(queue) = {}
    <2>1. DOMAIN queue = {}
      BY <1>1 DEF OrderInv
    <2> QED
      BY <2>1 DEF SnapTs
  <1>7. PreparedFit(queue, prepared', snap)
    <2>1. \A u \in Txn : prepared'[u].ts # 0 => u = t
      BY <1>3, <1>5
    <2> QED
      BY <1>5, <1>6, <2>1 DEF PreparedFit
  <1> QED
    BY <1>1, <1>2, <1>7 DEF ContentInv

LEMMA RestartContent ==
  ASSUME OrderInv, NEW clock \in 0..MaxTs, Restart(clock)
  PROVE  ContentInv'
  <1>1. /\ \A c \in disk : c <= latest'
        /\ \A t \in Txn : prepared'[t] = NoPrepare
        /\ DOMAIN queue' = {}
    BY RestartFacts DEF OrderInv
  <1>2. snap' = disk /\ disk' = disk
    BY DEF Restart
  <1>3. HoldsFit(queue', snap') /\ DiskFit(queue', snap', disk')
    BY <1>1, <1>2 DEF HoldsFit, DiskFit
  <1>4. PreparedFit(queue', prepared', snap')
    BY <1>1, NoPrepareFacts DEF PreparedFit
  <1> QED
    BY <1>1, <1>2, <1>3, <1>4 DEF ContentInv

LEMMA PersistContent ==
  ASSUME OrderInv, ContentInv, NEW i \in DOMAIN queue, Persist(i)
  PROVE  ContentInv'
  <1> SUFFICES ASSUME Clean'
               PROVE  /\ HoldsFit(queue', snap') /\ PreparedFit(queue', prepared', snap')
                      /\ DiskFit(queue', snap', disk')
                      /\ \A c \in snap' : c <= latest'
                      /\ \A j \in DOMAIN queue' : queue'[j].state # "rejected"
    BY DEF ContentInv
  <1>1. /\ queue' = [queue EXCEPT ![i].state = "written"]
        /\ disk' = IF queue[i].kind \in {"commit", "delta", "prepared"}
                   THEN disk \cup {queue[i].ts} ELSE disk
        /\ UNCHANGED <<latest, snap, prepared, alone, rejects>>
    BY DEF Persist
  <1>2. Clean
    BY <1>1 DEF Clean
  <1>3. /\ DOMAIN queue' = DOMAIN queue
        /\ \A j \in DOMAIN queue : j # i => queue'[j] = queue[j]
        /\ queue'[i].kind = queue[i].kind /\ queue'[i].ts = queue[i].ts
        /\ queue'[i].holds = queue[i].holds /\ queue'[i].queued = queue[i].queued
        /\ queue'[i].state = "written"
    BY <1>1, StateChange DEF OrderInv
  <1>4. ASSUME NEW j \in DOMAIN queue
        PROVE  /\ queue'[j].ts = queue[j].ts /\ queue'[j].holds = queue[j].holds
               /\ queue'[j].queued = queue[j].queued
               /\ IsWrite(queue'[j]) <=> IsWrite(queue[j])
               /\ Snaps(queue'[j]) <=> Snaps(queue[j])
    <2>1. queue'[j].kind = queue[j].kind
      BY <1>3
    <2> QED
      BY <1>3, <2>1 DEF IsWrite, Snaps
  <1>5. HoldsFit(queue', snap)
    <2>1. ASSUME NEW k, NEW c
          PROVE  c \in WrittenUpTo(queue', k) <=> c \in WrittenUpTo(queue, k)
      <3>1. c \in WrittenUpTo(queue', k) <=>
              \E j \in DOMAIN queue' : j <= k /\ IsWrite(queue'[j]) /\ queue'[j].ts = c
        BY DEF WrittenUpTo
      <3>2. c \in WrittenUpTo(queue, k) <=>
              \E j \in DOMAIN queue : j <= k /\ IsWrite(queue[j]) /\ queue[j].ts = c
        BY DEF WrittenUpTo
      <3> QED
        BY <1>3, <1>4, <3>1, <3>2
    <2>2. \A k : WrittenUpTo(queue', k) = WrittenUpTo(queue, k)
      BY <2>1
    <2> QED
      BY <1>2, <1>3, <1>4, <2>2 DEF ContentInv, HoldsFit
  <1>6. PreparedFit(queue', prepared, snap)
    <2>1. ASSUME NEW c PROVE c \in SnapTs(queue') <=> c \in SnapTs(queue)
      <3>1. c \in SnapTs(queue') <=> \E j \in DOMAIN queue' : Snaps(queue'[j]) /\ queue'[j].ts = c
        BY DEF SnapTs
      <3>2. c \in SnapTs(queue) <=> \E j \in DOMAIN queue : Snaps(queue[j]) /\ queue[j].ts = c
        BY DEF SnapTs
      <3> QED
        BY <1>3, <1>4, <3>1, <3>2
    <2>2. SnapTs(queue') = SnapTs(queue)
      BY <2>1
    <2> QED
      BY <1>2, <2>2 DEF ContentInv, PreparedFit
  <1>7. DiskFit(queue', snap, disk')
    <2>1. disk \subseteq disk' /\ (IsWrite(queue[i]) => queue[i].ts \in disk')
      BY <1>1 DEF IsWrite
    <2>2. \A c \in disk' : c \in disk \/ (IsWrite(queue[i]) /\ c = queue[i].ts)
      BY <1>1 DEF IsWrite
    <2>3. ASSUME NEW c \in disk'
          PROVE  c \in snap \/ \E j \in DOMAIN queue' : IsWrite(queue'[j]) /\ queue'[j].ts = c
      BY <1>2, <1>3, <1>4, <2>2 DEF ContentInv, DiskFit
    <2>4. snap \subseteq disk'
      BY <1>2, <2>1 DEF ContentInv, DiskFit
    <2>5. ASSUME NEW j \in DOMAIN queue', queue'[j].state = "written", IsWrite(queue'[j])
          PROVE  queue'[j].ts \in disk'
      <3>1. CASE j = i
        BY <1>3, <1>4, <2>1, <2>5, <3>1
      <3>2. CASE j # i
        BY <1>2, <1>3, <2>1, <2>5, <3>2 DEF ContentInv, DiskFit
      <3> QED
        BY <3>1, <3>2
    <2> QED
      BY <2>3, <2>4, <2>5 DEF DiskFit
  <1>8. \A j \in DOMAIN queue' : queue'[j].state # "rejected"
    BY <1>2, <1>3 DEF ContentInv
  <1> QED
    BY <1>1, <1>2, <1>5, <1>6, <1>7, <1>8 DEF ContentInv

LEMMA RejectContent ==
  ASSUME OrderInv, NEW i \in DOMAIN queue, Reject(i)
  PROVE  ContentInv'
  <1>1. rejects' # 0
    BY DEF Reject, OrderInv, TypeOK
  <1> QED
    BY <1>1 DEF ContentInv, Clean

LEMMA DropRejectedContent ==
  ASSUME OrderInv, ContentInv, DropRejected
  PROVE  ContentInv'
  <1>1. queue # <<>> /\ Head(queue).state = "rejected" /\ UNCHANGED <<alone, rejects>>
    BY DEF DropRejected, HeadIs, history
  <1>2. 1 \in DOMAIN queue /\ queue[1].state = "rejected"
    BY <1>1, HeadFacts
  <1>3. ~Clean
    BY <1>2 DEF ContentInv
  <1> QED
    BY <1>1, <1>3 DEF ContentInv, Clean

LEMMA ContentInit == Init => ContentInv
  <1> SUFFICES ASSUME Init PROVE ContentInv
    OBVIOUS
  <1>1. \A t \in Txn : prepared[t] = NoPrepare
    BY DEF Init
  <1>2. DOMAIN queue = {} /\ snap = {} /\ disk = {}
    BY DEF Init
  <1> QED
    BY <1>1, <1>2, NoPrepareFacts DEF ContentInv, HoldsFit, PreparedFit, DiskFit

----------------------------------------------------------------------------
(* The steps, for contents and redo records. *)

\* An entry that is no write is queued.
LEMMA QueueOther ==
  ASSUME OrderInv, ContentInv, RedoInv, NEW kind \in {"rollback", "bump", "barrier"},
         NEW ts \in 0..MaxTs, NEW txn \in SUBSET Txn,
         queue' = Append(queue, Entry(kind, ts, txn, {})), issued \subseteq issued',
         UNCHANGED <<latest, snap, prepared, recovering, durable, history>>
  PROVE  ContentInv' /\ RedoInv'
  <1> DEFINE e == Entry(kind, ts, txn, {})
  <1>1. e \in QEntry /\ e.kind = kind /\ e.state = "flying"
    <2>1. kind \in Kinds /\ {} \in SUBSET Ts
      BY DEF Kinds
    <2> QED
      BY <2>1, EntryFacts
  <1>2. queue' = Append(queue, e)
    OBVIOUS
  <1> HIDE DEF e
  <1>3. ~IsWrite(e) /\ ~Snaps(e)
    BY <1>1 DEF IsWrite, Snaps
  <1>4. ContentInv'
    BY <1>1, <1>2, <1>3, ContentAppend
  <1>5. RedoInv'
    BY <1>2, RedoAppend
  <1> QED
    BY <1>4, <1>5

\* A commit, a delta, a transaction, a rollback, a bump or a barrier is queued.
LEMMA AdmitStep ==
  ASSUME PipelineInv,
         \/ \E ts \in Ts : StartCommit(ts)
         \/ \E ts \in Ts : ApplyDelta(ts)
         \/ \E t \in Txn : StartCommitPrepared(t)
         \/ \E t \in Txn : StartRollbackPrepared(t)
         \/ \E ts \in 0..MaxTs : Bump(ts)
         \/ \E ts \in Ts, include \in BOOLEAN : CloseWithBarrier(ts, include)
  PROVE  PipelineInv'
  <1> USE DEF PipelineInv
  <1>1. ASSUME NEW ts \in Ts, StartCommit(ts) PROVE PipelineInv'
    <2>1. /\ queue' = Append(queue, Entry("commit", ts, {}, BaseSnapshot \cup {ts}))
          /\ issued \subseteq issued'
          /\ UNCHANGED <<latest, snap, prepared, recovering, durable, history>>
      BY <1>1 DEF StartCommit, Enqueue
    <2>2. \A t \in Txn : prepared[t].ts = 0
      BY <1>1, UnresolvedFacts DEF StartCommit, OrderInv
    <2>3. ContentInv'
      BY <2>1, <2>2, SnapContent
    <2>4. RedoInv'
      BY <2>1, RedoAppend
    <2> QED
      BY <1>1, <2>3, <2>4, StartCommitOrder
  <1>2. ASSUME NEW origin \in Ts, ApplyDelta(origin) PROVE PipelineInv'
    <2>1. PICK ts \in Ts :
             /\ ts > latest /\ ts > lastAssigned
             /\ queue' = Append(queue, Entry("delta", ts, {}, BaseSnapshot \cup {ts}))
             /\ lastAssigned' = ts
             /\ \A t \in Txn : prepared[t].ts = 0
      BY <1>2, DeltaFacts
    <2>2. /\ issued \subseteq issued'
          /\ UNCHANGED <<latest, snap, prepared, recovering, durable, history>>
      BY <1>2 DEF ApplyDelta
    <2>3. ContentInv'
      BY <2>1, <2>2, SnapContent
    <2>4. RedoInv'
      BY <2>1, <2>2, RedoAppend
    <2> QED
      BY <1>2, <2>3, <2>4, ApplyDeltaOrder
  <1>3. ASSUME NEW t \in Txn, StartCommitPrepared(t) PROVE PipelineInv'
    <2>1. /\ queue' = Append(queue, Entry("prepared", prepared[t].ts, {t}, prepared[t].holds))
          /\ issued' = issued
          /\ UNCHANGED <<latest, prepared, recovering, durable, history>>
      BY <1>3 DEF StartCommitPrepared, Enqueue
    <2>2. RedoInv'
      BY <2>1, RedoAppend
    <2> QED
      BY <1>3, <2>2, StartCommitPreparedOrder, StartCommitPreparedContent
  <1>4. ASSUME NEW t \in Txn, StartRollbackPrepared(t) PROVE PipelineInv'
    <2>1. /\ queue' = Append(queue, Entry("rollback", prepared[t].ts, {t}, {}))
          /\ issued' = issued
          /\ UNCHANGED <<latest, snap, prepared, recovering, durable, history>>
      BY <1>4 DEF StartRollbackPrepared, Enqueue
    <2>2. prepared[t].ts \in 0..MaxTs /\ {t} \in SUBSET Txn
      BY Types DEF OrderInv
    <2>3. ContentInv' /\ RedoInv'
      BY <2>1, <2>2, QueueOther
    <2> QED
      BY <1>4, <2>3, StartRollbackPreparedOrder
  <1>5. ASSUME NEW ts \in 0..MaxTs, Bump(ts) PROVE PipelineInv'
    <2>1. /\ queue' = Append(queue, Entry("bump", ts, {}, {}))
          /\ UNCHANGED <<latest, snap, prepared, recovering, durable, history>>
      BY <1>5 DEF Bump, Enqueue, history
    <2>2. issued \subseteq issued'
      BY <1>5 DEF Bump, TakeMaxRepeatable
    <2>3. {} \in SUBSET Txn
      OBVIOUS
    <2>4. ContentInv' /\ RedoInv'
      BY <2>1, <2>2, <2>3, QueueOther
    <2> QED
      BY <1>5, <2>4, BumpOrder
  <1>6. ASSUME NEW ts \in Ts, NEW include \in BOOLEAN, CloseWithBarrier(ts, include)
        PROVE  PipelineInv'
    <2>1. /\ queue' = Append(queue, Entry("barrier", ts, {}, {}))
          /\ UNCHANGED <<latest, snap, prepared, recovering, durable, issued, history>>
      BY <1>6 DEF CloseWithBarrier, Enqueue
    <2>2. ts \in 0..MaxTs /\ {} \in SUBSET Txn
      BY Bounds
    <2>3. ContentInv' /\ RedoInv'
      BY <2>1, <2>2, QueueOther
    <2> QED
      BY <1>6, <2>3, CloseWithBarrierOrder
  <1> QED
    BY <1>1, <1>2, <1>3, <1>4, <1>5, <1>6

LEMMA QuietStep ==
  ASSUME PipelineInv,
         \/ \E ts \in 0..MaxTs : Heartbeat(ts)
         \/ \E ts \in Ts, include \in BOOLEAN : CloseAtOnce(ts, include)
  PROVE  PipelineInv'
  <1> USE DEF PipelineInv
  <1>1. OrderInv'
    BY HeartbeatOrder, CloseAtOnceOrder
  <1>2. UNCHANGED <<latest, snap, queue, prepared, recovering, durable, carried, alone, rejects>>
    BY DEF Heartbeat, CloseAtOnce, history
  <1>3. issued \subseteq issued'
    BY DEF Heartbeat, CloseAtOnce, TakeMaxRepeatable
  <1>4. ContentInv'
    BY <1>2 DEF ContentInv, Clean, durable
  <1>5. latest' \in Nat /\ latest <= latest'
    BY <1>2, Types DEF OrderInv
  <1>6. RedoInv'
    BY <1>2, <1>3, <1>5, KeptSame, RedoQuiet DEF durable
  <1> QED
    BY <1>1, <1>4, <1>6

\* A write ends, or is rejected.
LEMMA WriteStep ==
  ASSUME PipelineInv, NEW i \in DOMAIN queue, Persist(i) \/ Reject(i)
  PROVE  PipelineInv'
  <1> USE DEF PipelineInv
  <1>1. CASE Persist(i)
    BY <1>1, PersistOrder, PersistContent, PersistRedo DEF RedoInv
  <1>2. CASE Reject(i)
    <2>1. /\ queue' = [queue EXCEPT ![i].state = "rejected"] /\ queue[i].state = "flying"
          /\ UNCHANGED <<latest, prepared, redo, recovering, disk, carried, issued>>
      BY <1>2 DEF Reject, durable
    <2>2. /\ DOMAIN queue' = DOMAIN queue
          /\ \A j \in DOMAIN queue : j # i => queue'[j] = queue[j]
      BY <2>1, StateChange DEF OrderInv
    <2>3. Kept(queue, queue')
      BY <2>1, <2>2 DEF Kept
    <2>4. latest' \in Nat /\ latest <= latest'
      BY <2>1, Types DEF OrderInv
    <2>5. RedoInv'
      BY <2>1, <2>3, <2>4, RedoQuiet
    <2> QED
      BY <1>2, <2>5, RejectOrder, RejectContent
  <1> QED
    BY <1>1, <1>2

LEMMA PublishWriteStep ==
  ASSUME PipelineInv, PublishWrite
  PROVE  PipelineInv'
  <1> USE DEF PipelineInv
  <1>1. /\ queue # <<>> /\ queue' = Tail(queue)
        /\ latest < queue[1].ts /\ latest' = queue[1].ts
        /\ \/ Snaps(queue[1]) /\ UNCHANGED <<prepared, redo>>
           \/ /\ queue[1].kind = "prepared"
              /\ \E t \in Txn : queue[1].txn = {t} /\ Forgotten(t) /\ prepared[t].ts = queue[1].ts
        /\ UNCHANGED <<recovering, disk, issued, carried>>
    BY PublishWriteFacts DEF history
  <1>2. latest \in Nat /\ queue[1].ts \in Nat
    BY <1>1, HeadFacts, Types DEF OrderInv
  <1>3. CASE Snaps(queue[1]) /\ UNCHANGED <<prepared, redo>>
    <2>1. queue[1].kind # "prepared" /\ latest' \in Nat /\ latest <= latest'
      BY <1>1, <1>2, <1>3 DEF Snaps
    <2>2. RedoInv'
      BY <1>1, <1>3, <2>1, RedoDrop
    <2> QED
      BY <2>2, PublishWriteOrder, PublishWriteContent
  <1>4. ASSUME NEW t \in Txn, queue[1].txn = {t}, Forgotten(t) PROVE PipelineInv'
    <2>1. RedoInv'
      BY <1>1, <1>4, RedoForget
    <2> QED
      BY <2>1, PublishWriteOrder, PublishWriteContent
  <1> QED
    BY <1>1, <1>3, <1>4

LEMMA PublishRollbackStep ==
  ASSUME PipelineInv, PublishRollback
  PROVE  PipelineInv'
  <1> USE DEF PipelineInv
  <1>1. /\ queue # <<>> /\ queue' = Tail(queue) /\ queue[1].kind = "rollback"
        /\ UNCHANGED <<latest, snap, recovering, disk, issued, carried, alone, rejects>>
    BY PublishRollbackFacts DEF history
  <1>2. PICK t \in Txn : queue[1].txn = {t} /\ Forgotten(t)
    BY PublishRollbackFacts
  <1>3. RedoInv'
    BY <1>1, <1>2, RedoForget
  <1>4. \A u \in Txn : prepared'[u] = prepared[u] \/ prepared'[u].ts = 0
    BY <1>2, ForgottenFacts DEF OrderInv
  <1>5. ~IsWrite(queue[1]) /\ latest' \in Nat /\ latest <= latest'
    BY <1>1, Types DEF IsWrite, OrderInv
  <1>6. ContentInv'
    BY <1>1, <1>4, <1>5, ContentDrop
  <1> QED
    BY <1>3, <1>6, PublishRollbackOrder

\* A bump or a barrier is taken, published or not.
LEMMA RepeatableStep ==
  ASSUME PipelineInv, SkipRepeatable \/ BarrierLosesLeader \/ PublishRepeatable
  PROVE  PipelineInv'
  <1> USE DEF PipelineInv
  <1>1. OrderInv'
    BY SkipRepeatableOrder, BarrierLosesLeaderOrder, PublishRepeatableOrder
  <1>2. /\ queue # <<>> /\ queue' = Tail(queue) /\ Head(queue).kind \in {"bump", "barrier"}
        /\ UNCHANGED <<snap, prepared, recovering, redo, disk, issued, carried, alone, rejects>>
    BY DEF SkipRepeatable, BarrierLosesLeader, PublishRepeatable, HeadIs, durable, history
  <1>3. ~IsWrite(queue[1]) /\ queue[1].kind # "prepared"
    <2>1. Head(queue) = queue[1]
      BY <1>2, HeadFacts
    <2> QED
      BY <1>2, <2>1 DEF IsWrite
  <1>4. latest' \in Nat /\ latest <= latest'
    <2>1. latest \in 0..MaxTs /\ latest \in Nat /\ MaxTs \in Nat
      BY Types DEF OrderInv
    <2>2. queue[1].ts \in 0..MaxTs /\ Head(queue) = queue[1]
      BY <1>2, HeadFacts
    <2>3. latest' = latest \/ latest' = Max({latest, queue[1].ts})
      BY <2>2 DEF SkipRepeatable, BarrierLosesLeader, PublishRepeatable
    <2>4. {latest, queue[1].ts} \in SUBSET (0..MaxTs) /\ {latest, queue[1].ts} # {}
      BY <2>1, <2>2
    <2>5. /\ Max({latest, queue[1].ts}) \in {latest, queue[1].ts}
          /\ \A y \in {latest, queue[1].ts} : y <= Max({latest, queue[1].ts})
      BY <2>1, <2>4, MaxOfBounded
    <2> QED
      BY <2>1, <2>2, <2>3, <2>5
  <1>5. ContentInv'
    BY <1>2, <1>3, <1>4, ContentDrop
  <1>6. RedoInv'
    BY <1>2, <1>3, <1>4, RedoDrop
  <1> QED
    BY <1>1, <1>5, <1>6

LEMMA DropRejectedStep ==
  ASSUME PipelineInv, DropRejected
  PROVE  PipelineInv'
  <1> USE DEF PipelineInv
  <1>1. /\ queue # <<>> /\ Head(queue).state = "rejected"
        /\ queue' = IF Head(queue).kind = "commit" THEN Rebased(Tail(queue)) ELSE Tail(queue)
        /\ UNCHANGED <<latest, prepared, recovering, redo, disk, issued, carried>>
    BY DEF DropRejected, HeadIs, durable, history
  <1>2. queue \in Seq(QEntry) /\ queue[1].state = "rejected"
    BY <1>1, HeadFacts, Types DEF OrderInv
  <1>3. Kept(queue, Tail(queue))
    BY <1>1, <1>2, KeptTail
  <1>4. Kept(Tail(queue), Rebased(Tail(queue)))
    BY DEF Kept, Rebased
  <1>5. Kept(queue, queue')
    <2>1. CASE queue' = Tail(queue)
      BY <1>3, <2>1
    <2>2. CASE queue' = Rebased(Tail(queue))
      BY <1>3, <1>4, <2>2 DEF Kept
    <2> QED
      BY <1>1, <2>1, <2>2
  <1>6. latest' \in Nat /\ latest <= latest'
    BY <1>1, Types DEF OrderInv
  <1>7. RedoInv'
    BY <1>1, <1>5, <1>6, RedoQuiet
  <1> QED
    BY <1>7, DropRejectedOrder, DropRejectedContent

LEMMA PipelineStep == PipelineInv /\ [Next]_vars => PipelineInv'
  <1> SUFFICES ASSUME PipelineInv, [Next]_vars PROVE PipelineInv'
    OBVIOUS
  <1>1. CASE UNCHANGED vars
    <2>1. UNCHANGED <<lastAssigned, barrierFloor, closed, latest, snap, repeatable, queue,
                      prepared, bumping, recovering, stopped, global, disk, redo, issued,
                      answered, carried, alone, rejects, restarts>>
      BY <1>1 DEF vars, volatile, durable, history
    <2>2. OrderInv'
      BY <2>1 DEF PipelineInv, OrderInv, TypeOK, AnswersFit, NeverTooLate
    <2>3. ContentInv'
      BY <2>1 DEF PipelineInv, ContentInv, Clean
    <2>4. RedoInv'
      BY <2>1 DEF PipelineInv, RedoInv, RedoFits, RecoveryFits, CarriedFits, CarriedOutOnce
    <2> QED
      BY <2>2, <2>3, <2>4 DEF PipelineInv
  <1>2. ASSUME NEW t \in Txn, NEW ts \in Ts, Prepare(t, ts) PROVE PipelineInv'
    BY <1>2, PrepareOrder, PrepareContent, PrepareRedo DEF PipelineInv
  <1>3. ASSUME NEW clock \in 0..MaxTs, Restart(clock) PROVE PipelineInv'
    BY <1>3, RestartOrder, RestartContent, RestartRedo DEF PipelineInv
  <1>4. ASSUME NEW t \in Txn, Recover(t) PROVE PipelineInv'
    BY <1>4, RecoverOrder, RecoverContent, RecoverRedo DEF PipelineInv
  <1> QED
    BY <1>1, <1>2, <1>3, <1>4, AdmitStep, QuietStep, WriteStep, PublishWriteStep,
       PublishRollbackStep, RepeatableStep, DropRejectedStep DEF Next

----------------------------------------------------------------------------
(* The theorems. *)

\* Order, contents and redo records of the committer's pipeline, whatever is
\* admitted, in which order writes end, what is rejected and when the process
\* restarts.
THEOREM PipelineInvariantHolds == Spec => []PipelineInv
  <1>1. Init => PipelineInv
    BY OrderInit, ContentInit, RedoInit DEF PipelineInv
  <1> QED
    BY <1>1, PipelineStep, PTL DEF Spec

\* No write finds a later snapshot published when its turn comes, so
\* publish_commit_from_updates and SnapshotManager::push do not end the
\* committer.
THEOREM NeverTooLateHolds == Spec => []NeverTooLate
  <1>1. PipelineInv => NeverTooLate
    BY DEF PipelineInv, OrderInv
  <1> QED
    BY <1>1, PipelineInvariantHolds, PTL

\* The latest snapshot holds exactly the writes published so far, as long as
\* nothing was rejected and no two transactions were prepared at once.
THEOREM SnapshotIsCompleteHolds == Spec => []SnapshotIsComplete
  <1>1. PipelineInv => SnapshotIsComplete
    <2> SUFFICES ASSUME PipelineInv, Clean
                 PROVE  snap = disk \ {queue[i].ts : i \in Writes}
      BY DEF SnapshotIsComplete, Clean
    <2>1. /\ DiskFit(queue, snap, disk) /\ \A c \in snap : c <= latest
          /\ OrderInv
      BY DEF PipelineInv, ContentInv
    <2>2. latest \in Nat /\ \A i \in DOMAIN queue : queue[i].ts \in Nat
      BY <2>1, Types DEF OrderInv
    <2>3. \A i \in DOMAIN queue : IsWrite(queue[i]) => latest < queue[i].ts
      <3> SUFFICES ASSUME NEW i \in DOMAIN queue, IsWrite(queue[i]) PROVE latest < queue[i].ts
        OBVIOUS
      <3>1. EntryFits(queue[i], prepared, lastAssigned, latest)
        BY <2>1 DEF OrderInv, QueueFits
      <3>2. CASE Snaps(queue[i])
        BY <3>1, <3>2 DEF EntryFits
      <3>3. CASE queue[i].kind = "prepared"
        <4>1. PICK t \in Txn : prepared[t].ts = queue[i].ts /\ queue[i].ts # 0
          BY <3>1, <3>3 DEF EntryFits, Resolves
        <4> QED
          BY <2>1, <4>1 DEF OrderInv, PrepFits
      <3> QED
        BY <3>2, <3>3 DEF IsWrite, Snaps
    <2>4. ASSUME NEW c
          PROVE  c \in snap <=> c \in disk /\ ~ \E i \in DOMAIN queue : IsWrite(queue[i]) /\ queue[i].ts = c
      <3>1. c \in snap => c \in disk /\ c <= latest
        BY <2>1 DEF DiskFit
      <3>2. c \in disk => c \in snap \/ \E i \in DOMAIN queue : IsWrite(queue[i]) /\ queue[i].ts = c
        BY <2>1 DEF DiskFit
      <3> QED
        BY <2>2, <2>3, <3>1, <3>2
    <2>5. ASSUME NEW c
          PROVE  c \in {queue[i].ts : i \in Writes} <=>
                   \E i \in DOMAIN queue : IsWrite(queue[i]) /\ queue[i].ts = c
      BY DEF Writes, IsWrite
    <2> QED
      BY <2>4, <2>5
  <1> QED
    BY <1>1, PipelineInvariantHolds, PTL

\* A transaction that was written at the timestamp it was prepared at is not
\* written again, wherever the process stops (recover_two_phase_redo_records).
THEOREM CarriedOutOnceHolds == Spec => []CarriedOutOnce
  <1>1. PipelineInv => CarriedOutOnce
    BY DEF PipelineInv, RedoInv
  <1> QED
    BY <1>1, PipelineInvariantHolds, PTL

\* Until the process restarts, nothing reaches persistence at or below a
\* timestamp that was published as repeatable or answered as closed.
THEOREM ClosedStaysClosedHolds == Spec => ClosedStaysClosed
  <1> DEFINE A == restarts' = 0 => \A c \in disk' \ disk : c > answered /\ c > repeatable
  <1>1. PipelineInv /\ [Next]_vars => [A]_vars
    <2> SUFFICES ASSUME PipelineInv, Next, restarts' = 0, NEW c \in disk' \ disk
                 PROVE  c > answered /\ c > repeatable
      OBVIOUS
    <2>1. OrderInv
      BY DEF PipelineInv
    <2>2. PICK i \in DOMAIN queue : Persist(i)
      BY DEF Next, StartCommit, ApplyDelta, Prepare, StartCommitPrepared,
         StartRollbackPrepared, Bump, Heartbeat, CloseAtOnce, CloseWithBarrier, Reject,
         PublishWrite, DropRejected, PublishRollback, SkipRepeatable, BarrierLosesLeader,
         PublishRepeatable, Restart, Recover, durable
    <2>3. queue[i].kind \in {"commit", "delta", "prepared"} /\ c = queue[i].ts /\ restarts = 0
      BY <2>2 DEF Persist
    <2>4. /\ latest \in Nat /\ answered \in Nat /\ repeatable \in Nat
          /\ queue[i].ts \in Nat
      BY <2>1, Types DEF OrderInv
    <2>5. answered <= latest /\ repeatable <= latest
      BY <2>1, <2>3 DEF OrderInv, AnswersFit
    <2>6. EntryFits(queue[i], prepared, lastAssigned, latest)
      BY <2>1 DEF OrderInv, QueueFits
    <2>7. latest < queue[i].ts
      <3>1. CASE Snaps(queue[i])
        BY <2>6, <3>1 DEF EntryFits
      <3>2. CASE queue[i].kind = "prepared"
        <4>1. PICK t \in Txn : prepared[t].ts = queue[i].ts /\ queue[i].ts # 0
          BY <2>6, <3>2 DEF EntryFits, Resolves
        <4> QED
          BY <2>1, <4>1 DEF OrderInv, PrepFits
      <3> QED
        BY <2>3, <3>1, <3>2 DEF Snaps
    <2> QED
      BY <2>3, <2>4, <2>5, <2>7
  <1> QED
    BY <1>1, PipelineInvariantHolds, PTL DEF Spec, ClosedStaysClosed
=============================================================================
