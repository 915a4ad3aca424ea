-------------------------- MODULE ClusterReadProofs -------------------------
(***************************************************************************)
(* Proofs about ClusterRead for any partitions, replicas, timestamps,      *)
(* writes and leader changes.                                              *)
(***************************************************************************)
EXTENDS ClusterRead, TLAPS

\* Replica n has applied an entry of this kind.
AppliedKind(n, kind) ==
  \E i \in 1..replica[n].applied : log[n[1]][i].kind = kind

\* A replica applies a prefix of its partition's log.
AppliedPrefix ==
  \A n \in Node : replica[n].applied <= Len(log[n[1]])

\* The latest snapshot covers the certificates and what is shown; a timeline
\* never hands out a timestamp twice.
TimelinesGrow ==
  \A n \in Node :
    LET r == replica[n] IN
    /\ r.latest <= r.assigned /\ r.prep <= r.assigned
    /\ r.at <= r.latest
    /\ \A ts \in r.closed : ts <= r.latest

\* Entries and intents follow the transaction: nothing of it lies below its
\* timestamp, and its commit entries lie behind its prepare entries.
FollowsTxn ==
  /\ \A p \in Partition : \A i \in 1..Len(log[p]) :
       /\ log[p][i].kind = "prepare" => txn.state # "none" /\ log[p][i].ts = txn.ts
       /\ log[p][i].kind = "commit" => txn.state = "committed" /\ log[p][i].ts >= txn.ts
       /\ log[p][i].kind = "rollback" => txn.state = "aborted"
  /\ \A p \in Partition : \A i, j \in 1..Len(log[p]) :
       log[p][i].kind = "commit" /\ log[p][j].kind = "prepare" => j < i
  /\ \A n \in Node :
       LET r == replica[n] IN
       /\ r.prep # 0 => /\ txn.state # "none" /\ r.prep >= txn.ts
                        /\ r.origin = txn.ts
       /\ r.at # 0 => txn.state = "committed" /\ r.at >= txn.ts
  /\ txn.state = "committed" => \A p \in Partition : PreparedIn(p)

\* What a replica has applied is what it holds.
HoldsApplied ==
  \A n \in Node :
    LET r == replica[n] IN
    /\ AppliedKind(n, "commit") <=> r.at # 0
    /\ AppliedKind(n, "prepare") /\ txn.state # "aborted" => r.prep # 0 \/ r.at # 0

Asking == read.phase \in {"closing", "reading", "done"}

\* Only closed answers let a read go on.
ReadsClosed ==
  /\ read.phase \in {"reading", "done"} =>
       \A p \in Partition : read.answer[p] = "closed"
  /\ read.phase \in {"idle", "closing"} =>
       \A p \in Partition : read.saw[p] = "nothing"
  /\ read.phase = "done" => \A p \in Partition : read.saw[p] # "nothing"
  /\ read.phase # "idle" => read.began <= failovers
  /\ read.phase # "idle" /\ read.began = failovers => read.led = leader

\* While the leaders stay, a leader that has closed the timestamp shows the
\* transaction below it or cannot do so any more.
SteadyClosed ==
  Asking /\ read.kind = "latest" /\ read.began = failovers =>
    \A p \in Partition : read.answer[p] = "closed" =>
      LET r == replica[Leader(p)] IN
      /\ r.applied = Len(log[p])
      /\ Sees(r, read.ts) = "new"
         \/ /\ r.at = 0 => /\ r.latest >= read.ts
                           /\ r.prep = 0 \/ r.prep > read.ts
            /\ PreparedIn(p) /\ txn.state # "aborted" => txn.ts > read.ts

\* With its first leaders, a partition has the transaction at its timestamp
\* or not at all.
FirstLeaders ==
  failovers = 0 =>
    /\ \A p \in Partition :
         LET r == replica[Leader(p)] IN
         /\ leader[p] = FirstLeader
         /\ r.applied = Len(log[p])
         /\ r.prep \in {0, txn.ts} /\ r.at \in {0, txn.ts}
         /\ r.prep # 0 => r.prep > r.latest
         /\ \A i \in 1..Len(log[p]) : log[p][i].kind = "commit" => log[p][i].ts = txn.ts
         /\ Asking /\ read.kind = "exact" /\ read.answer[p] = "closed" =>
              read.ts \in r.closed
    /\ \A n \in Node : replica[n].at # 0 => replica[n].prep = 0

\* What the reader saw is still what the leader shows at that timestamp.
SawIsShown ==
  \/ read.kind = "latest" /\ read.began = failovers
  \/ read.kind = "exact" /\ failovers = 0
  => \A p \in Partition : Asking /\ read.saw[p] # "nothing" =>
       read.saw[p] = Sees(replica[Leader(p)], read.ts)

\* The inductive invariant.
ReadInv ==
  /\ TypeOK
  /\ AppliedPrefix
  /\ TimelinesGrow
  /\ FollowsTxn
  /\ HoldsApplied
  /\ ReadsClosed
  /\ SteadyClosed
  /\ FirstLeaders
  /\ SawIsShown

----------------------------------------------------------------------------
(* The operators of the model. *)

ReplicaType == [applied : Nat, latest : 0..MaxTs, assigned : 0..MaxTs,
                floor : 0..MaxTs, closed : SUBSET (0..MaxTs),
                origin : 0..MaxTs, prep : 0..MaxTs, at : 0..MaxTs]

EntryType == [kind : {"data", "prepare", "commit", "rollback"}, ts : 0..MaxTs]

\* The bounds of one timeline.
Grows(r) ==
  /\ r.latest <= r.assigned /\ r.prep <= r.assigned
  /\ r.at <= r.latest
  /\ \A ts \in r.closed : ts <= r.latest

\* The maximum of two numbers.
LEMMA MaxOfTwo ==
  ASSUME NEW a \in Nat, NEW b \in Nat
  PROVE  /\ Max({a, b}) \in {a, b} /\ Max({a, b}) >= a /\ Max({a, b}) >= b
         /\ Max({a, b}) \in Nat
<1>1. \E x \in {a, b} : \A y \in {a, b} : x >= y
  <2>1. CASE a >= b
    BY <2>1
  <2>2. CASE b >= a
    BY <2>2
  <2>3. QED BY <2>1, <2>2
<1>2. /\ Max({a, b}) \in {a, b}
      /\ \A y \in {a, b} : Max({a, b}) >= y
  BY <1>1 DEF Max
<1>3. QED BY <1>2

\* The maximum of three numbers.
LEMMA MaxOfThree ==
  ASSUME NEW a \in Nat, NEW b \in Nat, NEW c \in Nat
  PROVE  /\ Max({a, b, c}) \in {a, b, c}
         /\ Max({a, b, c}) >= a /\ Max({a, b, c}) >= b /\ Max({a, b, c}) >= c
         /\ Max({a, b, c}) \in Nat
<1>1. \E x \in {a, b, c} : \A y \in {a, b, c} : x >= y
  <2>1. CASE a >= b /\ a >= c
    BY <2>1
  <2>2. CASE b >= a /\ b >= c
    BY <2>2
  <2>3. CASE c >= a /\ c >= b
    BY <2>3
  <2>4. QED BY <2>1, <2>2, <2>3
<1>2. /\ Max({a, b, c}) \in {a, b, c}
      /\ \A y \in {a, b, c} : Max({a, b, c}) >= y
  BY <1>1 DEF Max
<1>3. QED BY <1>2

\* The fields of a well-typed replica.
LEMMA Fields ==
  ASSUME NEW r \in ReplicaType
  PROVE  /\ r.applied \in Nat /\ r.latest \in 0..MaxTs /\ r.assigned \in 0..MaxTs
         /\ r.floor \in 0..MaxTs /\ r.closed \in SUBSET (0..MaxTs)
         /\ r.origin \in 0..MaxTs /\ r.prep \in 0..MaxTs /\ r.at \in 0..MaxTs
         /\ r.latest \in Nat /\ r.assigned \in Nat /\ r.floor \in Nat
         /\ r.prep \in Nat /\ r.at \in Nat /\ r.origin \in Nat
         /\ \A c \in r.closed : c \in Nat
BY ClusterReadAssumption DEF ReplicaType

\* What close_read_timestamp answers and leaves behind: a closed timestamp is
\* certified and at most the latest one, and a latest read closes only where
\* nothing is prepared and nothing lies above.
CloseResult(r, ts, kind, out) ==
  /\ out[1] \in {"closed", "retry", "blocked"} /\ out[2] \in 0..MaxTs
  /\ out[3] \in ReplicaType /\ Grows(out[3])
  /\ out[3].applied = r.applied /\ out[3].prep = r.prep
  /\ out[3].origin = r.origin /\ out[3].at = r.at
  /\ out[3].latest >= r.latest /\ r.closed \subseteq out[3].closed
  /\ r.prep # 0 => out[3].latest = r.latest
  /\ out[1] = "closed" => ts \in out[3].closed
  /\ kind = "latest" /\ out[1] = "closed" => r.prep = 0 /\ r.assigned <= ts

LEMMA CloseFacts ==
  ASSUME NEW r \in ReplicaType, NEW ts \in 0..MaxTs,
         NEW kind \in {"latest", "exact"}, Grows(r)
  PROVE  CloseResult(r, ts, kind, Close(r, ts, kind))
<1> DEFINE minimum == Max({r.assigned, r.latest, r.prep})
           keep == [r EXCEPT !.closed = @ \cup {ts}]
           push == [keep EXCEPT !.latest = ts, !.assigned = ts, !.floor = ts]
           out == Close(r, ts, kind)
<1>1. /\ r.applied \in Nat /\ r.latest \in 0..MaxTs /\ r.assigned \in 0..MaxTs
      /\ r.closed \in SUBSET (0..MaxTs) /\ r.prep \in 0..MaxTs /\ r.at \in 0..MaxTs
      /\ r.latest \in Nat /\ r.assigned \in Nat /\ r.prep \in Nat /\ r.at \in Nat
      /\ ts \in Nat /\ MaxTs \in Nat
  BY Fields, ClusterReadAssumption
<1>2. /\ minimum \in 0..MaxTs /\ minimum >= r.assigned /\ minimum >= r.latest
      /\ minimum >= r.prep /\ minimum \in Nat
  BY <1>1, MaxOfThree
<1>3. /\ keep \in ReplicaType /\ keep.applied = r.applied /\ keep.prep = r.prep
      /\ keep.origin = r.origin /\ keep.at = r.at /\ keep.latest = r.latest
      /\ keep.assigned = r.assigned /\ keep.closed = r.closed \cup {ts}
  BY <1>1 DEF ReplicaType
<1>4. /\ push \in ReplicaType /\ push.applied = r.applied /\ push.prep = r.prep
      /\ push.origin = r.origin /\ push.at = r.at /\ push.latest = ts
      /\ push.assigned = ts /\ push.closed = r.closed \cup {ts}
  BY <1>1 DEF ReplicaType
<1>5. CASE kind = "exact" /\ ts \in r.closed
  <2>1. out = <<"closed", ts, r>>
    BY <1>5 DEF Close
  <2>2. QED BY <1>1, <1>5, <2>1 DEF CloseResult
<1>6. CASE ~(kind = "exact" /\ ts \in r.closed) /\ Blocks(r, ts)
  <2>1. out = <<"blocked", r.prep, r>>
    BY <1>6 DEF Close
  <2>2. QED BY <1>1, <1>6, <2>1 DEF CloseResult
<1>7. CASE ~Blocks(r, ts) /\ kind = "exact" /\ ts \notin r.closed /\ ts <= r.latest
  <2>1. out = <<"closed", ts, keep>>
    BY <1>7 DEF Close
  <2>2. Grows(keep)
    BY <1>3, <1>7 DEF Grows
  <2> HIDE DEF keep
  <2>3. QED BY <1>1, <1>3, <1>7, <2>1, <2>2 DEF CloseResult
<1>8. CASE /\ ~(kind = "exact" /\ ts \in r.closed) /\ ~Blocks(r, ts)
           /\ ~(kind = "exact" /\ ts \notin r.closed /\ ts <= r.latest)
  <2>1. out = CASE minimum > ts -> <<"retry", minimum, r>>
                [] minimum <= ts /\ ts \in r.closed -> <<"closed", ts, r>>
                [] OTHER -> <<"closed", ts, push>>
    BY <1>8 DEF Close
  <2>2. CASE minimum > ts
    <3>1. out = <<"retry", minimum, r>>
      BY <1>1, <1>2, <2>1, <2>2
    <3>2. QED BY <1>1, <1>2, <3>1 DEF CloseResult
  <2>3. CASE ~(minimum > ts)
    <3>1. minimum <= ts /\ r.prep = 0 /\ r.assigned <= ts /\ r.latest <= ts
      BY <1>1, <1>2, <1>8, <2>3 DEF Blocks
    <3>2. CASE ts \in r.closed
      <4>1. out = <<"closed", ts, r>>
        BY <2>1, <2>3, <3>1, <3>2
      <4>2. QED BY <1>1, <3>1, <3>2, <4>1 DEF CloseResult
    <3>3. CASE ts \notin r.closed
      <4>1. out = <<"closed", ts, push>>
        BY <2>1, <2>3, <3>1, <3>3
      <4>2. Grows(push)
        BY <1>1, <1>4, <3>1 DEF Grows
      <4> HIDE DEF push
      <4>3. QED BY <1>1, <1>4, <3>1, <4>1, <4>2 DEF CloseResult
    <3>4. QED BY <3>2, <3>3
  <2>4. QED BY <2>2, <2>3
<1>9. QED BY <1>5, <1>6, <1>7, <1>8

\* What applying an entry does to a timeline.
AppliedResult(r, e, s) ==
  /\ s.applied = r.applied /\ s.closed = r.closed /\ s.floor = r.floor
  /\ s.latest >= r.latest /\ s.assigned >= r.assigned
  /\ e.kind = "data" => s.at = r.at /\ s.prep = r.prep /\ s.origin = r.origin
  /\ e.kind = "prepare" => /\ s.at = r.at /\ s.origin = e.ts
                           /\ s.prep # 0 /\ s.prep >= e.ts
  /\ e.kind = "commit" =>
       /\ r.at # 0 => s.at = r.at
       /\ r.at = 0 => s.at # 0 /\ (s.at >= e.ts \/ (r.prep # 0 /\ s.at = r.prep))
       /\ IF Matches(r, e) THEN s.prep = 0
                           ELSE s.prep = r.prep /\ s.origin = r.origin
  /\ e.kind = "rollback" => s.at = r.at /\ s.prep = 0

LEMMA AppliedFacts ==
  ASSUME NEW r \in ReplicaType, NEW e \in EntryType, Grows(r),
         {Applied(r, e).latest, Applied(r, e).prep} \subseteq 0..MaxTs
  PROVE  /\ Applied(r, e) \in ReplicaType /\ Grows(Applied(r, e))
         /\ AppliedResult(r, e, Applied(r, e))
<1>0. PICK s : s = Applied(r, e)
  OBVIOUS
<1>a. {s.latest, s.prep} \subseteq 0..MaxTs
  BY <1>0
<1>1. /\ r.applied \in Nat /\ r.latest \in 0..MaxTs /\ r.assigned \in 0..MaxTs
      /\ r.closed \in SUBSET (0..MaxTs) /\ r.prep \in 0..MaxTs /\ r.at \in 0..MaxTs
      /\ r.latest \in Nat /\ r.assigned \in Nat /\ r.prep \in Nat /\ r.at \in Nat
      /\ r.floor \in 0..MaxTs /\ r.origin \in 0..MaxTs
      /\ e.ts \in Nat /\ e.ts \in 0..MaxTs /\ MaxTs \in Nat
      /\ e.kind \in {"data", "prepare", "commit", "rollback"}
  BY Fields, ClusterReadAssumption DEF EntryType
<1>2. PICK l \in Nat : /\ l = LocalApplyTs(r, e.ts)
                       /\ l >= e.ts /\ l > r.latest /\ l > r.assigned
  <2>1. r.latest + 1 \in Nat /\ r.assigned + 1 \in Nat
    BY <1>1
  <2>2. /\ LocalApplyTs(r, e.ts) \in Nat /\ LocalApplyTs(r, e.ts) >= e.ts
        /\ LocalApplyTs(r, e.ts) >= r.latest + 1
        /\ LocalApplyTs(r, e.ts) >= r.assigned + 1
    BY <1>1, <2>1, MaxOfThree DEF LocalApplyTs
  <2>3. QED BY <1>1, <2>2
<1>3. CASE e.kind = "data"
  <2>1. s = [r EXCEPT !.latest = l, !.assigned = l]
    BY <1>0, <1>2, <1>3 DEF Applied
  <2>2. /\ s.applied = r.applied /\ s.closed = r.closed /\ s.floor = r.floor
        /\ s.latest = l /\ s.assigned = l /\ s.at = r.at /\ s.prep = r.prep
        /\ s.origin = r.origin
    BY <2>1 DEF ReplicaType
  <2>3. l \in 0..MaxTs
    BY <1>a, <2>2
  <2>4. s \in ReplicaType
    BY <1>1, <2>1, <2>3 DEF ReplicaType
  <2>5. Grows(s)
    BY <1>1, <1>2, <2>2 DEF Grows
  <2>6. QED BY <1>0, <1>1, <1>2, <1>3, <2>2, <2>4, <2>5 DEF AppliedResult
<1>4. CASE e.kind = "prepare"
  <2>1. PICK t \in Nat : t = Max({e.ts, r.latest + 1}) /\ t >= e.ts /\ t > r.latest
    <3>1. r.latest + 1 \in Nat
      BY <1>1
    <3>2. /\ Max({e.ts, r.latest + 1}) \in Nat /\ Max({e.ts, r.latest + 1}) >= e.ts
          /\ Max({e.ts, r.latest + 1}) >= r.latest + 1
      BY <1>1, <3>1, MaxOfTwo
    <3>3. QED BY <1>1, <3>2
  <2>2. PICK a \in Nat : a = Max({r.assigned, t}) /\ a >= t /\ a >= r.assigned /\ a \in {r.assigned, t}
    BY <1>1, <2>1, MaxOfTwo
  <2>3. s = [r EXCEPT !.prep = t, !.origin = e.ts, !.assigned = a]
    BY <1>0, <1>4, <2>1, <2>2 DEF Applied
  <2>4. /\ s.applied = r.applied /\ s.closed = r.closed /\ s.floor = r.floor
        /\ s.latest = r.latest /\ s.assigned = a /\ s.at = r.at /\ s.prep = t
        /\ s.origin = e.ts
    BY <2>3 DEF ReplicaType
  <2>5. t \in 0..MaxTs /\ a \in 0..MaxTs
    BY <1>1, <1>a, <2>2, <2>4
  <2>6. s \in ReplicaType
    BY <1>1, <2>3, <2>5 DEF ReplicaType
  <2>7. Grows(s)
    BY <1>1, <2>1, <2>2, <2>4 DEF Grows
  <2>8. QED BY <1>0, <1>1, <1>4, <2>1, <2>2, <2>4, <2>6, <2>7 DEF AppliedResult
<1>5. CASE e.kind = "commit"
  <2>1. PICK t : t = IF Matches(r, e) /\ r.prep > r.latest /\ r.prep > r.assigned
                     THEN r.prep ELSE l
    OBVIOUS
  <2>2. /\ t \in Nat /\ t > r.latest /\ t > r.assigned
        /\ t >= e.ts \/ (r.prep # 0 /\ t = r.prep)
    BY <1>1, <1>2, <2>1 DEF Matches
  <2>3. s = [r EXCEPT !.latest = t, !.assigned = t,
                      !.at = IF r.at = 0 THEN t ELSE r.at,
                      !.prep = IF Matches(r, e) THEN 0 ELSE r.prep,
                      !.origin = IF Matches(r, e) THEN 0 ELSE r.origin]
    BY <1>0, <1>2, <1>5, <2>1 DEF Applied
  <2>4. /\ s.applied = r.applied /\ s.closed = r.closed /\ s.floor = r.floor
        /\ s.latest = t /\ s.assigned = t
        /\ s.at = (IF r.at = 0 THEN t ELSE r.at)
        /\ s.prep = (IF Matches(r, e) THEN 0 ELSE r.prep)
        /\ s.origin = (IF Matches(r, e) THEN 0 ELSE r.origin)
    BY <2>3 DEF ReplicaType
  <2>5. t \in 0..MaxTs
    BY <1>a, <2>4
  <2>6. /\ (IF r.at = 0 THEN t ELSE r.at) \in 0..MaxTs
        /\ (IF Matches(r, e) THEN 0 ELSE r.prep) \in 0..MaxTs
        /\ (IF Matches(r, e) THEN 0 ELSE r.origin) \in 0..MaxTs
    BY <1>1, <2>5
  <2>7. s \in ReplicaType
    BY <1>1, <2>3, <2>5, <2>6 DEF ReplicaType
  <2>8. Grows(s)
    BY <1>1, <2>2, <2>4 DEF Grows
  <2>9. QED BY <1>0, <1>1, <1>5, <2>2, <2>4, <2>7, <2>8 DEF AppliedResult
<1>6. CASE e.kind = "rollback"
  <2>1. s = [r EXCEPT !.prep = 0, !.origin = 0]
    BY <1>0, <1>6 DEF Applied
  <2>2. /\ s.applied = r.applied /\ s.closed = r.closed /\ s.floor = r.floor
        /\ s.latest = r.latest /\ s.assigned = r.assigned /\ s.at = r.at /\ s.prep = 0
    BY <2>1 DEF ReplicaType
  <2>3. s \in ReplicaType
    <3>1. 0 \in 0..MaxTs
      BY <1>1
    <3>2. QED BY <1>1, <2>1, <3>1 DEF ReplicaType
  <2>4. Grows(s)
    BY <1>1, <2>2 DEF Grows
  <2>5. QED BY <1>0, <1>1, <1>6, <2>2, <2>3, <2>4 DEF AppliedResult
<1>7. QED BY <1>1, <1>3, <1>4, <1>5, <1>6

----------------------------------------------------------------------------
(* The reader's side of a step of the partitions. *)

\* What a step may do to the leader of p, which holds r before and s after,
\* when it has applied its log.
LeaderMoves(p, r, s) ==
  r.applied = Len(log[p]) =>
    /\ s.applied = Len(log'[p])
    /\ s.latest >= r.latest /\ r.closed \subseteq s.closed
    /\ s.at = r.at \/ (r.at = 0 /\ r.prep # 0 /\ s.at = r.prep)
    /\ \/ s.prep = 0
       \/ s.latest = r.latest /\ s.prep = r.prep
       \/ /\ s.latest = r.latest /\ r.prep = 0 /\ r.at = 0
          /\ s.prep = txn.ts /\ txn.ts > r.latest /\ txn.state # "none"
    /\ PreparedIn(p)' => \/ PreparedIn(p)
                         \/ r.at = 0 /\ txn.ts > r.latest /\ txn.state # "none"
    /\ \A i \in 1..Len(log'[p]) : log'[p][i].kind = "commit" =>
         \/ i \in 1..Len(log[p]) /\ log'[p][i] = log[p][i]
         \/ r.prep # 0 /\ log'[p][i].ts = r.prep

\* The types of what a step looks at.
LEMMA Typed ==
  ASSUME TypeOK
  PROVE  /\ \A n \in Node : replica[n] \in ReplicaType /\ n[1] \in Partition
         /\ \A p \in Partition : /\ Leader(p) \in Node /\ Leader(p)[1] = p
                                  /\ log[p] \in Seq(EntryType) /\ Len(log[p]) \in Nat
                                  /\ DOMAIN log[p] = 1..Len(log[p])
                                  /\ \A i \in 1..Len(log[p]) : log[p][i] \in EntryType
         /\ txn.ts \in Nat /\ txn.ts \in 0..MaxTs
         /\ read.ts \in Nat /\ read.ts \in 0..MaxTs
         /\ MaxTs \in Nat /\ 0 \in 0..MaxTs
<1>1. \A n \in Node : replica[n] \in ReplicaType /\ n[1] \in Partition
  BY DEF TypeOK, ReplicaType, Node
<1>2. \A p \in Partition : Leader(p) \in Node /\ Leader(p)[1] = p
  BY DEF TypeOK, Leader, Node
<1>3. \A p \in Partition : log[p] \in Seq(EntryType)
  BY DEF TypeOK, EntryType
<1>4. \A p \in Partition : /\ Len(log[p]) \in Nat
                            /\ DOMAIN log[p] = 1..Len(log[p])
                            /\ \A i \in 1..Len(log[p]) : log[p][i] \in EntryType
  BY <1>3
<1>5. MaxTs \in Nat /\ 0 \in 0..MaxTs /\ txn.ts \in 0..MaxTs /\ read.ts \in 0..MaxTs
  BY ClusterReadAssumption DEF TypeOK
<1>6. txn.ts \in Nat /\ read.ts \in Nat
  BY <1>5
<1>7. QED BY <1>1, <1>2, <1>3, <1>4, <1>5, <1>6

\* A leader that is left alone moves trivially.
LEMMA LeaderStays ==
  ASSUME TypeOK, NEW p \in Partition, log'[p] = log[p],
         replica'[Leader(p)] = replica[Leader(p)]
  PROVE  LeaderMoves(p, replica[Leader(p)], replica'[Leader(p)])
<1>1. replica[Leader(p)] \in ReplicaType
  BY Typed
<1>2. replica[Leader(p)].latest \in Nat
  BY <1>1, Fields
<1>3. QED BY <1>2 DEF LeaderMoves, PreparedIn

\* The leaders move like this while they and the transaction's timestamp stay.
LeadersMove ==
  /\ ReadInv /\ TypeOK' /\ UNCHANGED <<leader, failovers>>
  /\ \A p \in Partition : LeaderMoves(p, replica[Leader(p)], replica'[Leader(p)])
  /\ txn.state # "none" => /\ txn'.ts = txn.ts
                           /\ txn.state = "aborted" => txn'.state = "aborted"
  /\ failovers = 0 => \A n \in Node : replica'[n].at # 0 => replica'[n].prep = 0

\* The types of the leaders on both sides.
LEMMA MoveFacts ==
  ASSUME LeadersMove, NEW p \in Partition
  PROVE  /\ Leader(p)' = Leader(p) /\ Leader(p) \in Node
         /\ LeaderMoves(p, replica[Leader(p)], replica'[Leader(p)])
         /\ replica[Leader(p)].latest \in Nat /\ replica'[Leader(p)].latest \in Nat
         /\ replica[Leader(p)].prep \in Nat /\ replica[Leader(p)].at \in Nat
         /\ \A c \in replica[Leader(p)].closed : c \in Nat
         /\ PreparedIn(p) => txn.state # "none"
         /\ read.ts \in Nat /\ txn.ts \in Nat
<1>t. TypeOK
  BY DEF LeadersMove, ReadInv
<1>l. Leader(p)' = Leader(p)
  BY DEF Leader, LeadersMove
<1>f. /\ replica[Leader(p)] \in ReplicaType /\ replica'[Leader(p)] \in ReplicaType
      /\ Leader(p) \in Node
  <2>1. \A n \in Node : replica'[n] \in ReplicaType
    BY DEF LeadersMove, TypeOK, ReplicaType
  <2>2. QED BY <1>t, <2>1, Typed
<1>n. /\ replica[Leader(p)].latest \in Nat /\ replica'[Leader(p)].latest \in Nat
      /\ replica[Leader(p)].prep \in Nat /\ replica[Leader(p)].at \in Nat
      /\ \A c \in replica[Leader(p)].closed : c \in Nat
  BY <1>f, Fields
<1>p. PreparedIn(p) => txn.state # "none"
  <2>1. DOMAIN log[p] = 1..Len(log[p])
    BY <1>t, Typed
  <2>2. QED BY <2>1 DEF LeadersMove, ReadInv, FollowsTxn, PreparedIn
<1>q. QED BY <1>t, <1>l, <1>f, <1>n, <1>p, Typed DEF LeadersMove

\* A closed leader of a steady latest read stays as SteadyClosed says.
LEMMA SteadyKept ==
  ASSUME LeadersMove, Asking, read.kind = "latest", read.began = failovers,
         NEW p \in Partition, read.answer[p] = "closed"
  PROVE  /\ replica'[Leader(p)].applied = Len(log'[p])
         /\ \/ Sees(replica'[Leader(p)], read.ts) = "new"
            \/ /\ replica'[Leader(p)].at = 0 =>
                    /\ replica'[Leader(p)].latest >= read.ts
                    /\ \/ replica'[Leader(p)].prep = 0
                       \/ replica'[Leader(p)].prep > read.ts
               /\ PreparedIn(p)' /\ txn'.state # "aborted" => txn'.ts > read.ts
<1>2. PICK r : r = replica[Leader(p)]
  OBVIOUS
<1>3. PICK s : s = replica'[Leader(p)]
  OBVIOUS
<1>4. LeaderMoves(p, r, s)
  BY MoveFacts, <1>2, <1>3
<1>5. /\ r.applied = Len(log[p])
      /\ Sees(r, read.ts) = "new"
         \/ /\ r.at = 0 => /\ r.latest >= read.ts
                           /\ r.prep = 0 \/ r.prep > read.ts
            /\ PreparedIn(p) /\ txn.state # "aborted" => txn.ts > read.ts
  BY <1>2 DEF LeadersMove, ReadInv, SteadyClosed
<1>6. /\ r.latest \in Nat /\ s.latest \in Nat /\ r.prep \in Nat /\ r.at \in Nat
      /\ read.ts \in Nat /\ txn.ts \in Nat
  BY MoveFacts, <1>2, <1>3
<1>7. CASE Sees(r, read.ts) = "new"
  <2>1. r.at # 0 /\ r.at <= read.ts
    BY <1>7 DEF Sees
  <2>2. s.at = r.at /\ s.applied = Len(log'[p])
    BY <1>4, <1>5, <2>1 DEF LeaderMoves
  <2>3. QED BY <1>3, <2>1, <2>2 DEF Sees
<1>8. CASE /\ r.at = 0 => r.latest >= read.ts /\ (r.prep = 0 \/ r.prep > read.ts)
           /\ PreparedIn(p) /\ txn.state # "aborted" => txn.ts > read.ts
  <2>1. s.at = 0 => r.at = 0
    BY <1>4, <1>5 DEF LeaderMoves
  <2>2. s.at = 0 => s.latest >= read.ts
    BY <1>4, <1>5, <1>6, <1>8, <2>1 DEF LeaderMoves
  <2>3. s.at = 0 => s.prep = 0 \/ s.prep > read.ts
    BY <1>4, <1>5, <1>6, <1>8, <2>1 DEF LeaderMoves
  <2>4. PreparedIn(p)' /\ txn'.state # "aborted" => txn'.ts > read.ts
    <3>1. SUFFICES ASSUME PreparedIn(p)', txn'.state # "aborted"
                   PROVE  txn'.ts > read.ts
      OBVIOUS
    <3>2. \/ PreparedIn(p)
          \/ r.at = 0 /\ txn.ts > r.latest /\ txn.state # "none"
      BY <1>4, <1>5, <3>1 DEF LeaderMoves
    <3>3. txn.state # "none" /\ txn.state # "aborted" /\ txn'.ts = txn.ts
      BY MoveFacts, <3>1, <3>2 DEF LeadersMove
    <3>4. QED BY <1>6, <1>8, <3>2, <3>3
  <2>5. s.applied = Len(log'[p])
    BY <1>4, <1>5 DEF LeaderMoves
  <2>6. QED BY <1>3, <2>2, <2>3, <2>4, <2>5
<1>9. QED BY <1>5, <1>7, <1>8

\* A first leader stays as FirstLeaders says.
LEMMA FirstKept ==
  ASSUME LeadersMove, failovers = 0, NEW p \in Partition
  PROVE  /\ leader[p] = FirstLeader
         /\ replica'[Leader(p)].applied = Len(log'[p])
         /\ replica'[Leader(p)].prep \in {0, txn'.ts}
         /\ replica'[Leader(p)].at \in {0, txn'.ts}
         /\ replica'[Leader(p)].prep # 0 =>
              replica'[Leader(p)].prep > replica'[Leader(p)].latest
         /\ \A i \in 1..Len(log'[p]) :
              log'[p][i].kind = "commit" => log'[p][i].ts = txn'.ts
         /\ Asking /\ read.kind = "exact" /\ read.answer[p] = "closed" =>
              read.ts \in replica'[Leader(p)].closed
<1>2. PICK r : r = replica[Leader(p)]
  OBVIOUS
<1>3. PICK s : s = replica'[Leader(p)]
  OBVIOUS
<1>4. LeaderMoves(p, r, s)
  BY MoveFacts, <1>2, <1>3
<1>5. /\ leader[p] = FirstLeader
      /\ r.applied = Len(log[p])
      /\ r.prep \in {0, txn.ts} /\ r.at \in {0, txn.ts}
      /\ r.prep # 0 => r.prep > r.latest
      /\ \A i \in 1..Len(log[p]) : log[p][i].kind = "commit" => log[p][i].ts = txn.ts
      /\ Asking /\ read.kind = "exact" /\ read.answer[p] = "closed" => read.ts \in r.closed
  BY <1>2 DEF LeadersMove, ReadInv, FirstLeaders
<1>6. /\ r.latest \in Nat /\ s.latest \in Nat /\ r.prep \in Nat /\ r.at \in Nat
      /\ txn.ts \in Nat
  BY MoveFacts, <1>2, <1>3
<1>7. /\ r.prep # 0 => txn.state # "none" /\ txn'.ts = txn.ts
      /\ r.at # 0 => txn.state # "none" /\ txn'.ts = txn.ts
      /\ \A i \in 1..Len(log[p]) : log[p][i].kind = "commit" => txn'.ts = txn.ts
  BY MoveFacts, <1>2 DEF LeadersMove, ReadInv, FollowsTxn
<1>8. s.prep \in {0, txn'.ts} /\ (s.prep # 0 => s.prep > s.latest)
  <2>1. CASE s.prep = 0
    BY <2>1
  <2>2. CASE s.latest = r.latest /\ s.prep = r.prep
    BY <1>5, <1>7, <2>2
  <2>3. CASE /\ s.latest = r.latest /\ r.prep = 0 /\ r.at = 0
             /\ s.prep = txn.ts /\ txn.ts > r.latest /\ txn.state # "none"
    BY <2>3 DEF LeadersMove
  <2>4. QED BY <1>4, <1>5, <2>1, <2>2, <2>3 DEF LeaderMoves
<1>9. s.at \in {0, txn'.ts}
  BY <1>4, <1>5, <1>7 DEF LeaderMoves
<1>10. \A i \in 1..Len(log'[p]) :
         log'[p][i].kind = "commit" => log'[p][i].ts = txn'.ts
  BY <1>4, <1>5, <1>7 DEF LeaderMoves
<1>11. s.applied = Len(log'[p]) /\ r.closed \subseteq s.closed
  BY <1>4, <1>5 DEF LeaderMoves
<1>12. QED BY <1>3, <1>5, <1>8, <1>9, <1>10, <1>11

\* What the reader saw stays what the leader shows.
LEMMA SawKept ==
  ASSUME LeadersMove,
         \/ read.kind = "latest" /\ read.began = failovers
         \/ read.kind = "exact" /\ failovers = 0,
         NEW p \in Partition, Asking, read.saw[p] # "nothing"
  PROVE  read.saw[p] = Sees(replica'[Leader(p)], read.ts)
<1>2. PICK r : r = replica[Leader(p)]
  OBVIOUS
<1>3. PICK s : s = replica'[Leader(p)]
  OBVIOUS
<1>4. LeaderMoves(p, r, s)
  BY MoveFacts, <1>2, <1>3
<1>5. read.saw[p] = Sees(r, read.ts)
  BY <1>2 DEF LeadersMove, ReadInv, SawIsShown
<1>6. read.answer[p] = "closed"
  BY DEF LeadersMove, ReadInv, ReadsClosed, Asking
<1>7. /\ r.latest \in Nat /\ r.prep \in Nat /\ r.at \in Nat /\ read.ts \in Nat
      /\ \A c \in r.closed : c \in Nat
  BY MoveFacts, <1>2
<1>8. r.applied = Len(log[p]) /\ (r.at = 0 /\ r.prep # 0 => r.prep > read.ts)
  <2>1. CASE read.kind = "latest" /\ read.began = failovers
    <3>1. /\ r.applied = Len(log[p])
          /\ Sees(r, read.ts) = "new"
             \/ /\ r.at = 0 => /\ r.latest >= read.ts
                               /\ r.prep = 0 \/ r.prep > read.ts
                /\ PreparedIn(p) /\ txn.state # "aborted" => txn.ts > read.ts
      BY <1>2, <1>6, <2>1 DEF LeadersMove, ReadInv, SteadyClosed
    <3>2. QED BY <3>1 DEF Sees
  <2>2. CASE read.kind = "exact" /\ failovers = 0
    <3>1. /\ r.applied = Len(log[p]) /\ read.ts \in r.closed
          /\ r.prep # 0 => r.prep > r.latest
      BY <1>2, <1>6, <2>2 DEF LeadersMove, ReadInv, FirstLeaders
    <3>2. \A c \in r.closed : c <= r.latest
      BY MoveFacts, <1>2 DEF LeadersMove, ReadInv, TimelinesGrow
    <3>3. QED BY <1>7, <3>1, <3>2
  <2>3. QED BY <2>1, <2>2
<1>9. Sees(s, read.ts) = Sees(r, read.ts)
  <2>1. CASE s.at = r.at
    BY <2>1 DEF Sees
  <2>2. CASE r.at = 0 /\ r.prep # 0 /\ s.at = r.prep
    BY <1>7, <1>8, <2>2 DEF Sees
  <2>3. QED BY <1>4, <1>8, <2>1, <2>2 DEF LeaderMoves
<1>10. QED BY <1>3, <1>5, <1>9

\* When the leaders move like this, the reader's invariants are kept.
LEMMA ReadSide ==
  ASSUME ReadInv, TypeOK', UNCHANGED <<leader, read, failovers>>,
         \A p \in Partition : LeaderMoves(p, replica[Leader(p)], replica'[Leader(p)]),
         txn.state # "none" => /\ txn'.ts = txn.ts
                               /\ txn.state = "aborted" => txn'.state = "aborted",
         failovers = 0 => \A n \in Node : replica'[n].at # 0 => replica'[n].prep = 0
  PROVE  ReadsClosed' /\ SteadyClosed' /\ FirstLeaders' /\ SawIsShown'
<1>m. LeadersMove
  BY DEF LeadersMove
<1>l. \A p : Leader(p)' = Leader(p)
  BY DEF Leader
<1>1. ReadsClosed'
  BY DEF ReadInv, ReadsClosed
<1>2. SteadyClosed'
  BY <1>m, <1>l, SteadyKept DEF SteadyClosed, Asking, Sees
<1>3. FirstLeaders'
  BY <1>m, <1>l, FirstKept DEF FirstLeaders, Asking
<1>4. SawIsShown'
  BY <1>m, <1>l, SawKept DEF SawIsShown, Asking, Sees
<1>5. QED BY <1>1, <1>2, <1>3, <1>4

----------------------------------------------------------------------------
(* The partitions' side of a step. *)

\* One replica changes.
LEMMA OneReplica ==
  ASSUME TypeOK, NEW n \in Node, NEW s \in ReplicaType,
         replica' = [replica EXCEPT ![n] = s]
  PROVE  /\ replica'[n] = s
         /\ \A m \in Node : m # n => replica'[m] = replica[m]
         /\ replica' \in [Node -> ReplicaType]
BY DEF TypeOK, ReplicaType

\* One entry is appended to the log of p.
LEMMA OneEntry ==
  ASSUME TypeOK, NEW p \in Partition, NEW e \in EntryType,
         log' = [log EXCEPT ![p] = Append(@, e)]
  PROVE  /\ Len(log'[p]) = Len(log[p]) + 1 /\ log'[p][Len(log[p]) + 1] = e
         /\ \A i \in 1..Len(log[p]) : log'[p][i] = log[p][i]
         /\ \A i \in 1..Len(log'[p]) : i \in 1..Len(log[p]) \/ i = Len(log[p]) + 1
         /\ \A q \in Partition : q # p => log'[q] = log[q]
         /\ log' \in [Partition -> Seq(EntryType)]
         /\ PreparedIn(p) => PreparedIn(p)'
         /\ PreparedIn(p)' => PreparedIn(p) \/ e.kind = "prepare"
<1>1. log[p] \in Seq(EntryType) /\ log \in [Partition -> Seq(EntryType)]
  BY DEF TypeOK, EntryType
<1>2. log'[p] = Append(log[p], e) /\ \A q \in Partition : q # p => log'[q] = log[q]
  BY <1>1
<1>3. Append(log[p], e) \in Seq(EntryType)
  BY <1>1
<1>4. log' \in [Partition -> Seq(EntryType)]
  BY <1>1, <1>3
<1>5. /\ Len(log'[p]) = Len(log[p]) + 1 /\ log'[p][Len(log[p]) + 1] = e
      /\ \A i \in 1..Len(log[p]) : log'[p][i] = log[p][i] /\ i \in 1..Len(log'[p])
      /\ \A i \in 1..Len(log'[p]) : i \in 1..Len(log[p]) \/ i = Len(log[p]) + 1
      /\ DOMAIN log'[p] = 1..Len(log'[p]) /\ DOMAIN log[p] = 1..Len(log[p])
  BY <1>1, <1>2
<1>6. PreparedIn(p) => PreparedIn(p)'
  BY <1>5 DEF PreparedIn
<1>7. PreparedIn(p)' => PreparedIn(p) \/ e.kind = "prepare"
  BY <1>5 DEF PreparedIn
<1>8. QED BY <1>2, <1>4, <1>5, <1>6, <1>7

Core == AppliedPrefix /\ TimelinesGrow /\ FollowsTxn /\ HoldsApplied

\* TimelinesGrow, replica by replica.
LEMMA TimelinesAre ==
  TimelinesGrow <=> \A n \in Node : Grows(replica[n])
BY DEF TimelinesGrow, Grows

\* A replica's timeline moves on: Advance, a closed timestamp.
LEMMA TimelineStep ==
  ASSUME ReadInv, NEW n \in Node, NEW s \in ReplicaType, Grows(s),
         s.applied = replica[n].applied, s.prep = replica[n].prep,
         s.origin = replica[n].origin, s.at = replica[n].at,
         replica' = [replica EXCEPT ![n] = s], UNCHANGED <<log, txn>>
  PROVE  Core'
<1>t. TypeOK
  BY DEF ReadInv
<1>1. /\ replica'[n] = s
      /\ \A m \in Node : m # n => replica'[m] = replica[m]
  BY <1>t, OneReplica
<1>2. \A m \in Node : /\ replica'[m].applied = replica[m].applied
                       /\ replica'[m].prep = replica[m].prep
                       /\ replica'[m].origin = replica[m].origin
                       /\ replica'[m].at = replica[m].at
  BY <1>1
<1>3. AppliedPrefix'
  BY <1>2 DEF ReadInv, AppliedPrefix
<1>4. TimelinesGrow'
  <2>1. \A m \in Node : Grows(replica'[m])
    BY <1>1, TimelinesAre DEF ReadInv
  <2>2. QED BY <2>1 DEF TimelinesGrow, Grows
<1>5. FollowsTxn'
  <2>1. \A p \in Partition : PreparedIn(p) <=> PreparedIn(p)'
    BY DEF PreparedIn
  <2>2. QED BY <1>2, <2>1 DEF ReadInv, FollowsTxn
<1>6. HoldsApplied'
  <2>1. \A m \in Node : \A k : AppliedKind(m, k) <=> AppliedKind(m, k)'
    BY <1>2 DEF AppliedKind
  <2>2. QED BY <1>2, <2>1 DEF ReadInv, HoldsApplied
<1>7. QED BY <1>3, <1>4, <1>5, <1>6 DEF Core

\* A replica applies one more entry.
LEMMA AppliedOneMore ==
  ASSUME TypeOK, AppliedPrefix, NEW n \in Node, NEW k,
         replica'[n].applied = replica[n].applied + 1,
         \A i \in 1..replica[n].applied : log'[n[1]][i] = log[n[1]][i]
  PROVE  AppliedKind(n, k)' <=>
           \/ AppliedKind(n, k)
           \/ log'[n[1]][replica[n].applied + 1].kind = k
<1> DEFINE a == replica[n].applied
<1>1. a \in Nat
  BY Typed, Fields
<1>2. 1..(a + 1) = (1..a) \cup {a + 1}
  BY <1>1
<1>3. QED BY <1>2 DEF AppliedKind

\* What an entry must be to be appended or applied by n, which holds r before
\* and s after.
EntryFits(n, r, e, s) ==
  /\ s.applied = r.applied + 1
  /\ e.kind = "data" => s.at = r.at /\ s.prep = r.prep /\ s.origin = r.origin
  /\ e.kind = "prepare" => /\ s.at = r.at /\ s.prep # 0 /\ s.prep >= txn.ts
                           /\ s.origin = txn.ts
  /\ e.kind = "commit" => /\ s.at # 0 /\ s.at >= txn.ts
                          /\ s.prep # 0 => s.prep = r.prep /\ s.origin = r.origin
  /\ e.kind = "rollback" => s.at = r.at /\ s.prep = 0

\* The entry is one the transaction may have in a log.
EntryFollows(e) ==
  /\ e.kind \in {"data", "prepare", "commit", "rollback"}
  /\ e.kind = "prepare" => txn.state # "none" /\ e.ts = txn.ts
  /\ e.kind = "commit" => txn.state = "committed" /\ e.ts >= txn.ts
  /\ e.kind = "rollback" => txn.state = "aborted"

\* Holding what was applied is kept by the replica that takes the entry.
LEMMA HoldsFits ==
  ASSUME ReadInv, NEW n \in Node, NEW e, NEW s \in ReplicaType, Grows(s),
         EntryFollows(e), EntryFits(n, replica[n], e, s),
         replica' = [replica EXCEPT ![n] = s], UNCHANGED txn,
         log'[n[1]][replica[n].applied + 1] = e,
         \A m \in Node : \A i \in 1..replica[m].applied : log'[m[1]][i] = log[m[1]][i]
  PROVE  /\ TimelinesGrow' /\ HoldsApplied'
         /\ \A m \in Node :
              /\ replica'[m].prep # 0 => /\ txn.state # "none" /\ replica'[m].prep >= txn.ts
                                         /\ replica'[m].origin = txn.ts
              /\ replica'[m].at # 0 => txn.state = "committed" /\ replica'[m].at >= txn.ts
<1>t. TypeOK /\ AppliedPrefix
  BY DEF ReadInv
<1>1. /\ replica'[n] = s
      /\ \A m \in Node : m # n => replica'[m] = replica[m]
  BY <1>t, OneReplica
<1>2. TimelinesGrow'
  <2>1. \A m \in Node : Grows(replica'[m])
    BY <1>1, TimelinesAre DEF ReadInv
  <2>2. QED BY <2>1 DEF TimelinesGrow, Grows
<1>3. \A k : AppliedKind(n, k)' <=> AppliedKind(n, k) \/ e.kind = k
  BY <1>t, <1>1, AppliedOneMore DEF EntryFits
<1>4. \A m \in Node : m # n => \A k : AppliedKind(m, k)' <=> AppliedKind(m, k)
  BY <1>1 DEF AppliedKind
<1>5. PICK r : r = replica[n]
  OBVIOUS
<1>6. /\ AppliedKind(n, "commit") <=> r.at # 0
      /\ AppliedKind(n, "prepare") /\ txn.state # "aborted" => r.prep # 0 \/ r.at # 0
      /\ r.prep # 0 => txn.state # "none" /\ r.prep >= txn.ts /\ r.origin = txn.ts
      /\ r.at # 0 => txn.state = "committed" /\ r.at >= txn.ts
  BY <1>5 DEF ReadInv, HoldsApplied, FollowsTxn
<1>7. EntryFits(n, r, e, s)
  BY <1>5
<1>8. /\ s.at # 0 <=> r.at # 0 \/ e.kind = "commit"
      /\ (AppliedKind(n, "prepare") \/ e.kind = "prepare") /\ txn.state # "aborted"
           => s.prep # 0 \/ s.at # 0
      /\ s.prep # 0 => txn.state # "none" /\ s.prep >= txn.ts /\ s.origin = txn.ts
      /\ s.at # 0 => txn.state = "committed" /\ s.at >= txn.ts
  <2>1. CASE e.kind = "data"
    BY <1>6, <1>7, <2>1 DEF EntryFits
  <2>2. CASE e.kind = "prepare"
    BY <1>6, <1>7, <2>2 DEF EntryFits, EntryFollows
  <2>3. CASE e.kind = "commit"
    BY <1>6, <1>7, <2>3 DEF EntryFits, EntryFollows
  <2>4. CASE e.kind = "rollback"
    BY <1>6, <1>7, <2>4 DEF EntryFits, EntryFollows
  <2>5. QED BY <2>1, <2>2, <2>3, <2>4 DEF EntryFollows
<1>9. HoldsApplied'
  <2>1. \A m \in Node :
          /\ AppliedKind(m, "commit")' <=> replica'[m].at # 0
          /\ AppliedKind(m, "prepare")' /\ txn.state # "aborted" =>
               replica'[m].prep # 0 \/ replica'[m].at # 0
    <3>1. SUFFICES ASSUME NEW m \in Node
          PROVE /\ AppliedKind(m, "commit")' <=> replica'[m].at # 0
                /\ AppliedKind(m, "prepare")' /\ txn.state # "aborted" =>
                     replica'[m].prep # 0 \/ replica'[m].at # 0
      OBVIOUS
    <3>2. CASE m = n
      BY <1>1, <1>3, <1>6, <1>8, <3>2
    <3>3. CASE m # n
      BY <1>1, <1>4, <3>3 DEF ReadInv, HoldsApplied
    <3>4. QED BY <3>2, <3>3
  <2>2. QED BY <2>1 DEF HoldsApplied
<1>10. \A m \in Node :
         /\ replica'[m].prep # 0 => /\ txn.state # "none" /\ replica'[m].prep >= txn.ts
                                    /\ replica'[m].origin = txn.ts
         /\ replica'[m].at # 0 => txn.state = "committed" /\ replica'[m].at >= txn.ts
  <2>1. \A m \in Node : m # n =>
         /\ replica'[m].prep # 0 => /\ txn.state # "none" /\ replica'[m].prep >= txn.ts
                                    /\ replica'[m].origin = txn.ts
         /\ replica'[m].at # 0 => txn.state = "committed" /\ replica'[m].at >= txn.ts
    BY <1>1 DEF ReadInv, FollowsTxn
  <2>2. QED BY <1>1, <1>8, <2>1
<1>11. QED BY <1>2, <1>9, <1>10

\* The parts make up the invariant.
LEMMA Together ==
  Core /\ TypeOK /\ ReadsClosed /\ SteadyClosed /\ FirstLeaders /\ SawIsShown
    <=> ReadInv
BY DEF Core, ReadInv

\* A serving leader proposes an entry and installs it.
LEMMA ProposeStep ==
  ASSUME ReadInv, NEW p \in Partition, Serves(Leader(p)),
         NEW e \in EntryType, EntryFollows(e),
         NEW r, r = replica[Leader(p)],
         NEW s \in ReplicaType, Grows(s), EntryFits(Leader(p), r, e, s),
         replica' = [replica EXCEPT ![Leader(p)] = s],
         log' = [log EXCEPT ![p] = Append(@, e)],
         UNCHANGED <<txn, leader, failovers, read>>, writes' \in 0..MaxWrites,
         s.latest >= r.latest, r.closed \subseteq s.closed,
         s.at = r.at \/ (r.at = 0 /\ r.prep # 0 /\ s.at = r.prep),
         \/ s.prep = 0
         \/ s.latest = r.latest /\ s.prep = r.prep
         \/ /\ s.latest = r.latest /\ r.prep = 0 /\ r.at = 0
            /\ s.prep = txn.ts /\ txn.ts > r.latest /\ txn.state # "none",
         e.kind = "prepare" => r.at = 0 /\ txn.ts > r.latest,
         e.kind = "commit" => r.prep # 0 /\ e.ts = r.prep,
         s.at # 0 => s.prep = 0
  PROVE  ReadInv'
<1> DEFINE n == Leader(p)
<1>t. TypeOK /\ AppliedPrefix
  BY DEF ReadInv
<1>0. /\ n \in Node /\ n[1] = p /\ r \in ReplicaType /\ Len(log[p]) \in Nat
      /\ r.applied = Len(log[p])
  BY <1>t, Typed DEF Serves
<1> HIDE DEF n
<1>1. /\ replica'[n] = s
      /\ \A m \in Node : m # n => replica'[m] = replica[m]
      /\ replica' \in [Node -> ReplicaType]
  BY <1>0, <1>t, OneReplica DEF n
<1>2. /\ Len(log'[p]) = Len(log[p]) + 1 /\ log'[p][Len(log[p]) + 1] = e
      /\ \A i \in 1..Len(log[p]) : log'[p][i] = log[p][i]
      /\ \A i \in 1..Len(log'[p]) : i \in 1..Len(log[p]) \/ i = Len(log[p]) + 1
      /\ \A q \in Partition : q # p => log'[q] = log[q]
      /\ log' \in [Partition -> Seq(EntryType)]
      /\ PreparedIn(p) => PreparedIn(p)'
      /\ PreparedIn(p)' => PreparedIn(p) \/ e.kind = "prepare"
  BY <1>t, OneEntry
<1>3. TypeOK'
  BY <1>t, <1>1, <1>2 DEF TypeOK, ReplicaType, EntryType
<1>4. \A m \in Node : \A i \in 1..replica[m].applied : log'[m[1]][i] = log[m[1]][i]
  <2>1. SUFFICES ASSUME NEW m \in Node, NEW i \in 1..replica[m].applied
                 PROVE  log'[m[1]][i] = log[m[1]][i]
    OBVIOUS
  <2>2. /\ replica[m].applied \in Nat /\ replica[m].applied <= Len(log[m[1]])
        /\ m[1] \in Partition /\ Len(log[m[1]]) \in Nat
    BY <1>t, Typed, Fields DEF AppliedPrefix
  <2>3. i \in 1..Len(log[m[1]])
    BY <2>2
  <2>4. QED BY <1>2, <2>2, <2>3
<1>5. /\ TimelinesGrow' /\ HoldsApplied'
      /\ \A m \in Node :
           /\ replica'[m].prep # 0 => /\ txn.state # "none" /\ replica'[m].prep >= txn.ts
                                      /\ replica'[m].origin = txn.ts
           /\ replica'[m].at # 0 => txn.state = "committed" /\ replica'[m].at >= txn.ts
  <2>1. EntryFits(n, replica[n], e, s) /\ replica' = [replica EXCEPT ![n] = s]
    BY DEF n
  <2>2. log'[n[1]][replica[n].applied + 1] = e
    BY <1>0, <1>2 DEF n
  <2>3. QED BY <1>0, <1>4, <2>1, <2>2, HoldsFits
<1>6. AppliedPrefix'
  <2>1. SUFFICES ASSUME NEW m \in Node PROVE replica'[m].applied <= Len(log'[m[1]])
    BY DEF AppliedPrefix
  <2>2. /\ replica[m].applied \in Nat /\ replica[m].applied <= Len(log[m[1]])
        /\ m[1] \in Partition /\ Len(log[m[1]]) \in Nat
    BY <1>t, Typed, Fields DEF AppliedPrefix
  <2>3. CASE m = n
    BY <1>0, <1>1, <1>2, <2>3 DEF EntryFits
  <2>4. CASE m # n
    BY <1>0, <1>1, <1>2, <2>2, <2>4
  <2>5. QED BY <2>3, <2>4
<1>7. FollowsTxn'
  <2>1. \A q \in Partition : \A i \in 1..Len(log'[q]) :
          /\ log'[q][i].kind = "prepare" => txn.state # "none" /\ log'[q][i].ts = txn.ts
          /\ log'[q][i].kind = "commit" => txn.state = "committed" /\ log'[q][i].ts >= txn.ts
          /\ log'[q][i].kind = "rollback" => txn.state = "aborted"
    <3>1. SUFFICES ASSUME NEW q \in Partition, NEW i \in 1..Len(log'[q])
          PROVE /\ log'[q][i].kind = "prepare" => txn.state # "none" /\ log'[q][i].ts = txn.ts
                /\ log'[q][i].kind = "commit" => txn.state = "committed" /\ log'[q][i].ts >= txn.ts
                /\ log'[q][i].kind = "rollback" => txn.state = "aborted"
      OBVIOUS
    <3>2. CASE q = p /\ i = Len(log[p]) + 1
      BY <1>2, <3>2 DEF EntryFollows
    <3>3. CASE ~(q = p /\ i = Len(log[p]) + 1)
      <4>1. i \in 1..Len(log[q]) /\ log'[q][i] = log[q][i]
        BY <1>2, <3>3
      <4>2. QED BY <4>1 DEF ReadInv, FollowsTxn
    <3>4. QED BY <3>2, <3>3
  <2>2. \A q \in Partition : \A i, j \in 1..Len(log'[q]) :
          log'[q][i].kind = "commit" /\ log'[q][j].kind = "prepare" => j < i
    <3>1. SUFFICES ASSUME NEW q \in Partition, NEW i \in 1..Len(log'[q]),
                          NEW j \in 1..Len(log'[q]),
                          log'[q][i].kind = "commit", log'[q][j].kind = "prepare"
                   PROVE  j < i
      OBVIOUS
    <3>2. CASE q # p
      BY <1>2, <3>1, <3>2 DEF ReadInv, FollowsTxn
    <3>3. CASE q = p /\ j = Len(log[p]) + 1
      <4>1. r.at = 0 /\ i # j
        BY <1>2, <3>1, <3>3
      <4>2. i \in 1..Len(log[p]) /\ log[p][i].kind = "commit"
        BY <1>2, <3>1, <3>3, <4>1
      <4>3. AppliedKind(n, "commit")
        BY <1>0, <4>2 DEF AppliedKind, n
      <4>4. QED BY <1>0, <4>1, <4>3 DEF ReadInv, HoldsApplied, n
    <3>4. CASE q = p /\ j # Len(log[p]) + 1
      <4>1. j \in 1..Len(log[p]) /\ log[p][j].kind = "prepare"
        BY <1>2, <3>1, <3>4
      <4>2. CASE i = Len(log[p]) + 1
        BY <1>0, <4>1, <4>2
      <4>3. CASE i # Len(log[p]) + 1
        <5>1. i \in 1..Len(log[p]) /\ log[p][i].kind = "commit"
          BY <1>2, <3>1, <3>4, <4>3
        <5>2. QED BY <4>1, <5>1 DEF ReadInv, FollowsTxn
      <4>4. QED BY <4>2, <4>3
    <3>5. QED BY <3>2, <3>3, <3>4
  <2>3. txn.state = "committed" => \A q \in Partition : PreparedIn(q)'
    <3>1. \A q \in Partition : q # p => (PreparedIn(q) <=> PreparedIn(q)')
      BY <1>2 DEF PreparedIn
    <3>2. QED BY <1>2, <3>1 DEF ReadInv, FollowsTxn
  <2>4. QED BY <1>5, <2>1, <2>2, <2>3 DEF FollowsTxn
<1>8. \A q \in Partition : LeaderMoves(q, replica[Leader(q)], replica'[Leader(q)])
  <2>1. SUFFICES ASSUME NEW q \in Partition
                 PROVE  LeaderMoves(q, replica[Leader(q)], replica'[Leader(q)])
    OBVIOUS
  <2>2. CASE q # p
    <3>1. Leader(q) # n /\ Leader(q) \in Node
      BY <1>0, <1>t, <2>2, Typed
    <3>2. replica'[Leader(q)] = replica[Leader(q)] /\ log'[q] = log[q]
      BY <1>1, <1>2, <2>2, <3>1
    <3>3. QED BY <1>t, <3>2, LeaderStays
  <2>3. CASE q = p
    <3>1. replica[Leader(q)] = r /\ replica'[Leader(q)] = s
      BY <1>1, <2>3 DEF n
    <3>2. s.applied = Len(log'[p])
      BY <1>0, <1>2 DEF EntryFits
    <3>3. PreparedIn(p)' => \/ PreparedIn(p)
                            \/ r.at = 0 /\ txn.ts > r.latest /\ txn.state # "none"
      BY <1>2 DEF EntryFollows
    <3>4. \A i \in 1..Len(log'[p]) : log'[p][i].kind = "commit" =>
            \/ i \in 1..Len(log[p]) /\ log'[p][i] = log[p][i]
            \/ r.prep # 0 /\ log'[p][i].ts = r.prep
      BY <1>2
    <3>5. LeaderMoves(p, r, s)
      BY <3>2, <3>3, <3>4 DEF LeaderMoves
    <3>6. QED BY <2>3, <3>1, <3>5
  <2>4. QED BY <2>2, <2>3
<1>9. failovers = 0 => \A m \in Node : replica'[m].at # 0 => replica'[m].prep = 0
  BY <1>1 DEF ReadInv, FirstLeaders
<1>10. ReadsClosed' /\ SteadyClosed' /\ FirstLeaders' /\ SawIsShown'
  BY <1>3, <1>8, <1>9, ReadSide
<1>11. Core'
  BY <1>5, <1>6, <1>7 DEF Core
<1>12. QED BY <1>3, <1>10, <1>11, Together DEF Core, ReadInv

\* A commit of one partition.
LEMMA CommitStep ==
  ASSUME ReadInv, NEW p \in Partition, NEW ts \in Ts, Commit(p, ts)
  PROVE  ReadInv'
<1>1. PICK r : r = replica[Leader(p)]
  OBVIOUS
<1>2. PICK s : s = [r EXCEPT !.latest = ts, !.assigned = ts,
                             !.applied = r.applied + 1]
  OBVIOUS
<1>3. PICK e : e = [kind |-> "data", ts |-> ts]
  OBVIOUS
<1>4. /\ TypeOK /\ r \in ReplicaType /\ Grows(r) /\ Leader(p) \in Node
      /\ Leader(p)[1] = p
  BY <1>1, Typed, TimelinesAre DEF ReadInv
<1>5. /\ ts \in Nat /\ ts \in 0..MaxTs /\ MaxTs \in Nat
      /\ r.applied \in Nat /\ r.latest \in Nat /\ r.assigned \in Nat
      /\ r.prep \in Nat /\ r.at \in Nat /\ \A c \in r.closed : c \in Nat
  BY <1>4, Fields, ClusterReadAssumption DEF Ts
<1>6. /\ Serves(Leader(p)) /\ r.prep = 0 /\ ts > r.latest /\ ts > r.assigned
      /\ writes < MaxWrites /\ writes' = writes + 1
      /\ UNCHANGED <<leader, txn, read, failovers>>
  BY <1>1 DEF Commit
<1>7. /\ s.latest = ts /\ s.assigned = ts /\ s.applied = r.applied + 1
      /\ s.at = r.at /\ s.prep = r.prep /\ s.origin = r.origin /\ s.closed = r.closed
      /\ s \in ReplicaType
  <2>1. r.applied + 1 \in Nat
    BY <1>5
  <2>2. QED BY <1>2, <1>4, <1>5, <2>1 DEF ReplicaType
<1>8. /\ replica' = [replica EXCEPT ![Leader(p)] = s]
      /\ log' = [log EXCEPT ![p] = Append(@, e)]
  <2>1. Propose(Leader(p), "data", ts, [r EXCEPT !.latest = ts, !.assigned = ts])
    BY <1>1 DEF Commit
  <2>2. [[r EXCEPT !.latest = ts, !.assigned = ts] EXCEPT !.applied = @ + 1] = s
    BY <1>2, <1>4 DEF ReplicaType
  <2>3. QED BY <1>3, <1>4, <2>1, <2>2 DEF Propose
<1>9. Grows(s)
  BY <1>4, <1>5, <1>6, <1>7 DEF Grows
<1>10. e \in EntryType /\ e.kind = "data" /\ EntryFollows(e)
  BY <1>3, <1>5 DEF EntryType, EntryFollows
<1>11. EntryFits(Leader(p), r, e, s)
  BY <1>7, <1>10 DEF EntryFits
<1>12. writes' \in 0..MaxWrites
  BY <1>4, <1>6, ClusterReadAssumption DEF TypeOK
<1>13. s.latest >= r.latest
  BY <1>5, <1>6, <1>7
<1>14. QED BY <1>1, <1>6, <1>7, <1>8, <1>9, <1>10, <1>11, <1>12, <1>13, ProposeStep

\* The transaction moves on and the partitions do not: it begins, it is
\* decided, its coordinator gives up.
LEMMA TxnStep ==
  ASSUME ReadInv, UNCHANGED <<log, replica, leader, read, writes, failovers>>,
         txn' \in [ts : 0..MaxTs, state : {"none", "preparing", "committed", "aborted"}],
         txn.state \in {"none", "preparing"}, txn'.state # "none",
         txn.state = "preparing" => txn'.ts = txn.ts,
         txn'.state = "committed" => \A p \in Partition : PreparedIn(p)
  PROVE  ReadInv'
<1>t. TypeOK /\ TypeOK'
  BY DEF ReadInv, TypeOK
<1>1. AppliedPrefix' /\ TimelinesGrow'
  BY DEF ReadInv, AppliedPrefix, TimelinesGrow
<1>2. \A p \in Partition : PreparedIn(p)' <=> PreparedIn(p)
  BY DEF PreparedIn
<1>3. \A n \in Node : \A k : AppliedKind(n, k)' <=> AppliedKind(n, k)
  BY DEF AppliedKind
<1>4. HoldsApplied'
  <2>1. \A n \in Node : AppliedKind(n, "prepare") /\ txn.state # "aborted" =>
          replica[n].prep # 0 \/ replica[n].at # 0
    BY DEF ReadInv, HoldsApplied
  <2>2. txn.state # "aborted"
    OBVIOUS
  <2>3. QED BY <1>3, <2>1, <2>2 DEF ReadInv, HoldsApplied
<1>5. FollowsTxn'
  <2>1. /\ \A p \in Partition : \A i \in 1..Len(log[p]) :
             /\ log[p][i].kind = "prepare" => txn'.state # "none" /\ log[p][i].ts = txn'.ts
             /\ log[p][i].kind = "commit" => txn'.state = "committed" /\ log[p][i].ts >= txn'.ts
             /\ log[p][i].kind = "rollback" => txn'.state = "aborted"
    BY DEF ReadInv, FollowsTxn
  <2>2. \A n \in Node :
          /\ replica[n].prep # 0 => /\ txn'.state # "none" /\ replica[n].prep >= txn'.ts
                                    /\ replica[n].origin = txn'.ts
          /\ replica[n].at # 0 => txn'.state = "committed" /\ replica[n].at >= txn'.ts
    BY DEF ReadInv, FollowsTxn
  <2>3. \A p \in Partition : \A i, j \in 1..Len(log[p]) :
          log[p][i].kind = "commit" /\ log[p][j].kind = "prepare" => j < i
    BY DEF ReadInv, FollowsTxn
  <2>4. QED BY <1>2, <2>1, <2>2, <2>3 DEF FollowsTxn
<1>6. \A p \in Partition : LeaderMoves(p, replica[Leader(p)], replica'[Leader(p)])
  BY <1>t, LeaderStays
<1>7. failovers = 0 => \A n \in Node : replica'[n].at # 0 => replica'[n].prep = 0
  BY DEF ReadInv, FirstLeaders
<1>8. ReadsClosed' /\ SteadyClosed' /\ FirstLeaders' /\ SawIsShown'
  BY <1>t, <1>6, <1>7, ReadSide
<1>9. QED BY <1>t, <1>1, <1>4, <1>5, <1>8 DEF ReadInv

\* A two-phase prepare, accepted above the floor or refused.
LEMMA PrepareStep ==
  ASSUME ReadInv, NEW p \in Partition, Prepare(p)
  PROVE  ReadInv'
<1>1. PICK r : r = replica[Leader(p)]
  OBVIOUS
<1>4. /\ TypeOK /\ r \in ReplicaType /\ Grows(r) /\ Leader(p) \in Node
      /\ Leader(p)[1] = p
  BY <1>1, Typed, TimelinesAre DEF ReadInv
<1>5. /\ txn.ts \in Nat /\ txn.ts \in 0..MaxTs /\ MaxTs \in Nat
      /\ r.applied \in Nat /\ r.latest \in Nat /\ r.assigned \in Nat /\ r.floor \in Nat
      /\ r.prep \in Nat /\ r.at \in Nat /\ \A c \in r.closed : c \in Nat
      /\ r.assigned \in 0..MaxTs
  BY <1>4, Fields, Typed
<1>6. /\ Serves(Leader(p)) /\ r.prep = 0 /\ r.at = 0 /\ txn.state = "preparing"
      /\ UNCHANGED <<leader, read, writes, failovers>>
  BY <1>1 DEF Prepare
<1>7. CASE txn.ts >= PrepareFloor(r)
  <2>1. txn.ts > r.latest
    <3>1. Max({r.floor, r.latest}) \in Nat /\ Max({r.floor, r.latest}) >= r.latest
      BY <1>5, MaxOfTwo
    <3>2. QED BY <1>5, <1>7, <3>1 DEF PrepareFloor
  <2>2. PICK a \in Nat : /\ a = Max({r.assigned, txn.ts}) /\ a >= r.assigned /\ a >= txn.ts
                         /\ a \in 0..MaxTs
    BY <1>5, MaxOfTwo
  <2>3. PICK s : s = [r EXCEPT !.prep = txn.ts, !.origin = txn.ts, !.assigned = a,
                               !.applied = r.applied + 1]
    OBVIOUS
  <2>4. PICK e : e = [kind |-> "prepare", ts |-> txn.ts]
    OBVIOUS
  <2>5. /\ s.latest = r.latest /\ s.assigned = a /\ s.applied = r.applied + 1
        /\ s.at = r.at /\ s.prep = txn.ts /\ s.origin = txn.ts /\ s.closed = r.closed
        /\ s \in ReplicaType
    <3>1. r.applied + 1 \in Nat
      BY <1>5
    <3>2. QED BY <2>3, <1>4, <1>5, <2>2, <3>1 DEF ReplicaType
  <2>6. /\ replica' = [replica EXCEPT ![Leader(p)] = s]
        /\ log' = [log EXCEPT ![p] = Append(@, e)]
    <3>1. Propose(Leader(p), "prepare", txn.ts,
                  [r EXCEPT !.prep = txn.ts, !.origin = txn.ts, !.assigned = a])
      BY <1>1, <1>7, <2>2 DEF Prepare
    <3>2. [[r EXCEPT !.prep = txn.ts, !.origin = txn.ts, !.assigned = a]
             EXCEPT !.applied = @ + 1] = s
      BY <2>3, <1>4 DEF ReplicaType
    <3>3. QED BY <1>4, <2>4, <3>1, <3>2 DEF Propose
  <2>7. Grows(s)
    BY <1>4, <1>5, <2>2, <2>5 DEF Grows
  <2>8. e \in EntryType /\ e.kind = "prepare" /\ EntryFollows(e)
    BY <1>5, <1>6, <2>4 DEF EntryType, EntryFollows
  <2>9. EntryFits(Leader(p), r, e, s)
    BY <1>5, <2>1, <2>5, <2>8 DEF EntryFits
  <2>10. UNCHANGED txn /\ writes' \in 0..MaxWrites /\ s.latest >= r.latest
    BY <1>1, <1>4, <1>5, <1>6, <1>7, <2>5 DEF Prepare, TypeOK
  <2>11. QED BY <1>1, <1>6, <2>1, <2>5, <2>6, <2>7, <2>8, <2>9, <2>10, ProposeStep
<1>8. CASE ~(txn.ts >= PrepareFloor(r))
  <2>1. txn' = [txn EXCEPT !.state = "aborted"] /\ UNCHANGED <<log, replica>>
    BY <1>1, <1>8 DEF Prepare
  <2>2. txn'.ts = txn.ts /\ txn'.state = "aborted"
        /\ txn' \in [ts : 0..MaxTs, state : {"none", "preparing", "committed", "aborted"}]
    BY <1>4, <2>1 DEF TypeOK
  <2>3. QED BY <1>6, <2>1, <2>2, TxnStep
<1>9. QED BY <1>7, <1>8

\* The transaction's commit on one partition.
LEMMA CommitPreparedStep ==
  ASSUME ReadInv, NEW p \in Partition, CommitPrepared(p)
  PROVE  ReadInv'
<1>1. PICK r : r = replica[Leader(p)]
  OBVIOUS
<1>4. /\ TypeOK /\ r \in ReplicaType /\ Grows(r) /\ Leader(p) \in Node
      /\ Leader(p)[1] = p
  BY <1>1, Typed, TimelinesAre DEF ReadInv
<1>5. /\ txn.ts \in Nat /\ MaxTs \in Nat /\ 0 \in 0..MaxTs
      /\ r.applied \in Nat /\ r.latest \in Nat /\ r.assigned \in Nat
      /\ r.prep \in Nat /\ r.at \in Nat /\ \A c \in r.closed : c \in Nat
      /\ r.prep \in 0..MaxTs /\ r.at \in 0..MaxTs
  BY <1>4, Fields, Typed
<1>6. /\ Serves(Leader(p)) /\ r.prep # 0 /\ r.prep > r.latest /\ txn.state = "committed"
      /\ UNCHANGED <<leader, txn, read, writes, failovers>>
  BY <1>1 DEF CommitPrepared
<1>7. PICK a : a = IF r.at = 0 THEN r.prep ELSE r.at
  OBVIOUS
<1>8. PICK s : s = [r EXCEPT !.latest = r.prep, !.prep = 0, !.origin = 0, !.at = a,
                             !.applied = r.applied + 1]
  OBVIOUS
<1>9. PICK e : e = [kind |-> "commit", ts |-> r.prep]
  OBVIOUS
<1>10. /\ s.latest = r.prep /\ s.assigned = r.assigned /\ s.applied = r.applied + 1
       /\ s.at = a /\ s.prep = 0 /\ s.origin = 0 /\ s.closed = r.closed
       /\ s \in ReplicaType
  <2>1. r.applied + 1 \in Nat /\ a \in 0..MaxTs
    BY <1>5, <1>7
  <2>2. QED BY <1>4, <1>5, <1>8, <2>1 DEF ReplicaType
<1>11. /\ replica' = [replica EXCEPT ![Leader(p)] = s]
       /\ log' = [log EXCEPT ![p] = Append(@, e)]
  <2>1. Propose(Leader(p), "commit", r.prep,
                [r EXCEPT !.latest = r.prep, !.prep = 0, !.origin = 0, !.at = a])
    BY <1>1, <1>7 DEF CommitPrepared
  <2>2. [[r EXCEPT !.latest = r.prep, !.prep = 0, !.origin = 0, !.at = a]
             EXCEPT !.applied = @ + 1] = s
    BY <1>4, <1>8 DEF ReplicaType
  <2>3. QED BY <1>4, <1>9, <2>1, <2>2 DEF Propose
<1>12. Grows(s)
  BY <1>4, <1>5, <1>6, <1>7, <1>10 DEF Grows
<1>13. /\ r.prep >= txn.ts /\ (r.at # 0 => r.at >= txn.ts)
  BY <1>1, <1>4, <1>6 DEF ReadInv, FollowsTxn
<1>14. e \in EntryType /\ e.kind = "commit" /\ e.ts = r.prep /\ EntryFollows(e)
  BY <1>5, <1>6, <1>9, <1>13 DEF EntryType, EntryFollows
<1>15. EntryFits(Leader(p), r, e, s)
  <2>1. a # 0 /\ a >= txn.ts
    BY <1>6, <1>7, <1>13
  <2>2. s.at # 0 /\ s.at >= txn.ts /\ s.prep = 0 /\ s.applied = r.applied + 1
    BY <1>10, <2>1
  <2>3. QED BY <1>14, <2>2 DEF EntryFits
<1>16. writes' \in 0..MaxWrites /\ s.latest >= r.latest
  <2>1. writes' \in 0..MaxWrites
    BY <1>4, <1>6 DEF TypeOK
  <2>2. QED BY <1>5, <1>6, <1>10, <2>1
<1>17. s.at = r.at \/ (r.at = 0 /\ r.prep # 0 /\ s.at = r.prep)
  BY <1>6, <1>7, <1>10
<1>18. QED BY <1>1, <1>6, <1>10, <1>11, <1>12, <1>14, <1>15, <1>16, <1>17, ProposeStep

\* The transaction's rollback on one partition.
LEMMA RollbackPreparedStep ==
  ASSUME ReadInv, NEW p \in Partition, RollbackPrepared(p)
  PROVE  ReadInv'
<1>1. PICK r : r = replica[Leader(p)]
  OBVIOUS
<1>4. /\ TypeOK /\ r \in ReplicaType /\ Grows(r) /\ Leader(p) \in Node
      /\ Leader(p)[1] = p
  BY <1>1, Typed, TimelinesAre DEF ReadInv
<1>5. /\ MaxTs \in Nat /\ 0 \in 0..MaxTs
      /\ r.applied \in Nat /\ r.latest \in Nat /\ r.assigned \in Nat
      /\ r.prep \in Nat /\ r.at \in Nat /\ \A c \in r.closed : c \in Nat
  BY <1>4, Fields, Typed
<1>6. /\ Serves(Leader(p)) /\ r.prep # 0 /\ txn.state = "aborted"
      /\ UNCHANGED <<leader, txn, read, writes, failovers>>
  BY <1>1 DEF RollbackPrepared
<1>8. PICK s : s = [r EXCEPT !.prep = 0, !.origin = 0, !.applied = r.applied + 1]
  OBVIOUS
<1>9. PICK e : e = [kind |-> "rollback", ts |-> 0]
  OBVIOUS
<1>10. /\ s.latest = r.latest /\ s.assigned = r.assigned /\ s.applied = r.applied + 1
       /\ s.at = r.at /\ s.prep = 0 /\ s.origin = 0 /\ s.closed = r.closed
       /\ s \in ReplicaType
  <2>1. r.applied + 1 \in Nat
    BY <1>5
  <2>2. QED BY <1>4, <1>5, <1>8, <2>1 DEF ReplicaType
<1>11. /\ replica' = [replica EXCEPT ![Leader(p)] = s]
       /\ log' = [log EXCEPT ![p] = Append(@, e)]
  <2>1. Propose(Leader(p), "rollback", 0, [r EXCEPT !.prep = 0, !.origin = 0])
    BY <1>1 DEF RollbackPrepared
  <2>2. [[r EXCEPT !.prep = 0, !.origin = 0] EXCEPT !.applied = @ + 1] = s
    BY <1>4, <1>8 DEF ReplicaType
  <2>3. QED BY <1>4, <1>9, <2>1, <2>2 DEF Propose
<1>12. Grows(s)
  BY <1>4, <1>5, <1>10 DEF Grows
<1>14. e \in EntryType /\ e.kind = "rollback" /\ EntryFollows(e)
  BY <1>5, <1>6, <1>9 DEF EntryType, EntryFollows
<1>15. EntryFits(Leader(p), r, e, s)
  BY <1>10, <1>14 DEF EntryFits
<1>16. writes' \in 0..MaxWrites /\ s.latest >= r.latest
  BY <1>4, <1>5, <1>6, <1>10 DEF TypeOK
<1>17. QED BY <1>1, <1>6, <1>10, <1>11, <1>12, <1>14, <1>15, <1>16, ProposeStep

\* The transaction takes its timestamp.
LEMMA BeginStep ==
  ASSUME ReadInv, NEW ts \in Ts, Begin(ts)
  PROVE  ReadInv'
<1>1. /\ txn.state = "none" /\ txn'.state = "preparing"
      /\ UNCHANGED <<log, leader, replica, read, writes, failovers>>
  BY DEF Begin
<1>2. txn' \in [ts : 0..MaxTs, state : {"none", "preparing", "committed", "aborted"}]
  <2>1. ts \in 0..MaxTs
    BY ClusterReadAssumption DEF Ts
  <2>2. QED BY <2>1 DEF Begin
<1>3. QED BY <1>1, <1>2, TxnStep

\* The transaction is decided.
LEMMA DecideStep ==
  ASSUME ReadInv, Decide
  PROVE  ReadInv'
<1>1. /\ txn.state = "preparing" /\ \A p \in Partition : PreparedIn(p)
      /\ txn' = [txn EXCEPT !.state = "committed"]
      /\ UNCHANGED <<log, leader, replica, read, writes, failovers>>
  BY DEF Decide
<1>2. /\ txn' \in [ts : 0..MaxTs, state : {"none", "preparing", "committed", "aborted"}]
      /\ txn'.ts = txn.ts /\ txn'.state = "committed"
  BY <1>1 DEF ReadInv, TypeOK
<1>3. QED BY <1>1, <1>2, TxnStep

\* Another partition's delta moves a timeline on.
LEMMA AdvanceStep ==
  ASSUME ReadInv, NEW n \in Node, NEW ts \in Ts, Advance(n, ts)
  PROVE  ReadInv'
<1>1. PICK r : r = replica[n]
  OBVIOUS
<1>2. PICK s : s = [r EXCEPT !.latest = ts, !.assigned = ts]
  OBVIOUS
<1>3. /\ TypeOK /\ r \in ReplicaType /\ Grows(r)
  BY <1>1, Typed, TimelinesAre DEF ReadInv
<1>4. /\ ts \in Nat /\ ts \in 0..MaxTs
      /\ r.applied \in Nat /\ r.latest \in Nat /\ r.assigned \in Nat
      /\ r.prep \in Nat /\ r.at \in Nat /\ \A c \in r.closed : c \in Nat
  BY <1>3, Fields, ClusterReadAssumption DEF Ts
<1>5. /\ r.prep = 0 /\ ts = Max({r.latest, r.assigned}) + 1
      /\ writes < MaxWrites /\ writes' = writes + 1
      /\ replica' = [replica EXCEPT ![n] = s]
      /\ UNCHANGED <<log, leader, txn, read, failovers>>
  BY <1>1, <1>2 DEF Advance
<1>6. ts > r.latest /\ ts > r.assigned
  <2>1. /\ Max({r.latest, r.assigned}) \in Nat /\ Max({r.latest, r.assigned}) >= r.latest
        /\ Max({r.latest, r.assigned}) >= r.assigned
    BY <1>4, MaxOfTwo
  <2>2. QED BY <1>4, <1>5, <2>1
<1>7. /\ s.latest = ts /\ s.assigned = ts /\ s.applied = r.applied
      /\ s.at = r.at /\ s.prep = r.prep /\ s.origin = r.origin /\ s.closed = r.closed
      /\ s \in ReplicaType
  BY <1>2, <1>3, <1>4 DEF ReplicaType
<1>8. Grows(s)
  BY <1>3, <1>4, <1>6, <1>7 DEF Grows
<1>9. Core'
  BY <1>1, <1>5, <1>7, <1>8, TimelineStep
<1>10. /\ replica'[n] = s
       /\ \A m \in Node : m # n => replica'[m] = replica[m]
       /\ replica' \in [Node -> ReplicaType]
  BY <1>3, <1>5, <1>7, OneReplica
<1>11. TypeOK'
  <2>1. writes' \in 0..MaxWrites
    BY <1>3, <1>5, ClusterReadAssumption DEF TypeOK
  <2>2. QED BY <1>3, <1>5, <1>10, <2>1 DEF TypeOK, ReplicaType
<1>12. \A q \in Partition : LeaderMoves(q, replica[Leader(q)], replica'[Leader(q)])
  <2>1. SUFFICES ASSUME NEW q \in Partition
                 PROVE  LeaderMoves(q, replica[Leader(q)], replica'[Leader(q)])
    OBVIOUS
  <2>2. Leader(q) \in Node
    BY <1>3, Typed
  <2>3. CASE Leader(q) # n
    <3>1. replica'[Leader(q)] = replica[Leader(q)] /\ log'[q] = log[q]
      BY <1>5, <1>10, <2>2, <2>3
    <3>2. QED BY <1>3, <3>1, LeaderStays
  <2>4. CASE Leader(q) = n
    <3>1. LeaderMoves(q, r, s)
      <4>1. s.latest >= r.latest
        BY <1>4, <1>6, <1>7
      <4>2. PreparedIn(q)' <=> PreparedIn(q)
        BY <1>5 DEF PreparedIn
      <4>3. QED BY <1>5, <1>7, <4>1, <4>2 DEF LeaderMoves
    <3>2. QED BY <1>1, <1>10, <2>4, <3>1
  <2>5. QED BY <2>3, <2>4
<1>13. failovers = 0 => \A m \in Node : replica'[m].at # 0 => replica'[m].prep = 0
  BY <1>1, <1>7, <1>10 DEF ReadInv, FirstLeaders
<1>14. ReadsClosed' /\ SteadyClosed' /\ FirstLeaders' /\ SawIsShown'
  BY <1>5, <1>11, <1>12, <1>13, ReadSide
<1>15. QED BY <1>9, <1>11, <1>14 DEF Core, ReadInv

\* A replica applies the next entry of its log.
LEMMA ApplyStep ==
  ASSUME ReadInv, NEW n \in Node, Apply(n)
  PROVE  ReadInv'
<1>1. PICK r : r = replica[n]
  OBVIOUS
<1>2. PICK e : e = log[n[1]][r.applied + 1]
  OBVIOUS
<1>3. PICK a : a = Applied(r, e)
  OBVIOUS
<1>4. PICK s : s = [a EXCEPT !.applied = r.applied + 1]
  OBVIOUS
<1>5. /\ TypeOK /\ AppliedPrefix /\ r \in ReplicaType /\ Grows(r)
      /\ n[1] \in Partition /\ r.applied \in Nat /\ Len(log[n[1]]) \in Nat
      /\ r.applied < Len(log[n[1]])
  BY <1>1, Typed, TimelinesAre, Fields DEF ReadInv, Apply
<1>6. r.applied + 1 \in 1..Len(log[n[1]]) /\ r.applied + 1 \in Nat
  BY <1>5
<1>7. e \in EntryType
  BY <1>2, <1>5, <1>6, Typed
<1>8. {Applied(r, e).latest, Applied(r, e).prep} \subseteq 0..MaxTs
  BY <1>1, <1>2 DEF Apply
<1>9. a \in ReplicaType /\ Grows(a) /\ AppliedResult(r, e, a)
  BY <1>3, <1>5, <1>7, <1>8, AppliedFacts
<1>10. /\ s \in ReplicaType /\ s.applied = r.applied + 1 /\ s.latest = a.latest
       /\ s.assigned = a.assigned /\ s.closed = a.closed /\ s.prep = a.prep
       /\ s.at = a.at /\ s.origin = a.origin
  BY <1>4, <1>6, <1>9 DEF ReplicaType
<1>11. /\ replica' = [replica EXCEPT ![n] = s]
       /\ UNCHANGED <<log, leader, txn, read, writes, failovers>>
  <2>1. a.applied = r.applied
    BY <1>9 DEF AppliedResult
  <2>2. replica' = [replica EXCEPT ![n] = [a EXCEPT !.applied = @ + 1]]
    BY <1>1, <1>2, <1>3 DEF Apply
  <2>3. [a EXCEPT !.applied = @ + 1] = s
    BY <1>4, <1>9, <2>1 DEF ReplicaType
  <2>4. QED BY <2>2, <2>3 DEF Apply
<1>12. Grows(s)
  BY <1>9, <1>10 DEF Grows
<1>13. EntryFollows(e)
  BY <1>2, <1>5, <1>6, <1>7 DEF ReadInv, FollowsTxn, EntryFollows, EntryType
<1>14. /\ r.prep # 0 => r.prep >= txn.ts /\ r.origin = txn.ts
       /\ r.at # 0 => r.at >= txn.ts
  BY <1>1 DEF ReadInv, FollowsTxn
<1>15. EntryFits(n, r, e, s)
  <2>1. e.kind = "data" => s.at = r.at /\ s.prep = r.prep /\ s.origin = r.origin
    BY <1>9, <1>10 DEF AppliedResult
  <2>2. e.kind = "prepare" => /\ s.at = r.at /\ s.prep # 0 /\ s.prep >= txn.ts
                              /\ s.origin = txn.ts
    BY <1>9, <1>10, <1>13 DEF AppliedResult, EntryFollows
  <2>3. e.kind = "commit" => /\ s.at # 0 /\ s.at >= txn.ts
                             /\ s.prep # 0 => s.prep = r.prep /\ s.origin = r.origin
    <3>1. SUFFICES ASSUME e.kind = "commit"
                   PROVE  /\ s.at # 0 /\ s.at >= txn.ts
                          /\ s.prep # 0 => s.prep = r.prep /\ s.origin = r.origin
      OBVIOUS
    <3>2. /\ r.at # 0 => s.at = r.at
          /\ r.at = 0 => s.at # 0 /\ (s.at >= e.ts \/ (r.prep # 0 /\ s.at = r.prep))
          /\ s.prep # 0 => s.prep = r.prep /\ s.origin = r.origin
      BY <1>9, <1>10, <3>1 DEF AppliedResult
    <3>3. e.ts >= txn.ts /\ e.ts \in Nat /\ txn.ts \in Nat /\ s.at \in Nat
      BY <1>5, <1>7, <1>10, <1>13, <3>1, Fields, Typed, ClusterReadAssumption
         DEF EntryFollows, EntryType
    <3>4. QED BY <1>14, <3>2, <3>3
  <2>4. e.kind = "rollback" => s.at = r.at /\ s.prep = 0
    BY <1>9, <1>10 DEF AppliedResult
  <2>5. QED BY <1>10, <2>1, <2>2, <2>3, <2>4 DEF EntryFits
<1>16. /\ TimelinesGrow' /\ HoldsApplied'
       /\ \A m \in Node :
            /\ replica'[m].prep # 0 => /\ txn.state # "none" /\ replica'[m].prep >= txn.ts
                                       /\ replica'[m].origin = txn.ts
            /\ replica'[m].at # 0 => txn.state = "committed" /\ replica'[m].at >= txn.ts
  <2>1. log'[n[1]][replica[n].applied + 1] = e
    BY <1>1, <1>2, <1>11
  <2>2. \A m \in Node : \A i \in 1..replica[m].applied : log'[m[1]][i] = log[m[1]][i]
    BY <1>11
  <2>3. UNCHANGED txn
    BY <1>11
  <2>4. QED BY <1>1, <1>10, <1>11, <1>12, <1>13, <1>15, <2>1, <2>2, <2>3, HoldsFits
<1>17. /\ replica'[n] = s
       /\ \A m \in Node : m # n => replica'[m] = replica[m]
       /\ replica' \in [Node -> ReplicaType]
  BY <1>5, <1>10, <1>11, OneReplica
<1>18. AppliedPrefix'
  <2>1. s.applied <= Len(log[n[1]])
    BY <1>5, <1>10
  <2>2. QED BY <1>5, <1>11, <1>17, <2>1 DEF AppliedPrefix
<1>19. FollowsTxn'
  <2>1. \A p \in Partition : PreparedIn(p)' <=> PreparedIn(p)
    BY <1>11 DEF PreparedIn
  <2>2. QED BY <1>11, <1>16, <2>1 DEF ReadInv, FollowsTxn
<1>20. TypeOK'
  BY <1>5, <1>11, <1>17 DEF TypeOK, ReplicaType
<1>21. \A q \in Partition : LeaderMoves(q, replica[Leader(q)], replica'[Leader(q)])
  <2>1. SUFFICES ASSUME NEW q \in Partition
                 PROVE  LeaderMoves(q, replica[Leader(q)], replica'[Leader(q)])
    OBVIOUS
  <2>2. Leader(q) \in Node /\ Leader(q)[1] = q
    BY <1>5, Typed
  <2>3. CASE Leader(q) # n
    <3>1. replica'[Leader(q)] = replica[Leader(q)] /\ log'[q] = log[q]
      BY <1>11, <1>17, <2>2, <2>3
    <3>2. QED BY <1>5, <3>1, LeaderStays
  <2>4. CASE Leader(q) = n
    <3>1. replica[Leader(q)].applied # Len(log[q])
      BY <1>1, <1>5, <2>2, <2>4
    <3>2. QED BY <3>1 DEF LeaderMoves
  <2>5. QED BY <2>3, <2>4
<1>22. failovers = 0 => \A m \in Node : replica'[m].at # 0 => replica'[m].prep = 0
  <2>1. SUFFICES ASSUME failovers = 0, s.at # 0, s.prep # 0 PROVE FALSE
    BY <1>17 DEF ReadInv, FirstLeaders
  <2>2. /\ r.at # 0 => r.prep = 0
        /\ \A p \in Partition : \A i \in 1..Len(log[p]) :
              log[p][i].kind = "commit" => log[p][i].ts = txn.ts
    BY <1>1, <2>1 DEF ReadInv, FirstLeaders
  <2>3. CASE e.kind = "data"
    BY <1>15, <2>1, <2>2, <2>3 DEF EntryFits
  <2>4. CASE e.kind = "prepare"
    <3>1. AppliedKind(n, "commit")
      BY <1>1, <1>15, <2>1, <2>4 DEF EntryFits, ReadInv, HoldsApplied
    <3>2. PICK i \in 1..r.applied : log[n[1]][i].kind = "commit"
      BY <1>1, <3>1 DEF AppliedKind
    <3>3. i \in 1..Len(log[n[1]]) /\ i < r.applied + 1
      BY <1>5, <3>2
    <3>4. r.applied + 1 < i
      BY <1>2, <1>5, <1>6, <2>4, <3>2, <3>3 DEF ReadInv, FollowsTxn
    <3>5. QED BY <1>5, <3>2, <3>3, <3>4
  <2>5. CASE e.kind = "commit"
    <3>1. e.ts = txn.ts
      BY <1>2, <1>5, <1>6, <2>2, <2>5
    <3>2. r.prep # 0
      BY <1>15, <2>1, <2>5 DEF EntryFits
    <3>3. Matches(r, e)
      BY <1>14, <3>1, <3>2 DEF Matches
    <3>4. QED BY <1>9, <1>10, <2>1, <2>5, <3>3 DEF AppliedResult
  <2>6. CASE e.kind = "rollback"
    BY <1>15, <2>1, <2>6 DEF EntryFits
  <2>7. QED BY <1>13, <2>3, <2>4, <2>5, <2>6 DEF EntryFollows
<1>23. ReadsClosed' /\ SteadyClosed' /\ FirstLeaders' /\ SawIsShown'
  <2>1. UNCHANGED <<leader, read, failovers>> /\ UNCHANGED txn
    BY <1>11
  <2>2. QED BY <1>20, <1>21, <1>22, <2>1, ReadSide
<1>24. QED BY <1>16, <1>18, <1>19, <1>20, <1>23 DEF ReadInv

\* A partition changes its leader.
LEMMA FailoverStep ==
  ASSUME ReadInv, NEW p \in Partition, NEW l \in Replica, Failover(p, l)
  PROVE  ReadInv'
<1>1. /\ failovers < MaxFailovers /\ failovers' = failovers + 1
      /\ leader' = [leader EXCEPT ![p] = l]
      /\ UNCHANGED <<log, replica, txn, read, writes>>
  BY DEF Failover
<1>2. TypeOK /\ failovers \in Nat /\ read.began \in Nat
  <2>1. TypeOK /\ MaxFailovers \in Nat
    BY ClusterReadAssumption DEF ReadInv
  <2>2. failovers \in 0..MaxFailovers
    BY <2>1 DEF TypeOK
  <2>3. read.began \in 0..MaxFailovers
    BY <2>1 DEF TypeOK
  <2>4. QED BY <2>1, <2>2, <2>3
<1>3. TypeOK'
  <2>1. failovers' \in 0..MaxFailovers
    BY <1>1, <1>2, ClusterReadAssumption DEF TypeOK
  <2>2. leader' \in [Partition -> Replica]
    BY <1>1, <1>2 DEF TypeOK
  <2>3. QED BY <1>1, <1>2, <2>1, <2>2 DEF TypeOK
<1>4. \A q \in Partition : PreparedIn(q)' <=> PreparedIn(q)
  BY <1>1 DEF PreparedIn
<1>5. \A n \in Node : \A k : AppliedKind(n, k)' <=> AppliedKind(n, k)
  BY <1>1 DEF AppliedKind
<1>6. AppliedPrefix' /\ TimelinesGrow' /\ FollowsTxn' /\ HoldsApplied'
  <2>1. AppliedPrefix' /\ TimelinesGrow'
    BY <1>1 DEF ReadInv, AppliedPrefix, TimelinesGrow
  <2>2. FollowsTxn'
    BY <1>1, <1>4 DEF ReadInv, FollowsTxn
  <2>3. HoldsApplied'
    BY <1>1, <1>5 DEF ReadInv, HoldsApplied
  <2>4. QED BY <2>1, <2>2, <2>3
<1>7. failovers' # 0 /\ (read.phase # "idle" => read.began < failovers')
  BY <1>1, <1>2 DEF ReadInv, ReadsClosed
<1>8. ReadsClosed'
  <2>1. read.phase # "idle" => read.began <= failovers' /\ read.began # failovers'
    BY <1>1, <1>2, <1>7
  <2>2. QED BY <1>1, <2>1 DEF ReadInv, ReadsClosed
<1>9. Asking => read.began # failovers'
  BY <1>1, <1>2, <1>7 DEF Asking
<1>10. SteadyClosed' /\ FirstLeaders'
  BY <1>1, <1>7, <1>9 DEF SteadyClosed, FirstLeaders, Asking
<1>11. SawIsShown'
  BY <1>1, <1>7, <1>9 DEF SawIsShown, Asking
<1>12. QED BY <1>3, <1>6, <1>8, <1>10, <1>11 DEF ReadInv

----------------------------------------------------------------------------
(* The steps of the reader. *)

\* The partitions are left alone.
LEMMA CoreStays ==
  ASSUME ReadInv, UNCHANGED <<log, replica, txn>>
  PROVE  Core'
<1>1. \A q \in Partition : PreparedIn(q)' <=> PreparedIn(q)
  BY DEF PreparedIn
<1>2. \A n \in Node : \A k : AppliedKind(n, k)' <=> AppliedKind(n, k)
  BY DEF AppliedKind
<1>3. AppliedPrefix' /\ TimelinesGrow'
  BY DEF ReadInv, AppliedPrefix, TimelinesGrow
<1>4. FollowsTxn'
  BY <1>1 DEF ReadInv, FollowsTxn
<1>5. HoldsApplied'
  BY <1>2 DEF ReadInv, HoldsApplied
<1>6. QED BY <1>3, <1>4, <1>5 DEF Core

\* The type of a read.
ReadType == [phase : {"idle", "closing", "reading", "done", "failed"},
             kind : {"latest", "exact"}, ts : 0..MaxTs,
             led : [Partition -> Replica], began : 0..MaxFailovers,
             answer : [Partition -> {"none", "closed", "retry", "blocked"}],
             retry : 0..MaxTs,
             saw : [Partition -> {"nothing", "old", "new"}]]

\* Only the read changes; x is the read after the step.
LEMMA OnlyRead ==
  ASSUME ReadInv, UNCHANGED <<log, leader, replica, txn, writes, failovers>>,
         NEW x \in ReadType, read' = x, ReadsClosed',
         x.phase \in {"closing", "reading", "done"} =>
           /\ \A p \in Partition : x.answer[p] = "closed" =>
                /\ Asking /\ read.answer[p] = "closed" /\ x.ts = read.ts
                /\ x.kind = read.kind /\ x.began = read.began
           /\ \A p \in Partition : x.saw[p] # "nothing" =>
                /\ Asking /\ read.saw[p] = x.saw[p] /\ x.ts = read.ts
                /\ x.kind = read.kind /\ x.began = read.began
  PROVE  ReadInv'
<1>1. Core'
  BY CoreStays
<1>2. TypeOK'
  BY DEF ReadInv, TypeOK, ReadType
<1>l. \A p : Leader(p)' = Leader(p)
  BY DEF Leader
<1>p. \A p \in Partition : PreparedIn(p)' <=> PreparedIn(p)
  BY DEF PreparedIn
<1>3. SteadyClosed'
  <2>1. SUFFICES ASSUME x.phase \in {"closing", "reading", "done"},
                        x.kind = "latest", x.began = failovers,
                        NEW p \in Partition, x.answer[p] = "closed"
        PROVE  /\ replica[Leader(p)].applied = Len(log[p])
               /\ \/ Sees(replica[Leader(p)], x.ts) = "new"
                  \/ /\ replica[Leader(p)].at = 0 =>
                          /\ replica[Leader(p)].latest >= x.ts
                          /\ \/ replica[Leader(p)].prep = 0
                             \/ replica[Leader(p)].prep > x.ts
                     /\ PreparedIn(p) /\ txn.state # "aborted" => txn.ts > x.ts
    BY <1>l, <1>p DEF SteadyClosed, Asking, Sees
  <2>2. /\ Asking /\ read.answer[p] = "closed" /\ x.ts = read.ts
        /\ read.kind = "latest" /\ read.began = failovers
    BY <2>1
  <2>3. QED BY <2>2 DEF ReadInv, SteadyClosed
<1>4. FirstLeaders'
  <2>1. SUFFICES ASSUME failovers = 0
        PROVE  /\ \A p \in Partition :
                    /\ leader[p] = FirstLeader
                    /\ replica[Leader(p)].applied = Len(log[p])
                    /\ replica[Leader(p)].prep \in {0, txn.ts}
                    /\ replica[Leader(p)].at \in {0, txn.ts}
                    /\ replica[Leader(p)].prep # 0 =>
                         replica[Leader(p)].prep > replica[Leader(p)].latest
                    /\ \A i \in 1..Len(log[p]) :
                         log[p][i].kind = "commit" => log[p][i].ts = txn.ts
                    /\ x.phase \in {"closing", "reading", "done"} /\ x.kind = "exact"
                       /\ x.answer[p] = "closed" => x.ts \in replica[Leader(p)].closed
               /\ \A n \in Node : replica[n].at # 0 => replica[n].prep = 0
    BY <1>l DEF FirstLeaders, Asking
  <2>2. ASSUME NEW p \in Partition, x.phase \in {"closing", "reading", "done"},
               x.kind = "exact", x.answer[p] = "closed"
        PROVE  x.ts \in replica[Leader(p)].closed
    <3>1. Asking /\ read.answer[p] = "closed" /\ x.ts = read.ts /\ read.kind = "exact"
      BY <2>2
    <3>2. QED BY <2>1, <3>1 DEF ReadInv, FirstLeaders
  <2>3. QED BY <2>1, <2>2 DEF ReadInv, FirstLeaders
<1>5. SawIsShown'
  <2>1. SUFFICES ASSUME \/ x.kind = "latest" /\ x.began = failovers
                        \/ x.kind = "exact" /\ failovers = 0,
                        x.phase \in {"closing", "reading", "done"},
                        NEW p \in Partition, x.saw[p] # "nothing"
        PROVE  x.saw[p] = Sees(replica[Leader(p)], x.ts)
    BY <1>l DEF SawIsShown, Asking, Sees
  <2>2. /\ Asking /\ read.saw[p] = x.saw[p] /\ x.ts = read.ts
        /\ x.kind = read.kind /\ x.began = read.began
    BY <2>1
  <2>3. QED BY <2>1, <2>2 DEF ReadInv, SawIsShown
<1>6. QED BY <1>1, <1>2, <1>3, <1>4, <1>5, Together DEF Core, ReadInv

\* The fields of the read.
LEMMA ReadFields ==
  ASSUME TypeOK
  PROVE  /\ read \in ReadType
         /\ read.phase \in {"idle", "closing", "reading", "done", "failed"}
         /\ read.kind \in {"latest", "exact"} /\ read.ts \in 0..MaxTs
         /\ read.led \in [Partition -> Replica] /\ read.began \in 0..MaxFailovers
         /\ read.answer \in [Partition -> {"none", "closed", "retry", "blocked"}]
         /\ read.retry \in 0..MaxTs
         /\ read.saw \in [Partition -> {"nothing", "old", "new"}]
<1>1. read \in ReadType
  BY DEF TypeOK, ReadType
<1>2. QED BY <1>1 DEF ReadType

\* A client asks.
LEMMA AskStep ==
  ASSUME ReadInv, NEW kind \in Kinds, NEW ts \in 0..MaxTs, Ask(kind, ts)
  PROVE  ReadInv'
<1>1. PICK x : x = [NoRead EXCEPT !.phase = "closing", !.kind = kind, !.ts = ts,
                                  !.led = leader, !.began = failovers]
  OBVIOUS
<1>2. read' = x /\ UNCHANGED <<log, leader, replica, txn, writes, failovers>>
  BY <1>1 DEF Ask
<1>3. /\ x.phase = "closing" /\ x.kind = kind /\ x.ts = ts /\ x.led = leader
      /\ x.began = failovers /\ x.retry = 0
      /\ \A p \in Partition : x.answer[p] = "none" /\ x.saw[p] = "nothing"
      /\ x.answer = [p \in Partition |-> "none"]
      /\ x.saw = [p \in Partition |-> "nothing"]
  BY <1>1 DEF NoRead
<1>4. x \in ReadType
  <2>1. kind \in {"latest", "exact"} /\ 0 \in 0..MaxTs /\ TypeOK
    BY ClusterReadAssumption DEF ReadInv
  <2>2. leader \in [Partition -> Replica] /\ failovers \in 0..MaxFailovers
    BY <2>1 DEF TypeOK
  <2>3. x = [phase |-> "closing", kind |-> kind, ts |-> ts, began |-> failovers,
             led |-> leader, answer |-> [p \in Partition |-> "none"],
             retry |-> 0, saw |-> [p \in Partition |-> "nothing"]]
    BY <1>1 DEF NoRead
  <2>4. QED BY <2>1, <2>2, <2>3 DEF ReadType
<1>5. ReadsClosed'
  <2>1. failovers \in Nat
    BY ClusterReadAssumption DEF ReadInv, TypeOK
  <2>2. QED BY <1>2, <1>3, <2>1 DEF ReadsClosed
<1>6. QED BY <1>2, <1>3, <1>4, <1>5, OnlyRead

\* The coordinator finds that it does not lead any more.
LEMMA HomeLostStep ==
  ASSUME ReadInv, HomeLost
  PROVE  ReadInv'
<1>1. PICK x : x = [read EXCEPT !.phase = "failed"]
  OBVIOUS
<1>2. /\ read' = x /\ UNCHANGED <<log, leader, replica, txn, writes, failovers>>
      /\ read.phase = "closing"
  BY <1>1 DEF HomeLost
<1>3. /\ x.phase = "failed" /\ x.began = read.began /\ x.led = read.led
      /\ x \in ReadType
  BY <1>1, ReadFields DEF ReadInv, ReadType
<1>4. ReadsClosed'
  BY <1>2, <1>3 DEF ReadInv, ReadsClosed
<1>5. QED BY <1>2, <1>3, <1>4, OnlyRead

\* The answers are weighed.
LEMMA ConcludeStep ==
  ASSUME ReadInv, Conclude
  PROVE  ReadInv'
<1>1. /\ read.phase = "closing" /\ "none" \notin Answers /\ Concluded
      /\ UNCHANGED <<log, leader, replica, txn, writes, failovers>>
  BY DEF Conclude
<1>t. TypeOK
  BY DEF ReadInv
<1>2. /\ read \in ReadType /\ 0 \in 0..MaxTs
      /\ NoRead.answer = [p \in Partition |-> "none"]
      /\ read.answer \in [Partition -> {"none", "closed", "retry", "blocked"}]
      /\ read.retry \in 0..MaxTs /\ read.kind \in {"latest", "exact"}
  BY <1>t, ReadFields, ClusterReadAssumption DEF NoRead
<1>3. /\ \A p \in Partition : read.saw[p] = "nothing"
      /\ read.began <= failovers /\ (read.began = failovers => read.led = leader)
  BY <1>1 DEF ReadInv, ReadsClosed
<1>4. CASE "retry" \in Answers
  <2>1. PICK ph : ph = IF read.kind = "latest" THEN "closing" ELSE "failed"
    OBVIOUS
  <2>2. PICK x : x = [read EXCEPT !.phase = ph, !.ts = read.retry, !.retry = 0,
                                  !.answer = NoRead.answer]
    OBVIOUS
  <2>3. read' = x
    BY <1>1, <1>4, <2>1, <2>2 DEF Concluded
  <2>4. /\ x.phase \in {"closing", "failed"} /\ x.began = read.began /\ x.led = read.led
        /\ x.saw = read.saw /\ \A p \in Partition : x.answer[p] = "none"
        /\ x \in ReadType
    BY <1>2, <2>1, <2>2 DEF ReadType
  <2>5. ReadsClosed'
    BY <1>1, <1>3, <2>3, <2>4 DEF ReadsClosed
  <2>6. QED BY <1>1, <1>3, <2>3, <2>4, <2>5, OnlyRead
<1>5. CASE "retry" \notin Answers /\ "blocked" \in Answers
  <2>2. PICK x : x = [read EXCEPT !.answer = NoRead.answer]
    OBVIOUS
  <2>3. read' = x
    BY <1>1, <1>5, <2>2 DEF Concluded
  <2>4. /\ x.phase = "closing" /\ x.began = read.began /\ x.led = read.led
        /\ x.saw = read.saw /\ \A p \in Partition : x.answer[p] = "none"
        /\ x \in ReadType
    BY <1>1, <1>2, <2>2 DEF ReadType
  <2>5. ReadsClosed'
    BY <1>1, <1>3, <2>3, <2>4 DEF ReadsClosed
  <2>6. QED BY <1>1, <1>3, <2>3, <2>4, <2>5, OnlyRead
<1>6. CASE "retry" \notin Answers /\ "blocked" \notin Answers
  <2>1. \A p \in Partition : read.answer[p] = "closed"
    BY <1>1, <1>2, <1>6 DEF Answers
  <2>2. PICK x : x = [read EXCEPT !.phase = "reading"]
    OBVIOUS
  <2>3. read' = x
    BY <1>1, <1>6, <2>2 DEF Concluded
  <2>4. /\ x.phase = "reading" /\ x.began = read.began /\ x.led = read.led
        /\ x.saw = read.saw /\ x.answer = read.answer /\ x.ts = read.ts
        /\ x.kind = read.kind /\ x \in ReadType
    BY <1>2, <2>2 DEF ReadType
  <2>5. ReadsClosed'
    BY <1>1, <1>3, <2>1, <2>3, <2>4 DEF ReadsClosed
  <2>6. QED BY <1>1, <1>3, <2>1, <2>3, <2>4, <2>5, OnlyRead DEF Asking
<1>7. QED BY <1>4, <1>5, <1>6

\* The query is answered.
LEMMA FinishStep ==
  ASSUME ReadInv, Finish
  PROVE  ReadInv'
<1>1. PICK x : x = [read EXCEPT !.phase = "done"]
  OBVIOUS
<1>2. /\ read' = x /\ UNCHANGED <<log, leader, replica, txn, writes, failovers>>
      /\ read.phase = "reading" /\ \A p \in Partition : read.saw[p] # "nothing"
  BY <1>1 DEF Finish
<1>3. /\ x.phase = "done" /\ x.began = read.began /\ x.led = read.led
      /\ x.saw = read.saw /\ x.answer = read.answer /\ x.ts = read.ts
      /\ x.kind = read.kind /\ x \in ReadType
  BY <1>1, ReadFields DEF ReadInv, ReadType
<1>4. ReadsClosed'
  BY <1>2, <1>3 DEF ReadInv, ReadsClosed
<1>5. QED BY <1>2, <1>3, <1>4, OnlyRead DEF ReadInv, ReadsClosed, Asking

\* A serving owner is asked to close the read's timestamp.
LEMMA OwnerCloses ==
  ASSUME ReadInv, NEW p \in Partition, NEW kind \in {"latest", "exact"},
         NEW r, r = replica[Leader(p)], NEW s,
         NEW out, out = Close(r, read.ts, kind), s = out[3],
         replica' = [replica EXCEPT ![Leader(p)] = s],
         UNCHANGED <<log, leader, txn, writes, failovers>>, read' \in ReadType
  PROVE  /\ Core' /\ TypeOK' /\ LeadersMove
         /\ CloseResult(r, read.ts, kind, out)
         /\ replica'[Leader(p)] = s
<1>1. /\ TypeOK /\ r \in ReplicaType /\ Grows(r) /\ Leader(p) \in Node
      /\ read.ts \in 0..MaxTs
  BY Typed, TimelinesAre DEF ReadInv
<1>2. CloseResult(r, read.ts, kind, out)
  BY <1>1, CloseFacts
<1>3. /\ s \in ReplicaType /\ Grows(s) /\ s.applied = r.applied /\ s.prep = r.prep
      /\ s.origin = r.origin /\ s.at = r.at /\ s.latest >= r.latest
      /\ r.closed \subseteq s.closed /\ (r.prep # 0 => s.latest = r.latest)
  BY <1>2 DEF CloseResult
<1>4. Core'
  BY <1>1, <1>3, TimelineStep
<1>5. /\ replica'[Leader(p)] = s
      /\ \A m \in Node : m # Leader(p) => replica'[m] = replica[m]
      /\ replica' \in [Node -> ReplicaType]
  BY <1>1, <1>3, OneReplica
<1>6. TypeOK'
  BY <1>1, <1>5 DEF TypeOK, ReplicaType, ReadType
<1>7. \A q \in Partition : LeaderMoves(q, replica[Leader(q)], replica'[Leader(q)])
  <2>1. SUFFICES ASSUME NEW q \in Partition
                 PROVE  LeaderMoves(q, replica[Leader(q)], replica'[Leader(q)])
    OBVIOUS
  <2>2. CASE Leader(q) # Leader(p)
    <3>1. replica'[Leader(q)] = replica[Leader(q)] /\ log'[q] = log[q]
      BY <1>1, <1>5, <2>2, Typed
    <3>2. QED BY <1>1, <3>1, LeaderStays
  <2>3. CASE Leader(q) = Leader(p)
    <3>1. PreparedIn(q)' <=> PreparedIn(q)
      BY DEF PreparedIn
    <3>2. LeaderMoves(q, r, s)
      BY <1>3, <3>1 DEF LeaderMoves
    <3>3. QED BY <1>5, <2>3, <3>2
  <2>4. QED BY <2>2, <2>3
<1>8. failovers = 0 => \A n \in Node : replica'[n].at # 0 => replica'[n].prep = 0
  BY <1>3, <1>5 DEF ReadInv, FirstLeaders
<1>9. LeadersMove
  BY <1>6, <1>7, <1>8 DEF LeadersMove
<1>10. QED BY <1>2, <1>4, <1>5, <1>6, <1>9

\* One owner closes the timestamp, or refuses it.
LEMMA CloseAtStep ==
  ASSUME ReadInv, NEW p \in Partition, CloseAt(p)
  PROVE  ReadInv'
<1>1. PICK r : r = replica[Leader(p)]
  OBVIOUS
<1>2. PICK out : out = Close(r, read.ts, read.kind)
  OBVIOUS
<1>3. PICK s : s = out[3]
  OBVIOUS
<1>4. PICK b : b = IF out[1] = "retry" THEN Max({read.retry, out[2]}) ELSE read.retry
  OBVIOUS
<1>5. PICK x : x = [read EXCEPT !.answer = [read.answer EXCEPT ![p] = out[1]], !.retry = b]
  OBVIOUS
<1>6. /\ read.phase = "closing" /\ read.answer[p] = "none" /\ Serves(Leader(p))
      /\ replica' = [replica EXCEPT ![Leader(p)] = s] /\ read' = x
      /\ UNCHANGED <<log, leader, txn, writes, failovers>>
  BY <1>1, <1>2, <1>3, <1>4, <1>5 DEF CloseAt
<1>7. /\ TypeOK /\ r \in ReplicaType /\ Grows(r) /\ Leader(p) \in Node
      /\ Leader(p)[1] = p /\ read.ts \in 0..MaxTs /\ MaxTs \in Nat /\ read.ts \in Nat
      /\ txn.ts \in Nat
  BY <1>1, Typed, TimelinesAre DEF ReadInv
<1>8. /\ read \in ReadType /\ read.kind \in {"latest", "exact"} /\ read.retry \in 0..MaxTs
      /\ read.answer \in [Partition -> {"none", "closed", "retry", "blocked"}]
  BY <1>7, ReadFields
<1>9. out[1] \in {"closed", "retry", "blocked"} /\ out[2] \in 0..MaxTs
  BY <1>2, <1>7, <1>8, CloseFacts DEF CloseResult
<1>10. b \in 0..MaxTs
  <2>1. read.retry \in Nat /\ out[2] \in Nat
    BY <1>7, <1>8, <1>9
  <2>2. Max({read.retry, out[2]}) \in {read.retry, out[2]}
    BY <2>1, MaxOfTwo
  <2>3. QED BY <1>4, <1>8, <1>9, <2>2
<1>11. /\ x \in ReadType /\ x.phase = "closing" /\ x.kind = read.kind /\ x.ts = read.ts
       /\ x.led = read.led /\ x.began = read.began /\ x.saw = read.saw
       /\ x.answer = [read.answer EXCEPT ![p] = out[1]]
  <2>1. [read.answer EXCEPT ![p] = out[1]]
          \in [Partition -> {"none", "closed", "retry", "blocked"}]
    BY <1>8, <1>9
  <2>2. QED BY <1>5, <1>6, <1>8, <1>10, <2>1 DEF ReadType
<1>12. /\ x.answer[p] = out[1]
       /\ \A q \in Partition : q # p => x.answer[q] = read.answer[q]
  BY <1>8, <1>11
<1>13. /\ Core' /\ TypeOK' /\ LeadersMove
       /\ CloseResult(r, read.ts, read.kind, out)
       /\ replica'[Leader(p)] = s
  <2>1. PICK k \in {"latest", "exact"} : k = read.kind
    BY <1>8
  <2>2. out = Close(r, read.ts, k) /\ read' \in ReadType
    BY <1>2, <1>6, <1>11, <2>1
  <2>3. QED BY <1>1, <1>3, <1>6, <2>1, <2>2, OwnerCloses
<1>14. Asking
  BY <1>6 DEF Asking
<1>l. \A q : Leader(q)' = Leader(q)
  BY <1>6 DEF Leader
<1>15. ReadsClosed'
  BY <1>6, <1>11 DEF ReadInv, ReadsClosed
<1>16. SteadyClosed'
  <2>1. SUFFICES ASSUME read.kind = "latest", read.began = failovers,
                        NEW q \in Partition, x.answer[q] = "closed"
        PROVE  /\ replica'[Leader(q)].applied = Len(log'[q])
               /\ \/ Sees(replica'[Leader(q)], read.ts) = "new"
                  \/ /\ replica'[Leader(q)].at = 0 =>
                          /\ replica'[Leader(q)].latest >= read.ts
                          /\ \/ replica'[Leader(q)].prep = 0
                             \/ replica'[Leader(q)].prep > read.ts
                     /\ PreparedIn(q)' /\ txn'.state # "aborted" => txn'.ts > read.ts
    BY <1>l, <1>6, <1>11 DEF SteadyClosed, Asking, Sees
  <2>2. CASE q # p
    BY <1>12, <1>13, <1>14, <2>1, <2>2, SteadyKept
  <2>3. CASE q = p
    <3>1. /\ r.prep = 0 /\ r.assigned <= read.ts /\ read.ts \in s.closed
          /\ s.applied = r.applied /\ s.prep = r.prep /\ s.at = r.at
          /\ s \in ReplicaType /\ Grows(s)
      BY <1>3, <1>12, <1>13, <2>1, <2>3 DEF CloseResult
    <3>2. s.latest >= read.ts
      <4>1. s.latest \in Nat
        BY <3>1, Fields
      <4>2. QED BY <1>7, <3>1, <4>1 DEF Grows
    <3>3. r.at <= read.ts
      <4>1. r.at \in Nat /\ r.latest \in Nat /\ r.assigned \in Nat
        BY <1>7, Fields
      <4>2. QED BY <1>7, <3>1, <4>1 DEF Grows
    <3>4. s.applied = Len(log'[p]) /\ r.applied = Len(log[p])
      BY <1>1, <1>6, <1>7, <3>1 DEF Serves
    <3>5. CASE r.at # 0
      <4>1. Sees(s, read.ts) = "new"
        BY <3>1, <3>3, <3>5 DEF Sees
      <4>2. QED BY <1>13, <2>3, <3>4, <4>1
    <3>6. CASE r.at = 0
      <4>1. PreparedIn(p)' => PreparedIn(p)
        BY <1>6 DEF PreparedIn
      <4>2. PreparedIn(p) => AppliedKind(Leader(p), "prepare")
        <5>1. DOMAIN log[p] = 1..Len(log[p])
          BY <1>7, Typed
        <5>2. QED BY <1>1, <1>7, <3>4, <5>1 DEF PreparedIn, AppliedKind
      <4>3. PreparedIn(p) => txn.state = "aborted"
        BY <1>1, <1>7, <3>1, <3>6, <4>2 DEF ReadInv, HoldsApplied
      <4>4. ~(PreparedIn(p)' /\ txn'.state # "aborted")
        BY <1>6, <4>1, <4>3
      <4>5. QED BY <1>13, <2>3, <3>1, <3>2, <3>4, <4>4
    <3>7. QED BY <3>5, <3>6
  <2>4. QED BY <2>2, <2>3
<1>17. FirstLeaders'
  <2>1. SUFFICES ASSUME failovers = 0
        PROVE  /\ \A q \in Partition :
                    /\ leader[q] = FirstLeader
                    /\ replica'[Leader(q)].applied = Len(log'[q])
                    /\ replica'[Leader(q)].prep \in {0, txn'.ts}
                    /\ replica'[Leader(q)].at \in {0, txn'.ts}
                    /\ replica'[Leader(q)].prep # 0 =>
                         replica'[Leader(q)].prep > replica'[Leader(q)].latest
                    /\ \A i \in 1..Len(log'[q]) :
                         log'[q][i].kind = "commit" => log'[q][i].ts = txn'.ts
                    /\ read.kind = "exact" /\ x.answer[q] = "closed" =>
                         read.ts \in replica'[Leader(q)].closed
               /\ \A n \in Node : replica'[n].at # 0 => replica'[n].prep = 0
    BY <1>l, <1>6, <1>11 DEF FirstLeaders, Asking
  <2>2. ASSUME NEW q \in Partition, read.kind = "exact", x.answer[q] = "closed"
        PROVE  read.ts \in replica'[Leader(q)].closed
    <3>1. CASE q # p
      BY <1>12, <1>13, <1>14, <2>1, <2>2, <3>1, FirstKept
    <3>2. CASE q = p
      BY <1>3, <1>12, <1>13, <2>2, <3>2 DEF CloseResult
    <3>3. QED BY <3>1, <3>2
  <2>3. \A n \in Node : replica'[n].at # 0 => replica'[n].prep = 0
    BY <1>13, <2>1 DEF LeadersMove
  <2>4. QED BY <1>13, <2>1, <2>2, <2>3, FirstKept
<1>18. SawIsShown'
  <2>1. \A q \in Partition : x.saw[q] = "nothing"
    BY <1>6, <1>11 DEF ReadInv, ReadsClosed
  <2>2. QED BY <1>6, <2>1 DEF SawIsShown
<1>19. QED BY <1>13, <1>15, <1>16, <1>17, <1>18, Together DEF Core, ReadInv

\* Nothing is closed or shown of a read that failed.
LEMMA ReadFailed ==
  ASSUME LeadersMove, Core', read.phase = "reading",
         read' = [read EXCEPT !.phase = "failed"]
  PROVE  ReadInv'
<1>1. /\ read'.phase = "failed" /\ read'.began = read.began /\ read'.led = read.led
  BY ReadFields DEF LeadersMove, ReadInv, ReadType
<1>2. ~Asking'
  BY <1>1 DEF Asking
<1>3. ReadsClosed'
  BY <1>1 DEF LeadersMove, ReadInv, ReadsClosed
<1>4. SteadyClosed' /\ SawIsShown'
  BY <1>2 DEF SteadyClosed, SawIsShown
<1>5. FirstLeaders'
  <2>1. \A q : Leader(q)' = Leader(q)
    BY DEF LeadersMove, Leader
  <2>2. QED BY <1>2, <2>1, FirstKept DEF LeadersMove, FirstLeaders
<1>6. QED BY <1>3, <1>4, <1>5 DEF LeadersMove, Core, ReadInv

\* The reader takes what the leader of p shows.
LEMMA ReadTaken ==
  ASSUME LeadersMove, Core', read.phase = "reading", NEW p \in Partition,
         read.saw[p] = "nothing", NEW v \in {"old", "new"},
         \/ read.kind = "latest" /\ read.began = failovers
         \/ read.kind = "exact" /\ failovers = 0
         => v = Sees(replica'[Leader(p)], read.ts),
         read' = [read EXCEPT !.saw = [read.saw EXCEPT ![p] = v]]
  PROVE  ReadInv'
<1>1. /\ read'.phase = "reading" /\ read'.began = read.began /\ read'.led = read.led
      /\ read'.ts = read.ts /\ read'.kind = read.kind /\ read'.answer = read.answer
      /\ read'.saw = [read.saw EXCEPT ![p] = v]
      /\ read'.saw[p] = v /\ \A q \in Partition : q # p => read'.saw[q] = read.saw[q]
  BY ReadFields DEF LeadersMove, ReadInv, ReadType
<1>2. Asking' /\ Asking
  BY <1>1 DEF Asking
<1>l. \A q : Leader(q)' = Leader(q)
  BY DEF LeadersMove, Leader
<1>3. ReadsClosed'
  BY <1>1 DEF LeadersMove, ReadInv, ReadsClosed
<1>4. SteadyClosed'
  BY <1>1, <1>2, <1>l, SteadyKept DEF LeadersMove, SteadyClosed, Sees
<1>5. FirstLeaders'
  BY <1>1, <1>2, <1>l, FirstKept DEF LeadersMove, FirstLeaders
<1>6. SawIsShown'
  <2>1. SUFFICES ASSUME \/ read.kind = "latest" /\ read.began = failovers
                        \/ read.kind = "exact" /\ failovers = 0,
                        NEW q \in Partition, read'.saw[q] # "nothing"
                 PROVE  read'.saw[q] = Sees(replica'[Leader(q)], read.ts)
    BY <1>1, <1>2, <1>l DEF LeadersMove, SawIsShown, Sees
  <2>2. CASE q = p
    BY <1>1, <2>1, <2>2
  <2>3. CASE q # p
    BY <1>1, <1>2, <2>1, <2>3, SawKept
  <2>4. QED BY <2>2, <2>3
<1>7. QED BY <1>3, <1>4, <1>5, <1>6 DEF LeadersMove, Core, ReadInv

\* The reader reads one partition.
LEMMA ReadFromStep ==
  ASSUME ReadInv, NEW p \in Partition, ReadFrom(p)
  PROVE  ReadInv'
<1>1. /\ TypeOK /\ read.phase = "reading" /\ read.saw[p] = "nothing"
      /\ UNCHANGED <<log, leader, txn, writes, failovers>>
  BY DEF ReadInv, ReadFrom
<1>2. /\ read \in ReadType /\ read.kind \in {"latest", "exact"}
      /\ read.saw \in [Partition -> {"nothing", "old", "new"}]
  BY <1>1, ReadFields
<1>3. \A y : Sees(y, read.ts) \in {"old", "new"}
  BY DEF Sees
<1>4. CASE p # Home
  <2>1. PICK r : r = replica[Leader(p)]
    OBVIOUS
  <2>2. PICK out : out = Close(r, read.ts, "exact")
    OBVIOUS
  <2>3. PICK s : s = out[3]
    OBVIOUS
  <2>4. /\ replica' = [replica EXCEPT ![Leader(p)] = s]
        /\ read' = IF out[1] = "closed"
                   THEN [read EXCEPT !.saw = [read.saw EXCEPT ![p] = Sees(s, read.ts)]]
                   ELSE [read EXCEPT !.phase = "failed"]
    BY <1>4, <2>1, <2>2, <2>3 DEF ReadFrom
  <2>5. PICK v \in {"old", "new"} : v = Sees(s, read.ts)
    BY <1>3
  <2>6. read' \in ReadType
    <3>1. [read.saw EXCEPT ![p] = v] \in [Partition -> {"nothing", "old", "new"}]
      BY <1>2
    <3>2. [read EXCEPT !.saw = [read.saw EXCEPT ![p] = v]] \in ReadType
      BY <1>2, <3>1 DEF ReadType
    <3>3. [read EXCEPT !.phase = "failed"] \in ReadType
      BY <1>2 DEF ReadType
    <3>4. QED BY <2>4, <2>5, <3>2, <3>3
  <2>7. Core' /\ LeadersMove /\ replica'[Leader(p)] = s
    BY <1>1, <2>1, <2>2, <2>3, <2>4, <2>6, OwnerCloses
  <2>8. CASE out[1] = "closed"
    <3>1. read' = [read EXCEPT !.saw = [read.saw EXCEPT ![p] = v]]
      BY <2>4, <2>5, <2>8
    <3>2. v = Sees(replica'[Leader(p)], read.ts)
      BY <2>5, <2>7
    <3>3. QED BY <1>1, <2>7, <3>1, <3>2, ReadTaken
  <2>9. CASE out[1] # "closed"
    <3>1. read' = [read EXCEPT !.phase = "failed"]
      BY <2>4, <2>9
    <3>2. QED BY <1>1, <2>7, <3>1, ReadFailed
  <2>10. QED BY <2>8, <2>9
<1>5. CASE p = Home
  <2>1. PICK n : n = <<p, read.led[p]>>
    OBVIOUS
  <2>2. /\ replica' = [replica EXCEPT ![n] = replica[n]]
        /\ read' = [read EXCEPT !.saw = [read.saw EXCEPT ![p] = Sees(replica[n], read.ts)]]
    BY <1>5, <2>1 DEF ReadFrom
  <2>3. replica' = replica
    BY <1>1, <2>2 DEF TypeOK
  <2>4. PICK v \in {"old", "new"} : v = Sees(replica[n], read.ts)
    BY <1>3
  <2>5. read' = [read EXCEPT !.saw = [read.saw EXCEPT ![p] = v]]
    BY <2>2, <2>4
  <2>6. read' \in ReadType
    <3>1. [read.saw EXCEPT ![p] = v] \in [Partition -> {"nothing", "old", "new"}]
      BY <1>2
    <3>2. QED BY <1>2, <2>5, <3>1 DEF ReadType
  <2>7. TypeOK'
    BY <1>1, <2>3, <2>6 DEF TypeOK, ReadType
  <2>8. LeadersMove
    <3>1. \A q \in Partition : LeaderMoves(q, replica[Leader(q)], replica'[Leader(q)])
      BY <1>1, <2>3, LeaderStays
    <3>2. failovers = 0 => \A m \in Node : replica'[m].at # 0 => replica'[m].prep = 0
      BY <2>3 DEF ReadInv, FirstLeaders
    <3>3. QED BY <1>1, <2>7, <3>1, <3>2 DEF LeadersMove
  <2>9. \/ read.kind = "latest" /\ read.began = failovers
        \/ read.kind = "exact" /\ failovers = 0
        => v = Sees(replica'[Leader(p)], read.ts)
    <3>1. SUFFICES ASSUME read.began = failovers \/ failovers = 0
                   PROVE  v = Sees(replica'[Leader(p)], read.ts)
      OBVIOUS
    <3>2. read.began \in Nat /\ read.began <= failovers
          /\ (read.began = failovers => read.led = leader)
      <4>1. read.began \in Nat
        BY <1>1, ReadFields, ClusterReadAssumption
      <4>2. QED BY <1>1, <4>1 DEF ReadInv, ReadsClosed
    <3>3. read.led = leader
      BY <3>1, <3>2
    <3>4. n = Leader(p)
      BY <2>1, <3>3 DEF Leader
    <3>5. QED BY <2>3, <2>4, <3>4
  <2>10. Core'
    BY <1>1, <2>3, CoreStays
  <2>11. QED BY <1>1, <2>5, <2>8, <2>9, <2>10, ReadTaken
<1>6. QED BY <1>4, <1>5

----------------------------------------------------------------------------
(* The theorems. *)

LEMMA InitReadInv == Init => ReadInv
<1> SUFFICES ASSUME Init PROVE ReadInv
  OBVIOUS
<1>1. /\ MaxTs \in Nat /\ 0 \in 0..MaxTs /\ 0 \in 0..MaxWrites /\ 0 \in 0..MaxFailovers
      /\ FirstLeader \in Replica
  BY ClusterReadAssumption
<1>2. /\ \A n \in Node : replica[n] = Fresh /\ n[1] \in Partition
      /\ \A p \in Partition : log[p] = <<>> /\ Leader(p) \in Node
                              /\ leader[p] = FirstLeader /\ Len(log[p]) = 0
      /\ txn.ts = 0 /\ txn.state = "none" /\ read = NoRead
      /\ writes = 0 /\ failovers = 0
  BY <1>1 DEF Init, Leader, Node
<1>3. /\ Fresh.applied = 0 /\ Fresh.latest = 0 /\ Fresh.assigned = 0 /\ Fresh.closed = {}
      /\ Fresh.prep = 0 /\ Fresh.at = 0 /\ Fresh.origin = 0 /\ Fresh.floor = 0
      /\ Fresh \in ReplicaType
  BY <1>1 DEF Fresh, ReplicaType
<1>4. /\ NoRead \in ReadType /\ read.phase = "idle" /\ ~Asking
      /\ \A p \in Partition : read.saw[p] = "nothing"
  BY <1>1, <1>2 DEF NoRead, ReadType, Asking
<1>5. TypeOK
  <2>1. log \in [Partition -> Seq([kind : {"data", "prepare", "commit", "rollback"},
                                   ts : 0..MaxTs])]
    BY DEF Init
  <2>2. leader \in [Partition -> Replica]
    BY <1>1 DEF Init
  <2>3. replica \in [Node -> ReplicaType]
    BY <1>3 DEF Init
  <2>4. txn \in [ts : 0..MaxTs, state : {"none", "preparing", "committed", "aborted"}]
    BY <1>1 DEF Init
  <2>5. QED BY <1>1, <1>2, <1>4, <2>1, <2>2, <2>3, <2>4 DEF TypeOK, ReplicaType, ReadType
<1>6. AppliedPrefix /\ TimelinesGrow
  BY <1>2, <1>3 DEF AppliedPrefix, TimelinesGrow
<1>7. FollowsTxn /\ HoldsApplied
  BY <1>2, <1>3 DEF FollowsTxn, HoldsApplied, AppliedKind
<1>8. ReadsClosed /\ SteadyClosed /\ SawIsShown
  BY <1>4 DEF ReadsClosed, SteadyClosed, SawIsShown
<1>9. FirstLeaders
  BY <1>2, <1>3, <1>4 DEF FirstLeaders
<1>10. QED BY <1>5, <1>6, <1>7, <1>8, <1>9 DEF ReadInv

LEMMA NextReadInv == ReadInv /\ [Next]_vars => ReadInv'
<1> SUFFICES ASSUME ReadInv, [Next]_vars PROVE ReadInv'
  OBVIOUS
<1>1. ASSUME NEW p \in Partition, NEW ts \in Ts, Commit(p, ts) PROVE ReadInv'
  BY <1>1, CommitStep
<1>2. ASSUME NEW ts \in Ts, Begin(ts) PROVE ReadInv'
  BY <1>2, BeginStep
<1>3. ASSUME NEW p \in Partition, Prepare(p) PROVE ReadInv'
  BY <1>3, PrepareStep
<1>4. CASE Decide
  BY <1>4, DecideStep
<1>5. ASSUME NEW p \in Partition, CommitPrepared(p) PROVE ReadInv'
  BY <1>5, CommitPreparedStep
<1>6. ASSUME NEW p \in Partition, RollbackPrepared(p) PROVE ReadInv'
  BY <1>6, RollbackPreparedStep
<1>7. ASSUME NEW n \in Node, NEW ts \in Ts, Advance(n, ts) PROVE ReadInv'
  BY <1>7, AdvanceStep
<1>8. ASSUME NEW n \in Node, Apply(n) PROVE ReadInv'
  BY <1>8, ApplyStep
<1>9. ASSUME NEW p \in Partition, NEW l \in Replica, Failover(p, l) PROVE ReadInv'
  BY <1>9, FailoverStep
<1>10. ASSUME NEW kind \in Kinds, NEW ts \in 0..MaxTs, Ask(kind, ts) PROVE ReadInv'
  BY <1>10, AskStep
<1>11. ASSUME NEW p \in Partition, CloseAt(p) PROVE ReadInv'
  BY <1>11, CloseAtStep
<1>12. CASE HomeLost
  BY <1>12, HomeLostStep
<1>13. CASE Conclude
  BY <1>13, ConcludeStep
<1>14. ASSUME NEW p \in Partition, ReadFrom(p) PROVE ReadInv'
  BY <1>14, ReadFromStep
<1>15. CASE Finish
  BY <1>15, FinishStep
<1>16. CASE UNCHANGED vars
  <2>1. /\ UNCHANGED <<log, leader, replica, txn, writes, failovers>>
        /\ read' = read /\ read \in ReadType
    BY <1>16, ReadFields DEF vars, ReadInv
  <2>2. ReadsClosed'
    BY <2>1 DEF ReadInv, ReadsClosed
  <2>3. QED BY <2>1, <2>2, OnlyRead DEF Asking
<1>17. QED BY <1>1, <1>2, <1>3, <1>4, <1>5, <1>6, <1>7, <1>8, <1>9, <1>10, <1>11,
              <1>12, <1>13, <1>14, <1>15, <1>16 DEF Next

\* The inductive invariant of the cluster read, and with it its types, holds in
\* every behaviour, whichever leaders change.
THEOREM ReadInvariantHolds == Spec => []ReadInv
<1>1. QED BY InitReadInv, NextReadInv, PTL DEF Spec

\* What a partition shows of the transaction decides what every other shows.
LEMMA ShownEverywhere ==
  ASSUME ReadInv, read.phase = "done",
         \/ read.kind = "latest" /\ read.began = failovers
         \/ read.kind = "exact" /\ failovers = 0,
         NEW p \in Partition, NEW q \in Partition, read.saw[p] = "new"
  PROVE  read.saw[q] = "new"
<1>1. PICK r : r = replica[Leader(p)]
  OBVIOUS
<1>2. PICK s : s = replica[Leader(q)]
  OBVIOUS
<1>3. /\ TypeOK /\ Leader(p) \in Node /\ Leader(q) \in Node
      /\ r \in ReplicaType /\ s \in ReplicaType
      /\ read.ts \in Nat /\ txn.ts \in Nat
  BY <1>1, <1>2, Typed DEF ReadInv
<1>4. /\ r.at \in Nat /\ r.latest \in Nat /\ r.prep \in Nat
      /\ s.at \in Nat /\ s.latest \in Nat /\ s.prep \in Nat
      /\ \A c \in s.closed : c \in Nat
  BY <1>3, Fields
<1>5. Asking /\ read.saw[q] # "nothing" /\ read.answer[q] = "closed"
  BY DEF ReadInv, ReadsClosed, Asking
<1>6. read.saw[p] = Sees(r, read.ts) /\ read.saw[q] = Sees(s, read.ts)
  BY <1>1, <1>2, <1>5 DEF ReadInv, SawIsShown
<1>7. r.at # 0 /\ r.at <= read.ts
  BY <1>6 DEF Sees
<1>8. txn.state = "committed" /\ r.at >= txn.ts /\ PreparedIn(q)
  BY <1>1, <1>3, <1>7 DEF ReadInv, FollowsTxn
<1>9. CASE read.kind = "latest" /\ read.began = failovers
  <2>1. \/ Sees(s, read.ts) = "new"
        \/ PreparedIn(q) /\ txn.state # "aborted" => txn.ts > read.ts
    BY <1>2, <1>5, <1>9 DEF ReadInv, SteadyClosed
  <2>2. ~(txn.ts > read.ts)
    BY <1>3, <1>4, <1>7, <1>8
  <2>3. QED BY <1>6, <1>8, <2>1, <2>2
<1>10. CASE read.kind = "exact" /\ failovers = 0
  <2>1. /\ s.prep \in {0, txn.ts} /\ s.at \in {0, txn.ts}
        /\ s.prep # 0 => s.prep > s.latest
        /\ read.ts \in s.closed /\ s.applied = Len(log[q])
    BY <1>2, <1>5, <1>10 DEF ReadInv, FirstLeaders
  <2>2. read.ts <= s.latest
    BY <1>2, <1>3, <2>1 DEF ReadInv, TimelinesGrow
  <2>3. s.prep # 0 \/ s.at # 0
    <3>1. DOMAIN log[q] = 1..Len(log[q]) /\ Leader(q)[1] = q
      BY <1>3, Typed
    <3>2. AppliedKind(Leader(q), "prepare")
      BY <1>2, <1>8, <2>1, <3>1 DEF PreparedIn, AppliedKind
    <3>3. QED BY <1>2, <1>3, <1>8, <3>2 DEF ReadInv, HoldsApplied
  <2>4. s.at # 0
    <3>1. SUFFICES ASSUME s.at = 0 PROVE FALSE
      OBVIOUS
    <3>2. s.prep = txn.ts /\ s.prep > s.latest
      BY <2>1, <2>3, <3>1
    <3>3. QED BY <1>3, <1>4, <1>7, <1>8, <2>2, <3>2
  <2>5. s.at <= read.ts
    BY <1>3, <1>4, <1>7, <1>8, <2>1, <2>4
  <2>6. QED BY <1>6, <2>4, <2>5 DEF Sees
<1>11. QED BY <1>9, <1>10

\* A read of which every partition shows the same is whole.
LEMMA ReadWhole ==
  ASSUME ReadInv, read.phase = "done",
         \/ read.kind = "latest" /\ read.began = failovers
         \/ read.kind = "exact" /\ failovers = 0
  PROVE  Whole(read)
<1>1. SUFFICES ASSUME NEW p \in Partition, NEW q \in Partition
               PROVE  read.saw[p] = read.saw[q]
  BY DEF Whole
<1>2. \A x \in Partition : read.saw[x] \in {"old", "new"}
  <2>1. \A x \in Partition : read.saw[x] \in {"nothing", "old", "new"}
    BY ReadFields DEF ReadInv
  <2>2. QED BY <2>1 DEF ReadInv, ReadsClosed
<1>3. QED BY <1>2, ShownEverywhere

\* A latest read during which no partition changes its leader sees the whole
\* transaction or nothing of it (cluster_safe_read_ts,
\* close_read_timestamp), for any number of partitions, replicas, writes and
\* earlier leader changes.
THEOREM SteadyReadIsWholeHolds == Spec => []SteadyReadIsWhole
<1>1. ReadInv => SteadyReadIsWhole
  BY ReadWhole DEF SteadyReadIsWhole
<1>2. QED BY <1>1, ReadInvariantHolds, PTL

\* A read at a timestamp of the client's sees the whole transaction or nothing
\* of it while the first leaders stay (cluster_read_ts_at,
\* read_index_ranges).
THEOREM ExactReadIsWholeHolds == Spec => []ExactReadIsWhole
<1>1. ReadInv => ExactReadIsWhole
  BY ReadWhole DEF ExactReadIsWhole
<1>2. QED BY <1>1, ReadInvariantHolds, PTL

\* While the first leaders stay, no replica that shows the transaction holds an
\* intent of it, whatever timestamp it applied the commit at
\* (remove_prepared_transaction_at_origin_ts).
THEOREM IntentIsResolvedHolds == Spec => []IntentIsResolved
<1>1. ReadInv => IntentIsResolved
  BY DEF ReadInv, FirstLeaders, IntentIsResolved
<1>2. QED BY <1>1, ReadInvariantHolds, PTL
=============================================================================
