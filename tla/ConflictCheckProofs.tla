------------------------ MODULE ConflictCheckProofs -------------------------
(***************************************************************************)
(* Proofs about ConflictCheck, for any transactions, keys and timestamps.  *)
(* The check of a commit sees every write between the snapshot it read and *)
(* its own timestamp: the write is in the log, on its way to persistence   *)
(* or an intent, or it was trimmed and the transaction is refused. What is *)
(* admitted later gets a higher timestamp, unless a prepare overtakes.     *)
(***************************************************************************)
EXTENDS ConflictCheck, WellFoundedInduction, TLAPS

----------------------------------------------------------------------------
(* The invariant. *)

TxnRecord ==
  [kind : Kinds, state : States, reads : SUBSET Key, writes : SUBSET Key,
   begin : 0..MaxTs, ts : 0..MaxTs]

\* The states in which a transaction has a timestamp.
Live == {"pending", "prepared", "validated", "committed"}

Stamped ==
  \A t \in Txn : /\ txn[t].state \in Live <=> txn[t].ts # 0
                 /\ txn[t].ts <= assigned
                 /\ txn[t].begin <= latest

Distinct ==
  \A t, u \in Txn : txn[t].ts = txn[u].ts /\ txn[t].ts # 0 => t = u

KindFits ==
  \A t \in Txn :
    /\ txn[t].kind = "validate" => txn[t].writes = {}
    /\ txn[t].state = "pending" => txn[t].kind = "local"
    /\ txn[t].state = "prepared" => txn[t].kind = "prepare"
    /\ txn[t].state = "validated" => txn[t].kind = "validate"

\* Local commits and intents are never queued together, and what is queued is
\* ahead of what is published.
QueueIsAhead ==
  /\ \A t, u \in Txn : ~(txn[t].state = "pending" /\ txn[u].state = "prepared")
  /\ \A t \in Txn : txn[t].state \in {"pending", "prepared"} => txn[t].ts > latest

\* A published write is in the log until it is trimmed.
Logged ==
  /\ purged <= latest
  /\ \A t \in log : txn[t].ts > purged /\ txn[t].ts <= latest
  /\ \A t \in Txn : txn[t].state = "committed" /\ txn[t].kind # "validate" =>
       txn[t].ts <= latest /\ (t \in log \/ txn[t].ts <= purged)

\* Nobody wrote what t read between its snapshot and its timestamp, what is
\* not decided yet included.
Seen(t) ==
  \A u \in Txn \ {t} :
    /\ txn[u].state \in Live
    /\ txn[u].ts > txn[t].begin /\ txn[u].ts <= txn[t].ts
    => txn[u].writes \cap txn[t].reads = {}

LocalSeen ==
  \A t \in Txn : txn[t].state \in {"pending", "committed"} /\ txn[t].kind = "local"
    => Seen(t)

AllSeen ==
  ~overtaken => \A t \in Txn : txn[t].state \in Live => Seen(t)

ConflictInv ==
  /\ TypeOK /\ Stamped /\ Distinct /\ KindFits
  /\ QueueIsAhead /\ Logged
  /\ LocalSeen /\ AllSeen

----------------------------------------------------------------------------
(* Minimum and maximum. *)

LEMMA MinOfNaturals ==
  ASSUME NEW S \in SUBSET Nat, S # {}
  PROVE  Min(S) \in S /\ \A y \in S : Min(S) <= y
  <1>1. PICK x \in S : \A y \in S : ~ (<<y, x>> \in OpToRel(<, Nat))
    BY WFMin, NatLessThanWellFounded
  <1>2. \A y \in S : x <= y
    <2> TAKE y \in S
    <2>1. ~ (y < x)
      BY <1>1 DEF OpToRel
    <2> QED
      BY <2>1
  <1> QED
    BY <1>2 DEF Min

LEMMA MaxOfBounded ==
  ASSUME NEW b \in Nat, NEW S \in SUBSET (0..b), S # {}
  PROVE  Max(S) \in S /\ \A y \in S : Max(S) >= y
  <1> DEFINE R == {b - y : y \in S}
  <1>1. R \in SUBSET Nat /\ R # {}
    <2>1. \A y \in S : b - y \in Nat
      OBVIOUS
    <2> QED
      BY <2>1
  <1>2. PICK x \in S : Min(R) = b - x
    BY <1>1, MinOfNaturals
  <1>3. \A y \in S : b - x <= b - y
    BY <1>1, <1>2, MinOfNaturals
  <1>4. \A y \in S : x >= y
    BY <1>3
  <1> QED
    BY <1>4 DEF Max

----------------------------------------------------------------------------
(* Facts about the state. *)

LEMMA Types ==
  ASSUME TypeOK
  PROVE  /\ txn \in [Txn -> TxnRecord]
         /\ latest \in Nat /\ assigned \in Nat /\ barrier \in Nat /\ purged \in Nat
         /\ \A t \in Txn : /\ txn[t].begin \in Nat /\ txn[t].ts \in Nat
                           /\ txn[t].ts \in 0..MaxTs
                           /\ txn[t].state \in States
         /\ log \subseteq Txn /\ \A t \in log : txn[t].state = "committed"
  <1>1. /\ txn \in [Txn -> TxnRecord]
        /\ latest \in Nat /\ assigned \in Nat /\ barrier \in Nat /\ purged \in Nat
    BY ConflictCheckAssumption DEF TypeOK, TxnRecord
  <1>2. \A r \in TxnRecord : r.begin \in Nat /\ r.ts \in Nat /\ r.ts \in 0..MaxTs
                             /\ r.state \in States
    BY ConflictCheckAssumption DEF TxnRecord
  <1>3. log \subseteq Txn /\ \A t \in log : txn[t].state = "committed"
    BY DEF TypeOK, In
  <1> QED
    BY <1>1, <1>2, <1>3

\* What Becomes leaves of the transactions.
LEMMA AfterBecomes ==
  ASSUME TypeOK, NEW t \in Txn, NEW state \in States, NEW ts \in 0..MaxTs,
         Becomes(t, state, ts)
  PROVE  /\ txn' \in [Txn -> TxnRecord]
         /\ txn'[t].state = state /\ txn'[t].ts = ts
         /\ txn'[t].kind = txn[t].kind /\ txn'[t].begin = txn[t].begin
         /\ txn'[t].reads = txn[t].reads /\ txn'[t].writes = txn[t].writes
         /\ \A u \in Txn \ {t} : txn'[u] = txn[u]
  <1> DEFINE r == [txn[t] EXCEPT !.state = state, !.ts = ts]
  <1>1. txn \in [Txn -> TxnRecord] /\ txn[t] \in TxnRecord
    BY Types
  <1>2. /\ r \in TxnRecord /\ r.state = state /\ r.ts = ts
        /\ r.kind = txn[t].kind /\ r.begin = txn[t].begin
        /\ r.reads = txn[t].reads /\ r.writes = txn[t].writes
    BY <1>1 DEF TxnRecord
  <1>3. txn' = [txn EXCEPT ![t] = r]
    BY DEF Becomes
  <1> HIDE DEF r
  <1> QED
    BY <1>1, <1>2, <1>3

\* commit_has_conflict passes over no write that matters.
LEMMA NothingIsMissed ==
  ASSUME ConflictInv, NEW t \in Txn, NEW ts \in Ts, ~HasConflict(t, ts),
         NEW u \in Txn \ {t}, txn[u].state \in Live,
         txn[u].ts > txn[t].begin, txn[u].ts <= ts
  PROVE  txn[u].writes \cap txn[t].reads = {}
  <1>0. /\ txn[t].begin \in Nat /\ txn[u].ts \in Nat /\ purged \in Nat /\ ts \in Nat
        /\ latest \in Nat
    BY Types, ConflictCheckAssumption DEF ConflictInv, Ts
  <1>1. txn[u].ts \in (txn[t].begin + 1)..ts
    BY <1>0
  <1>2. CASE txn[u].state = "pending"
    <2>1. u \in {v \in In("pending") : txn[v].ts <= ts} \ {t}
      BY <1>2 DEF In
    <2> QED
      BY <2>1 DEF HasConflict, PendingIsStale, Overlaps
  <1>3. CASE txn[u].state = "prepared"
    <2>1. u \in {v \in In("prepared") : txn[v].ts \in (txn[t].begin + 1)..ts} \ {t}
      BY <1>1, <1>3 DEF In
    <2> QED
      BY <2>1 DEF HasConflict, PreparedIsStale, Overlaps
  <1>4. CASE txn[u].kind = "validate"
    BY <1>4 DEF ConflictInv, KindFits
  <1>5. CASE txn[u].state = "committed" /\ txn[u].kind # "validate"
    <2>1. ~(txn[t].begin + 1 <= purged)
      BY DEF HasConflict, OutOfRetention
    <2>2. u \in log
      BY <1>0, <1>5, <2>1 DEF ConflictInv, Logged
    <2>3. u \in {v \in log : txn[v].ts \in (txn[t].begin + 1)..ts} \ {t}
      BY <1>1, <2>2
    <2> QED
      BY <2>3 DEF HasConflict, LogIsStale, Overlaps
  <1> QED
    BY <1>2, <1>3, <1>4, <1>5 DEF Live, ConflictInv, KindFits

----------------------------------------------------------------------------
(* Every step keeps the invariant. *)

\* A transaction passes the check and gets its timestamp.
LEMMA AdmitStep ==
  ASSUME ConflictInv, NEW t \in Txn, NEW ts \in Ts,
         NEW state \in {"pending", "prepared", "validated"},
         txn[t].state = "running", Becomes(t, state, ts),
         ~HasConflict(t, ts), Unused(ts), ts > latest,
         assigned' \in 0..MaxTs, assigned <= assigned', ts <= assigned',
         UNCHANGED <<latest, barrier, log, purged>>, overtaken' \in BOOLEAN,
         state = "pending" => /\ txn[t].kind = "local"
                              /\ In("prepared") = {} /\ ts > assigned
                              /\ overtaken' = overtaken,
         state = "prepared" => /\ txn[t].kind = "prepare" /\ In("pending") = {}
                               /\ ~overtaken' => ~overtaken /\ ~Overtakes(ts),
         state = "validated" => /\ txn[t].kind = "validate"
                                /\ overtaken' = overtaken
  PROVE  ConflictInv'
  <1>0. /\ latest \in Nat /\ assigned \in Nat /\ purged \in Nat /\ assigned' \in Nat
        /\ ts \in Nat \ {0} /\ ts \in 0..MaxTs /\ state \in States /\ state \in Live
        /\ \A u \in Txn : txn[u].begin \in Nat /\ txn[u].ts \in Nat
        /\ TypeOK /\ Stamped /\ Distinct /\ KindFits /\ QueueIsAhead /\ Logged
        /\ LocalSeen /\ AllSeen
    BY Types, ConflictCheckAssumption DEF ConflictInv, Ts, States, Live
  <1>1. /\ txn' \in [Txn -> TxnRecord]
        /\ txn'[t].state = state /\ txn'[t].ts = ts
        /\ txn'[t].kind = txn[t].kind /\ txn'[t].begin = txn[t].begin
        /\ txn'[t].reads = txn[t].reads /\ txn'[t].writes = txn[t].writes
        /\ \A u \in Txn \ {t} : txn'[u] = txn[u]
    BY <1>0, AfterBecomes
  <1>2. \A u \in Txn : txn[u].ts # ts
    BY DEF Unused, TsOf
  <1>3. t \notin log /\ log \subseteq Txn
    BY <1>0, Types
  <1>4. TypeOK'
    <2>1. log' \subseteq In("committed")'
      BY <1>0, <1>1, <1>3, Types DEF In
    <2> QED
      BY <1>0, <1>1, <2>1 DEF TypeOK, TxnRecord
  <1>5. Stamped'
    BY <1>0, <1>1 DEF Stamped
  <1>6. Distinct'
    BY <1>0, <1>1, <1>2 DEF Distinct
  <1>7. KindFits'
    BY <1>0, <1>1 DEF KindFits
  <1>8. QueueIsAhead'
    BY <1>0, <1>1 DEF QueueIsAhead, In
  <1>9. Logged'
    BY <1>0, <1>1, <1>3 DEF Logged
  <1>10. Seen(t)'
    BY <1>0, <1>1, NothingIsMissed DEF Seen
  <1>11. ASSUME NEW v \in Txn \ {t}, Seen(v),
                ts <= txn[v].ts => txn[t].writes = {}
         PROVE  Seen(v)'
    BY <1>0, <1>1, <1>11 DEF Seen
  <1>12. state = "validated" => txn[t].writes = {}
    BY <1>0 DEF KindFits
  <1>13. state = "pending" => \A v \in Txn : ~(ts <= txn[v].ts)
    BY <1>0 DEF Stamped
  <1>14. LocalSeen'
    <2>1. ASSUME NEW v \in Txn \ {t}, txn[v].state \in {"pending", "committed"},
                 txn[v].kind = "local"
          PROVE  Seen(v)'
      <3>1. Seen(v)
        BY <1>0, <2>1 DEF LocalSeen
      <3>2. ASSUME state = "prepared" PROVE ~(ts <= txn[v].ts)
        <4>1. txn[v].state = "committed"
          BY <2>1, <3>2 DEF In
        <4>2. txn[v].ts <= latest
          BY <1>0, <2>1, <4>1 DEF Logged
        <4> QED
          BY <1>0, <4>2
      <3> QED
        BY <1>11, <1>12, <1>13, <3>1, <3>2
    <2> QED
      BY <1>1, <1>10, <2>1 DEF LocalSeen
  <1>15. AllSeen'
    <2>1. ASSUME ~overtaken', NEW v \in Txn \ {t}, txn[v].state \in Live
          PROVE  Seen(v)'
      <3>1. ~overtaken /\ Seen(v)
        BY <1>0, <2>1 DEF AllSeen
      <3>2. ASSUME state = "prepared" PROVE ~(ts <= txn[v].ts)
        <4>1. ~(ts < txn[v].ts)
          BY <2>1, <3>2 DEF Overtakes
        <4> QED
          BY <1>0, <1>2, <4>1
      <3> QED
        BY <1>11, <1>12, <1>13, <3>1, <3>2
    <2> QED
      BY <1>1, <1>10, <2>1 DEF AllSeen
  <1> QED
    BY <1>4, <1>5, <1>6, <1>7, <1>8, <1>9, <1>14, <1>15 DEF ConflictInv

\* A step that gives no transaction a timestamp loses nothing that was seen.
LEMMA SeenIsKept ==
  ASSUME ConflictInv, overtaken' = overtaken,
         \A u \in Txn : txn'[u].state \in Live =>
           /\ txn[u].state \in Live
           /\ txn'[u].ts = txn[u].ts /\ txn'[u].begin = txn[u].begin
           /\ txn'[u].reads = txn[u].reads /\ txn'[u].writes = txn[u].writes
           /\ txn'[u].kind = txn[u].kind,
         \A u \in Txn : txn'[u].state \in {"pending", "committed"}
                           /\ txn'[u].kind = "local" =>
           txn[u].state \in {"pending", "committed"}
  PROVE  LocalSeen' /\ AllSeen'
  <1>1. ASSUME NEW t \in Txn, Seen(t), txn'[t].state \in Live PROVE Seen(t)'
    BY <1>1 DEF Seen
  <1> QED
    BY <1>1 DEF ConflictInv, LocalSeen, AllSeen, Live

\* A transaction is refused, rejected or rolled back.
LEMMA RetireStep ==
  ASSUME ConflictInv, NEW t \in Txn, Becomes(t, "aborted", 0),
         txn[t].state # "committed",
         assigned' \in 0..MaxTs, assigned <= assigned',
         UNCHANGED <<latest, barrier, log, purged, overtaken>>
  PROVE  ConflictInv'
  <1>0. /\ latest \in Nat /\ assigned \in Nat /\ purged \in Nat /\ assigned' \in Nat
        /\ 0 \in 0..MaxTs /\ "aborted" \in States /\ "aborted" \notin Live
        /\ \A u \in Txn : txn[u].begin \in Nat /\ txn[u].ts \in Nat
        /\ TypeOK /\ Stamped /\ Distinct /\ KindFits /\ QueueIsAhead /\ Logged
    BY Types, ConflictCheckAssumption DEF ConflictInv, States, Live
  <1>1. /\ txn' \in [Txn -> TxnRecord]
        /\ txn'[t].state = "aborted" /\ txn'[t].ts = 0
        /\ txn'[t].kind = txn[t].kind /\ txn'[t].begin = txn[t].begin
        /\ txn'[t].reads = txn[t].reads /\ txn'[t].writes = txn[t].writes
        /\ \A u \in Txn \ {t} : txn'[u] = txn[u]
    BY <1>0, AfterBecomes
  <1>2. t \notin log /\ log \subseteq Txn
    BY <1>0, Types
  <1>3. TypeOK'
    <2>1. log' \subseteq In("committed")'
      BY <1>0, <1>1, <1>2, Types DEF In
    <2> QED
      BY <1>0, <1>1, <2>1 DEF TypeOK, TxnRecord
  <1>4. Stamped' /\ Distinct' /\ KindFits'
    BY <1>0, <1>1 DEF Stamped, Distinct, KindFits
  <1>5. QueueIsAhead' /\ Logged'
    BY <1>0, <1>1, <1>2 DEF QueueIsAhead, Logged
  <1>6. LocalSeen' /\ AllSeen'
    BY <1>0, <1>1, SeenIsKept
  <1> QED
    BY <1>3, <1>4, <1>5, <1>6 DEF ConflictInv

\* The queued transaction with the lowest timestamp is published.
LEMMA PublishStep ==
  ASSUME ConflictInv, NEW t \in Txn, NEW state \in {"pending", "prepared"},
         txn[t].state = state, txn[t].ts = Min(TsOf(In(state))),
         Becomes(t, "committed", txn[t].ts),
         latest' = txn[t].ts, log' = log \cup {t},
         UNCHANGED <<assigned, barrier, purged, overtaken>>
  PROVE  ConflictInv'
  <1>0. /\ latest \in Nat /\ assigned \in Nat /\ purged \in Nat /\ assigned \in 0..MaxTs
        /\ "committed" \in States /\ "committed" \in Live /\ txn[t].ts \in 0..MaxTs
        /\ \A u \in Txn : txn[u].begin \in Nat /\ txn[u].ts \in Nat
        /\ TypeOK /\ Stamped /\ Distinct /\ KindFits /\ QueueIsAhead /\ Logged
    BY Types, ConflictCheckAssumption DEF ConflictInv, States, Live, TypeOK
  <1>1. /\ txn' \in [Txn -> TxnRecord]
        /\ txn'[t].state = "committed" /\ txn'[t].ts = txn[t].ts
        /\ txn'[t].kind = txn[t].kind /\ txn'[t].begin = txn[t].begin
        /\ txn'[t].reads = txn[t].reads /\ txn'[t].writes = txn[t].writes
        /\ \A u \in Txn \ {t} : txn'[u] = txn[u]
    BY <1>0, AfterBecomes
  <1>2. txn[t].state \in Live /\ txn[t].ts > latest
    BY <1>0 DEF Live, QueueIsAhead
  <1>3. \A u \in Txn : txn[u].state \in {"pending", "prepared"} =>
          txn[u].state = state
    BY <1>0 DEF QueueIsAhead
  <1>4. \A u \in Txn \ {t} : txn[u].state = state => txn[u].ts > txn[t].ts
    <2>1. TsOf(In(state)) \in SUBSET Nat /\ txn[t].ts \in TsOf(In(state))
      BY <1>0 DEF TsOf, In
    <2>2. \A y \in TsOf(In(state)) : txn[t].ts <= y
      BY <2>1, MinOfNaturals
    <2> TAKE u \in Txn \ {t}
    <2> HAVE txn[u].state = state
    <2>3. txn[u].ts \in TsOf(In(state))
      BY DEF TsOf, In
    <2>4. txn[u].ts # txn[t].ts
      BY <1>0, <1>2 DEF Distinct
    <2> QED
      BY <1>0, <2>2, <2>3, <2>4
  <1>5. TypeOK'
    <2>1. log' \subseteq In("committed")'
      BY <1>0, <1>1, Types DEF In
    <2> QED
      BY <1>0, <1>1, <2>1 DEF TypeOK, TxnRecord
  <1>6. Stamped' /\ Distinct' /\ KindFits'
    BY <1>0, <1>1, <1>2 DEF Stamped, Distinct, KindFits
  <1>7. QueueIsAhead'
    BY <1>0, <1>1, <1>3, <1>4 DEF QueueIsAhead
  <1>8. Logged'
    <2>1. log \subseteq Txn
      BY <1>0, Types
    <2> QED
      BY <1>0, <1>1, <1>2, <2>1 DEF Logged
  <1>9. LocalSeen' /\ AllSeen'
    <2>1. txn'[t].kind = "local" => txn[t].state = "pending"
      BY <1>0, <1>1 DEF KindFits
    <2> QED
      BY <1>1, <1>2, <2>1, SeenIsKept
  <1> QED
    BY <1>5, <1>6, <1>7, <1>8, <1>9 DEF ConflictInv

\* The participant that only read learns that its transaction committed.
LEMMA DecideStep ==
  ASSUME ConflictInv, NEW t \in Txn, txn[t].state = "validated",
         Becomes(t, "committed", txn[t].ts),
         UNCHANGED <<latest, assigned, barrier, log, purged, overtaken>>
  PROVE  ConflictInv'
  <1>0. /\ latest \in Nat /\ assigned \in Nat /\ purged \in Nat
        /\ "committed" \in States /\ "committed" \in Live /\ txn[t].ts \in 0..MaxTs
        /\ \A u \in Txn : txn[u].begin \in Nat /\ txn[u].ts \in Nat
        /\ TypeOK /\ Stamped /\ Distinct /\ KindFits /\ QueueIsAhead /\ Logged
    BY Types DEF ConflictInv, States, Live
  <1>1. /\ txn' \in [Txn -> TxnRecord]
        /\ txn'[t].state = "committed" /\ txn'[t].ts = txn[t].ts
        /\ txn'[t].kind = txn[t].kind /\ txn'[t].begin = txn[t].begin
        /\ txn'[t].reads = txn[t].reads /\ txn'[t].writes = txn[t].writes
        /\ \A u \in Txn \ {t} : txn'[u] = txn[u]
    BY <1>0, AfterBecomes
  <1>2. txn[t].state \in Live /\ txn[t].kind = "validate"
    BY <1>0 DEF Live, KindFits
  <1>3. t \notin log /\ log \subseteq Txn
    BY <1>0, Types
  <1>4. TypeOK'
    <2>1. log' \subseteq In("committed")'
      BY <1>0, <1>1, <1>3, Types DEF In
    <2> QED
      BY <1>0, <1>1, <2>1 DEF TypeOK, TxnRecord
  <1>5. Stamped' /\ Distinct' /\ KindFits'
    BY <1>0, <1>1, <1>2 DEF Stamped, Distinct, KindFits
  <1>6. QueueIsAhead' /\ Logged'
    BY <1>0, <1>1, <1>2, <1>3 DEF QueueIsAhead, Logged
  <1>7. LocalSeen' /\ AllSeen'
    BY <1>1, <1>2, SeenIsKept
  <1> QED
    BY <1>4, <1>5, <1>6, <1>7 DEF ConflictInv

LEMMA BeginStep ==
  ASSUME ConflictInv, NEW t \in Txn, NEW kind \in Kinds, NEW begin \in 0..MaxTs,
         NEW reads \in SUBSET Key, NEW writes \in SUBSET Key,
         Begin(t, kind, begin, reads, writes)
  PROVE  ConflictInv'
  <1> DEFINE r == [kind |-> kind, state |-> "running", reads |-> reads,
                   writes |-> writes, begin |-> begin, ts |-> 0]
  <1>0. /\ latest \in Nat /\ assigned \in Nat /\ purged \in Nat
        /\ \A u \in Txn : txn[u].begin \in Nat /\ txn[u].ts \in Nat
        /\ txn \in [Txn -> TxnRecord]
        /\ TypeOK /\ Stamped /\ Distinct /\ KindFits /\ QueueIsAhead /\ Logged
    BY Types DEF ConflictInv
  <1>1. /\ r \in TxnRecord /\ r.kind = kind /\ r.state = "running"
        /\ r.writes = writes /\ r.begin = begin /\ r.ts = 0
    BY ConflictCheckAssumption DEF TxnRecord, States
  <1>2. /\ txn[t].state = "idle" /\ begin <= latest
        /\ kind = "validate" => writes = {}
        /\ txn' = [txn EXCEPT ![t] = r]
        /\ UNCHANGED <<latest, assigned, barrier, log, purged, overtaken>>
    BY DEF Begin
  <1> HIDE DEF r
  <1>3. /\ txn' \in [Txn -> TxnRecord] /\ txn'[t] = r
        /\ \A u \in Txn \ {t} : txn'[u] = txn[u]
    BY <1>0, <1>1, <1>2
  <1>4. t \notin log /\ log \subseteq Txn
    BY <1>0, <1>2, Types
  <1>5. TypeOK'
    <2>1. log' \subseteq In("committed")'
      BY <1>0, <1>2, <1>3, <1>4, Types DEF In
    <2> QED
      BY <1>0, <1>2, <1>3, <2>1 DEF TypeOK, TxnRecord
  <1>6. "running" \notin Live
    BY DEF Live
  <1>7. Stamped' /\ Distinct' /\ KindFits'
    BY <1>0, <1>1, <1>2, <1>3, <1>6 DEF Stamped, Distinct, KindFits
  <1>8. QueueIsAhead' /\ Logged'
    BY <1>0, <1>1, <1>2, <1>3, <1>4 DEF QueueIsAhead, Logged
  <1>9. LocalSeen' /\ AllSeen'
    BY <1>1, <1>2, <1>3, <1>6, SeenIsKept
  <1> QED
    BY <1>5, <1>7, <1>8, <1>9 DEF ConflictInv

LEMMA CloseStep ==
  ASSUME ConflictInv, NEW ts \in Ts, Close(ts)
  PROVE  ConflictInv'
  <1> DEFINE S == {latest, assigned} \cup TsOf(In("prepared"))
  <1>0. /\ latest \in Nat /\ assigned \in Nat /\ purged \in Nat /\ ts \in Nat
        /\ ts \in 0..MaxTs /\ MaxTs \in Nat
        /\ \A u \in Txn : txn[u].begin \in Nat /\ txn[u].ts \in 0..MaxTs
        /\ TypeOK /\ Stamped /\ Distinct /\ KindFits /\ QueueIsAhead /\ Logged
    BY Types, ConflictCheckAssumption DEF ConflictInv, Ts
  <1>1. /\ In("pending") = {} /\ \A t \in In("prepared") : txn[t].ts > ts
        /\ ts >= Max(S)
        /\ latest' = ts /\ assigned' = ts /\ barrier' = ts
        /\ UNCHANGED <<txn, log, purged, overtaken>>
    BY DEF Close
  <1>2. S \in SUBSET (0..MaxTs) /\ S # {}
    BY <1>0 DEF TypeOK, TsOf, In
  <1>3. Max(S) \in S /\ \A y \in S : Max(S) >= y
    BY <1>0, <1>2, MaxOfBounded
  <1>4. \A y \in S : y <= ts
    BY <1>0, <1>1, <1>2, <1>3
  <1>5. latest <= ts /\ assigned <= ts
    BY <1>4
  <1>6. \A t \in Txn : txn[t].state \notin {"pending", "prepared"}
    <2>1. \A t \in Txn : txn[t].state # "prepared"
      <3> SUFFICES ASSUME NEW t \in Txn, txn[t].state = "prepared" PROVE FALSE
        OBVIOUS
      <3>1. t \in In("prepared") /\ txn[t].ts \in S
        BY DEF In, TsOf
      <3> QED
        BY <1>0, <1>1, <1>4, <3>1
    <2> QED
      BY <1>1, <2>1 DEF In
  <1>7. TypeOK'
    <2>1. log' \subseteq In("committed")'
      BY <1>0, <1>1 DEF TypeOK, In
    <2> QED
      BY <1>0, <1>1, <2>1 DEF TypeOK
  <1>8. Stamped' /\ Distinct' /\ KindFits'
    BY <1>0, <1>1, <1>5 DEF Stamped, Distinct, KindFits
  <1>9. QueueIsAhead' /\ Logged'
    <2>1. QueueIsAhead'
      BY <1>1, <1>6 DEF QueueIsAhead
    <2>2. log \subseteq Txn /\ \A t \in Txn : txn[t].ts \in Nat
      BY <1>0, Types
    <2>3. Logged'
      BY <1>0, <1>1, <1>5, <2>2 DEF Logged
    <2> QED
      BY <2>1, <2>3
  <1>10. LocalSeen' /\ AllSeen'
    BY <1>1, SeenIsKept
  <1> QED
    BY <1>7, <1>8, <1>9, <1>10 DEF ConflictInv

LEMMA EnforceRetentionStep ==
  ASSUME ConflictInv, EnforceRetention
  PROVE  ConflictInv'
  <1>0. /\ latest \in Nat /\ assigned \in Nat /\ purged \in Nat
        /\ \A u \in Txn : txn[u].begin \in Nat /\ txn[u].ts \in Nat
                         /\ txn[u].ts \in 0..MaxTs
        /\ log \subseteq Txn /\ \A t \in log : txn[t].state = "committed"
        /\ TypeOK /\ Stamped /\ Distinct /\ KindFits /\ QueueIsAhead /\ Logged
    BY Types DEF ConflictInv
  <1>1. PICK old \in log :
          /\ txn[old].ts = Min(TsOf(log))
          /\ log' = log \ {old} /\ purged' = txn[old].ts
    <2>1. TsOf(log) \in SUBSET Nat /\ TsOf(log) # {}
      BY <1>0 DEF TsOf, EnforceRetention
    <2>2. \E t \in log : txn[t].ts = Min(TsOf(log))
      BY <2>1, MinOfNaturals DEF TsOf
    <2> QED
      BY <2>2 DEF EnforceRetention
  <1>2. UNCHANGED <<txn, latest, assigned, barrier, overtaken>>
    BY DEF EnforceRetention
  <1>3. \A u \in log : txn[old].ts <= txn[u].ts
    <2>1. TsOf(log) \in SUBSET Nat /\ TsOf(log) # {}
      BY <1>0, <1>1 DEF TsOf
    <2> QED
      BY <1>1, <2>1, MinOfNaturals DEF TsOf
  <1>4. txn[old].ts > purged /\ txn[old].ts # 0
    BY <1>0, <1>1 DEF Logged
  <1>5. \A u \in log' : txn[u].ts > txn[old].ts
    BY <1>0, <1>1, <1>3, <1>4 DEF Distinct
  <1>6. txn[old].ts <= latest
    BY <1>0, <1>1 DEF Logged
  <1>8. TypeOK'
    <2>1. log' \subseteq In("committed")'
      BY <1>0, <1>1, <1>2 DEF In
    <2>2. purged' \in 0..MaxTs
      BY <1>0, <1>1
    <2> QED
      BY <1>0, <1>2, <2>1, <2>2 DEF TypeOK
  <1>9. Stamped' /\ Distinct' /\ KindFits' /\ QueueIsAhead'
    BY <1>0, <1>2 DEF Stamped, Distinct, KindFits, QueueIsAhead
  <1>10. Logged'
    BY <1>0, <1>1, <1>2, <1>4, <1>5, <1>6 DEF Logged
  <1>11. LocalSeen' /\ AllSeen'
    BY <1>2, SeenIsKept
  <1> QED
    BY <1>8, <1>9, <1>10, <1>11 DEF ConflictInv

LEMMA MaxOfTwo ==
  ASSUME NEW a \in Nat, NEW b \in Nat
  PROVE  /\ Max({a, b}) \in {a, b} /\ Max({a, b}) >= a /\ Max({a, b}) >= b
         /\ Max({a, b}) \in Nat
  <1>1. \E x \in {a, b} : \A y \in {a, b} : x >= y
    <2>1. CASE a >= b
      BY <2>1
    <2>2. CASE b >= a
      BY <2>2
    <2> QED
      BY <2>1, <2>2
  <1> QED
    BY <1>1 DEF Max

LEMMA ConflictStep == ConflictInv /\ [Next]_vars => ConflictInv'
  <1> SUFFICES ASSUME ConflictInv, [Next]_vars PROVE ConflictInv'
    OBVIOUS
  <1>0. /\ latest \in Nat /\ assigned \in Nat /\ barrier \in Nat
        /\ assigned \in 0..MaxTs /\ overtaken \in BOOLEAN
    BY Types DEF ConflictInv, TypeOK
  <1>t. \A ts \in Ts : ts \in Nat /\ ts \in 0..MaxTs
    BY ConflictCheckAssumption DEF Ts
  <1>f. \A ts \in Ts : ts >= PrepareFloor => ts > latest
    BY <1>0, <1>t, MaxOfTwo DEF PrepareFloor
  <1>m. \A ts \in Ts : LET m == Max({assigned, ts}) IN
          m \in 0..MaxTs /\ assigned <= m /\ ts <= m
    BY <1>0, <1>t, MaxOfTwo
  <1>1. ASSUME NEW t \in Txn, NEW ts \in Ts, ValidateCommit(t, ts) PROVE ConflictInv'
    <2>1. CASE HasConflict(t, ts)
      BY <1>0, <1>1, <1>t, <2>1, RetireStep DEF ValidateCommit
    <2>2. CASE ~HasConflict(t, ts)
      BY <1>0, <1>1, <1>t, <2>2, AdmitStep DEF ValidateCommit
    <2> QED
      BY <2>1, <2>2
  <1>2. ASSUME NEW t \in Txn, PublishCommit(t) PROVE ConflictInv'
    BY <1>2, PublishStep DEF PublishCommit
  <1>3. ASSUME NEW t \in Txn, RejectCommit(t) PROVE ConflictInv'
    BY <1>0, <1>3, RetireStep DEF RejectCommit
  <1>4. ASSUME NEW t \in Txn, NEW ts \in Ts, StagePrepared(t, ts) PROVE ConflictInv'
    <2>0. assigned' \in 0..MaxTs /\ assigned <= assigned' /\ ts <= assigned'
      BY <1>4, <1>m DEF StagePrepared
    <2>1. CASE HasConflict(t, ts)
      BY <1>4, <2>0, <2>1, RetireStep DEF StagePrepared
    <2>2. CASE ~HasConflict(t, ts)
      <3>1. /\ overtaken' \in BOOLEAN
            /\ ~overtaken' => ~overtaken /\ ~Overtakes(ts)
        BY <1>0, <1>4, <2>2 DEF StagePrepared, Overtakes
      <3> QED
        BY <1>4, <1>f, <2>0, <2>2, <3>1, AdmitStep DEF StagePrepared
    <2> QED
      BY <2>1, <2>2
  <1>5. ASSUME NEW t \in Txn, NEW ts \in Ts, ValidateReads(t, ts) PROVE ConflictInv'
    <2>1. CASE HasConflict(t, ts)
      BY <1>0, <1>5, <2>1, RetireStep DEF ValidateReads
    <2>2. CASE ~HasConflict(t, ts)
      <3>1. assigned' \in 0..MaxTs /\ assigned <= assigned' /\ ts <= assigned'
        BY <1>5, <1>m, <2>2 DEF ValidateReads
      <3> QED
        BY <1>0, <1>5, <1>f, <2>2, <3>1, AdmitStep DEF ValidateReads
    <2> QED
      BY <2>1, <2>2
  <1>6. ASSUME NEW t \in Txn, CommitPrepared(t) PROVE ConflictInv'
    BY <1>6, PublishStep DEF CommitPrepared
  <1>7. ASSUME NEW t \in Txn, RollbackPrepared(t) PROVE ConflictInv'
    BY <1>0, <1>7, RetireStep DEF RollbackPrepared
  <1>8. ASSUME NEW t \in Txn, NEW outcome \in {"committed", "aborted"},
               DecideValidated(t, outcome)
        PROVE  ConflictInv'
    <2>1. CASE outcome = "committed"
      BY <1>8, <2>1, DecideStep DEF DecideValidated
    <2>2. CASE outcome = "aborted"
      BY <1>0, <1>8, <2>2, RetireStep DEF DecideValidated
    <2> QED
      BY <2>1, <2>2
  <1>9. CASE UNCHANGED vars
    <2>1. /\ UNCHANGED <<txn, latest, assigned, barrier, log, purged, overtaken>>
          /\ In("committed")' = In("committed")
      BY <1>9 DEF vars, In
    <2> QED
      BY <2>1, SeenIsKept
      DEF ConflictInv, TypeOK, Stamped, Distinct, KindFits, QueueIsAhead, Logged
  <1> QED
    BY <1>1, <1>2, <1>3, <1>4, <1>5, <1>6, <1>7, <1>8, <1>9,
       BeginStep, CloseStep, EnforceRetentionStep
    DEF Next

LEMMA ConflictInit == Init => ConflictInv
  <1> SUFFICES ASSUME Init PROVE ConflictInv
    OBVIOUS
  <1> DEFINE r == [kind |-> "local", state |-> "idle", reads |-> {},
                   writes |-> {}, begin |-> 0, ts |-> 0]
  <1>1. /\ r \in TxnRecord /\ r.state = "idle" /\ r.kind = "local" /\ r.ts = 0
        /\ r.begin = 0 /\ "idle" \notin Live
    BY ConflictCheckAssumption DEF TxnRecord, Kinds, States, Live
  <1>2. /\ txn = [t \in Txn |-> r]
        /\ latest = 0 /\ assigned = 0 /\ barrier = 0 /\ log = {} /\ purged = 0
        /\ overtaken = FALSE
    BY DEF Init
  <1> HIDE DEF r
  <1>3. TypeOK
    BY <1>1, <1>2, ConflictCheckAssumption DEF TypeOK, TxnRecord
  <1> QED
    BY <1>1, <1>2, <1>3
    DEF ConflictInv, Stamped, Distinct, KindFits, QueueIsAhead, Logged,
        LocalSeen, AllSeen

----------------------------------------------------------------------------
(* The theorems. *)

\* Whatever is admitted, published, rolled back, closed or trimmed, the log,
\* the pending writes and the intents between them hold every write that
\* commit_has_conflict has to compare a transaction's reads with.
THEOREM ConflictInvariantHolds == Spec => []ConflictInv
  BY ConflictInit, ConflictStep, PTL DEF Spec

\* Nobody wrote what a live transaction read before the timestamp it has.
LEMMA SeenReadsHold ==
  ASSUME TypeOK, NEW t \in Txn, Seen(t)
  PROVE  ReadsHold(t)
  <1> SUFFICES ASSUME NEW u \in In("committed") \ {t},
                      txn[u].ts \in (txn[t].begin + 1)..(txn[t].ts)
               PROVE  txn[u].writes \cap txn[t].reads = {}
    BY DEF ReadsHold
  <1>1. u \in Txn \ {t} /\ txn[u].state \in Live
    BY DEF In, Live
  <1>2. txn[u].ts \in Nat /\ txn[t].begin \in Nat /\ txn[t].ts \in Nat
    BY <1>1, Types
  <1>3. txn[u].ts > txn[t].begin /\ txn[u].ts <= txn[t].ts
    BY <1>2
  <1> QED
    BY <1>1, <1>3 DEF Seen

\* A commit of this partition alone is serializable at its timestamp, whatever
\* prepares overtake each other: nobody committed a write to what it read
\* between its snapshot and its timestamp (validate_commit).
THEOREM LocalReadsAreCurrentHolds == Spec => []LocalReadsAreCurrent
  <1>1. ConflictInv => LocalReadsAreCurrent
    BY SeenReadsHold DEF ConflictInv, LocalSeen, LocalReadsAreCurrent, In
  <1> QED
    BY <1>1, ConflictInvariantHolds, PTL

\* As long as prepares reach the participant in the order of their timestamps,
\* every committed transaction is serializable at its timestamp, participants
\* of two-phase transactions and readers included (commit_has_conflict).
THEOREM CurrentWhenInOrderHolds == Spec => []CurrentWhenInOrder
  <1>1. ConflictInv => CurrentWhenInOrder
    BY SeenReadsHold DEF ConflictInv, AllSeen, Live, CurrentWhenInOrder, In
  <1> QED
    BY <1>1, ConflictInvariantHolds, PTL
=============================================================================
