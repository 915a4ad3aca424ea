------------------------- MODULE DeltaStreamProofs --------------------------
(***************************************************************************)
(* Proofs about DeltaStream, for any replicas, failovers, crashes and lost *)
(* acknowledgements, as long as a partition makes no more commits than a   *)
(* consumer remembers origins.  A delta enters the stream only after all   *)
(* deltas before it, whoever publishes; what the consumer has acknowledged *)
(* is in the ids that survive a crash; so a message that is not recognised *)
(* carries a delta newer than all that was applied, or the one applied     *)
(* last.                                                                   *)
(***************************************************************************)
EXTENDS DeltaStream, FiniteSetTheorems, TLAPS

----------------------------------------------------------------------------
(* The invariant. *)

Ids == [origins : SUBSET Delta, messages : SUBSET Nat]

ConsumerState ==
  [state : {"off", "waiting", "queued", "written", "applied", "poisoned"},
   floor : Nat, at : Nat]

Types ==
  /\ committed \in 0..MaxCommits /\ leader \in Node
  /\ applied \in [Node -> Nat]
  /\ \A n \in Node : applied[n] <= committed
  /\ outbox \in [Node -> SUBSET Delta]
  /\ batch \in [Node -> Seq(Delta)]
  /\ sent \in [Node -> BOOLEAN]
  /\ stream \in Seq(Delta) /\ trimmed \in 0..Len(stream)
  /\ consumer \in ConsumerState
  /\ consumer.floor <= Len(stream) /\ consumer.at <= Len(stream)
  /\ consumer.state \in {"queued", "written", "applied"} => consumer.at >= 1
  /\ memory \in Ids /\ durable \in Ids
  /\ memory.messages \subseteq 1..Len(stream)
  /\ durable.messages \subseteq 1..Len(stream)
  /\ document \in Nat /\ document <= MaxCommits /\ seen \subseteq Delta
  /\ failovers \in 0..MaxFailovers /\ failures \in 0..MaxFailures

\* Delta d is among the first k messages.
Among(d, k) == \E j \in 1..Len(stream) : j <= k /\ stream[j] = d

Sent(d) == Among(d, Len(stream))

\* What a replica has applied is in its outbox, or was published by somebody.
Recorded ==
  \A n \in Node :
    /\ \A d \in outbox[n] : d <= applied[n]
    /\ \A d \in Delta : d <= applied[n] => d \in outbox[n] \/ Sent(d)

\* Whatever is older than a record of a batch comes before it in the batch, or
\* was published by somebody.
Batches ==
  \A n \in Node :
    /\ \A i \in 1..Len(batch[n]) :
         /\ batch[n][i] <= applied[n]
         /\ \A d \in Delta : d < batch[n][i] =>
              Sent(d) \/ \E j \in 1..Len(batch[n]) : j < i /\ batch[n][j] = d
    /\ sent[n] => batch[n] # <<>> /\ Sent(batch[n][1])

\* No message is the first to carry its delta unless all older ones were
\* carried before it.
StreamInOrder ==
  \A i \in 1..Len(stream) : \A d \in Delta : d < stream[i] => Among(d, i - 1)

SourceInv == Recorded /\ Batches /\ StreamInOrder

\* The message the consumer is at follows the acknowledged ones.
Position ==
  consumer.state \in {"queued", "written", "applied"} =>
    consumer.at = consumer.floor + 1

\* What is remembered was applied, and what was acknowledged is remembered
\* across a crash; the message at work is remembered in advance.
Remembered ==
  /\ consumer.state \notin {"queued", "written"} => memory = durable
  /\ consumer.state \in {"queued", "written"} =>
       /\ memory.origins = durable.origins \cup {stream[consumer.at]}
       /\ stream[consumer.at] \notin durable.origins
       /\ memory.messages = durable.messages \cup {consumer.at}
  /\ \A j \in 1..Len(stream) : j <= consumer.floor => stream[j] \in durable.origins
  /\ \A m \in durable.messages : stream[m] \in durable.origins
  /\ consumer.state = "applied" => stream[consumer.at] \in durable.origins

\* The document and what was applied come from the acknowledged messages and
\* the one after them.
Written ==
  /\ durable.origins \subseteq seen
  /\ consumer.state = "written" => stream[consumer.at] \in seen
  /\ \A d \in seen : Among(d, consumer.floor + 1)
  /\ document \in seen \cup {0}
  /\ \A d \in seen : d <= document

SinkInv == trimmed = 0 => Position /\ Remembered /\ Written

StreamInv == Types /\ SourceInv /\ SinkInv

----------------------------------------------------------------------------
(* Sets, sequences and types. *)

LEMMA Bounds ==
  /\ MaxCommits \in Nat /\ Window \in Nat
  /\ MaxFailovers \in Nat /\ MaxFailures \in Nat
  BY DeltaStreamAssumption

LEMMA DeltaTypes ==
  /\ \A d \in Delta : d \in Nat /\ d >= 1 /\ d <= MaxCommits
  /\ \A d \in Nat : d >= 1 /\ d <= MaxCommits => d \in Delta
  BY Bounds DEF Delta

LEMMA DeltaSets ==
  ASSUME NEW S \in SUBSET Delta
  PROVE  IsFiniteSet(S) /\ Cardinality(S) \in Nat /\ Cardinality(S) <= MaxCommits
  <1>1. IsFiniteSet(1..MaxCommits) /\ Cardinality(1..MaxCommits) <= MaxCommits
    BY Bounds, FS_Interval
  <1>2. IsFiniteSet(S) /\ Cardinality(S) <= Cardinality(1..MaxCommits)
    BY <1>1, FS_Subset DEF Delta
  <1>3. Cardinality(S) \in Nat /\ Cardinality(1..MaxCommits) \in Nat
    BY <1>1, <1>2, FS_CardinalityType
  <1> QED
    BY <1>1, <1>2, <1>3, Bounds

\* A consumer that remembers as many origins as there are deltas forgets none.
LEMMA PrunedIsAll ==
  ASSUME MaxCommits <= Window, NEW S \in SUBSET Delta
  PROVE  Pruned(S) = S
  BY DeltaSets, Bounds DEF Pruned

LEMMA AppendFacts ==
  ASSUME NEW S, NEW s \in Seq(S), NEW e \in S, NEW t, t = Append(s, e)
  PROVE  /\ t \in Seq(S) /\ Len(s) \in Nat /\ Len(t) = Len(s) + 1
         /\ \A i \in 1..Len(s) : t[i] = s[i]
         /\ t[Len(t)] = e
  OBVIOUS

LEMMA SeqFacts ==
  ASSUME NEW S, NEW s \in Seq(S)
  PROVE  /\ Len(s) \in Nat
         /\ \A i \in 1..Len(s) : s[i] \in S
         /\ s # <<>> => /\ Len(s) >= 1 /\ Head(s) = s[1]
                        /\ Tail(s) \in Seq(S) /\ Len(Tail(s)) = Len(s) - 1
                        /\ \A i \in 1..Len(Tail(s)) : Tail(s)[i] = s[i + 1]
  OBVIOUS

LEMMA StreamFacts ==
  ASSUME Types
  PROVE  /\ Len(stream) \in Nat /\ trimmed \in Nat
         /\ \A i \in 1..Len(stream) :
              stream[i] \in Delta /\ stream[i] \in Nat /\ stream[i] >= 1
  <1>1. stream \in Seq(Delta) /\ trimmed \in 0..Len(stream)
    BY DEF Types
  <1>2. Len(stream) \in Nat /\ \A i \in 1..Len(stream) : stream[i] \in Delta
    BY <1>1, SeqFacts
  <1> QED
    BY <1>1, <1>2, DeltaTypes

LEMMA BatchFacts ==
  ASSUME Types, NEW n \in Node
  PROVE  /\ batch[n] \in Seq(Delta) /\ Len(batch[n]) \in Nat
         /\ \A i \in 1..Len(batch[n]) : batch[n][i] \in Delta
         /\ batch[n] # <<>> =>
              /\ Len(batch[n]) >= 1 /\ Head(batch[n]) = batch[n][1]
              /\ batch[n][1] \in Delta
              /\ Tail(batch[n]) \in Seq(Delta)
              /\ Len(Tail(batch[n])) = Len(batch[n]) - 1
              /\ \A i \in 1..Len(Tail(batch[n])) :
                   Tail(batch[n])[i] = batch[n][i + 1]
  <1>1. batch[n] \in Seq(Delta)
    BY DEF Types
  <1>2. PICK s : s = batch[n]
    OBVIOUS
  <1>3. s \in Seq(Delta)
    BY <1>1, <1>2
  <1>4. /\ Len(s) \in Nat
        /\ \A i \in 1..Len(s) : s[i] \in Delta
        /\ s # <<>> => /\ Len(s) >= 1 /\ Head(s) = s[1]
                       /\ Tail(s) \in Seq(Delta) /\ Len(Tail(s)) = Len(s) - 1
                       /\ \A i \in 1..Len(Tail(s)) : Tail(s)[i] = s[i + 1]
    BY <1>3, SeqFacts
  <1>5. s # <<>> => s[1] \in Delta
    BY <1>4
  <1> QED
    BY <1>2, <1>3, <1>4, <1>5

\* The stream stays, or one message is added to it.
Grows ==
  /\ Len(stream') \in Nat /\ Len(stream') >= Len(stream)
  /\ \A j \in 1..Len(stream) : stream'[j] = stream[j]

LEMMA AmongStays ==
  ASSUME Types, Grows, NEW d, NEW k, Among(d, k)
  PROVE  Among(d, k)'
  <1>1. PICK j \in 1..Len(stream) : j <= k /\ stream[j] = d
    BY DEF Among
  <1>2. j \in 1..Len(stream') /\ stream'[j] = d
    BY <1>1, StreamFacts DEF Grows
  <1> QED
    BY <1>1, <1>2 DEF Among

LEMMA SentStays ==
  ASSUME Types, Grows, NEW d, Sent(d)
  PROVE  Sent(d)'
  <1>1. PICK j \in 1..Len(stream) : j <= Len(stream) /\ stream[j] = d
    BY DEF Sent, Among
  <1>2. j \in 1..Len(stream') /\ j <= Len(stream') /\ stream'[j] = d
    BY <1>1, StreamFacts DEF Grows
  <1> QED
    BY <1>2 DEF Sent, Among

LEMMA StreamStays ==
  ASSUME Types, stream' = stream
  PROVE  Grows
  BY StreamFacts DEF Grows

----------------------------------------------------------------------------
(* What a publication does, acknowledged or not. *)

LEMMA PublishEffect ==
  ASSUME Types, NEW n \in Node, batch[n] # <<>>,
         stream' = Append(stream, Head(batch[n]))
  PROVE  /\ stream' \in Seq(Delta) /\ Len(stream') = Len(stream) + 1
         /\ Grows
         /\ stream'[Len(stream')] = batch[n][1] /\ batch[n][1] \in Delta
         /\ \A d : d = batch[n][1] => Sent(d)'
  <1>1. batch[n][1] \in Delta /\ stream' = Append(stream, batch[n][1])
    BY BatchFacts
  <1>2. stream \in Seq(Delta)
    BY DEF Types
  <1>3. PICK e : e = batch[n][1]
    OBVIOUS
  <1>4. PICK t : t = stream'
    OBVIOUS
  <1>5. /\ t \in Seq(Delta) /\ Len(stream) \in Nat /\ Len(t) = Len(stream) + 1
        /\ \A i \in 1..Len(stream) : t[i] = stream[i]
        /\ t[Len(t)] = e
    <2>1. e \in Delta /\ t = Append(stream, e)
      BY <1>1, <1>3, <1>4
    <2> QED
      BY <2>1, <1>2, AppendFacts
  <1>6. Grows
    BY <1>4, <1>5 DEF Grows
  <1>7. Sent(e)'
    <2>1. Len(stream') \in 1..Len(stream') /\ Len(stream') <= Len(stream')
      BY <1>4, <1>5
    <2> QED
      BY <2>1, <1>4, <1>5 DEF Sent, Among
  <1> QED
    BY <1>1, <1>3, <1>4, <1>5, <1>6, <1>7

----------------------------------------------------------------------------
(* Types. *)

LEMMA FunctionFacts ==
  ASSUME NEW S, NEW T, NEW f \in [S -> T], NEW a \in S, NEW v \in T, NEW g,
         g = [f EXCEPT ![a] = v]
  PROVE  /\ g \in [S -> T] /\ g[a] = v
         /\ \A b \in S : b # a => g[b] = f[b]
  OBVIOUS

LEMMA ConsumerFacts ==
  ASSUME Types
  PROVE  /\ consumer.floor \in Nat /\ consumer.at \in Nat
         /\ consumer.floor <= Len(stream) /\ consumer.at <= Len(stream)
         /\ consumer.state \in {"queued", "written", "applied"} =>
              consumer.at \in 1..Len(stream) /\ stream[consumer.at] \in Delta
         /\ Len(stream) \in Nat /\ trimmed \in Nat
         /\ memory.origins \subseteq Delta /\ durable.origins \subseteq Delta
         /\ memory.messages \subseteq 1..Len(stream)
         /\ durable.messages \subseteq 1..Len(stream)
  BY StreamFacts DEF Types, ConsumerState, Ids

\* The consumer moves to another state and stays where it is.
LEMMA NowEffect ==
  ASSUME Types, NEW s, Now(s),
         s \in {"off", "waiting", "queued", "written", "applied", "poisoned"}
  PROVE  /\ consumer' \in ConsumerState /\ consumer'.state = s
         /\ consumer'.floor = consumer.floor /\ consumer'.at = consumer.at
  BY DEF Types, ConsumerState, Now

LEMMA MaxOfTwo ==
  ASSUME NEW a \in Nat, a >= 0
  PROVE  Max({a, 0}) = a
  <1>1. \E x \in {a, 0} : \A y \in {a, 0} : x >= y
    OBVIOUS
  <1>2. PICK x : x = Max({a, 0})
    OBVIOUS
  <1>3. x \in {a, 0} /\ \A y \in {a, 0} : x >= y
    BY <1>1, <1>2 DEF Max
  <1> QED
    BY <1>2, <1>3

LEMMA MaxIsNatural ==
  ASSUME NEW a \in Nat, NEW b \in Nat
  PROVE  Max({a, b}) \in Nat /\ Max({a, b}) >= a /\ Max({a, b}) >= b
  <1>1. \E x \in {a, b} : \A y \in {a, b} : x >= y
    BY a >= b \/ b >= a
  <1>2. PICK x : x = Max({a, b})
    OBVIOUS
  <1>3. x \in {a, b} /\ \A y \in {a, b} : x >= y
    BY <1>1, <1>2 DEF Max
  <1> QED
    BY <1>2, <1>3

LEMMA DeliverEffect ==
  ASSUME Types, MaxCommits <= Window, Deliver
  PROVE  /\ consumer.state = "waiting"
         /\ consumer' \in ConsumerState
         /\ consumer'.floor = consumer.floor
         /\ consumer'.at \in 1..Len(stream)
         /\ trimmed = 0 => consumer'.at = consumer.floor + 1
         /\ \/ /\ consumer'.state = "applied" /\ memory' = memory
               /\ \/ consumer'.at \in memory.messages
                  \/ stream[consumer'.at] \in memory.origins
            \/ /\ consumer'.state = "queued" /\ memory' \in Ids
               /\ stream[consumer'.at] \notin memory.origins
               /\ memory'.origins = memory.origins \cup {stream[consumer'.at]}
               /\ memory'.messages = memory.messages \cup {consumer'.at}
  <1>1. PICK at : at = Max({consumer.floor, trimmed}) + 1
    OBVIOUS
  <1>2. at \in Nat /\ at >= 1 /\ (trimmed = 0 => at = consumer.floor + 1)
    <2>1. PICK a, b : a = consumer.floor /\ b = trimmed
      OBVIOUS
    <2>2. a \in Nat /\ b \in Nat /\ at = Max({a, b}) + 1
      BY <1>1, <2>1, ConsumerFacts
    <2>3. Max({a, b}) \in Nat /\ Max({a, 0}) = a
      BY <2>2, MaxIsNatural, MaxOfTwo
    <2> QED
      BY <2>1, <2>2, <2>3
  <1>3. consumer.state = "waiting" /\ at <= Len(stream)
    BY <1>1 DEF Deliver, Is
  <1>4. at \in 1..Len(stream) /\ stream[at] \in Delta
    BY <1>2, <1>3, StreamFacts
  <1>5. \/ /\ Duplicate(at) /\ memory' = memory
           /\ consumer' = [consumer EXCEPT !.state = "applied", !.at = at]
        \/ /\ ~Duplicate(at) /\ memory' = With(memory, at)
           /\ consumer' = [consumer EXCEPT !.state = "queued", !.at = at]
    BY <1>1 DEF Deliver
  <1>6. /\ consumer' \in ConsumerState
        /\ consumer'.floor = consumer.floor /\ consumer'.at = at
        /\ \/ consumer'.state = "applied" /\ Duplicate(at) /\ memory' = memory
           \/ /\ consumer'.state = "queued" /\ ~Duplicate(at)
              /\ memory' = With(memory, at)
    BY <1>2, <1>5 DEF Types, ConsumerState
  <1>7. /\ With(memory, at) \in Ids
        /\ With(memory, at).origins = memory.origins \cup {stream[at]}
        /\ With(memory, at).messages = memory.messages \cup {at}
    <2>1. memory.origins \cup {stream[at]} \in SUBSET Delta
      BY <1>4, ConsumerFacts
    <2>2. Pruned(memory.origins \cup {stream[at]}) = memory.origins \cup {stream[at]}
      BY <2>1, PrunedIsAll
    <2>3. memory.messages \cup {at} \in SUBSET Nat
      BY <1>2, ConsumerFacts
    <2> QED
      BY <2>1, <2>2, <2>3 DEF With, Ids
  <1> QED
    BY <1>2, <1>3, <1>4, <1>6, <1>7 DEF Duplicate

LEMMA LoadEffect ==
  ASSUME Types, NEW n \in Node, Load(n)
  PROVE  \E s \in Seq(Delta) :
           /\ batch' = [batch EXCEPT ![n] = s]
           /\ \A i \in 1..Len(s) : s[i] \in outbox[n]
           /\ \A d \in outbox[n] : \E i \in 1..Len(s) : s[i] = d
           /\ \A i, j \in 1..Len(s) : i < j => s[i] < s[j]
  <1>1. PICK s \in InOrder(outbox[n]) : batch' = [batch EXCEPT ![n] = s]
    BY DEF Load
  <1>2. PICK S : S = outbox[n]
    OBVIOUS
  <1>3. S \in SUBSET Delta /\ Cardinality(S) \in Nat
    <2>1. S \in SUBSET Delta
      BY <1>2 DEF Types
    <2> QED
      BY <2>1, DeltaSets
  <1>4. /\ s \in [1..Cardinality(S) -> S]
        /\ \A d \in S : \E i \in DOMAIN s : s[i] = d
        /\ \A i, j \in DOMAIN s : i < j => s[i] < s[j]
    BY <1>1, <1>2 DEF InOrder
  <1>5. s \in Seq(Delta) /\ Len(s) = Cardinality(S) /\ DOMAIN s = 1..Len(s)
    <2>1. s \in [1..Cardinality(S) -> Delta]
      BY <1>3, <1>4
    <2> QED
      BY <2>1, <1>3
  <1> QED
    BY <1>1, <1>2, <1>4, <1>5

----------------------------------------------------------------------------
(* Preservation: types. *)

LEMMA TypesStep ==
  ASSUME Types, SourceInv, MaxCommits <= Window, Next
  PROVE  Types'
  <1>0. /\ Len(stream) \in Nat /\ committed \in Nat /\ committed <= MaxCommits
        /\ MaxCommits \in Nat
    BY StreamFacts, Bounds DEF Types
  <1>1. ASSUME NEW n \in Node, Commit(n) PROVE Types'
    <2>1. committed + 1 \in Delta /\ committed < MaxCommits
      BY <1>0, <1>1, DeltaTypes DEF Commit
    <2>2. outbox' \in [Node -> SUBSET Delta]
      BY <1>1, <2>1 DEF Commit, Types
    <2>3. applied' \in [Node -> Nat] /\ \A m \in Node : applied'[m] <= committed'
      BY <1>0, <1>1 DEF Commit, Types
    <2> QED
      BY <1>0, <1>1, <2>1, <2>2, <2>3 DEF Commit, Types, task, sink
  <1>2. ASSUME NEW n \in Node, Apply(n) PROVE Types'
    <2>1. applied[n] \in Nat /\ applied[n] < committed
      BY <1>2 DEF Apply, Types
    <2>2. applied[n] + 1 \in Delta
      BY <1>0, <2>1, DeltaTypes
    <2>3. outbox' \in [Node -> SUBSET Delta]
      BY <1>2, <2>2 DEF Apply, Types
    <2>4. applied' \in [Node -> Nat] /\ \A m \in Node : applied'[m] <= committed'
      BY <1>0, <1>2, <2>1 DEF Apply, Types
    <2> QED
      BY <1>2, <2>3, <2>4 DEF Apply, Types, task, sink
  <1>3. ASSUME NEW n \in Node, Failover(n) PROVE Types'
    <2>1. failovers' \in 0..MaxFailovers
      BY <1>3, Bounds DEF Failover, Types
    <2> QED
      BY <1>3, <2>1 DEF Failover, Types, task, sink
  <1>4. ASSUME NEW n \in Node, Load(n) PROVE Types'
    <2>1. batch' \in [Node -> Seq(Delta)]
      BY <1>4, LoadEffect DEF Types
    <2> QED
      BY <1>4, <2>1 DEF Load, Types, source, sink
  <1>5. ASSUME NEW n \in Node, NEW x \in {0, 1}, batch[n] # <<>>,
               stream' = Append(stream, Head(batch[n])),
               batch' \in [Node -> Seq(Delta)], sent' \in [Node -> BOOLEAN],
               failures' \in 0..MaxFailures,
               UNCHANGED <<source, trimmed, sink, failovers>>
        PROVE  Types'
    <2>1. stream' \in Seq(Delta) /\ Len(stream') = Len(stream) + 1
      BY <1>5, PublishEffect
    <2>2. /\ consumer.floor <= Len(stream') /\ consumer.at <= Len(stream')
          /\ trimmed \in 0..Len(stream')
          /\ memory.messages \subseteq 1..Len(stream')
          /\ durable.messages \subseteq 1..Len(stream')
      <3>1. 1..Len(stream) \subseteq 1..Len(stream') /\ Len(stream) <= Len(stream')
        BY <1>0, <2>1
      <3>2. /\ memory.messages \subseteq 1..Len(stream)
            /\ durable.messages \subseteq 1..Len(stream)
            /\ trimmed \in 0..Len(stream)
            /\ consumer.floor \in Nat /\ consumer.at \in Nat
            /\ consumer.floor <= Len(stream) /\ consumer.at <= Len(stream)
        BY ConsumerFacts DEF Types
      <3>3. /\ consumer.floor <= Len(stream') /\ consumer.at <= Len(stream')
            /\ trimmed \in 0..Len(stream')
        BY <1>0, <2>1, <3>2
      <3> QED
        BY <3>1, <3>2, <3>3
    <2> QED
      BY <1>5, <2>1, <2>2 DEF Types, source, sink
  <1>6. ASSUME NEW n \in Node, Publish(n) PROVE Types'
    <2>1. sent' \in [Node -> BOOLEAN]
      BY <1>6 DEF Publish, Types
    <2> QED
      BY <1>5, <1>6, <2>1 DEF Publish, Types
  <1>7. ASSUME NEW n \in Node, NEW stored \in BOOLEAN, PublishFails(n, stored)
        PROVE  Types'
    <2>1. batch' \in [Node -> Seq(Delta)] /\ failures' \in 0..MaxFailures
      BY <1>7, Bounds DEF PublishFails, Types
    <2>2. CASE stored
      BY <1>5, <1>7, <2>1, <2>2 DEF PublishFails, Types
    <2>3. CASE ~stored
      BY <1>7, <2>1, <2>3 DEF PublishFails, Types, source, sink
    <2> QED
      BY <2>2, <2>3
  <1>8. ASSUME NEW n \in Node, Clear(n) PROVE Types'
    <2>1. batch[n] # <<>>
      BY <1>8 DEF Clear, SourceInv, Batches
    <2>2. Tail(batch[n]) \in Seq(Delta)
      BY <2>1, BatchFacts
    <2>3. batch' \in [Node -> Seq(Delta)] /\ sent' \in [Node -> BOOLEAN]
      BY <1>8, <2>2 DEF Clear, Types
    <2>4. outbox' \in [Node -> SUBSET Delta]
      BY <1>8 DEF Clear, Types
    <2> QED
      BY <1>8, <2>3, <2>4 DEF Clear, Types, sink
  <1>9. ASSUME Trim PROVE Types'
    <2>1. trimmed' \in 0..Len(stream)
      BY <1>0, <1>9 DEF Trim, Types
    <2> QED
      BY <1>9, <2>1 DEF Trim, Types, source, task, sink
  <1>10. ASSUME UNCHANGED <<source, task, stream, trimmed, failovers>>,
                consumer' \in ConsumerState,
                consumer'.floor <= Len(stream), consumer'.at <= Len(stream),
                consumer'.state \in {"queued", "written", "applied"} =>
                  consumer'.at >= 1,
                memory' \in Ids, memory'.messages \subseteq 1..Len(stream),
                durable' \in Ids, durable'.messages \subseteq 1..Len(stream),
                document' \in Nat, document' <= MaxCommits, seen' \subseteq Delta,
                failures' \in 0..MaxFailures
         PROVE  Types'
    BY <1>10 DEF Types, source, task
  <1>11. ASSUME NEW s \in {"off", "waiting", "queued", "written", "applied",
                           "poisoned"}, Now(s)
         PROVE  /\ consumer' \in ConsumerState
                /\ consumer'.floor <= Len(stream) /\ consumer'.at <= Len(stream)
                /\ consumer'.state = s /\ consumer'.at = consumer.at
    BY <1>11, NowEffect, ConsumerFacts
  <1>12. failures < MaxFailures => failures + 1 \in 0..MaxFailures
    BY Bounds DEF Types
  <1>t. /\ memory \in Ids /\ memory.messages \subseteq 1..Len(stream)
        /\ durable \in Ids /\ durable.messages \subseteq 1..Len(stream)
        /\ document \in Nat /\ document <= MaxCommits /\ seen \subseteq Delta
        /\ failures \in 0..MaxFailures
        /\ consumer.state \in {"queued", "written", "applied"} => consumer.at >= 1
    BY DEF Types
  <1>13. ASSUME Subscribe PROVE Types'
    BY <1>10, <1>11, <1>13, <1>t DEF Subscribe
  <1>14. ASSUME Deliver PROVE Types'
    <2>1. /\ consumer' \in ConsumerState
          /\ consumer'.floor <= Len(stream) /\ consumer'.at <= Len(stream)
          /\ consumer'.at >= 1
      BY <1>0, <1>14, DeliverEffect, ConsumerFacts
    <2>2. memory' \in Ids /\ memory'.messages \subseteq 1..Len(stream)
      BY <1>14, <1>t, DeliverEffect
    <2> QED
      BY <1>10, <1>14, <1>t, <2>1, <2>2 DEF Deliver
  <1>15. ASSUME Refuse PROVE Types'
    BY <1>10, <1>11, <1>12, <1>15, <1>t DEF Refuse
  <1>16. ASSUME WriteDocuments PROVE Types'
    <2>1. stream[consumer.at] \in Delta
      BY <1>16, ConsumerFacts DEF WriteDocuments, Is
    <2>2. stream[consumer.at] \in Nat /\ stream[consumer.at] <= MaxCommits
      BY <2>1, DeltaTypes
    <2>3. document' \in Nat /\ document' <= MaxCommits /\ seen' \subseteq Delta
      BY <1>16, <1>t, <2>1, <2>2 DEF WriteDocuments
    <2> QED
      BY <1>10, <1>11, <1>16, <1>t, <2>3 DEF WriteDocuments, Is
  <1>17. ASSUME PublishDelta PROVE Types'
    BY <1>10, <1>11, <1>17, <1>t DEF PublishDelta, Is
  <1>18. ASSUME Ack PROVE Types'
    <2>1. /\ consumer' \in ConsumerState
          /\ consumer'.floor <= Len(stream) /\ consumer'.at <= Len(stream)
          /\ consumer'.state = "waiting"
      BY <1>18, ConsumerFacts DEF Ack, Types, ConsumerState
    <2> QED
      BY <1>10, <1>18, <1>t, <2>1 DEF Ack
  <1>19. ASSUME AckFails PROVE Types'
    BY <1>10, <1>11, <1>12, <1>19, <1>t DEF AckFails
  <1>20. ASSUME Crash PROVE Types'
    BY <1>10, <1>11, <1>12, <1>20, <1>t DEF Crash
  <1> QED
    BY <1>1, <1>2, <1>3, <1>4, <1>6, <1>7, <1>8, <1>9, <1>13, <1>14, <1>15, <1>16,
       <1>17, <1>18, <1>19, <1>20 DEF Next

----------------------------------------------------------------------------
(* Preservation: outboxes, batches and the order of the stream. *)

LEMMA NodeFacts ==
  ASSUME Types, NEW n \in Node
  PROVE  /\ applied[n] \in Nat /\ outbox[n] \subseteq Delta
         /\ sent[n] \in BOOLEAN
  BY DEF Types

\* A delta is applied and recorded.
LEMMA RecordStep ==
  ASSUME Types, SourceInv, NEW n \in Node,
         applied' = [applied EXCEPT ![n] = applied[n] + 1],
         outbox' = [outbox EXCEPT ![n] = @ \cup {applied[n] + 1}],
         UNCHANGED <<batch, sent, stream>>
  PROVE  SourceInv'
  <1>1. /\ applied'[n] = applied[n] + 1
        /\ outbox'[n] = outbox[n] \cup {applied[n] + 1}
        /\ \A m \in Node : m # n => applied'[m] = applied[m] /\ outbox'[m] = outbox[m]
    BY DEF Types
  <1>2. \A m \in Node : applied[m] \in Nat /\ applied'[m] \in Nat
                        /\ applied[m] <= applied'[m]
    BY <1>1, NodeFacts
  <1>3. \A d : Sent(d)' <=> Sent(d)
    BY DEF Sent, Among
  <1>4. Recorded'
    <2> SUFFICES ASSUME NEW m \in Node
                 PROVE  /\ \A d \in outbox'[m] : d <= applied'[m]
                        /\ \A d \in Delta : d <= applied'[m] =>
                             d \in outbox'[m] \/ Sent(d)'
      BY DEF Recorded
    <2>1. /\ \A d \in outbox[m] : d <= applied[m]
          /\ \A d \in Delta : d <= applied[m] => d \in outbox[m] \/ Sent(d)
      BY DEF SourceInv, Recorded
    <2>2. \A d \in Delta : d \in Nat
      BY DeltaTypes
    <2>3. outbox[m] \subseteq Delta
      BY NodeFacts
    <2>4. CASE m # n
      BY <1>1, <1>3, <2>1, <2>4
    <2>5. CASE m = n
      <3>1. \A d \in outbox[n] \cup {applied[n] + 1} : d <= applied[n] + 1
        BY <1>2, <2>1, <2>2, <2>3, <2>5
      <3>2. \A d \in Delta : d <= applied[n] + 1 => d <= applied[n] \/ d = applied[n] + 1
        BY <1>2, <2>2
      <3> QED
        BY <1>1, <1>3, <2>1, <2>5, <3>1, <3>2
    <2> QED
      BY <2>4, <2>5
  <1>5. Batches'
    <2> SUFFICES ASSUME NEW m \in Node
                 PROVE  /\ \A i \in 1..Len(batch[m]) :
                             /\ batch[m][i] <= applied'[m]
                             /\ \A d \in Delta : d < batch[m][i] =>
                                  \/ Sent(d)'
                                  \/ \E j \in 1..Len(batch[m]) :
                                       j < i /\ batch[m][j] = d
                        /\ sent[m] => /\ batch[m] # <<>>
                                      /\ \A d : d = batch[m][1] => Sent(d)'
      BY DEF Batches, Sent, Among
    <2>1. /\ \A i \in 1..Len(batch[m]) :
               /\ batch[m][i] <= applied[m]
               /\ \A d \in Delta : d < batch[m][i] =>
                    \/ Sent(d)
                    \/ \E j \in 1..Len(batch[m]) : j < i /\ batch[m][j] = d
          /\ sent[m] => batch[m] # <<>> /\ Sent(batch[m][1])
      BY DEF SourceInv, Batches
    <2>2. \A i \in 1..Len(batch[m]) : batch[m][i] \in Nat
      BY BatchFacts, DeltaTypes
    <2>3. \A i \in 1..Len(batch[m]) : batch[m][i] <= applied'[m]
      BY <1>2, <2>1, <2>2
    <2> QED
      BY <1>3, <2>1, <2>3
  <1>6. StreamInOrder'
    BY DEF SourceInv, StreamInOrder, Among
  <1> QED
    BY <1>4, <1>5, <1>6 DEF SourceInv

LEMMA LoadStep ==
  ASSUME Types, SourceInv, NEW n \in Node, Load(n)
  PROVE  SourceInv'
  <1>1. UNCHANGED <<applied, outbox, sent, stream>>
    BY DEF Load, source
  <1>2. PICK s \in Seq(Delta) :
           /\ batch' = [batch EXCEPT ![n] = s]
           /\ \A i \in 1..Len(s) : s[i] \in outbox[n]
           /\ \A d \in outbox[n] : \E i \in 1..Len(s) : s[i] = d
           /\ \A i, j \in 1..Len(s) : i < j => s[i] < s[j]
    BY LoadEffect
  <1>3. batch'[n] = s /\ \A m \in Node : m # n => batch'[m] = batch[m]
    BY <1>2 DEF Types
  <1>4. \A d : Sent(d)' <=> Sent(d)
    BY <1>1 DEF Sent, Among
  <1>5. Recorded'
    BY <1>1, <1>4 DEF SourceInv, Recorded
  <1>6. StreamInOrder'
    BY <1>1 DEF SourceInv, StreamInOrder, Among
  <1>7. Batches'
    <2> SUFFICES ASSUME NEW m \in Node
                 PROVE  /\ \A i \in 1..Len(batch'[m]) :
                             /\ batch'[m][i] <= applied[m]
                             /\ \A d \in Delta : d < batch'[m][i] =>
                                  \/ Sent(d)
                                  \/ \E j \in 1..Len(batch'[m]) :
                                       j < i /\ batch'[m][j] = d
                        /\ sent[m] => batch'[m] # <<>> /\ Sent(batch'[m][1])
      BY <1>1 DEF Batches, Sent, Among
    <2>1. CASE m # n
      BY <1>3, <2>1 DEF SourceInv, Batches
    <2>2. CASE m = n
      <3>1. /\ \A d \in outbox[n] : d <= applied[n]
            /\ \A d \in Delta : d <= applied[n] => d \in outbox[n] \/ Sent(d)
        BY DEF SourceInv, Recorded
      <3>2. ~sent[n]
        BY DEF Load, SourceInv, Batches
      <3>3. applied[n] \in Nat /\ \A d \in Delta : d \in Nat
        BY NodeFacts, DeltaTypes
      <3>4. ASSUME NEW i \in 1..Len(s), NEW d \in Delta, d < s[i], ~Sent(d)
            PROVE  \E j \in 1..Len(s) : j < i /\ s[j] = d
        <4>1. s[i] \in Delta /\ s[i] \in outbox[n] /\ Len(s) \in Nat
          BY <1>2, SeqFacts
        <4>2. d <= applied[n]
          BY <3>1, <3>3, <3>4, <4>1
        <4>3. PICK j \in 1..Len(s) : s[j] = d
          BY <1>2, <3>1, <3>4, <4>2
        <4>4. ~(i < j) /\ i # j
          <5>1. PICK x : x = s[i]
            OBVIOUS
          <5>2. x \in Nat /\ d \in Nat /\ d < x
            BY <3>3, <3>4, <4>1, <5>1
          <5>3. ~(x < d) /\ x # d
            BY <5>2
          <5>4. i < j => x < d
            BY <1>2, <4>3, <5>1
          <5> QED
            BY <4>3, <5>1, <5>3, <5>4
        <4> QED
          BY <4>1, <4>3, <4>4
      <3>5. \A i \in 1..Len(s) : s[i] <= applied[n]
        BY <1>2, <3>1
      <3> QED
        BY <1>3, <2>2, <3>2, <3>4, <3>5
    <2> QED
      BY <2>1, <2>2
  <1> QED
    BY <1>5, <1>6, <1>7 DEF SourceInv

\* A publication, acknowledged (ok) or not, of the first record of a batch.
LEMMA PublishStep ==
  ASSUME Types, SourceInv, NEW n \in Node, batch[n] # <<>>,
         stream' = Append(stream, Head(batch[n])), UNCHANGED <<applied, outbox>>,
         \/ batch' = batch /\ sent' = [sent EXCEPT ![n] = TRUE]
         \/ batch' = [batch EXCEPT ![n] = <<>>] /\ ~sent[n] /\ sent' = sent
  PROVE  SourceInv'
  <1>1. /\ Grows /\ Len(stream') = Len(stream) + 1
        /\ stream'[Len(stream')] = batch[n][1] /\ batch[n][1] \in Delta
        /\ \A d : d = batch[n][1] => Sent(d)'
    BY PublishEffect
  <1>2. Len(stream) \in Nat
    BY StreamFacts
  <1>3. Recorded'
    <2>1. \A d : Sent(d) => Sent(d)'
      BY <1>1, SentStays
    <2> QED
      BY <2>1 DEF SourceInv, Recorded
  <1>4. StreamInOrder'
    <2> SUFFICES ASSUME NEW i \in 1..Len(stream'), NEW d \in Delta, d < stream'[i]
                 PROVE  \E j \in 1..Len(stream') : j <= i - 1 /\ stream'[j] = d
      BY DEF StreamInOrder, Among
    <2>1. CASE i <= Len(stream)
      <3>1. i \in 1..Len(stream) /\ stream'[i] = stream[i]
        BY <1>1, <1>2, <2>1 DEF Grows
      <3>2. PICK j \in 1..Len(stream) : j <= i - 1 /\ stream[j] = d
        BY <3>1 DEF SourceInv, StreamInOrder, Among
      <3> QED
        BY <1>1, <1>2, <3>2 DEF Grows
    <2>2. CASE ~(i <= Len(stream))
      <3>1. i = Len(stream') /\ stream'[i] = batch[n][1] /\ i - 1 = Len(stream)
        BY <1>1, <1>2, <2>2
      <3>2. Sent(d)
        <4>1. 1 \in 1..Len(batch[n])
          BY BatchFacts
        <4>2. Sent(d) \/ \E j \in 1..Len(batch[n]) : j < 1 /\ batch[n][j] = d
          BY <3>1, <4>1 DEF SourceInv, Batches
        <4> QED
          BY <4>2, BatchFacts
      <3>3. PICK j \in 1..Len(stream) : stream[j] = d
        BY <3>2 DEF Sent, Among
      <3> QED
        BY <1>1, <1>2, <3>1, <3>3 DEF Grows
    <2> QED
      BY <2>1, <2>2
  <1>5. Batches'
    <2>1. \A d : Sent(d) => Sent(d)'
      BY <1>1, SentStays
    <2> SUFFICES ASSUME NEW m \in Node
                 PROVE  /\ \A i \in 1..Len(batch'[m]) :
                             /\ batch'[m][i] <= applied[m]
                             /\ \A d \in Delta : d < batch'[m][i] =>
                                  \/ Sent(d)'
                                  \/ \E j \in 1..Len(batch'[m]) :
                                       j < i /\ batch'[m][j] = d
                        /\ sent'[m] => /\ batch'[m] # <<>>
                                       /\ \A d : d = batch'[m][1] => Sent(d)'
      BY DEF Batches, Sent, Among
    <2>2. /\ \A i \in 1..Len(batch[m]) :
               /\ batch[m][i] <= applied[m]
               /\ \A d \in Delta : d < batch[m][i] =>
                    \/ Sent(d)'
                    \/ \E j \in 1..Len(batch[m]) : j < i /\ batch[m][j] = d
          /\ sent[m] => /\ batch[m] # <<>>
                        /\ \A d : d = batch[m][1] => Sent(d)'
      BY <2>1 DEF SourceInv, Batches
    <2>3. CASE batch' = batch /\ sent' = [sent EXCEPT ![n] = TRUE]
      <3>1. sent'[m] => sent[m] \/ m = n
        BY <2>3 DEF Types
      <3> QED
        BY <1>1, <2>2, <2>3, <3>1
    <2>4. CASE batch' = [batch EXCEPT ![n] = <<>>] /\ ~sent[n] /\ sent' = sent
      <3>1. batch'[m] = IF m = n THEN <<>> ELSE batch[m]
        BY <2>4 DEF Types
      <3> QED
        BY <2>2, <2>4, <3>1
    <2> QED
      BY <2>3, <2>4
  <1> QED
    BY <1>3, <1>4, <1>5 DEF SourceInv

LEMMA ClearStep ==
  ASSUME Types, SourceInv, NEW n \in Node, Clear(n)
  PROVE  SourceInv'
  <1>1. sent[n] /\ batch[n] # <<>> /\ Sent(batch[n][1])
    BY DEF Clear, SourceInv, Batches
  <1>2. PICK b, h, u : b = batch[n] /\ h = b[1] /\ u = Tail(b)
    OBVIOUS
  <1>3. /\ Head(b) = h /\ Len(b) \in Nat /\ Len(b) >= 1
        /\ Len(u) = Len(b) - 1 /\ \A i \in 1..Len(u) : u[i] = b[i + 1]
    BY <1>1, <1>2, BatchFacts
  <1>4. /\ outbox'[n] = outbox[n] \ {h} /\ batch'[n] = u /\ ~sent'[n]
        /\ \A m \in Node : m # n =>
             outbox'[m] = outbox[m] /\ batch'[m] = batch[m] /\ sent'[m] = sent[m]
        /\ UNCHANGED <<applied, stream>>
    BY <1>2, <1>3 DEF Clear, Types
  <1>5. \A d : Sent(d)' <=> Sent(d)
    BY <1>4 DEF Sent, Among
  <1>6. Recorded'
    <2> SUFFICES ASSUME NEW m \in Node
                 PROVE  /\ \A d \in outbox'[m] : d <= applied[m]
                        /\ \A d \in Delta : d <= applied[m] =>
                             d \in outbox'[m] \/ Sent(d)
      BY <1>4, <1>5 DEF Recorded
    <2>1. /\ \A d \in outbox[m] : d <= applied[m]
          /\ \A d \in Delta : d <= applied[m] => d \in outbox[m] \/ Sent(d)
      BY DEF SourceInv, Recorded
    <2>2. Sent(h)
      BY <1>1, <1>2
    <2> QED
      BY <1>4, <2>1, <2>2
  <1>7. StreamInOrder'
    BY <1>4 DEF SourceInv, StreamInOrder, Among
  <1>8. Batches'
    <2> SUFFICES ASSUME NEW m \in Node
                 PROVE  /\ \A i \in 1..Len(batch'[m]) :
                             /\ batch'[m][i] <= applied[m]
                             /\ \A d \in Delta : d < batch'[m][i] =>
                                  \/ Sent(d)
                                  \/ \E j \in 1..Len(batch'[m]) :
                                       j < i /\ batch'[m][j] = d
                        /\ sent'[m] => batch'[m] # <<>> /\ Sent(batch'[m][1])
      BY <1>4 DEF Batches, Sent, Among
    <2>1. CASE m # n
      BY <1>4, <2>1 DEF SourceInv, Batches
    <2>2. CASE m = n
      <3>1. \A i \in 1..Len(b) :
               /\ b[i] <= applied[n]
               /\ \A d \in Delta : d < b[i] =>
                    Sent(d) \/ \E j \in 1..Len(b) : j < i /\ b[j] = d
        BY <1>2 DEF SourceInv, Batches
      <3>2. Sent(h)
        BY <1>1, <1>2
      <3>3. ASSUME NEW i \in 1..Len(u)
            PROVE  /\ u[i] <= applied[n]
                   /\ \A d \in Delta : d < u[i] =>
                        Sent(d) \/ \E j \in 1..Len(u) : j < i /\ u[j] = d
        <4>1. i + 1 \in 1..Len(b) /\ u[i] = b[i + 1]
          BY <1>3
        <4>2. ASSUME NEW d \in Delta, d < u[i], ~Sent(d)
              PROVE  \E j \in 1..Len(u) : j < i /\ u[j] = d
          <5>1. PICK j \in 1..Len(b) : j < i + 1 /\ b[j] = d
            BY <3>1, <4>1, <4>2
          <5>2. j # 1
            BY <1>2, <3>2, <4>2, <5>1
          <5>3. j - 1 \in 1..Len(u) /\ j - 1 < i /\ u[j - 1] = b[(j - 1) + 1]
            BY <1>3, <5>1, <5>2
          <5>4. (j - 1) + 1 = j
            BY <5>1
          <5> QED
            BY <5>1, <5>3, <5>4
        <4> QED
          BY <3>1, <4>1, <4>2
      <3> QED
        BY <1>4, <2>2, <3>3
    <2> QED
      BY <2>1, <2>2
  <1> QED
    BY <1>6, <1>7, <1>8 DEF SourceInv

LEMMA SourceFrame ==
  ASSUME SourceInv, UNCHANGED <<applied, outbox, batch, sent, stream>>
  PROVE  SourceInv'
  BY DEF SourceInv, Recorded, Batches, StreamInOrder, Sent, Among

LEMMA SourceStep ==
  ASSUME Types, SourceInv, Next
  PROVE  SourceInv'
  <1>1. ASSUME NEW n \in Node, Commit(n) \/ Apply(n) PROVE SourceInv'
    <2>1. applied' = [applied EXCEPT ![n] = applied[n] + 1]
      BY <1>1 DEF Commit, Apply, Ready
    <2>2. outbox' = [outbox EXCEPT ![n] = @ \cup {applied[n] + 1}]
      BY <1>1 DEF Commit, Apply, Ready
    <2> QED
      BY <1>1, <2>1, <2>2, RecordStep DEF Commit, Apply, task
  <1>2. ASSUME NEW n \in Node, Publish(n) PROVE SourceInv'
    BY <1>2, PublishStep DEF Publish, source
  <1>3. ASSUME NEW n \in Node, NEW stored \in BOOLEAN, PublishFails(n, stored)
        PROVE  SourceInv'
    <2>1. CASE stored
      BY <1>3, <2>1, PublishStep DEF PublishFails, source
    <2>2. CASE ~stored
      <3>1. /\ batch' = [batch EXCEPT ![n] = <<>>] /\ ~sent[n]
            /\ UNCHANGED <<applied, outbox, sent, stream>>
        BY <1>3, <2>2 DEF PublishFails, source
      <3>2. \A m \in Node : batch'[m] = IF m = n THEN <<>> ELSE batch[m]
        BY <3>1 DEF Types
      <3>3. Batches'
        BY <3>1, <3>2 DEF SourceInv, Batches, Sent, Among
      <3> QED
        BY <3>1, <3>3 DEF SourceInv, Recorded, StreamInOrder, Sent, Among
    <2> QED
      BY <2>1, <2>2
  <1>4. ASSUME Trim \/ Subscribe \/ Deliver \/ Refuse \/ WriteDocuments
               \/ PublishDelta \/ Ack \/ AckFails \/ Crash
        PROVE  SourceInv'
    BY <1>4, SourceFrame
    DEF Trim, Subscribe, Deliver, Refuse, WriteDocuments, PublishDelta, Ack,
        AckFails, Crash, source, task
  <1>5. ASSUME NEW n \in Node, Failover(n) PROVE SourceInv'
    BY <1>5, SourceFrame DEF Failover, task
  <1> QED
    BY <1>1, <1>2, <1>3, <1>4, <1>5, LoadStep, ClearStep DEF Next

----------------------------------------------------------------------------
(* Preservation: the consumer. *)

\* The stream grows and the consumer does nothing.
LEMMA SinkGrows ==
  ASSUME Types, SinkInv, Grows, UNCHANGED <<trimmed, sink>>
  PROVE  SinkInv'
  <1> SUFFICES ASSUME trimmed = 0
               PROVE  Position' /\ Remembered' /\ Written'
    BY DEF SinkInv
  <1>1. Position /\ Remembered /\ Written
    BY DEF SinkInv
  <1>2. UNCHANGED <<consumer, memory, durable, document, seen>>
    BY DEF sink
  <1>3. Position'
    BY <1>1, <1>2 DEF Position
  <1>4. /\ consumer.floor \in Nat /\ consumer.floor <= Len(stream)
        /\ consumer.state \in {"queued", "written", "applied"} =>
             consumer.at \in 1..Len(stream)
        /\ durable.messages \subseteq 1..Len(stream) /\ Len(stream) \in Nat
    BY ConsumerFacts
  <1>5. consumer.state \in {"queued", "written", "applied"} =>
          stream'[consumer.at] = stream[consumer.at]
    BY <1>4 DEF Grows
  <1>6. \A m \in durable.messages : stream'[m] = stream[m]
    BY <1>4 DEF Grows
  <1>7. \A j \in 1..Len(stream') : j <= consumer.floor =>
          j \in 1..Len(stream) /\ stream'[j] = stream[j]
    BY <1>4 DEF Grows
  <1>8. Remembered'
    <2>1. /\ consumer.state \notin {"queued", "written"} => memory = durable
          /\ consumer.state \in {"queued", "written"} =>
               /\ memory.origins = durable.origins \cup {stream[consumer.at]}
               /\ stream[consumer.at] \notin durable.origins
               /\ memory.messages = durable.messages \cup {consumer.at}
          /\ \A j \in 1..Len(stream) :
               j <= consumer.floor => stream[j] \in durable.origins
          /\ \A m \in durable.messages : stream[m] \in durable.origins
          /\ consumer.state = "applied" => stream[consumer.at] \in durable.origins
      BY <1>1 DEF Remembered
    <2>2. \A j \in 1..Len(stream') :
            j <= consumer.floor => stream'[j] \in durable.origins
      BY <1>7, <2>1
    <2>3. \A m \in durable.messages : stream'[m] \in durable.origins
      BY <1>6, <2>1
    <2>4. /\ consumer.state \in {"queued", "written"} =>
               /\ memory.origins = durable.origins \cup {stream'[consumer.at]}
               /\ stream'[consumer.at] \notin durable.origins
          /\ consumer.state = "applied" => stream'[consumer.at] \in durable.origins
      BY <1>5, <2>1
    <2> QED
      BY <1>2, <2>1, <2>2, <2>3, <2>4 DEF Remembered
  <1>9. Written'
    <2>1. \A d \in seen : Among(d, consumer.floor + 1)
      BY <1>1 DEF Written
    <2>2. ASSUME NEW d \in seen
          PROVE  \E j \in 1..Len(stream') : j <= consumer.floor + 1 /\ stream'[j] = d
      <3>1. PICK j \in 1..Len(stream) : j <= consumer.floor + 1 /\ stream[j] = d
        BY <2>1 DEF Among
      <3> QED
        BY <3>1, <1>4 DEF Grows
    <2>3. \A d \in seen : Among(d, consumer.floor + 1)'
      BY <1>2, <2>2 DEF Among
    <2> QED
      BY <1>1, <1>2, <1>5, <2>3 DEF Written
  <1> QED
    BY <1>3, <1>8, <1>9

\* A message that is not recognised carries nothing older than what was applied.
LEMMA NewerThanApplied ==
  ASSUME Types, SourceInv, Position, Remembered, Written,
         consumer.state = "queued", NEW d \in seen
  PROVE  d <= stream[consumer.at]
  <1>1. PICK j \in 1..Len(stream) : j <= consumer.floor + 1 /\ stream[j] = d
    BY DEF Written, Among
  <1>2. PICK k, x : k = consumer.at /\ x = stream[k]
    OBVIOUS
  <1>3. /\ k = consumer.floor + 1 /\ k \in 1..Len(stream) /\ x \in Delta
        /\ x \notin durable.origins
        /\ \A i \in 1..Len(stream) : i <= consumer.floor =>
             stream[i] \in durable.origins
    BY <1>2, ConsumerFacts DEF Position, Remembered
  <1>4. /\ d \in Delta /\ d \in Nat /\ x \in Nat /\ Len(stream) \in Nat
        /\ consumer.floor \in Nat
    BY <1>1, <1>3, StreamFacts, DeltaTypes, ConsumerFacts
  <1>5. ~(x < d)
    <2> SUFFICES ASSUME x < d PROVE FALSE
      OBVIOUS
    <2>1. Among(x, j - 1)
      BY <1>1, <1>3 DEF SourceInv, StreamInOrder
    <2>2. PICK i \in 1..Len(stream) : i <= j - 1 /\ stream[i] = x
      BY <2>1 DEF Among
    <2>3. i <= consumer.floor
      BY <1>1, <1>4, <2>2
    <2> QED
      BY <1>3, <2>2, <2>3
  <1> QED
    BY <1>2, <1>4, <1>5

\* The consumer changes state without any effect: what was at work is
\* forgotten, or was remembered already.
LEMMA SinkMoves ==
  ASSUME Types, SinkInv, UNCHANGED <<trimmed, stream, durable, document, seen>>,
         consumer'.floor = consumer.floor,
         consumer'.state \notin {"queued", "written", "applied"},
         memory' = durable
  PROVE  SinkInv'
  BY DEF SinkInv, Position, Remembered, Written, Among

LEMMA DeliverStep ==
  ASSUME Types, SinkInv, MaxCommits <= Window, Deliver
  PROVE  SinkInv'
  <1> SUFFICES ASSUME trimmed = 0
               PROVE  Position' /\ Remembered' /\ Written'
    BY DEF SinkInv, Deliver
  <1>1. UNCHANGED <<stream, durable, document, seen>>
    BY DEF Deliver
  <1>2. Remembered /\ Written
    BY DEF SinkInv
  <1>3. PICK k, x : k = consumer'.at /\ x = stream[k]
    OBVIOUS
  <1>4. /\ consumer.state = "waiting"
        /\ consumer'.floor = consumer.floor
        /\ k \in 1..Len(stream) /\ k = consumer.floor + 1
        /\ \/ /\ consumer'.state = "applied" /\ memory' = memory
              /\ k \in memory.messages \/ x \in memory.origins
           \/ /\ consumer'.state = "queued"
              /\ x \notin memory.origins
              /\ memory'.origins = memory.origins \cup {x}
              /\ memory'.messages = memory.messages \cup {k}
    BY <1>3, DeliverEffect
  <1>5. Position'
    BY <1>3, <1>4 DEF Position
  <1>6. memory = durable /\ \A m \in durable.messages : stream[m] \in durable.origins
    BY <1>2, <1>4 DEF Remembered
  <1>7. Remembered'
    <2>1. CASE consumer'.state = "applied"
      <3>1. memory' = memory /\ x \in durable.origins
        BY <1>3, <1>4, <1>6, <2>1
      <3> QED
        BY <1>1, <1>2, <1>3, <1>4, <1>6, <2>1, <3>1 DEF Remembered
    <2>2. CASE consumer'.state = "queued"
      BY <1>1, <1>2, <1>3, <1>4, <1>6, <2>2 DEF Remembered
    <2> QED
      BY <1>4, <2>1, <2>2
  <1>8. Written'
    BY <1>1, <1>2, <1>4 DEF Written, Among
  <1> QED
    BY <1>5, <1>7, <1>8

LEMMA WriteDocumentsStep ==
  ASSUME Types, SourceInv, SinkInv, WriteDocuments
  PROVE  SinkInv'
  <1> SUFFICES ASSUME trimmed = 0
               PROVE  Position' /\ Remembered' /\ Written'
    BY DEF SinkInv, WriteDocuments
  <1>1. Position /\ Remembered /\ Written
    BY DEF SinkInv
  <1>2. PICK k, x : k = consumer.at /\ x = stream[k]
    OBVIOUS
  <1>3. /\ consumer.state = "queued" /\ consumer'.state = "written"
        /\ consumer'.floor = consumer.floor /\ consumer'.at = k
        /\ document' = x /\ seen' = seen \cup {x}
        /\ UNCHANGED <<stream, memory, durable>>
    BY <1>2, NowEffect DEF WriteDocuments, Is
  <1>4. /\ k = consumer.floor + 1 /\ k \in 1..Len(stream) /\ x \in Nat
        /\ consumer.floor \in Nat
    BY <1>1, <1>2, <1>3, ConsumerFacts, DeltaTypes DEF Position
  <1>5. Position'
    BY <1>3, <1>4 DEF Position
  <1>6. Remembered'
    BY <1>1, <1>2, <1>3 DEF Remembered
  <1>7. \A d \in seen : d <= x
    BY <1>1, <1>2, <1>3, NewerThanApplied
  <1>8. Among(x, consumer.floor + 1) /\ \A d \in seen : Among(d, consumer.floor + 1)
    BY <1>1, <1>2, <1>4 DEF Written, Among
  <1>9. x <= x
    BY <1>4
  <1>10. Written'
    <2>1. \A d \in seen' : Among(d, consumer.floor + 1)'
      BY <1>3, <1>8 DEF Among
    <2>2. \A d \in seen' : d <= document'
      BY <1>3, <1>7, <1>9
    <2> QED
      BY <1>1, <1>2, <1>3, <2>1, <2>2 DEF Written, Among
  <1> QED
    BY <1>5, <1>6, <1>10

LEMMA PublishDeltaStep ==
  ASSUME Types, SinkInv, PublishDelta
  PROVE  SinkInv'
  <1> SUFFICES ASSUME trimmed = 0
               PROVE  Position' /\ Remembered' /\ Written'
    BY DEF SinkInv, PublishDelta
  <1>1. Position /\ Remembered /\ Written
    BY DEF SinkInv
  <1>2. PICK k, x : k = consumer.at /\ x = stream[k]
    OBVIOUS
  <1>3. /\ consumer.state = "written" /\ consumer'.state = "applied"
        /\ consumer'.floor = consumer.floor /\ consumer'.at = k
        /\ durable' = memory
        /\ UNCHANGED <<stream, memory, document, seen>>
    BY <1>2, NowEffect DEF PublishDelta, Is
  <1>4. /\ memory.origins = durable.origins \cup {x}
        /\ memory.messages = durable.messages \cup {k}
        /\ \A j \in 1..Len(stream) :
             j <= consumer.floor => stream[j] \in durable.origins
        /\ \A m \in durable.messages : stream[m] \in durable.origins
        /\ durable.origins \subseteq seen /\ x \in seen
    BY <1>1, <1>2, <1>3 DEF Remembered, Written
  <1>5. Position'
    BY <1>1, <1>2, <1>3 DEF Position
  <1>6. Remembered'
    BY <1>2, <1>3, <1>4 DEF Remembered
  <1>7. Written'
    BY <1>1, <1>3, <1>4 DEF Written, Among
  <1> QED
    BY <1>5, <1>6, <1>7

LEMMA AckStep ==
  ASSUME Types, SinkInv, Ack
  PROVE  SinkInv'
  <1> SUFFICES ASSUME trimmed = 0
               PROVE  Position' /\ Remembered' /\ Written'
    BY DEF SinkInv, Ack
  <1>1. Position /\ Remembered /\ Written
    BY DEF SinkInv
  <1>2. PICK k : k = consumer.at
    OBVIOUS
  <1>3. /\ consumer.state = "applied" /\ consumer'.state = "waiting"
        /\ consumer'.floor = k
        /\ UNCHANGED <<stream, memory, durable, document, seen>>
    BY <1>2 DEF Ack, Is, Types, ConsumerState
  <1>4. /\ k = consumer.floor + 1 /\ consumer.floor \in Nat
        /\ stream[k] \in durable.origins /\ Len(stream) \in Nat
        /\ \A j \in 1..Len(stream) :
             j <= consumer.floor => stream[j] \in durable.origins
    BY <1>1, <1>2, <1>3, ConsumerFacts DEF Position, Remembered
  <1>5. \A j \in 1..Len(stream) : j <= k => stream[j] \in durable.origins
    <2>1. \A j \in 1..Len(stream) : j <= k => j <= consumer.floor \/ j = k
      BY <1>4
    <2> QED
      BY <1>4, <2>1
  <1>6. Position'
    BY <1>3 DEF Position
  <1>7. Remembered'
    BY <1>1, <1>3, <1>5 DEF Remembered
  <1>8. \A d \in seen : Among(d, k + 1)
    <2> SUFFICES ASSUME NEW d \in seen
                 PROVE  \E j \in 1..Len(stream) : j <= k + 1 /\ stream[j] = d
      BY DEF Among
    <2>1. PICK j \in 1..Len(stream) : j <= consumer.floor + 1 /\ stream[j] = d
      BY <1>1 DEF Written, Among
    <2> QED
      BY <1>4, <2>1
  <1>9. Written'
    BY <1>1, <1>3, <1>8 DEF Written, Among
  <1> QED
    BY <1>6, <1>7, <1>9

LEMMA SinkStep ==
  ASSUME Types, SourceInv, SinkInv, MaxCommits <= Window, Next
  PROVE  SinkInv'
  <1>1. ASSUME NEW n \in Node,
               Commit(n) \/ Apply(n) \/ Failover(n) \/ Load(n) \/ Clear(n)
        PROVE  SinkInv'
    BY <1>1, SinkGrows, StreamStays DEF Commit, Apply, Failover, Load, Clear
  <1>2. ASSUME NEW n \in Node, Publish(n) PROVE SinkInv'
    BY <1>2, SinkGrows, PublishEffect DEF Publish
  <1>3. ASSUME NEW n \in Node, NEW stored \in BOOLEAN, PublishFails(n, stored)
        PROVE  SinkInv'
    <2>1. UNCHANGED <<trimmed, sink>>
      BY <1>3 DEF PublishFails
    <2>2. Grows
      BY <1>3, PublishEffect, StreamStays DEF PublishFails
    <2> QED
      BY <2>1, <2>2, SinkGrows
  <1>4. ASSUME Trim PROVE SinkInv'
    <2>1. trimmed' = trimmed + 1 /\ trimmed \in Nat
      BY <1>4, StreamFacts DEF Trim
    <2>2. trimmed' # 0
      BY <2>1
    <2> QED
      BY <2>2 DEF SinkInv
  <1>5. ASSUME trimmed = 0, consumer.state \notin {"queued", "written"}
        PROVE  memory = durable
    BY <1>5 DEF SinkInv, Remembered
  <1>6. ASSUME trimmed' # 0 PROVE SinkInv'
    BY <1>6 DEF SinkInv
  <1>7. ASSUME Subscribe PROVE SinkInv'
    <2>1. /\ consumer.state = "off" /\ consumer'.floor = consumer.floor
          /\ consumer'.state \in {"poisoned", "waiting"}
          /\ UNCHANGED <<trimmed, stream, memory, durable, document, seen>>
      BY <1>7, NowEffect DEF Subscribe, Is
    <2> QED
      BY <1>5, <1>6, <2>1, SinkMoves
  <1>8. ASSUME Refuse \/ AckFails PROVE SinkInv'
    <2>1. /\ consumer.state \in {"waiting", "applied"}
          /\ consumer'.floor = consumer.floor /\ consumer'.state = "off"
          /\ UNCHANGED <<trimmed, stream, memory, durable, document, seen>>
      BY <1>8, NowEffect DEF Refuse, AckFails, Is
    <2> QED
      BY <1>5, <1>6, <2>1, SinkMoves
  <1>9. ASSUME Crash PROVE SinkInv'
    BY <1>9, NowEffect, SinkMoves DEF Crash
  <1> QED
    BY <1>1, <1>2, <1>3, <1>4, <1>7, <1>8, <1>9, DeliverStep, WriteDocumentsStep,
       PublishDeltaStep, AckStep DEF Next

----------------------------------------------------------------------------
(* The theorems. *)

LEMMA StreamInit == Init => StreamInv
  <1> SUFFICES ASSUME Init PROVE StreamInv
    OBVIOUS
  <1>1. Types
    BY DeltaStreamAssumption DEF Init, Types, Ids, NoIds, ConsumerState
  <1>2. SourceInv
    <2>1. Recorded
      BY DeltaTypes DEF Init, Recorded
    <2> QED
      BY <2>1 DEF Init, SourceInv, Batches, StreamInOrder
  <1>3. SinkInv
    BY DEF Init, SinkInv, Position, Remembered, Written, NoIds
  <1> QED
    BY <1>1, <1>2, <1>3 DEF StreamInv

LEMMA StreamStep ==
  ASSUME MaxCommits <= Window
  PROVE  StreamInv /\ [Next]_vars => StreamInv'
  <1>1. ASSUME StreamInv, Next PROVE StreamInv'
    BY <1>1, TypesStep, SourceStep, SinkStep DEF StreamInv
  <1>2. ASSUME StreamInv, UNCHANGED vars PROVE StreamInv'
    BY <1>2 DEF StreamInv, Types, SourceInv, Recorded, Batches, StreamInOrder,
                SinkInv, Position, Remembered, Written, Sent, Among,
                vars, source, task, sink
  <1> QED
    BY <1>1, <1>2

\* Whoever publishes, fails over or crashes, the deltas of a partition enter
\* the stream in order (replay_raft_nats_outbox_once), and what the consumer
\* acknowledged is remembered across a restart (AppliedDataDeltaIds), as long
\* as the partition makes no more commits than a consumer remembers.
THEOREM StreamInvariantHolds ==
  ASSUME MaxCommits <= Window
  PROVE  Spec => []StreamInv
  <1>1. Init => StreamInv
    BY StreamInit
  <1>2. StreamInv /\ [Next]_vars => StreamInv'
    BY StreamStep
  <1> QED
    BY <1>1, <1>2, PTL DEF Spec

\* While the stream drops nothing an old delta never overwrites a newer one,
\* however often failovers, lost acknowledgements and restarts make deltas come
\* again (apply_replica_delta).
THEOREM NewestWinsHolds ==
  ASSUME MaxCommits <= Window
  PROVE  Spec => []NewestWins
  <1>1. StreamInv => NewestWins
    <2> SUFFICES ASSUME StreamInv, trimmed = 0
                 PROVE  document = Max(seen \cup {0})
      BY DEF NewestWins
    <2>1. PICK D, S : D = document /\ S = seen \cup {0}
      OBVIOUS
    <2>2. D \in S /\ D \in Nat /\ S \subseteq Nat /\ \A d \in S : D >= d
      BY <2>1, DeltaTypes DEF StreamInv, SinkInv, Written, Types
    <2>3. PICK x : x = Max(S)
      OBVIOUS
    <2>4. x \in S /\ \A d \in S : x >= d
      BY <2>2, <2>3 DEF Max
    <2>5. x \in Nat /\ x >= D /\ D >= x
      BY <2>2, <2>4
    <2> QED
      BY <2>1, <2>2, <2>3, <2>5
  <1>2. Spec => []StreamInv
    BY StreamInvariantHolds
  <1> QED
    BY <1>1, <1>2, PTL

\* While the stream drops nothing no delta is missing below one that was
\* applied: a promoted follower publishes whatever its predecessor may not have,
\* and in order (replay_raft_nats_outbox_once).
THEOREM NoGapHolds ==
  ASSUME MaxCommits <= Window
  PROVE  Spec => []NoGap
  <1>1. StreamInv => NoGap
    <2> SUFFICES ASSUME StreamInv, trimmed = 0
                 PROVE  seen = 1..Max(seen \cup {0})
      BY DEF NoGap
    <2>1. PICK x : x = Max(seen \cup {0})
      OBVIOUS
    <2>2. seen \subseteq Delta /\ \A d \in seen : d \in Nat /\ d >= 1
      BY DeltaTypes DEF StreamInv, Types
    <2>3. x \in seen \cup {0} /\ \A d \in seen : x >= d
      <3>1. PICK D, S : D = document /\ S = seen \cup {0}
        OBVIOUS
      <3>2. D \in S /\ \A d \in S : D >= d
        BY <2>2, <3>1 DEF StreamInv, SinkInv, Written, Types
      <3>3. x \in S /\ \A d \in S : x >= d
        BY <2>1, <3>1, <3>2 DEF Max
      <3> QED
        BY <3>1, <3>3
    <2>4. ASSUME NEW d \in 1..x PROVE d \in seen
      <3>1. x \in Nat /\ x # 0 /\ x \in seen /\ d \in Nat /\ d >= 1 /\ d <= x
        BY <2>2, <2>3
      <3>2. CASE d = x
        BY <3>1, <3>2
      <3>3. CASE d # x
        <4>1. d < x /\ d \in Delta
          <5>1. x <= MaxCommits /\ MaxCommits \in Nat
            BY <2>2, <3>1, DeltaTypes, Bounds
          <5>2. d < x /\ d <= MaxCommits
            BY <3>1, <3>3, <5>1
          <5> QED
            BY <3>1, <5>2, DeltaTypes
        <4>2. PICK j \in 1..Len(stream) : j <= consumer.floor + 1 /\ stream[j] = x
          BY <3>1 DEF StreamInv, SinkInv, Written, Among
        <4>3. Among(d, j - 1)
          BY <4>1, <4>2 DEF StreamInv, SourceInv, StreamInOrder
        <4>4. PICK i \in 1..Len(stream) : i <= j - 1 /\ stream[i] = d
          BY <4>3 DEF Among
        <4>5. Len(stream) \in Nat /\ consumer.floor \in Nat
          BY StreamFacts, ConsumerFacts DEF StreamInv
        <4>6. i <= consumer.floor
          BY <4>2, <4>4, <4>5
        <4> QED
          BY <4>4, <4>6 DEF StreamInv, SinkInv, Remembered, Written
      <3> QED
        BY <3>2, <3>3
    <2>5. \A d \in seen : d \in 1..x
      <3>1. x \in Nat
        BY <2>2, <2>3
      <3> QED
        BY <2>2, <2>3, <3>1
    <2> QED
      BY <2>1, <2>4, <2>5
  <1>2. Spec => []StreamInv
    BY StreamInvariantHolds
  <1> QED
    BY <1>1, <1>2, PTL
=============================================================================
