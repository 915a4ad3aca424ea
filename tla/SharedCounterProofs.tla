------------------------ MODULE SharedCounterProofs -------------------------
(***************************************************************************)
(* Proofs about the three entries that the nodes share in NATS KV and move *)
(* forward with compare-and-swap.                                          *)
(*                                                                         *)
(* TimestampOracle, for any number of nodes, any batch size and any        *)
(* bounds.  The invariant OracleInv says that the ranges the nodes hold,   *)
(* or are about to install, are pairwise apart, above what their nodes     *)
(* have issued, and below the counter.  The argument is that of the code:  *)
(* a compare-and-swap that succeeds starts its range at the value the      *)
(* counter still has (ReadIsCurrent), which nothing has reached.           *)
(*                                                                         *)
(* CommittedFloor, the floor that such a range lies above, for any         *)
(* processes, commits and failures.  The flag of a process is up exactly   *)
(* while one of its tasks owns it, a task leaves only behind what it has   *)
(* published, and the compare-and-swap only succeeds for a floor that is   *)
(* higher than the entry.                                                  *)
(*                                                                         *)
(* TableNumbers, for any nodes, tables, legacy catalogue and failures.  A  *)
(* number that was given out is below the counter; the next one is at or   *)
(* above the counter and above every legacy number, because the catalogue  *)
(* the node has read holds the legacy tables.                              *)
(***************************************************************************)
EXTENDS TimestampOracleInv, CommittedFloor, TableNumbers, FiniteSetTheorems,
        WellFoundedInduction, TLAPS

----------------------------------------------------------------------------
(* The oracle: type correctness. *)

LEMMA InitType == Init => TypeOK
  BY OracleAssumption DEF Init, TypeOK, BatchState, NewBatch, Task, Idle

LEMMA LargerType == \A a, b \in Nat : Larger(a, b) \in Nat
  BY DEF Larger

LEMMA IssuedType ==
  ASSUME NEW s \in Seq([node : Node, ts : Nat]), NEW n \in Node, NEW ts \in Nat
  PROVE  Append(s, [node |-> n, ts |-> ts]) \in Seq([node : Node, ts : Nat])
  OBVIOUS

LEMMA ElementOfSeq ==
  ASSUME NEW S, NEW s \in Seq(S), NEW i \in 1..Len(s)
  PROVE  s[i] \in S
  OBVIOUS

LEMMA IssuedTs ==
  ASSUME TypeOK, NEW i \in 1..Len(issued)
  PROVE  issued[i] \in [node : Node, ts : Nat]
  BY ElementOfSeq DEF TypeOK

LEMMA BatchUpdate ==
  ASSUME NEW b \in BatchState, NEW c \in Nat
  PROVE  /\ [b EXCEPT !.current = c] \in BatchState
         /\ [b EXCEPT !.maxCommitted = c] \in BatchState
         /\ Reserved(b, c) \in BatchState
  <1>1. [b EXCEPT !.current = c] \in BatchState
    BY DEF BatchState
  <1>2. [b EXCEPT !.maxCommitted = c] \in BatchState
    BY DEF BatchState
  <1>3. c + BatchSize \in Nat
    BY OracleAssumption
  <1>4. Reserved(b, c) \in BatchState
    BY <1>3 DEF BatchState, Reserved
  <1> QED
    BY <1>1, <1>2, <1>4

LEMMA BatchDiscard ==
  ASSUME NEW b \in BatchState, NEW e \in Nat
  PROVE  [b EXCEPT !.current = 0, !.upper = 0, !.refresh = TRUE,
                   !.epoch = e] \in BatchState
  BY DEF BatchState

LEMMA TaskUpdate ==
  ASSUME NEW k \in Task, NEW x \in Nat, NEW y \in Nat
  PROVE  /\ [k EXCEPT !.pc = "refresh", !.seen = x] \in Task
         /\ [k EXCEPT !.pc = "counter", !.seen = 0, !.low = x,
                      !.epoch = y] \in Task
         /\ [k EXCEPT !.pc = "swap", !.seen = x, !.rev = y] \in Task
         /\ [k EXCEPT !.pc = "counter", !.seen = 0, !.rev = 0] \in Task
         /\ [k EXCEPT !.pc = "install", !.seen = 0, !.rev = 0,
                      !.low = x] \in Task
         /\ [Idle EXCEPT !.pc = "floor", !.min = x] \in Task
         /\ Idle \in Task
  BY DEF Task, Idle

LEMMA NodeType ==
  ASSUME TypeOK, NEW n \in Node, NodeNext(n)
  PROVE  TypeOK'
  <1> USE DEF TypeOK
  <1>a. batch[n] \in BatchState /\ task[n] \in Task
    OBVIOUS
  <1>b. /\ batch[n].maxCommitted \in Nat /\ batch[n].current \in Nat
        /\ batch[n].epoch \in Nat
        /\ task[n].min \in Nat /\ task[n].seen \in Nat /\ task[n].low \in Nat
    BY <1>a DEF BatchState, Task
  <1>c. LowerBound(n) \in Nat
    BY <1>b DEF LowerBound, Larger
  <1>1. ASSUME NEW min \in Floors, Assign(n, min) PROVE TypeOK'
    <2> DEFINE ts == Candidate(batch[n], MinNext(min, batch[n].maxCommitted))
    <2>1. ts \in Nat
      BY <1>b, OracleAssumption DEF Candidate, MinNext, Larger
    <2>2. /\ batch' = [batch EXCEPT ![n] = [@ EXCEPT !.current = ts + 1]]
          /\ issued' = Append(issued, [node |-> n, ts |-> ts])
          /\ UNCHANGED <<kvVars, task, hist>>
      BY <1>1 DEF Assign
    <2> HIDE DEF ts
    <2>3. [batch[n] EXCEPT !.current = ts + 1] \in BatchState
      <3>1. ts + 1 \in Nat
        BY <2>1
      <3> QED
        BY <1>a, <3>1, BatchUpdate
    <2>4. issued' \in Seq([node : Node, ts : Nat])
      BY <2>1, <2>2, IssuedType
    <2> QED
      BY <2>2, <2>3, <2>4 DEF kvVars, hist
  <1>2. ASSUME NEW min \in Floors, Begin(n, min) PROVE TypeOK'
    <2>1. min \in Nat
      BY OracleAssumption
    <2>2. [Idle EXCEPT !.pc = "floor", !.min = min] \in Task
      BY <1>a, <2>1, TaskUpdate
    <2> QED
      BY <1>2, <2>2 DEF Begin, kvVars, hist
  <1>3. CASE ReadFloor(n)
    <2>1. [task[n] EXCEPT !.pc = "refresh", !.seen = kvFloor] \in Task
      BY <1>a, TaskUpdate
    <2> QED
      BY <1>3, <2>1 DEF ReadFloor, kvVars, hist
  <1>4. CASE RefreshFloor(n)
    <2> DEFINE b == [batch[n] EXCEPT !.maxCommitted = Larger(@, task[n].seen),
                                     !.refresh = FALSE]
               m == MinNext(task[n].min, b.maxCommitted)
    <2>1. Larger(batch[n].maxCommitted, task[n].seen) \in Nat
      BY <1>b, LargerType
    <2>2. b \in BatchState
      BY <1>a, <2>1 DEF BatchState
    <2>3. b.maxCommitted \in Nat /\ b.epoch \in Nat
      BY <2>2 DEF BatchState
    <2>4. /\ task' = [task EXCEPT ![n] =
               IF Satisfies(b, m) THEN Idle
               ELSE [@ EXCEPT !.pc = "counter", !.seen = 0, !.low = m,
                              !.epoch = b.epoch]]
          /\ batch' = [batch EXCEPT ![n] = b]
          /\ UNCHANGED <<kvVars, issued, hist>>
      BY <1>4 DEF RefreshFloor
    <2> HIDE DEF b
    <2>5. m \in Nat
      BY <1>b, <2>3 DEF MinNext, Larger
    <2> HIDE DEF m
    <2>6. [task[n] EXCEPT !.pc = "counter", !.seen = 0, !.low = m,
                          !.epoch = b.epoch] \in Task
      BY <1>a, <2>3, <2>5, TaskUpdate
    <2>7. Idle \in Task
      BY <1>a, <2>5, TaskUpdate
    <2> QED
      BY <2>2, <2>4, <2>6, <2>7 DEF kvVars, hist
  <1>5. CASE ReadCounter(n)
    <2>1. [task[n] EXCEPT !.pc = "swap", !.seen = counter, !.rev = rev] \in Task
      BY <1>a, TaskUpdate
    <2> QED
      BY <1>5, <2>1 DEF ReadCounter, kvVars, hist
  <1>6. CASE Swap(n)
    <2>1. [task[n] EXCEPT !.pc = "install", !.seen = 0, !.rev = 0,
                          !.low = LowerBound(n)] \in Task
      BY <1>a, <1>c, TaskUpdate
    <2>2. counter' \in Nat /\ rev' \in Nat
      BY <1>6, <1>c, OracleAssumption DEF Swap
    <2> QED
      BY <1>6, <2>1, <2>2 DEF Swap, hist
  <1>7. CASE SwapFails(n)
    <2>1. [task[n] EXCEPT !.pc = "counter", !.seen = 0, !.rev = 0] \in Task
      BY <1>a, <1>c, TaskUpdate
    <2>2. counter' \in Nat /\ rev' \in Nat
      BY <1>7, <1>c, OracleAssumption DEF SwapFails
    <2> QED
      BY <1>7, <2>1, <2>2 DEF SwapFails, hist
  <1>8. CASE Install(n)
    <2>1. /\ Idle \in Task
          /\ [Idle EXCEPT !.pc = "floor", !.min = task[n].min] \in Task
      BY <1>a, <1>b, TaskUpdate
    <2>2. Reserved(batch[n], task[n].low) \in BatchState
      BY <1>a, <1>b, BatchUpdate
    <2> QED
      BY <1>8, <2>1, <2>2 DEF Install, kvVars, hist
  <1>9. CASE ReserveFails(n)
    <2>1. Idle \in Task
      BY <1>a, <1>b, TaskUpdate
    <2> QED
      BY <1>9, <2>1 DEF ReserveFails, kvVars, hist
  <1>10. CASE Observe(n)
    <2>1. PICK i \in 1..Len(issued) :
            /\ batch' = [batch EXCEPT ![n] =
                            [@ EXCEPT !.maxCommitted = issued[i].ts]]
            /\ UNCHANGED <<kvVars, task, issued, hist>>
      BY <1>10 DEF Observe
    <2>2. issued[i].ts \in Nat
      BY IssuedTs
    <2>3. [batch[n] EXCEPT !.maxCommitted = issued[i].ts] \in BatchState
      BY <1>a, <2>2, BatchUpdate
    <2> QED
      BY <2>1, <2>3 DEF kvVars, hist
  <1>11. CASE Discard(n)
    <2>1. Len(issued) \in Nat /\ batch[n].epoch + 1 \in Nat
      BY <1>b
    <2>2. [batch[n] EXCEPT !.current = 0, !.upper = 0, !.refresh = TRUE,
                           !.epoch = batch[n].epoch + 1] \in BatchState
      BY <1>a, <2>1, BatchDiscard
    <2>3. batch' \in [Node -> BatchState]
      BY <1>11, <2>2 DEF Discard
    <2> QED
      BY <1>11, <2>1, <2>3 DEF Discard, NewEpoch, kvVars
  <1>12. CASE Restart(n)
    <2>1. Idle \in Task /\ NewBatch \in BatchState
      BY DEF Idle, Task, NewBatch, BatchState
    <2> QED
      BY <1>12, <2>1 DEF Restart, kvVars
  <1> QED
    BY <1>1, <1>2, <1>3, <1>4, <1>5, <1>6, <1>7, <1>8, <1>9, <1>10, <1>11,
       <1>12 DEF NodeNext

LEMMA PublishType == TypeOK /\ PublishFloor => TypeOK'
  <1> SUFFICES ASSUME TypeOK, PublishFloor PROVE TypeOK'
    OBVIOUS
  <1>1. PICK i \in 1..Len(issued) :
          /\ kvFloor' = issued[i].ts
          /\ UNCHANGED <<counter, rev, batch, task, issued, hist>>
    BY DEF PublishFloor
  <1>2. kvFloor' \in Nat
    BY <1>1, IssuedTs
  <1> QED
    BY <1>1, <1>2 DEF TypeOK, hist

\* Every variable keeps its type, for every number of nodes and all bounds.
THEOREM OracleTypeCorrect == Spec => []TypeOK
  <1>1. TypeOK /\ [Next]_vars => TypeOK'
    <2> SUFFICES ASSUME TypeOK, [Next]_vars PROVE TypeOK'
      OBVIOUS
    <2>1. CASE Next
      BY <2>1, NodeType, PublishType DEF Next
    <2>2. CASE UNCHANGED vars
      BY <2>2 DEF vars, kvVars, hist, TypeOK
    <2> QED
      BY <2>1, <2>2
  <1> QED
    BY InitType, <1>1, PTL DEF Spec

----------------------------------------------------------------------------
(* The oracle: the invariant. *)

\* The types of the fields, one by one.
Fields ==
  /\ \A m \in Node :
       /\ batch[m].current \in Nat /\ batch[m].upper \in Nat
       /\ batch[m].epoch \in Nat /\ batch[m].maxCommitted \in Nat
       /\ task[m].low \in Nat /\ task[m].rev \in Nat
       /\ task[m].seen \in Nat /\ task[m].epoch \in Nat
       /\ task[m].min \in Nat
       /\ mark[m] \in Nat
  /\ Len(issued) \in Nat
  /\ \A i \in 1..Len(issued) :
       issued[i].ts \in Nat /\ issued[i].node \in Node
  /\ counter \in Nat /\ rev \in Nat
  /\ BatchSize \in Nat

LEMMA FieldTypes == TypeOK => Fields
  <1> SUFFICES ASSUME TypeOK PROVE Fields
    OBVIOUS
  <1>1. ASSUME NEW m \in Node
        PROVE  /\ batch[m].current \in Nat /\ batch[m].upper \in Nat
               /\ batch[m].epoch \in Nat /\ batch[m].maxCommitted \in Nat
               /\ task[m].low \in Nat /\ task[m].rev \in Nat
               /\ task[m].seen \in Nat /\ task[m].epoch \in Nat
               /\ task[m].min \in Nat
               /\ mark[m] \in Nat
    <2>1. batch[m] \in BatchState /\ task[m] \in Task /\ mark[m] \in Nat
      BY DEF TypeOK
    <2> QED
      BY <2>1 DEF BatchState, Task
  <1>2. ASSUME NEW i \in 1..Len(issued)
        PROVE  issued[i].ts \in Nat /\ issued[i].node \in Node
    BY IssuedTs
  <1> QED
    BY <1>1, <1>2, OracleAssumption DEF TypeOK, Fields

LEMMA FieldTypesNext == TypeOK' => Fields'
  BY FieldTypes, PTL

\* Steps that neither hand out a timestamp nor touch a range: the counter may
\* grow, with its revision, and a task may move to a place without a range.
LEMMA QuietStep ==
  ASSUME OracleInv, TypeOK', UNCHANGED <<issued, mark>>,
         counter' >= counter, rev' >= rev, rev' = rev => counter' = counter,
         \A m \in Node :
           /\ batch'[m].current = batch[m].current
           /\ batch'[m].upper = batch[m].upper
           /\ batch'[m].epoch = batch[m].epoch
           /\ \/ task'[m] = task[m]
              \/ /\ task'[m].pc # "install"
                 /\ task'[m].epoch <= batch[m].epoch
                 /\ task'[m].pc = "swap" =>
                      task'[m].rev = rev' /\ task'[m].seen = counter'
  PROVE  OracleInv'
  <1>0. TypeOK
    BY DEF OracleInv
  <1> USE <1>0, FieldTypes, FieldTypesNext DEF Fields
  <1>1. CounterAhead'
    <2>1. CounterAhead
      BY DEF OracleInv
    <2>2. ASSUME NEW i \in 1..Len(issued) PROVE issued'[i].ts < counter'
      BY <2>1 DEF CounterAhead
    <2>3. ASSUME NEW m \in Node
          PROVE  /\ batch'[m].upper <= counter'
                 /\ task'[m].pc = "install" =>
                      task'[m].low + BatchSize <= counter'
      <3>1. /\ batch[m].upper <= counter /\ batch[m].upper \in Nat
            /\ task[m].pc = "install" => task[m].low + BatchSize <= counter
        BY <2>1 DEF CounterAhead
      <3>2. task'[m].pc = "install" => task'[m] = task[m]
        OBVIOUS
      <3>3. counter \in Nat /\ counter' \in Nat /\ task[m].low \in Nat
        OBVIOUS
      <3> QED
        BY <3>1, <3>2, <3>3
    <2> QED
      BY <2>2, <2>3 DEF CounterAhead
  <1>2. ReadIsCurrent'
    BY DEF OracleInv, ReadIsCurrent
  <1>3. PendingIsAbove'
    BY DEF OracleInv, PendingIsAbove
  <1>4. RangesApart'
    <2>1. RangesApart
      BY DEF OracleInv
    <2> SUFFICES ASSUME NEW n \in Node, NEW m \in Node, n # m
                 PROVE  /\ Apart(batch[n].current, batch[n].upper,
                                 batch[m].current, batch[m].upper)'
                        /\ task'[n].pc = "install" =>
                             /\ Apart(task[n].low, task[n].low + BatchSize,
                                      batch[m].current, batch[m].upper)'
                             /\ task'[m].pc = "install" =>
                                  Apart(task[n].low, task[n].low + BatchSize,
                                        task[m].low, task[m].low + BatchSize)'
      BY DEF RangesApart
    <2>2. task'[n].pc = "install" => task'[n] = task[n]
      OBVIOUS
    <2>3. task'[m].pc = "install" => task'[m] = task[m]
      OBVIOUS
    <2> QED
      BY <2>1, <2>2, <2>3 DEF RangesApart, Apart
  <1>5. IssuedOutside'
    BY DEF OracleInv, IssuedOutside, Apart
  <1>6. RangeIsAbove'
    BY DEF OracleInv, RangeIsAbove
  <1>7. EpochIsFenced'
    BY DEF OracleInv, EpochIsFenced
  <1>8. Unique' /\ NodeMonotone' /\ Fenced'
    BY DEF OracleInv, Unique, NodeMonotone, Fenced
  <1> QED
    BY <1>1, <1>2, <1>3, <1>4, <1>5, <1>6, <1>7, <1>8 DEF OracleInv

\* A successful swap: the new range starts where nothing has been reserved.
LEMMA SwapStep ==
  ASSUME OracleInv, TypeOK', NEW n \in Node, Swap(n)
  PROVE  OracleInv'
  <1>0. TypeOK
    BY DEF OracleInv
  <1> USE <1>0, FieldTypes, FieldTypesNext DEF Fields
  <1>1. /\ UNCHANGED <<batch, issued, mark>>
        /\ counter' = LowerBound(n) + BatchSize /\ rev' = rev + 1
        /\ \A m \in Node : m # n => task'[m] = task[m]
        /\ task'[n].pc = "install"
        /\ task'[n].low = LowerBound(n)
        /\ task'[n].epoch = task[n].epoch
    BY DEF Swap, TypeOK, hist
  <1>2. LowerBound(n) >= counter /\ LowerBound(n) \in Nat
    BY DEF Swap, OracleInv, ReadIsCurrent, LowerBound, Larger
  <1>3. counter' >= counter
    BY <1>1, <1>2
  <1>i. /\ CounterAhead /\ ReadIsCurrent /\ PendingIsAbove /\ RangesApart
        /\ IssuedOutside /\ EpochIsFenced
    BY DEF OracleInv
  <1>t. ASSUME NEW i \in 1..Len(issued)
        PROVE  issued[i].ts < LowerBound(n) /\ issued[i].ts \in Nat
    <2>1. issued[i].ts < counter /\ issued[i].ts \in Nat
      BY <1>i DEF CounterAhead
    <2> QED
      BY <1>2, <2>1
  <1>u. ASSUME NEW m \in Node
        PROVE  /\ batch[m].upper <= LowerBound(n)
               /\ batch[m].upper \in Nat /\ batch[m].current \in Nat
               /\ task[m].low \in Nat
               /\ task[m].pc = "install" => task[m].low + BatchSize <= LowerBound(n)
    BY <1>2, <1>i DEF CounterAhead
  <1>4. CounterAhead'
    <2>1. ASSUME NEW i \in 1..Len(issued) PROVE issued'[i].ts < counter'
      BY <1>1, <1>2, <1>t
    <2>2. ASSUME NEW m \in Node
          PROVE  /\ batch'[m].upper <= counter'
                 /\ task'[m].pc = "install" =>
                      task'[m].low + BatchSize <= counter'
      <3>1. CASE m = n
        BY <1>1, <1>2, <1>u, <3>1
      <3>2. CASE m # n
        BY <1>1, <1>2, <1>u, <3>2
      <3> QED
        BY <3>1, <3>2
    <2> QED
      BY <1>1, <2>1, <2>2 DEF CounterAhead
  <1>5. ReadIsCurrent'
    <2> SUFFICES ASSUME NEW m \in Node, task'[m].pc = "swap"
                 PROVE  /\ task'[m].rev <= rev'
                        /\ task'[m].rev = rev' => task'[m].seen = counter'
      BY DEF ReadIsCurrent
    <2>1. m # n
      BY <1>1
    <2>2. task'[m] = task[m] /\ task[m].rev <= rev /\ task[m].rev \in Nat
      BY <1>1, <1>i, <2>1 DEF ReadIsCurrent
    <2> QED
      BY <1>1, <2>2
  <1>6. PendingIsAbove'
    <2> SUFFICES ASSUME NEW m \in Node, task'[m].pc = "install"
                 PROVE  /\ batch'[m].upper <= task'[m].low
                        /\ \A i \in 1..Len(issued) :
                             issued[i].node = m => issued[i].ts < task'[m].low
      BY <1>1 DEF PendingIsAbove
    <2>1. CASE m = n
      BY <1>1, <1>t, <1>u, <2>1
    <2>2. CASE m # n
      BY <1>1, <1>i, <2>2 DEF PendingIsAbove
    <2> QED
      BY <2>1, <2>2
  <1>7. RangesApart'
    <2>1. RangesApart /\ CounterAhead
      BY DEF OracleInv
    <2> SUFFICES ASSUME NEW k \in Node, NEW m \in Node, k # m
                 PROVE  /\ Apart(batch[k].current, batch[k].upper,
                                 batch[m].current, batch[m].upper)'
                        /\ task'[k].pc = "install" =>
                             /\ Apart(task[k].low, task[k].low + BatchSize,
                                      batch[m].current, batch[m].upper)'
                             /\ task'[m].pc = "install" =>
                                  Apart(task[k].low, task[k].low + BatchSize,
                                        task[m].low, task[m].low + BatchSize)'
      BY DEF RangesApart
    <2>2. CASE k = n
      BY <1>1, <1>2, <1>u, <2>1, <2>2 DEF RangesApart, Apart
    <2>3. CASE m = n
      BY <1>1, <1>2, <1>u, <2>1, <2>3 DEF RangesApart, Apart
    <2>4. CASE k # n /\ m # n
      BY <1>1, <2>1, <2>4 DEF RangesApart, Apart
    <2> QED
      BY <2>2, <2>3, <2>4
  <1>8. IssuedOutside'
    <2> SUFFICES ASSUME NEW i \in 1..Len(issued), NEW m \in Node
                 PROVE  /\ Apart(issued[i].ts, issued[i].ts + 1,
                                 batch[m].current, batch[m].upper)
                        /\ task'[m].pc = "install" =>
                             Apart(issued[i].ts, issued[i].ts + 1,
                                   task'[m].low, task'[m].low + BatchSize)
      BY <1>1 DEF IssuedOutside
    <2>1. CASE m = n
      BY <1>1, <1>2, <1>t, <1>i, <2>1 DEF IssuedOutside, Apart
    <2>2. CASE m # n
      BY <1>1, <1>i, <2>2 DEF IssuedOutside
    <2> QED
      BY <2>1, <2>2
  <1>9. RangeIsAbove'
    BY <1>1 DEF OracleInv, RangeIsAbove
  <1>10. EpochIsFenced'
    <2> SUFFICES ASSUME NEW m \in Node
                 PROVE  /\ mark[m] <= Len(issued)
                        /\ task'[m].epoch <= batch[m].epoch
                        /\ task'[m].pc = "install"
                           /\ task'[m].epoch = batch[m].epoch =>
                             \A i \in 1..Len(issued) :
                               i <= mark[m] => issued[i].ts < task'[m].low
      BY <1>1 DEF EpochIsFenced
    <2>1. CASE m = n
      BY <1>1, <1>t, <1>i, <2>1 DEF EpochIsFenced
    <2>2. CASE m # n
      BY <1>1, <1>i, <2>2 DEF EpochIsFenced
    <2> QED
      BY <2>1, <2>2
  <1>11. Unique' /\ NodeMonotone' /\ Fenced'
    BY <1>1 DEF OracleInv, Unique, NodeMonotone, Fenced
  <1> QED
    BY <1>4, <1>5, <1>6, <1>7, <1>8, <1>9, <1>10, <1>11 DEF OracleInv

\* The range is installed: it replaces one the node no longer needs.
LEMMA InstallStep ==
  ASSUME OracleInv, TypeOK', NEW n \in Node, Install(n),
         task[n].epoch = batch[n].epoch
  PROVE  OracleInv'
  <1>0. TypeOK
    BY DEF OracleInv
  <1> USE <1>0, FieldTypes, FieldTypesNext DEF Fields
  <1>1. /\ UNCHANGED <<counter, rev, issued, mark>>
        /\ \A m \in Node : m # n => task'[m] = task[m] /\ batch'[m] = batch[m]
        /\ task'[n].pc = "idle" /\ task'[n].epoch = 0
        /\ task[n].pc = "install"
    BY DEF Install, TypeOK, kvVars, hist, Idle
  <1>2. /\ batch'[n].current = task[n].low
        /\ batch'[n].upper = task[n].low + BatchSize
        /\ batch'[n].epoch = batch[n].epoch
    <2>1. batch'[n] = Reserved(batch[n], task[n].low)
      BY DEF Install, TypeOK
    <2>2. batch[n] \in BatchState
      BY DEF TypeOK
    <2> QED
      BY <2>1, <2>2 DEF Reserved, BatchState
  <1>4. CounterAhead'
    BY <1>1, <1>2 DEF OracleInv, CounterAhead
  <1>5. ReadIsCurrent'
    BY <1>1 DEF OracleInv, ReadIsCurrent
  <1>6. PendingIsAbove'
    BY <1>1 DEF OracleInv, PendingIsAbove
  <1>7. RangesApart'
    <2>1. RangesApart
      BY DEF OracleInv
    <2> SUFFICES ASSUME NEW k \in Node, NEW m \in Node, k # m
                 PROVE  /\ Apart(batch[k].current, batch[k].upper,
                                 batch[m].current, batch[m].upper)'
                        /\ task'[k].pc = "install" =>
                             /\ Apart(task[k].low, task[k].low + BatchSize,
                                      batch[m].current, batch[m].upper)'
                             /\ task'[m].pc = "install" =>
                                  Apart(task[k].low, task[k].low + BatchSize,
                                        task[m].low, task[m].low + BatchSize)'
      BY DEF RangesApart
    <2>2. CASE k = n
      BY <1>1, <1>2, <2>1, <2>2 DEF RangesApart, Apart
    <2>3. CASE m = n
      BY <1>1, <1>2, <2>1, <2>3 DEF RangesApart, Apart
    <2>4. CASE k # n /\ m # n
      BY <1>1, <2>1, <2>4 DEF RangesApart, Apart
    <2> QED
      BY <2>2, <2>3, <2>4
  <1>i. PendingIsAbove /\ IssuedOutside /\ RangeIsAbove /\ EpochIsFenced
    BY DEF OracleInv
  <1>8. IssuedOutside'
    <2> SUFFICES ASSUME NEW i \in 1..Len(issued), NEW m \in Node
                 PROVE  /\ Apart(issued[i].ts, issued[i].ts + 1,
                                 batch'[m].current, batch'[m].upper)
                        /\ task'[m].pc = "install" =>
                             Apart(issued[i].ts, issued[i].ts + 1,
                                   task'[m].low, task'[m].low + BatchSize)
      BY <1>1 DEF IssuedOutside
    <2>1. CASE m = n
      BY <1>1, <1>2, <1>i, <2>1 DEF IssuedOutside
    <2>2. CASE m # n
      BY <1>1, <1>i, <2>2 DEF IssuedOutside
    <2> QED
      BY <2>1, <2>2
  <1>9. RangeIsAbove'
    <2>1. ASSUME NEW m \in Node PROVE batch'[m].current <= batch'[m].upper
      <3>1. CASE m = n
        BY <1>2, <3>1
      <3>2. CASE m # n
        BY <1>1, <1>i, <3>2 DEF RangeIsAbove
      <3> QED
        BY <3>1, <3>2
    <2>2. ASSUME NEW m \in Node, NEW i \in 1..Len(issued),
                 issued[i].node = m \/ i <= mark[m]
          PROVE  \/ issued[i].ts < batch'[m].current
                 \/ batch'[m].current = batch'[m].upper
      <3>1. CASE m = n
        BY <1>1, <1>2, <1>i, <2>2, <3>1 DEF PendingIsAbove, EpochIsFenced
      <3>2. CASE m # n
        BY <1>1, <1>i, <2>2, <3>2 DEF RangeIsAbove
      <3> QED
        BY <3>1, <3>2
    <2> QED
      BY <1>1, <2>1, <2>2 DEF RangeIsAbove
  <1>10. EpochIsFenced'
    <2> SUFFICES ASSUME NEW m \in Node
                 PROVE  /\ mark[m] <= Len(issued)
                        /\ task'[m].epoch <= batch'[m].epoch
                        /\ task'[m].pc = "install"
                           /\ task'[m].epoch = batch'[m].epoch =>
                             \A i \in 1..Len(issued) :
                               i <= mark[m] => issued[i].ts < task'[m].low
      BY <1>1 DEF EpochIsFenced
    <2>1. CASE m = n
      BY <1>1, <1>2, <1>i, <2>1 DEF EpochIsFenced
    <2>2. CASE m # n
      BY <1>1, <1>i, <2>2 DEF EpochIsFenced
    <2> QED
      BY <2>1, <2>2
  <1>11. Unique' /\ NodeMonotone' /\ Fenced'
    BY <1>1 DEF OracleInv, Unique, NodeMonotone, Fenced
  <1> QED
    BY <1>4, <1>5, <1>6, <1>7, <1>8, <1>9, <1>10, <1>11 DEF OracleInv

\* A timestamp is handed out: the first one left of the node's range that is
\* not below the floor.
LEMMA AssignStep ==
  ASSUME OracleInv, TypeOK', NEW n \in Node, NEW min \in Floors, Assign(n, min)
  PROVE  OracleInv'
  <1> DEFINE ts == Candidate(batch[n], MinNext(min, batch[n].maxCommitted))
             L == Len(issued)
  <1>0. TypeOK
    BY DEF OracleInv
  <1>f. Fields
    BY <1>0, FieldTypes
  <1>i. /\ CounterAhead /\ ReadIsCurrent /\ PendingIsAbove /\ RangesApart
        /\ IssuedOutside /\ RangeIsAbove /\ EpochIsFenced
        /\ Unique /\ NodeMonotone /\ Fenced
    BY DEF OracleInv
  <1>1. /\ ts \in Nat /\ ts >= batch[n].current /\ ts < batch[n].upper
    <2>1. /\ batch[n].current \in Nat /\ batch[n].upper \in Nat
          /\ batch[n].maxCommitted \in Nat
      BY <1>f DEF Fields
    <2>2. min \in Nat
      BY OracleAssumption DEF OracleAssumption
    <2>3. ts < batch[n].upper
      BY DEF Assign, Assignable, Satisfies
    <2>4. ts \in Nat /\ ts >= batch[n].current
      BY ONLY <2>1, <2>2 DEF ts, Candidate, MinNext, Larger
    <2> QED
      BY <2>3, <2>4
  <1>2. /\ UNCHANGED <<counter, rev, task, mark>>
        /\ batch' = [batch EXCEPT ![n] = [@ EXCEPT !.current = ts + 1]]
        /\ issued' = Append(issued, [node |-> n, ts |-> ts])
    BY DEF Assign, kvVars, hist
  <1> HIDE DEF ts
  <1>3. /\ \A m \in Node : m # n => batch'[m] = batch[m]
        /\ batch'[n].current = ts + 1
        /\ batch'[n].upper = batch[n].upper
        /\ batch'[n].epoch = batch[n].epoch
    <2>1. batch[n] \in BatchState
      BY <1>0 DEF TypeOK
    <2>2. /\ \A m \in Node : m # n => batch'[m] = batch[m]
          /\ batch'[n] = [batch[n] EXCEPT !.current = ts + 1]
      BY <1>0, <1>2 DEF TypeOK
    <2> QED
      BY <2>1, <2>2 DEF BatchState
  <1>4. /\ Len(issued') = L + 1
        /\ \A i \in 1..L : issued'[i] = issued[i]
        /\ issued'[L + 1] = [node |-> n, ts |-> ts]
    BY <1>0, <1>2 DEF TypeOK
  <1>5. issued'[L + 1].node = n /\ issued'[L + 1].ts = ts
    BY <1>4
  <1>6. L \in Nat /\ 1..Len(issued') = 1..L \cup {L + 1}
    BY <1>4, <1>f DEF Fields
  <1> HIDE DEF L
  <1>7. 1..Len(issued) = 1..L
    BY DEF L
  <1>b. ASSUME NEW m \in Node
        PROVE  /\ batch[m].current \in Nat /\ batch[m].upper \in Nat
               /\ task[m].low \in Nat
               /\ batch'[m].current \in Nat
               /\ batch'[m].current >= batch[m].current
               /\ batch'[m].upper = batch[m].upper
               /\ batch'[m].epoch = batch[m].epoch
    <2>1. CASE m = n
      BY <1>f, <1>1, <1>3, <2>1 DEF Fields
    <2>2. CASE m # n
      BY <1>f, <1>3, <2>2 DEF Fields
    <2> QED
      BY <2>1, <2>2
  <1>c. ASSUME NEW i \in 1..L
        PROVE  issued[i].ts \in Nat /\ issued[i].node \in Node
    BY <1>f, <1>7 DEF Fields
  \* The old timestamps that the new one must clear.
  <1>d. ASSUME NEW i \in 1..L, issued[i].node = n \/ i <= mark[n]
        PROVE  issued[i].ts < ts
    <2>1. issued[i].ts < batch[n].current \/ batch[n].current = batch[n].upper
      BY <1>i, <1>7, <1>d DEF RangeIsAbove
    <2> QED
      BY <1>1, <1>b, <1>c, <2>1
  <1>e. ASSUME NEW i \in 1..L
        PROVE  issued[i].ts # ts
    <2>1. Apart(issued[i].ts, issued[i].ts + 1,
                batch[n].current, batch[n].upper)
      BY <1>i, <1>7 DEF IssuedOutside
    <2> QED
      BY <1>1, <1>b, <1>c, <2>1 DEF Apart
  \* Where the new timestamp lies with respect to the other ranges.
  <1>g. ASSUME NEW m \in Node, m # n
        PROVE  /\ Apart(ts, ts + 1, batch[m].current, batch[m].upper)
               /\ task[m].pc = "install" =>
                    Apart(ts, ts + 1, task[m].low, task[m].low + BatchSize)
    <2>1. Apart(batch[n].current, batch[n].upper,
                batch[m].current, batch[m].upper)
      BY <1>i, <1>g DEF RangesApart
    <2>2. task[m].pc = "install" =>
            Apart(task[m].low, task[m].low + BatchSize,
                  batch[n].current, batch[n].upper)
      BY <1>i, <1>g DEF RangesApart
    <2>3. BatchSize \in Nat
      BY OracleAssumption
    <2> QED
      BY <1>1, <1>b, <2>1, <2>2, <2>3 DEF Apart
  <1>h. task[n].pc = "install" => ts < task[n].low
    BY <1>1, <1>b, <1>i DEF PendingIsAbove
  <1>11. CounterAhead'
    <2>1. ts < counter
      BY <1>1, <1>b, <1>i, <1>f DEF CounterAhead, Fields
    <2>2. ASSUME NEW i \in 1..Len(issued') PROVE issued'[i].ts < counter
      <3>1. CASE i \in 1..L
        BY <1>4, <1>7, <1>i, <3>1 DEF CounterAhead
      <3>2. CASE i = L + 1
        BY <1>5, <2>1, <3>2
      <3> QED
        BY <1>6, <3>1, <3>2
    <2>3. ASSUME NEW m \in Node
          PROVE  /\ batch'[m].upper <= counter
                 /\ task[m].pc = "install" => task[m].low + BatchSize <= counter
      BY <1>b, <1>i DEF CounterAhead
    <2> QED
      BY <1>2, <2>2, <2>3 DEF CounterAhead
  <1>12. ReadIsCurrent'
    BY <1>2, <1>i DEF ReadIsCurrent
  <1>13. PendingIsAbove'
    <2> SUFFICES ASSUME NEW m \in Node, task[m].pc = "install"
                 PROVE  /\ batch'[m].upper <= task[m].low
                        /\ \A i \in 1..Len(issued') :
                             issued'[i].node = m => issued'[i].ts < task[m].low
      BY <1>2 DEF PendingIsAbove
    <2>1. batch'[m].upper <= task[m].low
      BY <1>b, <1>i DEF PendingIsAbove
    <2>2. ASSUME NEW i \in 1..Len(issued'), issued'[i].node = m
          PROVE  issued'[i].ts < task[m].low
      <3>1. CASE i \in 1..L
        BY <1>4, <1>7, <1>i, <2>2, <3>1 DEF PendingIsAbove
      <3>2. CASE i = L + 1
        BY <1>5, <1>h, <2>2, <3>2
      <3> QED
        BY <1>6, <3>1, <3>2
    <2> QED
      BY <2>1, <2>2
  <1>14. RangesApart'
    <2> SUFFICES ASSUME NEW k \in Node, NEW m \in Node, k # m
                 PROVE  /\ Apart(batch'[k].current, batch'[k].upper,
                                 batch'[m].current, batch'[m].upper)
                        /\ task[k].pc = "install" =>
                             /\ Apart(task[k].low, task[k].low + BatchSize,
                                      batch'[m].current, batch'[m].upper)
                             /\ task[m].pc = "install" =>
                                  Apart(task[k].low, task[k].low + BatchSize,
                                        task[m].low, task[m].low + BatchSize)
      BY <1>2 DEF RangesApart
    <2>1. /\ Apart(batch[k].current, batch[k].upper,
                   batch[m].current, batch[m].upper)
          /\ task[k].pc = "install" =>
               /\ Apart(task[k].low, task[k].low + BatchSize,
                        batch[m].current, batch[m].upper)
               /\ task[m].pc = "install" =>
                    Apart(task[k].low, task[k].low + BatchSize,
                          task[m].low, task[m].low + BatchSize)
      BY <1>i DEF RangesApart
    <2>2. BatchSize \in Nat
      BY OracleAssumption
    <2> QED
      BY <1>b, <2>1, <2>2 DEF Apart
  <1>15. IssuedOutside'
    <2> SUFFICES ASSUME NEW i \in 1..Len(issued'), NEW m \in Node
                 PROVE  /\ Apart(issued'[i].ts, issued'[i].ts + 1,
                                 batch'[m].current, batch'[m].upper)
                        /\ task[m].pc = "install" =>
                             Apart(issued'[i].ts, issued'[i].ts + 1,
                                   task[m].low, task[m].low + BatchSize)
      BY <1>2 DEF IssuedOutside
    <2>1. CASE i \in 1..L
      <3>1. /\ Apart(issued[i].ts, issued[i].ts + 1,
                     batch[m].current, batch[m].upper)
            /\ task[m].pc = "install" =>
                 Apart(issued[i].ts, issued[i].ts + 1,
                       task[m].low, task[m].low + BatchSize)
        BY <1>7, <1>i, <2>1 DEF IssuedOutside
      <3> QED
        BY <1>4, <1>b, <1>c, <2>1, <3>1 DEF Apart
    <2>2. CASE i = L + 1 /\ m = n
      BY <1>1, <1>3, <1>5, <1>b, <1>h, <2>2 DEF Apart
    <2>3. CASE i = L + 1 /\ m # n
      BY <1>3, <1>5, <1>g, <2>3
    <2> QED
      BY <1>6, <2>1, <2>2, <2>3
  <1>16. RangeIsAbove'
    <2>1. ASSUME NEW m \in Node PROVE batch'[m].current <= batch'[m].upper
      <3>1. CASE m = n
        BY <1>1, <1>3, <1>b, <3>1
      <3>2. CASE m # n
        BY <1>3, <1>i, <3>2 DEF RangeIsAbove
      <3> QED
        BY <3>1, <3>2
    <2>2. ASSUME NEW m \in Node, NEW i \in 1..Len(issued'),
                 issued'[i].node = m \/ i <= mark[m]
          PROVE  \/ issued'[i].ts < batch'[m].current
                 \/ batch'[m].current = batch'[m].upper
      <3>1. mark[m] <= L /\ mark[m] \in Nat
        BY <1>f, <1>i DEF EpochIsFenced, Fields, L
      <3>2. CASE i = L + 1
        <4>1. m = n
          BY <1>5, <1>6, <2>2, <3>1, <3>2
        <4> QED
          BY <1>1, <1>3, <1>5, <3>2, <4>1
      <3>3. CASE i \in 1..L /\ m = n
        BY <1>1, <1>3, <1>4, <1>c, <1>d, <2>2, <3>3
      <3>4. CASE i \in 1..L /\ m # n
        BY <1>3, <1>4, <1>7, <1>i, <2>2, <3>4 DEF RangeIsAbove
      <3> QED
        BY <1>6, <3>2, <3>3, <3>4
    <2> QED
      BY <1>2, <2>1, <2>2 DEF RangeIsAbove
  <1>17. EpochIsFenced'
    <2> SUFFICES ASSUME NEW m \in Node
                 PROVE  /\ mark[m] <= Len(issued')
                        /\ task[m].epoch <= batch'[m].epoch
                        /\ task[m].pc = "install"
                           /\ task[m].epoch = batch'[m].epoch =>
                             \A i \in 1..Len(issued') :
                               i <= mark[m] => issued'[i].ts < task[m].low
      BY <1>2 DEF EpochIsFenced
    <2>1. mark[m] <= L /\ mark[m] \in Nat
      BY <1>f, <1>i DEF EpochIsFenced, Fields, L
    <2>2. mark[m] <= Len(issued') /\ task[m].epoch <= batch'[m].epoch
      BY <1>4, <1>6, <1>b, <1>i, <2>1 DEF EpochIsFenced
    <2>3. ASSUME task[m].pc = "install", task[m].epoch = batch'[m].epoch,
                 NEW i \in 1..Len(issued'), i <= mark[m]
          PROVE  issued'[i].ts < task[m].low
      <3>1. i \in 1..L
        BY <1>6, <2>1, <2>3
      <3> QED
        BY <1>4, <1>7, <1>b, <1>i, <2>3, <3>1 DEF EpochIsFenced
    <2> QED
      BY <2>2, <2>3
  <1>18. Unique'
    <2> SUFFICES ASSUME NEW i \in 1..Len(issued'), NEW j \in 1..Len(issued'),
                        issued'[i].ts = issued'[j].ts
                 PROVE  i = j
      BY DEF Unique
    <2>1. CASE i \in 1..L /\ j \in 1..L
      BY <1>4, <1>7, <1>i, <2>1 DEF Unique
    <2>2. CASE i \in 1..L /\ j = L + 1
      BY <1>4, <1>5, <1>e, <2>2
    <2>3. CASE i = L + 1 /\ j \in 1..L
      BY <1>4, <1>5, <1>e, <2>3
    <2> QED
      BY <1>6, <2>1, <2>2, <2>3
  <1>19. NodeMonotone'
    <2> SUFFICES ASSUME NEW i \in 1..Len(issued'), NEW j \in 1..Len(issued'),
                        i < j, issued'[i].node = issued'[j].node
                 PROVE  issued'[i].ts < issued'[j].ts
      BY DEF NodeMonotone
    <2>1. i \in 1..L
      BY <1>4, <1>6
    <2>2. CASE j \in 1..L
      BY <1>4, <1>7, <1>i, <2>1, <2>2 DEF NodeMonotone
    <2>3. CASE j = L + 1
      BY <1>4, <1>5, <1>d, <2>1, <2>3
    <2> QED
      BY <1>6, <2>2, <2>3
  <1>20. Fenced'
    <2> SUFFICES ASSUME NEW i \in 1..Len(issued'), NEW j \in 1..Len(issued'),
                        i <= mark[issued'[j].node], mark[issued'[j].node] < j
                 PROVE  issued'[i].ts < issued'[j].ts
      BY <1>2 DEF Fenced
    <2>0. issued'[j].node \in Node
      BY <1>4, <1>5, <1>6, <1>c
    <2>1. i \in 1..L
      BY <1>4, <1>6, <1>f, <2>0 DEF Fields
    <2>2. CASE j \in 1..L
      BY <1>4, <1>7, <1>i, <2>1, <2>2 DEF Fenced
    <2>3. CASE j = L + 1
      BY <1>4, <1>5, <1>d, <2>1, <2>3
    <2> QED
      BY <1>6, <2>2, <2>3
  <1> QED
    BY <1>11, <1>12, <1>13, <1>14, <1>15, <1>16, <1>17, <1>18, <1>19, <1>20
       DEF OracleInv

\* A new epoch, by a leadership change or a restart: the node's range is gone,
\* and a range still being reserved is not of this epoch.
LEMMA EpochStep ==
  ASSUME OracleInv, TypeOK', NEW n \in Node,
         UNCHANGED <<counter, rev, issued>>,
         mark' = [mark EXCEPT ![n] = Len(issued)],
         \A m \in Node : m # n => task'[m] = task[m] /\ batch'[m] = batch[m],
         batch'[n].current = 0, batch'[n].upper = 0,
         \/ task'[n] = task[n] /\ batch'[n].epoch = batch[n].epoch + 1
         \/ task'[n].pc = "idle" /\ task'[n].epoch = 0
  PROVE  OracleInv'
  <1>0. TypeOK
    BY DEF OracleInv
  <1>f. Fields /\ Fields'
    BY <1>0, FieldTypes, FieldTypesNext
  <1>i. /\ CounterAhead /\ ReadIsCurrent /\ PendingIsAbove /\ RangesApart
        /\ IssuedOutside /\ RangeIsAbove /\ EpochIsFenced
        /\ Unique /\ NodeMonotone /\ Fenced
    BY DEF OracleInv
  <1>1. ASSUME NEW m \in Node
        PROVE  /\ batch[m].current \in Nat /\ batch[m].upper \in Nat
               /\ batch[m].epoch \in Nat
               /\ task[m].low \in Nat /\ task[m].epoch \in Nat
    BY <1>f DEF Fields
  <1>2. counter \in Nat /\ BatchSize \in Nat /\ Len(issued) \in Nat
    BY <1>f DEF Fields
  <1>3. ASSUME NEW i \in 1..Len(issued)
        PROVE  issued[i].ts \in Nat /\ issued[i].node \in Node
    BY <1>f DEF Fields
  <1>4. ASSUME NEW m \in Node
        PROVE  task'[m].pc # "idle" => task'[m] = task[m]
    OBVIOUS
  <1>5. ASSUME NEW m \in Node
        PROVE  m = n \/ batch'[m] = batch[m]
    OBVIOUS
  <1>m. mark'[n] = Len(issued) /\ \A m \in Node : m # n => mark'[m] = mark[m]
    BY <1>0 DEF TypeOK
  <1>11. CounterAhead'
    <2>1. ASSUME NEW m \in Node
          PROVE  /\ batch'[m].upper <= counter
                 /\ task'[m].pc = "install" => task'[m].low + BatchSize <= counter
      BY <1>2, <1>4, <1>5, <1>i DEF CounterAhead
    <2> QED
      BY <1>i, <2>1 DEF CounterAhead
  <1>12. ReadIsCurrent'
    BY <1>4, <1>i DEF ReadIsCurrent
  <1>13. PendingIsAbove'
    <2> SUFFICES ASSUME NEW m \in Node, task'[m].pc = "install"
                 PROVE  /\ batch'[m].upper <= task'[m].low
                        /\ \A i \in 1..Len(issued) :
                             issued[i].node = m => issued[i].ts < task'[m].low
      BY DEF PendingIsAbove
    <2>1. task'[m] = task[m]
      BY <1>4
    <2> QED
      BY <1>1, <1>5, <1>i, <2>1 DEF PendingIsAbove
  <1>14. RangesApart'
    <2> SUFFICES ASSUME NEW k \in Node, NEW m \in Node, k # m
                 PROVE  /\ Apart(batch'[k].current, batch'[k].upper,
                                 batch'[m].current, batch'[m].upper)
                        /\ task'[k].pc = "install" =>
                             /\ Apart(task'[k].low, task'[k].low + BatchSize,
                                      batch'[m].current, batch'[m].upper)
                             /\ task'[m].pc = "install" =>
                                  Apart(task'[k].low, task'[k].low + BatchSize,
                                        task'[m].low, task'[m].low + BatchSize)
      BY DEF RangesApart
    <2>1. /\ Apart(batch[k].current, batch[k].upper,
                   batch[m].current, batch[m].upper)
          /\ task[k].pc = "install" =>
               /\ Apart(task[k].low, task[k].low + BatchSize,
                        batch[m].current, batch[m].upper)
               /\ task[m].pc = "install" =>
                    Apart(task[k].low, task[k].low + BatchSize,
                          task[m].low, task[m].low + BatchSize)
      BY <1>i DEF RangesApart
    <2>2. Apart(batch'[k].current, batch'[k].upper,
                batch'[m].current, batch'[m].upper)
      BY <1>1, <1>5, <2>1 DEF Apart
    <2>3. ASSUME task'[k].pc = "install"
          PROVE  Apart(task'[k].low, task'[k].low + BatchSize,
                       batch'[m].current, batch'[m].upper)
      <3>1. task'[k] = task[k]
        BY <1>4, <2>3
      <3> QED
        BY <1>1, <1>5, <2>1, <2>3, <3>1 DEF Apart
    <2>4. ASSUME task'[k].pc = "install", task'[m].pc = "install"
          PROVE  Apart(task'[k].low, task'[k].low + BatchSize,
                       task'[m].low, task'[m].low + BatchSize)
      BY <1>4, <2>1, <2>4
    <2> QED
      BY <2>2, <2>3, <2>4
  <1>15. IssuedOutside'
    <2> SUFFICES ASSUME NEW i \in 1..Len(issued), NEW m \in Node
                 PROVE  /\ Apart(issued[i].ts, issued[i].ts + 1,
                                 batch'[m].current, batch'[m].upper)
                        /\ task'[m].pc = "install" =>
                             Apart(issued[i].ts, issued[i].ts + 1,
                                   task'[m].low, task'[m].low + BatchSize)
      BY DEF IssuedOutside
    <2>1. /\ Apart(issued[i].ts, issued[i].ts + 1,
                   batch[m].current, batch[m].upper)
          /\ task[m].pc = "install" =>
               Apart(issued[i].ts, issued[i].ts + 1,
                     task[m].low, task[m].low + BatchSize)
      BY <1>i DEF IssuedOutside
    <2>2. Apart(issued[i].ts, issued[i].ts + 1,
                batch'[m].current, batch'[m].upper)
      BY <1>3, <1>5, <2>1 DEF Apart
    <2> QED
      BY <1>4, <2>1, <2>2
  <1>16. RangeIsAbove'
    <2>1. ASSUME NEW m \in Node PROVE batch'[m].current <= batch'[m].upper
      BY <1>5, <1>i DEF RangeIsAbove
    <2>2. ASSUME NEW m \in Node, NEW i \in 1..Len(issued),
                 issued[i].node = m \/ i <= mark'[m]
          PROVE  \/ issued[i].ts < batch'[m].current
                 \/ batch'[m].current = batch'[m].upper
      BY <1>m, <1>5, <1>i, <2>2 DEF RangeIsAbove
    <2> QED
      BY <2>1, <2>2 DEF RangeIsAbove
  <1>17. EpochIsFenced'
    <2> SUFFICES ASSUME NEW m \in Node
                 PROVE  /\ mark'[m] <= Len(issued)
                        /\ task'[m].epoch <= batch'[m].epoch
                        /\ task'[m].pc = "install"
                           /\ task'[m].epoch = batch'[m].epoch =>
                             \A i \in 1..Len(issued) :
                               i <= mark'[m] => issued[i].ts < task'[m].low
      BY DEF EpochIsFenced
    <2>1. CASE m # n
      BY <1>m, <1>i, <2>1 DEF EpochIsFenced
    <2>2. CASE m = n /\ task'[n].pc = "idle" /\ task'[n].epoch = 0
      BY <1>m, <1>2, <1>f, <2>2 DEF Fields
    <2>3. CASE m = n /\ task'[n] = task[n] /\ batch'[n].epoch = batch[n].epoch + 1
      <3>1. task[n].epoch <= batch[n].epoch
        BY <1>i DEF EpochIsFenced
      <3> QED
        BY <1>m, <1>1, <1>2, <2>3, <3>1
    <2> QED
      BY <2>1, <2>2, <2>3
  <1>18. Unique' /\ NodeMonotone'
    BY <1>i DEF Unique, NodeMonotone
  <1>19. Fenced'
    <2> SUFFICES ASSUME NEW i \in 1..Len(issued), NEW j \in 1..Len(issued),
                        i <= mark'[issued[j].node], mark'[issued[j].node] < j
                 PROVE  issued[i].ts < issued[j].ts
      BY DEF Fenced
    <2>1. issued[j].node # n
      BY <1>m, <1>2
    <2>2. mark'[issued[j].node] = mark[issued[j].node]
      BY <1>m, <1>3, <2>1
    <2> QED
      BY <1>i, <2>2 DEF Fenced
  <1> QED
    BY <1>11, <1>12, <1>13, <1>14, <1>15, <1>16, <1>17, <1>18, <1>19
       DEF OracleInv

LEMMA InitInv == Init => OracleInv
  <1> SUFFICES ASSUME Init PROVE OracleInv
    OBVIOUS
  <1>1. /\ issued = << >> /\ counter = Start /\ rev = 0
        /\ \A n \in Node : /\ batch[n].current = 0 /\ batch[n].upper = 0
                            /\ batch[n].epoch = 0
                            /\ task[n].pc = "idle" /\ task[n].epoch = 0
                            /\ mark[n] = 0
    BY DEF Init, NewBatch, Idle
  <1>2. 1..Len(issued) = {} /\ Len(issued) = 0
    BY <1>1
  <1>3. TypeOK
    BY InitType
  <1> QED
    BY <1>1, <1>2, <1>3, OracleAssumption
       DEF OracleInv, CounterAhead, ReadIsCurrent, PendingIsAbove, RangesApart,
           Apart, IssuedOutside, RangeIsAbove, EpochIsFenced, Unique,
           NodeMonotone, Fenced

LEMMA IdleFields ==
  /\ Idle.pc = "idle" /\ Idle.epoch = 0
  /\ \A x \in Nat : /\ [Idle EXCEPT !.pc = "floor", !.min = x].pc = "floor"
                     /\ [Idle EXCEPT !.pc = "floor", !.min = x].epoch = 0
  BY DEF Idle

LEMMA CounterFields ==
  ASSUME NEW k \in Task, NEW x \in Nat, NEW e \in Nat
  PROVE  /\ [k EXCEPT !.pc = "counter", !.seen = 0, !.low = x,
                      !.epoch = e].pc = "counter"
         /\ [k EXCEPT !.pc = "counter", !.seen = 0, !.low = x,
                      !.epoch = e].epoch = e
  BY DEF Task

LEMMA NodeInv ==
  ASSUME OracleInv, NEW n \in Node, NodeNext(n)
  PROVE  OracleInv'
  <1>0. TypeOK /\ EpochIsFenced
    BY DEF OracleInv
  <1>t. TypeOK'
    BY <1>0, NodeType
  <1>f. Fields
    BY <1>0, FieldTypes
  <1>a. batch[n] \in BatchState /\ task[n] \in Task
    BY <1>0 DEF TypeOK
  <1>b. task[n].epoch <= batch[n].epoch
    BY <1>0 DEF EpochIsFenced
  <1>c. counter \in Nat /\ rev \in Nat /\ batch[n].epoch \in Nat
    BY <1>f DEF Fields
  <1>1. ASSUME NEW min \in Floors, Assign(n, min) PROVE OracleInv'
    BY <1>1, <1>t, AssignStep
  <1>2. ASSUME NEW min \in Floors, Begin(n, min) PROVE OracleInv'
    <2>1. /\ UNCHANGED <<counter, rev, batch, issued, mark>>
          /\ \A m \in Node : m # n => task'[m] = task[m]
          /\ task'[n].pc = "floor" /\ task'[n].epoch = 0
      BY <1>0, <1>2 DEF Begin, Idle, TypeOK, kvVars, hist
    <2> QED
      BY <1>c, <1>t, <2>1, QuietStep
  <1>3. CASE ReadFloor(n)
    <2>1. /\ UNCHANGED <<counter, rev, batch, issued, mark>>
          /\ \A m \in Node : m # n => task'[m] = task[m]
          /\ task'[n] = [task[n] EXCEPT !.pc = "refresh", !.seen = kvFloor]
      BY <1>0, <1>3 DEF ReadFloor, TypeOK, kvVars, hist
    <2>2. task'[n].pc = "refresh" /\ task'[n].epoch = task[n].epoch
      BY <1>a, <2>1 DEF Task
    <2>3. \A m \in Node :
            /\ batch'[m].current = batch[m].current
            /\ batch'[m].upper = batch[m].upper
            /\ batch'[m].epoch = batch[m].epoch
            /\ \/ task'[m] = task[m]
               \/ /\ task'[m].pc # "install"
                  /\ task'[m].epoch <= batch[m].epoch
                  /\ task'[m].pc = "swap" =>
                       task'[m].rev = rev' /\ task'[m].seen = counter'
      BY <1>b, <2>1, <2>2
    <2> QED
      BY <1>c, <1>t, <2>1, <2>3, QuietStep
  <1>4. CASE RefreshFloor(n)
    <2> DEFINE b == [batch[n] EXCEPT !.maxCommitted = Larger(@, task[n].seen),
                                     !.refresh = FALSE]
               q == MinNext(task[n].min, b.maxCommitted)
    <2>1. b.current = batch[n].current /\ b.upper = batch[n].upper
          /\ b.epoch = batch[n].epoch
      BY <1>a DEF BatchState
    <2>2. /\ task' = [task EXCEPT ![n] =
               IF Satisfies(b, q) THEN Idle
               ELSE [@ EXCEPT !.pc = "counter", !.seen = 0, !.low = q,
                              !.epoch = b.epoch]]
          /\ batch' = [batch EXCEPT ![n] = b]
          /\ UNCHANGED <<kvVars, issued, hist>>
      BY <1>4 DEF RefreshFloor
    <2> HIDE DEF b, q
    <2>3. \/ task'[n] = Idle
          \/ task'[n] = [task[n] EXCEPT !.pc = "counter", !.seen = 0,
                                        !.low = q, !.epoch = b.epoch]
      BY <1>0, <2>2 DEF TypeOK
    <2>4. \/ task'[n].pc = "idle" /\ task'[n].epoch = 0
          \/ task'[n].pc = "counter" /\ task'[n].epoch = b.epoch
      <3>1. q \in Nat /\ b.epoch \in Nat
        <4>1. b.maxCommitted \in Nat
          BY <1>a DEF b, BatchState, Task, Larger
        <4>2. task[n].min \in Nat
          BY <1>f DEF Fields
        <4> QED
          BY <1>c, <2>1, <4>1, <4>2 DEF q, MinNext, Larger
      <3>2. PICK k \in Task : k = task[n]
        BY <1>a
      <3>3. PICK x \in Nat, e \in Nat : x = q /\ e = b.epoch
        BY <3>1
      <3>4. CASE task'[n] = Idle
        BY <3>4, IdleFields
      <3>5. CASE task'[n] = [k EXCEPT !.pc = "counter", !.seen = 0,
                                      !.low = x, !.epoch = e]
        BY <3>3, <3>5, CounterFields
      <3> QED
        BY <2>3, <3>2, <3>3, <3>4, <3>5
    <2>5. \A m \in Node : m # n => task'[m] = task[m] /\ batch'[m] = batch[m]
      BY <1>0, <2>2 DEF TypeOK
    <2>6. batch'[n] = b
      BY <1>0, <2>2 DEF TypeOK
    <2>7. UNCHANGED <<counter, rev, issued, mark>>
      BY <2>2 DEF kvVars, hist
    <2> QED
      BY <1>c, <1>t, <2>1, <2>4, <2>5, <2>6, <2>7, QuietStep
  <1>5. CASE ReadCounter(n)
    <2>1. /\ UNCHANGED <<counter, rev, batch, issued, mark>>
          /\ \A m \in Node : m # n => task'[m] = task[m]
          /\ task'[n] = [task[n] EXCEPT !.pc = "swap", !.seen = counter,
                                        !.rev = rev]
      BY <1>0, <1>5 DEF ReadCounter, TypeOK, kvVars, hist
    <2>2. /\ task'[n].pc = "swap" /\ task'[n].epoch = task[n].epoch
          /\ task'[n].seen = counter /\ task'[n].rev = rev
      BY <1>a, <2>1 DEF Task
    <2>3. \A m \in Node :
            /\ batch'[m].current = batch[m].current
            /\ batch'[m].upper = batch[m].upper
            /\ batch'[m].epoch = batch[m].epoch
            /\ \/ task'[m] = task[m]
               \/ /\ task'[m].pc # "install"
                  /\ task'[m].epoch <= batch[m].epoch
                  /\ task'[m].pc = "swap" =>
                       task'[m].rev = rev' /\ task'[m].seen = counter'
      BY <1>b, <2>1, <2>2
    <2> QED
      BY <1>c, <1>t, <2>1, <2>3, QuietStep
  <1>6. CASE Swap(n)
    BY <1>6, <1>t, SwapStep
  <1>7. CASE SwapFails(n)
    <2>1. /\ UNCHANGED <<batch, issued, mark>>
          /\ \A m \in Node : m # n => task'[m] = task[m]
          /\ task'[n] = [task[n] EXCEPT !.pc = "counter", !.seen = 0, !.rev = 0]
      BY <1>0, <1>7 DEF SwapFails, TypeOK, hist
    <2>2. task'[n].pc = "counter" /\ task'[n].epoch = task[n].epoch
      BY <1>a, <2>1 DEF Task
    <2>3. \/ UNCHANGED <<counter, rev>>
          \/ /\ rev = task[n].rev
             /\ counter' = LowerBound(n) + BatchSize /\ rev' = rev + 1
      BY <1>7 DEF SwapFails
    <2>4. rev = task[n].rev => LowerBound(n) >= counter /\ LowerBound(n) \in Nat
      <3>1. task[n].pc = "swap" /\ ReadIsCurrent
        BY <1>7 DEF SwapFails, OracleInv
      <3>2. task[n].low \in Nat
        BY <1>f DEF Fields
      <3> QED
        BY <1>c, <3>1, <3>2 DEF ReadIsCurrent, LowerBound, Larger
    <2>5. /\ counter' >= counter /\ rev' >= rev
          /\ rev' = rev => counter' = counter
      BY <1>c, <2>3, <2>4, OracleAssumption
    <2> QED
      BY <1>b, <1>t, <2>1, <2>2, <2>5, QuietStep
  <1>8. CASE Install(n)
    <2>1. CASE task[n].epoch = batch[n].epoch
      BY <1>8, <1>t, <2>1, InstallStep
    <2>2. CASE task[n].epoch # batch[n].epoch
      <3>1. /\ UNCHANGED <<counter, rev, batch, issued, mark>>
            /\ \A m \in Node : m # n => task'[m] = task[m]
        BY <1>0, <1>8, <2>2 DEF Install, TypeOK, kvVars, hist
      <3>2. \/ task'[n] = Idle
            \/ task'[n] = [Idle EXCEPT !.pc = "floor", !.min = task[n].min]
        BY <1>0, <1>8, <2>2 DEF Install, TypeOK
      <3>3. task'[n].pc \in {"idle", "floor"} /\ task'[n].epoch = 0
        BY <1>f, <3>2, IdleFields DEF Fields
      <3> QED
        BY <1>c, <1>t, <3>1, <3>3, QuietStep
    <2> QED
      BY <2>1, <2>2
  <1>9. CASE ReserveFails(n)
    <2>1. /\ UNCHANGED <<counter, rev, batch, issued, mark>>
          /\ \A m \in Node : m # n => task'[m] = task[m]
          /\ task'[n].pc = "idle" /\ task'[n].epoch = 0
      BY <1>0, <1>9 DEF ReserveFails, Idle, TypeOK, kvVars, hist
    <2> QED
      BY <1>c, <1>t, <2>1, QuietStep
  <1>10. CASE Observe(n)
    <2>1. PICK i \in 1..Len(issued) :
            /\ batch' = [batch EXCEPT ![n] =
                            [@ EXCEPT !.maxCommitted = issued[i].ts]]
            /\ UNCHANGED <<kvVars, task, issued, hist>>
      BY <1>10 DEF Observe
    <2>2. /\ UNCHANGED <<counter, rev, issued, mark, task>>
          /\ \A m \in Node : m # n => batch'[m] = batch[m]
          /\ batch'[n] = [batch[n] EXCEPT !.maxCommitted = issued[i].ts]
      BY <1>0, <2>1 DEF TypeOK, kvVars, hist
    <2>3. /\ batch'[n].current = batch[n].current
          /\ batch'[n].upper = batch[n].upper
          /\ batch'[n].epoch = batch[n].epoch
      BY <1>a, <2>2 DEF BatchState
    <2>4. \A m \in Node :
            /\ batch'[m].current = batch[m].current
            /\ batch'[m].upper = batch[m].upper
            /\ batch'[m].epoch = batch[m].epoch
            /\ \/ task'[m] = task[m]
               \/ /\ task'[m].pc # "install"
                  /\ task'[m].epoch <= batch[m].epoch
                  /\ task'[m].pc = "swap" =>
                       task'[m].rev = rev' /\ task'[m].seen = counter'
      BY <2>2, <2>3
    <2> QED
      BY <1>c, <1>t, <2>2, <2>4, QuietStep
  <1>11. CASE Discard(n)
    <2>1. /\ UNCHANGED <<counter, rev, issued, task>>
          /\ mark' = [mark EXCEPT ![n] = Len(issued)]
          /\ \A m \in Node : m # n => batch'[m] = batch[m]
          /\ batch'[n] = [batch[n] EXCEPT !.current = 0, !.upper = 0,
                             !.refresh = TRUE, !.epoch = batch[n].epoch + 1]
      BY <1>0, <1>11 DEF Discard, NewEpoch, TypeOK, kvVars
    <2>2. /\ batch'[n].current = 0 /\ batch'[n].upper = 0
          /\ batch'[n].epoch = batch[n].epoch + 1
      BY <1>a, <2>1 DEF BatchState
    <2> QED
      BY <1>t, <2>1, <2>2, EpochStep
  <1>12. CASE Restart(n)
    <2>1. /\ UNCHANGED <<counter, rev, issued>>
          /\ mark' = [mark EXCEPT ![n] = Len(issued)]
          /\ \A m \in Node : m # n => task'[m] = task[m] /\ batch'[m] = batch[m]
          /\ batch'[n] = NewBatch /\ task'[n] = Idle
      BY <1>0, <1>12 DEF Restart, TypeOK, kvVars
    <2>2. /\ batch'[n].current = 0 /\ batch'[n].upper = 0
          /\ task'[n].pc = "idle" /\ task'[n].epoch = 0
      BY <2>1 DEF NewBatch, Idle
    <2> QED
      BY <1>t, <2>1, <2>2, EpochStep
  <1> QED
    BY <1>1, <1>2, <1>3, <1>4, <1>5, <1>6, <1>7, <1>8, <1>9, <1>10, <1>11,
       <1>12 DEF NodeNext

LEMMA StepInv ==
  ASSUME OracleInv, [Next]_vars
  PROVE  OracleInv'
  <1>0. TypeOK
    BY DEF OracleInv
  <1>1. counter \in Nat /\ rev \in Nat
    BY <1>0 DEF TypeOK
  <1>2. CASE PublishFloor
    <2>1. UNCHANGED <<counter, rev, batch, task, issued, mark>>
      BY <1>2 DEF PublishFloor, hist
    <2>2. TypeOK'
      BY <1>0, <1>2, PublishType
    <2> QED
      BY <1>1, <2>1, <2>2, QuietStep
  <1>3. CASE \E n \in Node : NodeNext(n)
    BY <1>3, NodeInv
  <1>4. CASE UNCHANGED vars
    <2>1. UNCHANGED <<counter, rev, batch, task, issued, mark>>
      BY <1>4 DEF vars, kvVars, hist
    <2>2. TypeOK'
      BY <1>0, <1>4 DEF TypeOK, vars, kvVars, hist
    <2> QED
      BY <1>1, <2>1, <2>2, QuietStep
  <1> QED
    BY <1>2, <1>3, <1>4 DEF Next

----------------------------------------------------------------------------
(* The oracle: the theorems. *)

\* Ranges held or about to be installed are apart, above their nodes' past and
\* below the counter: OracleInv is an invariant of the oracle.
THEOREM OracleInvariantHolds == Spec => []OracleInv
  BY InitInv, StepInv, PTL DEF Spec

\* No timestamp is handed out twice, by one node or by two
\* (reserve_batch_at_or_above, try_assign_from_reserved_batch).
THEOREM UniqueHolds == Spec => []Unique
  <1>1. OracleInv => Unique
    BY DEF OracleInv
  <1> QED
    BY OracleInvariantHolds, <1>1, PTL

\* A node's timestamps grow, across batches, leadership changes and restarts.
THEOREM NodeMonotoneHolds == Spec => []NodeMonotone
  <1>1. OracleInv => NodeMonotone
    BY DEF OracleInv
  <1> QED
    BY OracleInvariantHolds, <1>1, PTL

\* After a leadership change a node only hands out timestamps above all that
\* were handed out before it (discard_reserved_batch, the epoch check).
THEOREM FencedHolds == Spec => []Fenced
  <1>1. OracleInv => Fenced
    BY DEF OracleInv
  <1> QED
    BY OracleInvariantHolds, <1>1, PTL

----------------------------------------------------------------------------
(* The committed floor: the invariant. *)

\* A commit belongs to one node; no task is started for it before its turn.
CommitsHaveOneNode ==
  /\ \A c \in CommitTs : \A n, m \in by[c] : n = m
  /\ \A c \in CommitTs : by[c] = {} => work[c].pc = "none"
  /\ \A n \in Proc : queueing[n] # 0 =>
       n \in by[queueing[n]] /\ work[queueing[n]].pc = "none"

\* The flag of a node is up exactly while a task of the node owns it.
FlagIsOwned ==
  /\ \A c \in CommitTs : \A n \in by[c] : OwnsFlag(c) => flag[n]
  /\ \A n \in Proc : flag[n] => \E c \in CommitTs : n \in by[c] /\ OwnsFlag(c)

\* A task that is about to swap at the current revision would raise the floor.
SwapRaises ==
  \A c \in CommitTs : work[c].pc = "swap" =>
    /\ work[c].rev <= kvRev
    /\ work[c].rev = kvRev => kv < work[c].target

\* A task that checks, clears or leaves has its target in NATS.
TargetIsPublished ==
  \A c \in CommitTs :
    work[c].pc \in {"check", "clear", "recheck", "retake"} =>
      kv >= work[c].target

\* Somebody is at work on a floor that is not in NATS.
RaisedIsPursued ==
  \A n \in Proc : kv < pending[n] =>
    \/ queueing[n] # 0
    \/ \E c \in CommitTs : n \in by[c] /\ work[c].pc \notin {"none", "done"}

\* Where a task that was started can be.
Pc == {"load", "read", "swap", "check", "clear", "recheck", "retake", "done"}

FloorInv ==
  /\ FloorTypeOK
  /\ CommitsHaveOneNode
  /\ FlagIsOwned
  /\ OneFlusher
  /\ SwapRaises
  /\ TargetIsPublished
  /\ RaisedIsPursued

----------------------------------------------------------------------------
(* The committed floor: the steps. *)

LEMMA InitFloorInv == FloorInit => FloorInv
  BY FloorAssumption
  DEF FloorInit, FloorInv, FloorTypeOK, FlushTask, NoTask, CommitsHaveOneNode, FlagIsOwned,
      OneFlusher, OwnsFlag, SwapRaises, TargetIsPublished, RaisedIsPursued

LEMMA TimestampsAreNatural ==
  ASSUME FloorTypeOK
  PROVE  /\ CommitTs \subseteq Nat /\ 0 \notin CommitTs
         /\ kv \in Nat /\ kvRev \in Nat
         /\ \A n \in Proc : pending[n] \in Nat
         /\ \A c \in CommitTs : /\ work[c] \in FlushTask
                                /\ work[c].target \in CommitTs \cup {0}
                                /\ work[c].target \in Nat /\ work[c].rev \in Nat
  <1>1. CommitTs \subseteq Nat /\ 0 \notin CommitTs
    BY FloorAssumption
  <1>2. CommitTs \cup {0} \subseteq Nat
    BY <1>1
  <1>3. /\ kv \in Nat /\ kvRev \in Nat
        /\ \A n \in Proc : pending[n] \in Nat
    BY <1>2 DEF FloorTypeOK
  <1>4. \A c \in CommitTs : work[c] \in FlushTask
    BY DEF FloorTypeOK
  <1>5. \A k \in FlushTask : k.target \in CommitTs \cup {0} /\ k.rev \in Nat
    BY DEF FlushTask
  <1> QED
    BY <1>1, <1>2, <1>3, <1>4, <1>5

LEMMA CommitStep ==
  ASSUME FloorInv, NEW n \in Proc, NEW c \in CommitTs, Commit(n, c)
  PROVE  FloorInv'
  <1> USE DEF FloorInv
  <1>1. /\ n \notin stopped /\ queueing[n] = 0 /\ by[c] = {}
        /\ by' = [by EXCEPT ![c] = {n}]
        /\ pending' = [pending EXCEPT ![n] = IF c > @ THEN c ELSE @]
        /\ queueing' = [queueing EXCEPT ![n] = c]
        /\ UNCHANGED <<kv, kvRev, flag, work, stopped, failures>>
    BY DEF Commit, entryVars
  <1>2. FloorTypeOK'
    BY <1>1 DEF FloorTypeOK
  <1>3. c \in Nat \ {0} /\ work[c].pc = "none" /\ ~OwnsFlag(c)
    BY <1>1, FloorAssumption DEF CommitsHaveOneNode, OwnsFlag
  <1>4. /\ by'[c] = {n} /\ \A d \in CommitTs \ {c} : by'[d] = by[d]
        /\ queueing'[n] = c /\ \A m \in Proc \ {n} : queueing'[m] = queueing[m]
        /\ \A m \in Proc \ {n} : pending'[m] = pending[m]
    BY <1>1 DEF FloorTypeOK
  <1>5. CommitsHaveOneNode'
    BY <1>1, <1>3, <1>4 DEF CommitsHaveOneNode, FloorTypeOK
  <1>6. \A d \in CommitTs : OwnsFlag(d)' = OwnsFlag(d)
    BY <1>1 DEF OwnsFlag
  <1>7. FlagIsOwned'
    BY <1>1, <1>3, <1>4, <1>6 DEF FlagIsOwned
  <1>8. OneFlusher'
    BY <1>1, <1>3, <1>4, <1>6 DEF OneFlusher
  <1>9. SwapRaises' /\ TargetIsPublished'
    BY <1>1 DEF SwapRaises, TargetIsPublished
  <1>10. RaisedIsPursued'
    BY <1>1, <1>3, <1>4 DEF RaisedIsPursued
  <1> QED
    BY <1>2, <1>5, <1>7, <1>8, <1>9, <1>10

LEMMA TakeFlagStep ==
  ASSUME FloorInv, NEW n \in Proc, TakeFlag(n)
  PROVE  FloorInv'
  <1> USE DEF FloorInv
  <1>0. PICK c \in CommitTs : c = queueing[n]
    BY DEF TakeFlag, FloorTypeOK
  <1>1. /\ n \notin stopped /\ c # 0 /\ c = queueing[n]
        /\ flag' = [flag EXCEPT ![n] = TRUE]
        /\ work' = IF flag[n] THEN work ELSE [work EXCEPT ![c].pc = "load"]
        /\ queueing' = [queueing EXCEPT ![n] = 0]
        /\ UNCHANGED <<kv, kvRev, by, pending, stopped, failures>>
    BY <1>0 DEF TakeFlag, entryVars
  <1>2. n \in by[c] /\ work[c].pc = "none" /\ work[c] \in FlushTask
    BY <1>1 DEF FloorTypeOK, CommitsHaveOneNode
  <1>3. FloorTypeOK'
    <2>1. [work[c] EXCEPT !.pc = "load"] \in FlushTask
      BY <1>2 DEF FlushTask
    <2> QED
      BY <1>1, <1>2, <2>1 DEF FloorTypeOK
  <1>4. /\ flag'[n] /\ \A m \in Proc \ {n} : flag'[m] = flag[m]
        /\ queueing'[n] = 0 /\ \A m \in Proc \ {n} : queueing'[m] = queueing[m]
        /\ \A d \in CommitTs \ {c} : work'[d] = work[d]
        /\ work'[c].pc = (IF flag[n] THEN "none" ELSE "load")
    <2>1. [work[c] EXCEPT !.pc = "load"].pc = "load"
      BY <1>2 DEF FlushTask
    <2> QED
      BY <1>1, <1>2, <2>1 DEF FloorTypeOK
  <1>5. \A m \in Proc \ {n} : queueing[m] # c
    BY <1>1, <1>2 DEF CommitsHaveOneNode
  <1>6. CommitsHaveOneNode'
    <2>1. ASSUME NEW d \in CommitTs, by[d] = {} PROVE work'[d].pc = "none"
      BY <1>2, <1>4, <2>1 DEF CommitsHaveOneNode
    <2>2. ASSUME NEW m \in Proc, queueing'[m] # 0
          PROVE  m \in by[queueing'[m]] /\ work'[queueing'[m]].pc = "none"
      <3>1. m # n /\ queueing'[m] = queueing[m] /\ queueing[m] \in CommitTs \ {c}
        BY <1>4, <1>5, <2>2 DEF FloorTypeOK
      <3> QED
        BY <1>4, <2>2, <3>1 DEF CommitsHaveOneNode
    <2> QED
      BY <1>1, <2>1, <2>2 DEF CommitsHaveOneNode
  <1>7. /\ \A d \in CommitTs \ {c} : work'[d].pc = work[d].pc
        /\ \A d \in CommitTs \ {c} : OwnsFlag(d)' <=> OwnsFlag(d)
        /\ ~OwnsFlag(c)
    BY <1>2, <1>4 DEF OwnsFlag
  <1>8. \A m \in by[c] : m = n
    BY <1>2 DEF CommitsHaveOneNode
  <1>9. ASSUME flag[n] PROVE FlagIsOwned' /\ OneFlusher'
    <2>1. ~OwnsFlag(c)'
      BY <1>4, <1>9 DEF OwnsFlag
    <2>2. \A m \in Proc : flag'[m] <=> flag[m]
      BY <1>4, <1>9
    <2>3. \A d \in CommitTs : OwnsFlag(d)' <=> OwnsFlag(d)
      BY <1>7, <2>1
    <2>4. by' = by /\ \A d \in CommitTs : by[d] \subseteq Proc
      BY <1>1 DEF FloorTypeOK
    <2>5. FlagIsOwned'
      BY <2>2, <2>3, <2>4 DEF FlagIsOwned
    <2>6. ASSUME NEW d \in CommitTs, NEW e \in CommitTs, OwnsFlag(d)',
                 OwnsFlag(e)', by[d] = by[e]
          PROVE  d = e
      BY <2>3, <2>6 DEF OneFlusher
    <2> QED
      BY <2>4, <2>5, <2>6 DEF OneFlusher
  <1>10. ASSUME ~flag[n] PROVE FlagIsOwned' /\ OneFlusher'
    <2>1. OwnsFlag(c)'
      BY <1>4, <1>10 DEF OwnsFlag
    <2>2. \A d \in CommitTs : n \in by[d] => ~OwnsFlag(d)
      BY <1>10 DEF FlagIsOwned
    <2>3. FlagIsOwned'
      <3>1. by' = by /\ \A d \in CommitTs : by[d] \subseteq Proc
        BY <1>1 DEF FloorTypeOK
      <3>2. ASSUME NEW d \in CommitTs, NEW m \in by[d], OwnsFlag(d)' PROVE flag'[m]
        BY <1>4, <1>7, <1>8, <3>1, <3>2 DEF FlagIsOwned
      <3>3. ASSUME NEW m \in Proc, flag'[m]
            PROVE  \E d \in CommitTs : m \in by[d] /\ OwnsFlag(d)'
        <4>1. CASE m = n
          BY <1>2, <2>1, <4>1
        <4>2. CASE m # n
          <5>1. PICK d \in CommitTs : m \in by[d] /\ OwnsFlag(d)
            BY <1>4, <3>3, <4>2 DEF FlagIsOwned
          <5> QED
            BY <1>7, <5>1
        <4> QED
          BY <4>1, <4>2
      <3> QED
        BY <3>1, <3>2, <3>3 DEF FlagIsOwned
    <2>4. ASSUME NEW d \in CommitTs, NEW e \in CommitTs, OwnsFlag(d)',
                 OwnsFlag(e)', by[d] = by[e]
          PROVE  d = e
      BY <1>2, <1>7, <2>2, <2>4 DEF OneFlusher
    <2>5. OneFlusher'
      BY <1>1, <2>4 DEF OneFlusher
    <2> QED
      BY <2>3, <2>5
  <1>11. SwapRaises' /\ TargetIsPublished'
    BY <1>1, <1>2, <1>4 DEF SwapRaises, TargetIsPublished
  <1>12. RaisedIsPursued'
    <2>1. ASSUME NEW m \in Proc, kv < pending[m], m # n
          PROVE  \/ queueing'[m] # 0
                 \/ \E d \in CommitTs : m \in by[d] /\ work'[d].pc \notin {"none", "done"}
      BY <1>2, <1>4, <1>8, <2>1 DEF RaisedIsPursued
    <2>2. \E d \in CommitTs : n \in by[d] /\ work'[d].pc \notin {"none", "done"}
      BY <1>2, <1>4 DEF FlagIsOwned, OwnsFlag
    <2> QED
      BY <1>1, <2>1, <2>2 DEF RaisedIsPursued
  <1> QED
    BY <1>3, <1>6, <1>9, <1>10, <1>11, <1>12

\* A step of the task c of node n that neither takes nor gives back the flag.
LEMMA QuietTaskStep ==
  ASSUME FloorInv, NEW n \in Proc, NEW c \in CommitTs, n \in by[c], FloorTypeOK',
         UNCHANGED <<by, pending, flag, queueing>>,
         \A d \in CommitTs \ {c} : work'[d] = work[d],
         work[c].pc # "none", work'[c].pc # "none",
         OwnsFlag(c)' <=> OwnsFlag(c),
         kv <= kv', kvRev <= kvRev', kvRev' = kvRev => kv' = kv,
         work'[c].pc = "done" => \/ kv' >= pending[n]
                                 \/ flag[n] /\ ~OwnsFlag(c),
         work'[c].pc = "swap" => /\ work'[c].rev = kvRev'
                                 /\ kv' < work'[c].target,
         work'[c].pc \in {"check", "clear", "recheck", "retake"} =>
           kv' >= work'[c].target
  PROVE  FloorInv'
  <1> USE DEF FloorInv
  <1>0. /\ kv \in Nat /\ kvRev \in Nat /\ kv' \in Nat /\ kvRev' \in Nat
        /\ \A m \in Proc : pending[m] \in Nat
        /\ \A d \in CommitTs : work[d].target \in Nat /\ work[d].rev \in Nat
    <2>1. kv' \in Nat /\ kvRev' \in Nat
      BY FloorAssumption DEF FloorTypeOK
    <2> QED
      BY <2>1, TimestampsAreNatural
  <1>1. CommitsHaveOneNode'
    BY DEF CommitsHaveOneNode, FloorTypeOK
  <1>2. \A d \in CommitTs : OwnsFlag(d)' = OwnsFlag(d)
    BY DEF OwnsFlag
  <1>3. FlagIsOwned' /\ OneFlusher'
    BY <1>2 DEF FlagIsOwned, OneFlusher
  <1>4. SwapRaises'
    BY <1>0 DEF SwapRaises
  <1>5. TargetIsPublished'
    BY <1>0 DEF TargetIsPublished
  <1>6. ASSUME NEW m \in Proc, kv' < pending[m], queueing[m] = 0
        PROVE  \E d \in CommitTs : m \in by[d] /\ work'[d].pc \notin {"none", "done"}
    <2>1. PICK d \in CommitTs : m \in by[d] /\ work[d].pc \notin {"none", "done"}
      BY <1>0, <1>6 DEF RaisedIsPursued
    <2>2. CASE d = c /\ work'[c].pc = "done"
      <3>1. m = n
        BY <2>1, <2>2 DEF CommitsHaveOneNode
      <3>2. flag[n] /\ ~OwnsFlag(c)
        BY <1>0, <1>6, <2>2, <3>1
      <3>3. PICK e \in CommitTs : n \in by[e] /\ OwnsFlag(e)
        BY <3>2 DEF FlagIsOwned
      <3> QED
        BY <3>1, <3>2, <3>3 DEF OwnsFlag
    <2> QED
      BY <2>1, <2>2
  <1>7. RaisedIsPursued'
    BY <1>6 DEF RaisedIsPursued
  <1> QED
    BY <1>1, <1>3, <1>4, <1>5, <1>7

\* What a step of the task c of node n leaves of it.
Becomes(c, pc, target, rv) ==
  /\ work' \in [CommitTs -> FlushTask]
  /\ work'[c].pc = pc /\ work'[c].target = target /\ work'[c].rev = rv
  /\ \A d \in CommitTs \ {c} : work'[d] = work[d]

\* The stores a task is built from, and what they leave of it.
LEMMA WithPc ==
  ASSUME NEW t \in [CommitTs -> FlushTask], NEW c \in CommitTs, NEW pc \in Pc
  PROVE  LET u == [t EXCEPT ![c].pc = pc] IN
         /\ u \in [CommitTs -> FlushTask]
         /\ u[c].pc = pc /\ u[c].target = t[c].target /\ u[c].rev = t[c].rev
         /\ \A d \in CommitTs \ {c} : u[d] = t[d]
  <1> DEFINE k == [t[c] EXCEPT !.pc = pc]
             u == [t EXCEPT ![c] = k]
  <1>1. t[c] \in FlushTask
    OBVIOUS
  <1>2. k \in FlushTask /\ k.pc = pc /\ k.target = t[c].target /\ k.rev = t[c].rev
    BY <1>1 DEF FlushTask, Pc
  <1> HIDE DEF k
  <1>3. u \in [CommitTs -> FlushTask] /\ u[c] = k /\ \A d \in CommitTs \ {c} : u[d] = t[d]
    BY <1>2
  <1>4. u = [t EXCEPT ![c].pc = pc]
    BY DEF k
  <1> QED
    BY <1>2, <1>3, <1>4

LEMMA StorePc ==
  ASSUME FloorTypeOK, NEW c \in CommitTs, NEW pc \in Pc,
         work' = [work EXCEPT ![c].pc = pc]
  PROVE  Becomes(c, pc, work[c].target, work[c].rev)
  <1>1. work \in [CommitTs -> FlushTask]
    BY DEF FloorTypeOK
  <1> QED
    BY <1>1, WithPc DEF Becomes

LEMMA StorePcAndRev ==
  ASSUME FloorTypeOK, NEW c \in CommitTs, NEW pc \in Pc, NEW rv \in Nat,
         work' = [work EXCEPT ![c].pc = pc, ![c].rev = rv]
  PROVE  Becomes(c, pc, work[c].target, rv)
  <1> DEFINE v == [work EXCEPT ![c].pc = pc]
             k == [v[c] EXCEPT !.rev = rv]
  <1>0. work \in [CommitTs -> FlushTask]
    BY DEF FloorTypeOK
  <1>1. /\ v \in [CommitTs -> FlushTask]
        /\ v[c].pc = pc /\ v[c].target = work[c].target
        /\ \A d \in CommitTs \ {c} : v[d] = work[d]
    BY <1>0, WithPc
  <1>2. work' = [v EXCEPT ![c] = k]
    OBVIOUS
  <1> HIDE DEF v
  <1>3. v[c] \in FlushTask
    BY <1>1
  <1>4. k \in FlushTask /\ k.pc = v[c].pc /\ k.target = v[c].target /\ k.rev = rv
    BY <1>3 DEF FlushTask
  <1> HIDE DEF k
  <1> QED
    BY <1>1, <1>2, <1>4 DEF Becomes

LEMMA ClearTaskStep ==
  ASSUME FloorInv, NEW n \in Proc, NEW c \in CommitTs, n \in by[c],
         work[c].pc = "clear", work'[c].pc = "recheck",
         work'[c].target = work[c].target,
         \A d \in CommitTs \ {c} : work'[d] = work[d],
         work' \in [CommitTs -> FlushTask],
         flag' = [flag EXCEPT ![n] = FALSE],
         UNCHANGED <<kv, kvRev, by, pending, queueing, stopped, failures>>
  PROVE  FloorInv'
  <1> USE DEF FloorInv
  <1>1. FloorTypeOK'
    BY DEF FloorTypeOK
  <1>2. CommitsHaveOneNode'
    BY DEF CommitsHaveOneNode, FloorTypeOK
  <1>3. /\ OwnsFlag(c) /\ ~OwnsFlag(c)'
        /\ \A d \in CommitTs \ {c} : OwnsFlag(d)' <=> OwnsFlag(d)
    BY DEF OwnsFlag
  <1>4. /\ ~flag'[n] /\ \A m \in Proc \ {n} : flag'[m] = flag[m]
        /\ \A d \in CommitTs : by[d] \subseteq Proc
    BY DEF FloorTypeOK
  <1>5. \A d \in CommitTs : n \in by[d] => by[d] = by[c]
    <2>1. ASSUME NEW d \in CommitTs, n \in by[d] PROVE by[d] = {n}
      BY <2>1 DEF CommitsHaveOneNode
    <2> QED
      BY <2>1
  <1>6. ASSUME NEW d \in CommitTs, NEW m \in by[d], OwnsFlag(d)' PROVE flag'[m]
    <2>1. d # c /\ OwnsFlag(d)
      BY <1>3, <1>6
    <2>2. m # n
      BY <1>3, <1>5, <2>1 DEF OneFlusher
    <2> QED
      BY <1>4, <2>1, <2>2 DEF FlagIsOwned
  <1>7. ASSUME NEW m \in Proc, flag'[m]
        PROVE  \E d \in CommitTs : m \in by[d] /\ OwnsFlag(d)'
    <2>1. m # n /\ flag[m]
      BY <1>4, <1>7
    <2>2. PICK d \in CommitTs : m \in by[d] /\ OwnsFlag(d)
      BY <2>1 DEF FlagIsOwned
    <2>3. d # c
      BY <2>1, <2>2 DEF CommitsHaveOneNode
    <2> QED
      BY <1>3, <2>2, <2>3
  <1>8. FlagIsOwned'
    BY <1>6, <1>7 DEF FlagIsOwned
  <1>9. OneFlusher'
    BY <1>3 DEF OneFlusher
  <1>10. SwapRaises' /\ TargetIsPublished' /\ RaisedIsPursued'
    BY DEF SwapRaises, TargetIsPublished, RaisedIsPursued
  <1> QED
    BY <1>1, <1>2, <1>8, <1>9, <1>10

LEMMA RetakeTaskStep ==
  ASSUME FloorInv, NEW n \in Proc, NEW c \in CommitTs, n \in by[c],
         work[c].pc = "retake", ~flag[n], work'[c].pc = "load",
         \A d \in CommitTs \ {c} : work'[d] = work[d],
         work' \in [CommitTs -> FlushTask],
         flag' = [flag EXCEPT ![n] = TRUE],
         UNCHANGED <<kv, kvRev, by, pending, queueing, stopped, failures>>
  PROVE  FloorInv'
  <1> USE DEF FloorInv
  <1>1. FloorTypeOK'
    BY DEF FloorTypeOK
  <1>2. CommitsHaveOneNode'
    BY DEF CommitsHaveOneNode, FloorTypeOK
  <1>3. /\ ~OwnsFlag(c) /\ OwnsFlag(c)'
        /\ \A d \in CommitTs \ {c} : OwnsFlag(d)' <=> OwnsFlag(d)
    BY DEF OwnsFlag
  <1>4. /\ flag'[n] /\ \A m \in Proc \ {n} : flag'[m] = flag[m]
        /\ \A d \in CommitTs : by[d] \subseteq Proc
    BY DEF FloorTypeOK
  <1>5. \A d \in CommitTs : n \in by[d] => ~OwnsFlag(d)
    BY DEF FlagIsOwned
  <1>6. ASSUME NEW d \in CommitTs, NEW m \in by[d], OwnsFlag(d)' PROVE flag'[m]
    BY <1>3, <1>4, <1>6 DEF FlagIsOwned, CommitsHaveOneNode
  <1>7. ASSUME NEW m \in Proc, flag'[m]
        PROVE  \E d \in CommitTs : m \in by[d] /\ OwnsFlag(d)'
    <2>1. CASE m = n
      BY <1>3, <2>1
    <2>2. CASE m # n
      <3>1. PICK d \in CommitTs : m \in by[d] /\ OwnsFlag(d)
        BY <1>4, <1>7, <2>2 DEF FlagIsOwned
      <3> QED
        BY <1>3, <3>1
    <2> QED
      BY <2>1, <2>2
  <1>8. FlagIsOwned'
    BY <1>6, <1>7 DEF FlagIsOwned
  <1>9. OneFlusher'
    BY <1>3, <1>5 DEF OneFlusher
  <1>10. SwapRaises' /\ TargetIsPublished' /\ RaisedIsPursued'
    BY DEF SwapRaises, TargetIsPublished, RaisedIsPursued
  <1> QED
    BY <1>1, <1>2, <1>8, <1>9, <1>10

LEMMA FlushTaskStep ==
  ASSUME FloorInv, NEW n \in Proc, NEW c \in CommitTs,
         TaskNext(c, n) \/ CallFails(c, n)
  PROVE  FloorInv'
  <1> USE DEF FloorInv
  <1>0. n \in by[c] /\ UNCHANGED <<by, pending, queueing, stopped>>
    BY DEF TaskNext, Load, ReadEntry, SwapFloor, Conflict, CheckPending,
           ClearFlag, Recheck, Retake, CallFails, Runs, nodeVars
  <1>t. /\ CommitTs \subseteq Nat /\ 0 \notin CommitTs
        /\ kv \in Nat /\ kvRev \in Nat /\ pending[n] \in Nat
        /\ kv \in CommitTs \cup {0} /\ pending[n] \in CommitTs \cup {0}
        /\ work[c] \in FlushTask /\ work \in [CommitTs -> FlushTask]
        /\ work[c].target \in CommitTs \cup {0} /\ work[c].target \in Nat
        /\ work[c].rev \in Nat
    BY TimestampsAreNatural DEF FloorTypeOK
  \* Only the task c moves, and the entry only forward.
  <1>q. ASSUME NEW pc \in Pc, NEW target \in CommitTs \cup {0}, NEW rv \in Nat,
               Becomes(c, pc, target, rv), UNCHANGED <<flag>>,
               kv' \in CommitTs \cup {0}, kvRev' \in Nat,
               failures' \in 0..MaxFailures,
               work[c].pc # "none",
               pc \in {"load", "read", "swap", "check", "clear"} <=> OwnsFlag(c),
               kv <= kv', kvRev <= kvRev', kvRev' = kvRev => kv' = kv,
               pc = "done" => kv' >= pending[n] \/ (flag[n] /\ ~OwnsFlag(c)),
               pc = "swap" => rv = kvRev' /\ kv' < target,
               pc \in {"check", "clear", "recheck", "retake"} => kv' >= target
        PROVE  FloorInv'
    <2>1. FloorTypeOK'
      BY <1>0, <1>q DEF FloorTypeOK, Becomes
    <2>2. OwnsFlag(c)' <=> OwnsFlag(c)
      BY <1>q DEF OwnsFlag, Becomes
    <2>3. pc # "none"
      BY DEF Pc
    <2>4. FloorInv
      OBVIOUS
    <2> HIDE DEF FloorInv
    <2> QED
      BY <1>0, <1>q, <2>1, <2>2, <2>3, <2>4, QuietTaskStep DEF Becomes
  <1>1. CASE Load(c, n)
    <2>1. /\ work[c].pc = "load"
          /\ work' = [work EXCEPT ![c] = [NoTask EXCEPT !.pc = "read",
                                                        !.target = pending[n]]]
          /\ UNCHANGED <<kv, kvRev, flag, failures>>
      BY <1>1 DEF Load, Runs, nodeVars, entryVars
    <2> DEFINE k == [NoTask EXCEPT !.pc = "read", !.target = pending[n]]
    <2>2. k \in FlushTask /\ k.pc = "read" /\ k.target = pending[n] /\ k.rev = 0
      BY <1>t DEF FlushTask, NoTask
    <2>3. work' = [work EXCEPT ![c] = k]
      BY <2>1
    <2> HIDE DEF k
    <2>4. Becomes(c, "read", pending[n], 0)
      BY <1>t, <2>2, <2>3 DEF Becomes
    <2> QED
      BY <1>t, <1>q, <2>1, <2>4 DEF OwnsFlag, Pc, FloorTypeOK
  <1>2. CASE ReadEntry(c, n)
    <2> DEFINE pc == IF kv >= work[c].target THEN "check" ELSE "swap"
    <2>1. /\ work[c].pc = "read"
          /\ work' = [work EXCEPT ![c].pc = pc, ![c].rev = kvRev]
          /\ UNCHANGED <<kv, kvRev, flag, failures>>
      BY <1>2 DEF ReadEntry, Runs, nodeVars, entryVars
    <2>2. /\ pc \in Pc /\ pc \in {"check", "swap"}
          /\ pc = "check" => kv >= work[c].target
          /\ pc = "swap" => kv < work[c].target
      BY <1>t DEF Pc
    <2> HIDE DEF pc
    <2>3. Becomes(c, pc, work[c].target, kvRev)
      BY <1>t, <2>1, <2>2, StorePcAndRev
    <2> QED
      BY <1>t, <1>q, <2>1, <2>2, <2>3 DEF OwnsFlag, FloorTypeOK
  <1>3. CASE SwapFloor(c, n)
    <2>1. /\ work[c].pc = "swap" /\ work[c].rev = kvRev
          /\ kv' = work[c].target /\ kvRev' = kvRev + 1
          /\ work' = [work EXCEPT ![c].pc = "check", ![c].rev = 0]
          /\ UNCHANGED <<flag, failures>>
      BY <1>3 DEF SwapFloor, WriteFloor, Runs, nodeVars
    <2>2. Becomes(c, "check", work[c].target, 0)
      BY <1>t, <2>1, StorePcAndRev DEF Pc
    <2>3. kv < kv'
      BY <2>1 DEF SwapRaises
    <2> QED
      BY <1>t, <1>q, <2>1, <2>2, <2>3 DEF OwnsFlag, FloorTypeOK, Pc
  <1>4. CASE Conflict(c, n)
    <2>1. /\ work[c].pc = "swap"
          /\ work' = [work EXCEPT ![c].pc = "read", ![c].rev = 0]
          /\ UNCHANGED <<kv, kvRev, flag, failures>>
      BY <1>4 DEF Conflict, Runs, nodeVars, entryVars
    <2>2. Becomes(c, "read", work[c].target, 0)
      BY <1>t, <2>1, StorePcAndRev DEF Pc
    <2> QED
      BY <1>t, <1>q, <2>1, <2>2 DEF OwnsFlag, FloorTypeOK, Pc
  <1>5. CASE CheckPending(c, n)
    <2> DEFINE pc == IF pending[n] > work[c].target THEN "load" ELSE "clear"
    <2>1. /\ work[c].pc = "check"
          /\ work' = [work EXCEPT ![c].pc = pc]
          /\ UNCHANGED <<kv, kvRev, flag, failures>>
      BY <1>5 DEF CheckPending, Runs, nodeVars, entryVars
    <2>2. pc \in Pc /\ pc \in {"load", "clear"}
      BY DEF Pc
    <2> HIDE DEF pc
    <2>3. Becomes(c, pc, work[c].target, work[c].rev)
      BY <1>t, <2>1, <2>2, StorePc
    <2> QED
      BY <1>t, <1>q, <2>1, <2>2, <2>3 DEF OwnsFlag, FloorTypeOK, TargetIsPublished
  <1>6. CASE Recheck(c, n)
    <2> DEFINE pc == IF pending[n] > work[c].target THEN "retake" ELSE "done"
    <2>1. /\ work[c].pc = "recheck"
          /\ work' = [work EXCEPT ![c].pc = pc]
          /\ UNCHANGED <<kv, kvRev, flag, failures>>
      BY <1>6 DEF Recheck, Runs, nodeVars, entryVars
    <2>2. /\ pc \in Pc /\ pc \in {"retake", "done"}
          /\ pc = "done" => pending[n] <= work[c].target
      BY <1>t DEF Pc
    <2> HIDE DEF pc
    <2>3. Becomes(c, pc, work[c].target, work[c].rev)
      BY <1>t, <2>1, <2>2, StorePc
    <2>4. kv >= work[c].target
      BY <2>1 DEF TargetIsPublished
    <2> QED
      BY <1>t, <1>q, <2>1, <2>2, <2>3, <2>4 DEF OwnsFlag, FloorTypeOK
  <1>7. CASE CallFails(c, n)
    <2>1. /\ failures' \in 0..MaxFailures
          /\ UNCHANGED <<flag>>
          /\ \/ /\ work[c].pc = "swap"
                /\ \/ UNCHANGED <<kv, kvRev>>
                   \/ /\ work[c].rev = kvRev
                      /\ kv' = work[c].target /\ kvRev' = kvRev + 1
                /\ \E pc \in {"read", "load"} :
                     work' = [work EXCEPT ![c].pc = pc, ![c].rev = 0]
             \/ /\ work[c].pc = "read"
                /\ work' = [work EXCEPT ![c].pc = "load"]
                /\ UNCHANGED <<kv, kvRev>>
      BY <1>7, FloorAssumption
      DEF CallFails, WriteFloor, Runs, nodeVars, entryVars, FloorTypeOK
    <2>2. \E pc \in {"read", "load"} : \E rv \in Nat :
            Becomes(c, pc, work[c].target, rv)
      <3>1. CASE work[c].pc = "swap"
        <4>1. PICK pc \in {"read", "load"} :
                work' = [work EXCEPT ![c].pc = pc, ![c].rev = 0]
          BY <2>1, <3>1
        <4>2. Becomes(c, pc, work[c].target, 0)
          BY <1>t, <4>1, StorePcAndRev DEF Pc
        <4> QED
          BY <4>2
      <3>2. CASE work[c].pc = "read"
        <4>1. Becomes(c, "load", work[c].target, work[c].rev)
          BY <1>t, <2>1, <3>2, StorePc DEF Pc
        <4> QED
          BY <1>t, <4>1
      <3> QED
        BY <2>1, <3>1, <3>2
    <2>3. PICK pc \in {"read", "load"}, rv \in Nat :
            Becomes(c, pc, work[c].target, rv)
      BY <2>2
    <2>4. /\ kv <= kv' /\ kvRev <= kvRev' /\ (kvRev' = kvRev => kv' = kv)
          /\ kv' \in CommitTs \cup {0} /\ kvRev' \in Nat
      BY <1>t, <2>1 DEF SwapRaises
    <2>5. OwnsFlag(c) /\ work[c].pc # "none"
      BY <2>1 DEF OwnsFlag
    <2> QED
      BY <1>t, <1>q, <2>1, <2>3, <2>4, <2>5 DEF Pc
  <1>8. CASE ClearFlag(c, n)
    <2>1. /\ work[c].pc = "clear"
          /\ work' = [work EXCEPT ![c].pc = "recheck"]
          /\ flag' = [flag EXCEPT ![n] = FALSE]
          /\ UNCHANGED <<kv, kvRev, by, pending, queueing, stopped, failures>>
      BY <1>8 DEF ClearFlag, Runs, entryVars
    <2>2. Becomes(c, "recheck", work[c].target, work[c].rev)
      BY <1>t, <2>1, StorePc DEF Pc
    <2> QED
      BY <1>0, <2>1, <2>2, ClearTaskStep DEF Becomes
  <1>9. CASE Retake(c, n)
    <2>1. /\ work[c].pc = "retake"
          /\ work' = [work EXCEPT ![c].pc = IF flag[n] THEN "done" ELSE "load"]
          /\ flag' = [flag EXCEPT ![n] = TRUE]
          /\ UNCHANGED <<kv, kvRev, by, pending, queueing, stopped, failures>>
      BY <1>9 DEF Retake, Runs, entryVars
    <2>2. CASE flag[n]
      <3>1. flag' = flag
        BY <2>1, <2>2 DEF FloorTypeOK
      <3>2. work' = [work EXCEPT ![c].pc = "done"]
        BY <2>1, <2>2
      <3>3. Becomes(c, "done", work[c].target, work[c].rev)
        BY <1>t, <3>2, StorePc DEF Pc
      <3> QED
        BY <1>t, <1>q, <2>1, <2>2, <3>1, <3>3 DEF OwnsFlag, Pc, FloorTypeOK
    <2>3. CASE ~flag[n]
      <3>1. work' = [work EXCEPT ![c].pc = "load"]
        BY <2>1, <2>3
      <3>2. Becomes(c, "load", work[c].target, work[c].rev)
        BY <1>t, <3>1, StorePc DEF Pc
      <3> QED
        BY <1>0, <2>1, <2>3, <3>2, RetakeTaskStep DEF Becomes
    <2> QED
      BY <2>2, <2>3
  <1> QED
    BY <1>1, <1>2, <1>3, <1>4, <1>5, <1>6, <1>7, <1>8, <1>9 DEF TaskNext

\* A crash, or nothing at all.
LEMMA IdleStep ==
  ASSUME FloorInv, UNCHANGED <<kv, kvRev, by, pending, flag, queueing, work, failures>>,
         stopped' \subseteq Proc
  PROVE  FloorInv'
  <1>1. \A c \in CommitTs : OwnsFlag(c)' <=> OwnsFlag(c)
    BY DEF OwnsFlag
  <1> QED
    BY <1>1 DEF FloorInv, FloorTypeOK, CommitsHaveOneNode, FlagIsOwned, OneFlusher,
         SwapRaises, TargetIsPublished, RaisedIsPursued

LEMMA StepFloorInv == FloorInv /\ [FloorNext]_floorVars => FloorInv'
  <1> SUFFICES ASSUME FloorInv, [FloorNext]_floorVars PROVE FloorInv'
    OBVIOUS
  <1>1. ASSUME NEW n \in Proc, TakeFlag(n) PROVE FloorInv'
    BY <1>1, TakeFlagStep
  <1>2. ASSUME NEW n \in Proc, Crash(n) PROVE FloorInv'
    BY <1>2, IdleStep DEF Crash, FloorInv, FloorTypeOK, entryVars, nodeVars
  <1>3. ASSUME NEW n \in Proc, NEW c \in CommitTs, Commit(n, c) PROVE FloorInv'
    BY <1>3, CommitStep
  <1>4. ASSUME NEW n \in Proc, NEW c \in CommitTs, TaskNext(c, n) \/ CallFails(c, n)
        PROVE  FloorInv'
    BY <1>4, FlushTaskStep
  <1>5. CASE UNCHANGED floorVars
    BY <1>5, IdleStep DEF floorVars, entryVars, nodeVars, FloorInv, FloorTypeOK
  <1> QED
    BY <1>1, <1>2, <1>3, <1>4, <1>5 DEF FloorNext

----------------------------------------------------------------------------
(* The committed floor: the theorems. *)

\* Whatever nodes publish, crash or lose answers from NATS, the flag of a node
\* and the tasks that own it agree, a task at work is behind every floor that
\* is not in NATS, and an update that can succeed raises the entry
\* (queue_tso_committed_floor_flush and advance_committed_ts).
THEOREM FloorInvariantHolds == FloorSpec => []FloorInv
  BY InitFloorInv, StepFloorInv, PTL DEF FloorSpec

\* At most one flush task of a node is at work at any time, although the flag
\* is taken by the committer thread and by tasks that are leaving.
THEOREM OneFlusherHolds == FloorSpec => []OneFlusher
  <1>1. FloorInv => OneFlusher
    BY DEF FloorInv
  <1> QED
    BY <1>1, FloorInvariantHolds, PTL

\* When a running node has no flush task at work and none about to be started,
\* its pending floor is in NATS: the recheck after the flag is given back
\* loses no wake-up.
THEOREM NothingForgottenHolds == FloorSpec => []NothingForgotten
  <1>1. FloorInv => NothingForgotten
    <2> SUFFICES ASSUME FloorInv, NEW n \in Proc, queueing[n] = 0,
                        \A c \in CommitTs : n \in by[c] => work[c].pc \in {"none", "done"}
                 PROVE  kv >= pending[n]
      BY DEF NothingForgotten
    <2>1. ~(kv < pending[n])
      BY DEF FloorInv, RaisedIsPursued
    <2>2. kv \in Nat /\ pending[n] \in Nat
      BY TimestampsAreNatural DEF FloorInv
    <2> QED
      BY <2>1, <2>2
  <1> QED
    BY <1>1, FloorInvariantHolds, PTL

\* No step lowers the committed floor in NATS, a publication whose answer was
\* lost included (the compare-and-swap of advance_committed_ts).
THEOREM FloorNeverFallsHolds == FloorSpec => FloorNeverFalls
  <1>1. FloorInv /\ [FloorNext]_floorVars => [kv' >= kv]_floorVars
    <2> SUFFICES ASSUME FloorInv, FloorNext PROVE kv' >= kv
      OBVIOUS
    <2>1. kv \in Nat
      BY TimestampsAreNatural DEF FloorInv
    <2>2. ASSUME NEW c \in CommitTs, NEW n \in Proc, Runs(c, n, "swap"), WriteFloor(c)
          PROVE  kv' >= kv
      <3>1. kv < work[c].target /\ work[c].target \in Nat
        BY <2>2, TimestampsAreNatural DEF FloorInv, SwapRaises, Runs, WriteFloor
      <3> QED
        BY <2>1, <2>2, <3>1 DEF WriteFloor
    <2>3. kv' = kv \/ \E n \in Proc, c \in CommitTs : Runs(c, n, "swap") /\ WriteFloor(c)
      BY DEF FloorNext, TakeFlag, Crash, Commit, TaskNext, CallFails, Load, ReadEntry,
             SwapFloor, Conflict, CheckPending, ClearFlag, Recheck, Retake, entryVars
    <2> QED
      BY <2>1, <2>2, <2>3
  <1> QED
    BY <1>1, FloorInvariantHolds, PTL DEF FloorSpec, FloorNeverFalls

----------------------------------------------------------------------------
(* Table numbers: the invariant. *)

\* Every node has the tables that are older than the counter.
LegacyIsKept ==
  \A n \in Creator : \A i \in DOMAIN Legacy :
    [name |-> Legacy[i], number |-> i] \in catalogue[n]

\* A number in a catalogue is a legacy table's, or the counter has passed it.
EntriesAreIssued ==
  \A n \in Creator : \A t \in catalogue[n] :
    /\ t.number \in DOMAIN Legacy => t.name = Legacy[t.number]
    /\ t.number \notin DOMAIN Legacy => t.number < key.value

\* What a transaction has read of the catalogue and of the counter.
RequestsFit ==
  \A n \in Creator : request[n].state # "none" =>
    /\ request[n].name \in Table
    /\ request[n].seen \subseteq catalogue[n]
    /\ \A i \in DOMAIN Legacy : i < request[n].floor
    /\ request[n].state = "update" /\ request[n].revision = key.revision =>
         request[n].value = key.value

\* A number that a transaction holds is nobody else's.
GrantsAreFresh ==
  \A n \in Creator : request[n].state = "granted" =>
    /\ request[n].number \in 1..MaxNumber /\ request[n].number < key.value
    /\ request[n].number \notin DOMAIN Legacy
    /\ \A m \in Creator : \A t \in catalogue[m] : t.number # request[n].number
    /\ \A m \in Creator \ {n} : request[m].state = "granted" =>
         request[m].number # request[n].number

NumberInv ==
  /\ NumberTypeOK
  /\ LegacyIsKept
  /\ EntriesAreIssued
  /\ RequestsFit
  /\ GrantsAreFresh
  /\ UniqueNumbers

----------------------------------------------------------------------------
(* Minimum, maximum and the first free number. *)

LEMMA MinOfNaturals ==
  ASSUME NEW S \in SUBSET Nat, S # {}
  PROVE  Min(S) \in S /\ \A y \in S : Min(S) <= y
  <1>1. PICK x \in S : \A y \in S : ~ (<<y, x>> \in OpToRel(<, Nat))
    BY WFMin, NatLessThanWellFounded
  <1>2. \A y \in S : x <= y
    <2> TAKE y \in S
    <2>1. ~ (y < x)
      BY <1>1 DEF OpToRel
    <2> QED
      BY <2>1
  <1> QED
    BY <1>2 DEF Min

LEMMA MaxOfTwo ==
  ASSUME NEW a \in Nat, NEW b \in Nat
  PROVE  /\ Max({a, b}) \in Nat /\ Max({a, b}) >= a /\ Max({a, b}) >= b
         /\ Max({a, b}) = a \/ Max({a, b}) = b
  <1>1. \E x \in {a, b} : \A y \in {a, b} : x >= y
    <2>1. CASE a >= b
      BY <2>1
    <2>2. CASE b >= a
      BY <2>2
    <2> QED
      BY <2>1, <2>2
  <1>2. Max({a, b}) \in {a, b} /\ \A y \in {a, b} : Max({a, b}) >= y
    BY <1>1 DEF Max
  <1> QED
    BY <1>2

\* The legacy tables are numbered from 1 without a gap.
LEMMA LegacyNumbers ==
  /\ \E k \in Nat : k < MaxNumber /\ DOMAIN Legacy = 1..k
  /\ \A i \in DOMAIN Legacy : Legacy[i] \in Table
  <1>1. PICK k \in 0..(MaxNumber - 1) : Legacy \in [1..k -> Table]
    BY TableNumbersAssumption
  <1>2. k \in Nat /\ k < MaxNumber
    BY TableNumbersAssumption
  <1> QED
    BY <1>1, <1>2

LEMMA TableTypes ==
  ASSUME NumberTypeOK
  PROVE  /\ key.value \in 1..MaxNumber /\ key.value \in Nat
         /\ key.revision \in Nat /\ MaxNumber \in Nat
         /\ \A n \in Creator : /\ request[n] \in Request
                               /\ request[n].floor \in Nat /\ request[n].value \in Nat
                               /\ request[n].revision \in Nat
                               /\ request[n].number \in Nat /\ request[n].attempt \in Nat
         /\ \A n \in Creator : \A t \in catalogue[n] :
              /\ t \in TableEntry /\ t.number \in 1..MaxNumber /\ t.number \in Nat
  <1>1. MaxNumber \in Nat
    BY TableNumbersAssumption
  <1>2. key.value \in 1..MaxNumber /\ key.revision \in Nat
    BY DEF NumberTypeOK
  <1>3. \A r \in Request : /\ r.floor \in Nat /\ r.value \in 1..MaxNumber
                           /\ r.revision \in Nat /\ r.number \in Nat /\ r.attempt \in Nat
    BY DEF Request
  <1>4. \A t \in TableEntry : t.number \in 1..MaxNumber
    BY DEF TableEntry
  <1>5. \A n \in Creator : request[n] \in Request /\ \A t \in catalogue[n] : t \in TableEntry
    BY DEF NumberTypeOK
  <1> QED
    BY <1>1, <1>2, <1>3, <1>4, <1>5

\* next_table_number finds a number that the catalogue does not use.
LEMMA FirstFreeIsFree ==
  ASSUME NumberTypeOK, NEW n \in Creator
  PROVE  FirstFree(n) \in Nat \ {0} /\ FirstFree(n) \notin Numbers(n)
  <1>1. Numbers(n) \in SUBSET (1..MaxNumber)
    BY TableTypes DEF Numbers
  <1>2. IsFiniteSet(1..MaxNumber)
    BY TableTypes, FS_Interval
  <1>3. IsFiniteSet(Numbers(n)) /\ Cardinality(Numbers(n)) \in Nat
    BY <1>1, <1>2, FS_Subset, FS_CardinalityType
  <1> DEFINE c == Cardinality(Numbers(n))
             S == (1..(c + 1)) \ Numbers(n)
  <1>4. S # {}
    <2> SUFFICES ASSUME S = {} PROVE FALSE
      OBVIOUS
    <2>1. 1..(c + 1) \in SUBSET Numbers(n)
      OBVIOUS
    <2>2. Cardinality(1..(c + 1)) <= c
      BY <1>3, <2>1, FS_Subset
    <2>3. Cardinality(1..(c + 1)) = c + 1
      <3>1. c + 1 \in Nat /\ 1 \in Int /\ c + 1 \in Int
        BY <1>3
      <3>2. Cardinality(1..(c + 1)) = IF 1 > c + 1 THEN 0 ELSE (c + 1) - 1 + 1
        BY <3>1, FS_Interval
      <3> QED
        BY <1>3, <3>2
    <2> QED
      BY <1>3, <2>2, <2>3
  <1>5. S \in SUBSET Nat
    BY <1>3
  <1>6. Min(S) \in S
    BY <1>4, <1>5, MinOfNaturals
  <1>7. FirstFree(n) = Min(S)
    BY DEF FirstFree
  <1> QED
    BY <1>3, <1>6, <1>7

LEMMA FloorIsAboveLegacy ==
  ASSUME NumberTypeOK, LegacyIsKept, NEW n \in Creator
  PROVE  \A i \in DOMAIN Legacy : i < FirstFree(n)
  <1>1. PICK k \in Nat : DOMAIN Legacy = 1..k
    BY LegacyNumbers
  <1>2. FirstFree(n) \in Nat \ {0} /\ FirstFree(n) \notin Numbers(n)
    BY FirstFreeIsFree
  <1>3. \A i \in DOMAIN Legacy : i \in Numbers(n)
    <2> TAKE i \in DOMAIN Legacy
    <2> DEFINE t == [name |-> Legacy[i], number |-> i]
    <2>1. t \in catalogue[n] /\ t.number = i
      BY DEF LegacyIsKept
    <2> QED
      BY <2>1 DEF Numbers
  <1>4. FirstFree(n) \notin 1..k
    BY <1>1, <1>2, <1>3
  <1> QED
    BY <1>1, <1>2, <1>4

\* The number an update would write: at or above the counter it has read,
\* and above every legacy number.
LEMMA CandidateIsHigh ==
  ASSUME NumberTypeOK, RequestsFit, NEW n \in Creator, request[n].state = "update"
  PROVE  /\ CandidateNumber(n) \in Nat
         /\ CandidateNumber(n) \notin DOMAIN Legacy
         /\ RevisionHolds(n) => CandidateNumber(n) >= key.value
  <1>1. request[n].value \in Nat /\ request[n].floor \in Nat
    BY TableTypes
  <1>2. /\ CandidateNumber(n) \in Nat
        /\ CandidateNumber(n) >= request[n].value /\ CandidateNumber(n) >= request[n].floor
    BY <1>1, MaxOfTwo DEF CandidateNumber
  <1>3. \A i \in DOMAIN Legacy : i < request[n].floor
    BY DEF RequestsFit
  <1>4. \A i \in DOMAIN Legacy : i \in Nat
    BY LegacyNumbers
  <1>5. CandidateNumber(n) \notin DOMAIN Legacy
    BY <1>1, <1>2, <1>3, <1>4
  <1>6. RevisionHolds(n) => request[n].value = key.value
    BY DEF RequestsFit, RevisionHolds
  <1> QED
    BY <1>2, <1>5, <1>6

----------------------------------------------------------------------------
(* Table numbers: the steps. *)

LEMMA NoRequestFields ==
  /\ NoRequest \in Request
  /\ NoRequest.state = "none" /\ NoRequest.revision = 0
  <1>1. 1 \in 1..MaxNumber
    BY TableNumbersAssumption
  <1> QED
    BY <1>1 DEF NoRequest, Request

\* The counter stays, or it moves on: its value and its revision grow.
Moves ==
  \/ key' = key
  \/ /\ key' \in [value : 1..MaxNumber, revision : Nat]
     /\ key'.value > key.value /\ key'.revision > key.revision

\* What the new state of a transaction has to satisfy, with c the new
\* counter: what it has read fits, and a number it is given comes from the
\* counter.
Fits(n, r, c) ==
  /\ r \in Request
  /\ r.state \in {"read", "update"} => r.attempt < MaxAttempts
  /\ r.revision <= c.revision
  /\ r.state # "none" =>
       /\ r.name \in Table /\ r.seen \subseteq catalogue[n]
       /\ \A i \in DOMAIN Legacy : i < r.floor
       /\ r.state = "update" /\ r.revision = c.revision => r.value = c.value
  /\ r.state = "granted" =>
       /\ r.number \in 1..MaxNumber /\ r.number \notin DOMAIN Legacy
       /\ key.value <= r.number /\ r.number < c.value

\* A step of one transaction that changes no catalogue.
LEMMA RequestStep ==
  ASSUME NumberInv, NEW n \in Creator, NEW r, NEW c, c = key', Fits(n, r, c),
         request' = [request EXCEPT ![n] = r], catalogue' = catalogue,
         Moves, faults' \in 0..MaxFaults
  PROVE  NumberInv'
  <1>0. /\ key.value \in Nat /\ key.revision \in Nat /\ MaxNumber \in Nat
        /\ \A m \in Creator : /\ request[m] \in Request
                              /\ request[m].revision \in Nat /\ request[m].number \in Nat
        /\ \A m \in Creator : \A t \in catalogue[m] : t.number \in Nat
    BY TableTypes DEF NumberInv
  <1>1. /\ c \in [value : 1..MaxNumber, revision : Nat]
        /\ c.value \in Nat /\ c.revision \in Nat
        /\ c.value >= key.value /\ c.revision >= key.revision
        /\ c = key \/ c.revision > key.revision
    <2>1. CASE c = key
      BY <1>0, <2>1 DEF NumberInv, NumberTypeOK
    <2>2. CASE c # key
      BY <1>0, <2>2 DEF Moves
    <2> QED
      BY <2>1, <2>2
  <1>2. request'[n] = r /\ \A m \in Creator : m # n => request'[m] = request[m]
    BY DEF NumberInv, NumberTypeOK
  <1>3. r \in Request /\ r.revision \in Nat /\ r.number \in Nat
    <2>1. r \in Request
      BY DEF Fits
    <2> QED
      BY <2>1 DEF Request
  <1>4. NumberTypeOK'
    <2>1. request' \in [Creator -> Request]
      BY <1>3 DEF NumberInv, NumberTypeOK
    <2>2. ASSUME NEW m \in Creator
          PROVE  /\ request'[m].state \in {"read", "update"} =>
                      request'[m].attempt < MaxAttempts
                 /\ request'[m].revision <= c.revision
      <3>1. CASE m = n
        BY <1>2, <3>1 DEF Fits
      <3>2. CASE m # n
        <4>1. /\ request[m].state \in {"read", "update"} =>
                      request[m].attempt < MaxAttempts
              /\ request[m].revision <= key.revision
          BY DEF NumberInv, NumberTypeOK
        <4> QED
          BY <1>0, <1>1, <1>2, <3>2, <4>1
      <3> QED
        BY <3>1, <3>2
    <2>3. catalogue' \in [Creator -> SUBSET TableEntry]
      BY DEF NumberInv, NumberTypeOK
    <2> QED
      BY <1>1, <2>1, <2>2, <2>3 DEF NumberTypeOK
  <1>5. LegacyIsKept'
    BY DEF NumberInv, LegacyIsKept
  <1>6. EntriesAreIssued'
    <2> SUFFICES ASSUME NEW m \in Creator, NEW t \in catalogue[m]
                 PROVE  /\ t.number \in DOMAIN Legacy => t.name = Legacy[t.number]
                        /\ t.number \notin DOMAIN Legacy => t.number < c.value
      BY DEF EntriesAreIssued
    <2>1. /\ t.number \in DOMAIN Legacy => t.name = Legacy[t.number]
          /\ t.number \notin DOMAIN Legacy => t.number < key.value
      BY DEF NumberInv, EntriesAreIssued
    <2> QED
      BY <1>0, <1>1, <2>1
  <1>7. RequestsFit'
    <2> SUFFICES ASSUME NEW m \in Creator, request'[m].state # "none"
                 PROVE  /\ request'[m].name \in Table
                        /\ request'[m].seen \subseteq catalogue[m]
                        /\ \A i \in DOMAIN Legacy : i < request'[m].floor
                        /\ request'[m].state = "update" /\ request'[m].revision = c.revision =>
                             request'[m].value = c.value
      BY DEF RequestsFit
    <2>1. CASE m = n
      BY <1>2, <2>1 DEF Fits
    <2>2. CASE m # n
      <3>1. request[m].revision <= key.revision
        BY DEF NumberInv, NumberTypeOK
      <3>2. request[m].revision = c.revision => c = key
        BY <1>0, <1>1, <3>1
      <3>3. /\ request[m].name \in Table
            /\ request[m].seen \subseteq catalogue[m]
            /\ \A i \in DOMAIN Legacy : i < request[m].floor
            /\ request[m].state = "update" /\ request[m].revision = key.revision =>
                 request[m].value = key.value
        BY <1>2, <2>2 DEF NumberInv, RequestsFit
      <3> QED
        BY <1>2, <2>2, <3>2, <3>3
    <2> QED
      BY <2>1, <2>2
  <1>8. ASSUME NEW m \in Creator, request[m].state = "granted"
        PROVE  /\ request[m].number \in 1..MaxNumber
               /\ request[m].number < key.value /\ request[m].number < c.value
               /\ request[m].number \notin DOMAIN Legacy
               /\ \A q \in Creator : \A t \in catalogue[q] : t.number # request[m].number
    BY <1>0, <1>1, <1>8 DEF NumberInv, GrantsAreFresh
  <1>9. ASSUME r.state = "granted"
        PROVE  /\ r.number \in 1..MaxNumber /\ r.number < c.value
               /\ r.number >= key.value
               /\ r.number \notin DOMAIN Legacy
               /\ \A q \in Creator : \A t \in catalogue[q] : t.number # r.number
    <2>1. /\ r.number \in 1..MaxNumber /\ r.number < c.value
          /\ key.value <= r.number /\ r.number \notin DOMAIN Legacy
      BY <1>9 DEF Fits
    <2>2. \A q \in Creator : \A t \in catalogue[q] :
            t.number \in DOMAIN Legacy \/ t.number < key.value
      BY DEF NumberInv, EntriesAreIssued
    <2> QED
      BY <1>0, <1>3, <2>1, <2>2
  <1>10. GrantsAreFresh'
    <2> SUFFICES ASSUME NEW m \in Creator, request'[m].state = "granted"
                 PROVE  /\ request'[m].number \in 1..MaxNumber
                        /\ request'[m].number < c.value
                        /\ request'[m].number \notin DOMAIN Legacy
                        /\ \A q \in Creator : \A t \in catalogue[q] :
                             t.number # request'[m].number
                        /\ \A q \in Creator \ {m} : request'[q].state = "granted" =>
                             request'[q].number # request'[m].number
      BY DEF GrantsAreFresh
    <2>1. CASE m = n
      <3>1. \A q \in Creator \ {n} : request[q].state = "granted" => request[q].number # r.number
        BY <1>0, <1>2, <1>3, <1>8, <1>9, <2>1
      <3> QED
        BY <1>2, <1>9, <2>1, <3>1
    <2>2. CASE m # n
      <3>1. request'[m] = request[m]
        BY <1>2, <2>2
      <3>2. \A q \in Creator \ {m} : request[q].state = "granted" =>
              request[q].number # request[m].number
        BY <3>1 DEF NumberInv, GrantsAreFresh
      <3>3. r.state = "granted" => r.number # request[m].number
        BY <1>0, <1>3, <1>8, <1>9, <3>1
      <3>4. \A q \in Creator \ {m} : request'[q].state = "granted" =>
              request'[q].number # request'[m].number
        BY <1>2, <3>1, <3>2, <3>3
      <3> QED
        BY <1>8, <3>1, <3>4
    <2> QED
      BY <2>1, <2>2
  <1>11. UniqueNumbers'
    BY DEF NumberInv, UniqueNumbers
  <1> QED
    BY <1>4, <1>5, <1>6, <1>7, <1>10, <1>11 DEF NumberInv

\* A transaction that ends leaves nothing behind.
LEMMA NoRequestFits ==
  ASSUME NumberInv, NEW n \in Creator, NEW c, c = key', Moves
  PROVE  Fits(n, NoRequest, c)
  <1>1. key.revision \in Nat /\ c.revision \in Nat
    <2>1. key.revision \in Nat
      BY TableTypes DEF NumberInv
    <2>2. CASE c = key
      BY <2>1, <2>2
    <2>3. CASE c # key
      BY <2>1, <2>3 DEF Moves
    <2> QED
      BY <2>1, <2>2, <2>3
  <1>2. NoRequest.revision <= c.revision
    BY <1>1, NoRequestFields
  <1> QED
    BY <1>2, NoRequestFields DEF Fits

LEMMA StartTableStep ==
  ASSUME NumberInv, NEW n \in Creator, NEW name \in Table, StartTable(n, name)
  PROVE  NumberInv'
  <1> DEFINE r == [NoRequest EXCEPT !.state = "read", !.name = name,
                     !.seen = catalogue[n], !.floor = FirstFree(n)]
  <1>1. FirstFree(n) \in Nat /\ \A i \in DOMAIN Legacy : i < FirstFree(n)
    BY FirstFreeIsFree, FloorIsAboveLegacy DEF NumberInv
  <1>2. /\ r.state = "read" /\ r.name = name /\ r.seen = catalogue[n]
        /\ r.floor = FirstFree(n) /\ r.revision = 0 /\ r.attempt = 0
    BY DEF NoRequest
  <1>3. r \in Request
    <2>1. catalogue[n] \in SUBSET TableEntry
      BY DEF NumberInv, NumberTypeOK
    <2>2. 1 \in 1..MaxNumber
      BY TableNumbersAssumption
    <2> QED
      BY <1>1, <2>1, <2>2 DEF NoRequest, Request
  <1>4. request' = [request EXCEPT ![n] = r]
    BY DEF StartTable
  <1> HIDE DEF r
  <1>5. Fits(n, r, key)
    <2>1. key.revision \in Nat /\ 0 < MaxAttempts
      BY TableTypes, TableNumbersAssumption DEF NumberInv
    <2> QED
      BY <1>1, <1>2, <1>3, <2>1 DEF Fits
  <1>6. key' = key /\ catalogue' = catalogue /\ faults' \in 0..MaxFaults
    BY DEF StartTable, NumberInv, NumberTypeOK
  <1> QED
    BY <1>4, <1>5, <1>6, RequestStep DEF Moves

LEMMA ReadStep ==
  ASSUME NumberInv, NEW n \in Creator, Read(n)
  PROVE  NumberInv'
  <1> DEFINE o == request[n]
             r == [o EXCEPT !.state = "update", !.value = key.value,
                     !.revision = key.revision]
  <1>1. /\ o \in Request /\ key.value \in 1..MaxNumber
        /\ key.revision \in Nat
    BY TableTypes DEF NumberInv
  <1>2. o.state = "read"
    BY DEF Read
  <1>3. request' = [request EXCEPT ![n] = r]
    BY DEF Read
  <1>4. /\ o.attempt < MaxAttempts
        /\ o.name \in Table /\ o.seen \subseteq catalogue[n]
        /\ \A i \in DOMAIN Legacy : i < o.floor
    BY <1>2 DEF NumberInv, NumberTypeOK, RequestsFit
  <1> HIDE DEF o
  <1>5. /\ r \in Request
        /\ r.state = "update" /\ r.value = key.value
        /\ r.revision = key.revision /\ r.attempt = o.attempt
        /\ r.name = o.name /\ r.seen = o.seen /\ r.floor = o.floor
    BY <1>1 DEF Request
  <1> HIDE DEF r
  <1>6. Fits(n, r, key)
    BY <1>1, <1>4, <1>5 DEF Fits
  <1>7. key' = key /\ catalogue' = catalogue /\ faults' \in 0..MaxFaults
    BY DEF Read, NumberInv, NumberTypeOK
  <1> QED
    BY <1>3, <1>6, <1>7, RequestStep DEF Moves

\* An update that gets through moves the counter past the candidate.
LEMMA PutMoves ==
  ASSUME NumberInv, NEW n \in Creator, request[n].state = "update", Put(n)
  PROVE  /\ Moves
         /\ key'.value = CandidateNumber(n) + 1
         /\ key'.revision = key.revision + 1
         /\ CandidateNumber(n) \in 1..MaxNumber /\ CandidateNumber(n) \in Nat
         /\ CandidateNumber(n) \notin DOMAIN Legacy /\ CandidateNumber(n) >= key.value
  <1>1. /\ key.value \in 1..MaxNumber /\ key.value \in Nat
        /\ key.revision \in Nat /\ MaxNumber \in Nat
    BY TableTypes DEF NumberInv
  <1>2. /\ RevisionHolds(n) /\ CandidateNumber(n) < MaxNumber
        /\ key' = [value |-> CandidateNumber(n) + 1, revision |-> key.revision + 1]
    BY DEF Put
  <1>3. /\ CandidateNumber(n) \in Nat /\ CandidateNumber(n) \notin DOMAIN Legacy
        /\ CandidateNumber(n) >= key.value
    BY <1>2, CandidateIsHigh DEF NumberInv
  <1>4. key'.value = CandidateNumber(n) + 1 /\ key'.revision = key.revision + 1
    BY <1>2
  <1>5. CandidateNumber(n) + 1 \in 1..MaxNumber /\ key.revision + 1 \in Nat
    BY <1>1, <1>2, <1>3
  <1>6. key' \in [value : 1..MaxNumber, revision : Nat]
    BY <1>2, <1>5
  <1>7. CandidateNumber(n) \in 1..MaxNumber
    BY <1>1, <1>2, <1>3
  <1> QED
    BY <1>1, <1>3, <1>4, <1>6, <1>7 DEF Moves

LEMMA GrantedStep ==
  ASSUME NumberInv, NEW n \in Creator, Granted(n)
  PROVE  NumberInv'
  <1> DEFINE o == request[n]
             r == [o EXCEPT !.state = "granted", !.number = CandidateNumber(n)]
  <1>1. o \in Request /\ o.revision \in Nat /\ key.revision \in Nat
    BY TableTypes DEF NumberInv
  <1>2. o.state = "update" /\ Put(n)
    BY DEF Granted
  <1>3. request' = [request EXCEPT ![n] = r]
    BY DEF Granted
  <1>4. /\ o.revision <= key.revision
        /\ o.name \in Table /\ o.seen \subseteq catalogue[n]
        /\ \A i \in DOMAIN Legacy : i < o.floor
    BY <1>2 DEF NumberInv, NumberTypeOK, RequestsFit
  <1>5. /\ Moves
        /\ key'.value = CandidateNumber(n) + 1
        /\ key'.revision = key.revision + 1
        /\ CandidateNumber(n) \in 1..MaxNumber /\ CandidateNumber(n) \in Nat
        /\ CandidateNumber(n) \notin DOMAIN Legacy /\ CandidateNumber(n) >= key.value
    BY <1>2, PutMoves
  <1> HIDE DEF o
  <1>6. /\ r \in Request
        /\ r.state = "granted" /\ r.number = CandidateNumber(n)
        /\ r.revision = o.revision
        /\ r.name = o.name /\ r.seen = o.seen /\ r.floor = o.floor
    BY <1>1, <1>5 DEF Request
  <1> HIDE DEF r
  <1>7. key.value \in Nat
    BY TableTypes DEF NumberInv
  <1>8. PICK c : c = key'
    OBVIOUS
  <1>9. c.value = CandidateNumber(n) + 1 /\ c.revision = key.revision + 1
    BY <1>5, <1>8
  <1>10. Fits(n, r, c)
    BY <1>1, <1>4, <1>5, <1>6, <1>7, <1>9 DEF Fits
  <1>11. catalogue' = catalogue /\ faults' \in 0..MaxFaults
    BY DEF Granted, NumberInv, NumberTypeOK
  <1> QED
    BY <1>3, <1>5, <1>8, <1>10, <1>11, RequestStep

LEMMA RefusedStep ==
  ASSUME NumberInv, NEW n \in Creator, Refused(n)
  PROVE  NumberInv'
  <1> DEFINE o == request[n]
             k == o.attempt + 1
             r == [o EXCEPT !.state = "read", !.attempt = k]
  <1>1. /\ o \in Request /\ o.revision \in Nat /\ key.revision \in Nat
        /\ o.attempt \in Nat /\ MaxAttempts \in Nat
    BY TableTypes, TableNumbersAssumption DEF NumberInv
  <1>2. o.state = "update"
    BY DEF Refused
  <1>3. /\ o.revision <= key.revision /\ o.attempt < MaxAttempts
        /\ o.name \in Table /\ o.seen \subseteq catalogue[n]
        /\ \A i \in DOMAIN Legacy : i < o.floor
    BY <1>2 DEF NumberInv, NumberTypeOK, RequestsFit
  <1>4. catalogue' = catalogue /\ faults' \in 0..MaxFaults
    <2>1. faults' = faults \/ (faults < MaxFaults /\ faults' = faults + 1)
      BY DEF Refused
    <2> QED
      BY <2>1, TableNumbersAssumption DEF Refused, NumberInv, NumberTypeOK
  <1>5. key' = key \/ Put(n)
    BY DEF Refused
  <1>6. PICK c : c = key'
    OBVIOUS
  <1>7. Moves /\ c.revision \in Nat /\ o.revision <= c.revision
    <2>1. CASE key' = key
      BY <1>1, <1>3, <1>6, <2>1 DEF Moves
    <2>2. CASE Put(n)
      <3>1. Moves /\ key'.revision = key.revision + 1
        BY <1>2, <2>2, PutMoves
      <3> QED
        BY <1>1, <1>3, <1>6, <3>1
    <2> QED
      BY <1>5, <2>1, <2>2
  <1>8. CASE o.attempt + 1 = MaxAttempts
    <2>1. request' = [request EXCEPT ![n] = NoRequest]
      BY <1>8 DEF Refused, Retried
    <2>2. Fits(n, NoRequest, c)
      BY <1>6, <1>7, NoRequestFits
    <2> QED
      BY <1>4, <1>6, <1>7, <2>1, <2>2, RequestStep
  <1>9. CASE o.attempt + 1 # MaxAttempts
    <2>1. request' = [request EXCEPT ![n] = r]
      BY <1>9 DEF Refused, Retried
    <2>2. k \in Nat /\ k < MaxAttempts
      BY <1>1, <1>3, <1>9
    <2> HIDE DEF o, k
    <2>3. /\ r \in Request
          /\ r.state = "read" /\ r.attempt = k
          /\ r.revision = o.revision
          /\ r.name = o.name /\ r.seen = o.seen /\ r.floor = o.floor
      BY <1>1, <2>2 DEF Request
    <2> HIDE DEF r
    <2>4. r.attempt < MaxAttempts
      BY <2>2, <2>3
    <2>5. Fits(n, r, c)
      BY <1>3, <1>7, <2>3, <2>4 DEF Fits
    <2> QED
      BY <1>4, <1>6, <1>7, <2>1, <2>5, RequestStep
  <1> QED
    BY <1>8, <1>9

LEMMA AbortStep ==
  ASSUME NumberInv, NEW n \in Creator, Abort(n)
  PROVE  NumberInv'
  <1>1. faults' \in 0..MaxFaults
    <2>1. faults' = faults \/ (faults < MaxFaults /\ faults' = faults + 1)
      BY DEF Abort
    <2> QED
      BY <2>1, TableNumbersAssumption DEF NumberInv, NumberTypeOK
  <1>2. /\ request' = [request EXCEPT ![n] = NoRequest]
        /\ catalogue' = catalogue /\ key' = key
    BY DEF Abort
  <1>3. Moves
    BY <1>2 DEF Moves
  <1>4. Fits(n, NoRequest, key)
    BY <1>2, <1>3, NoRequestFits
  <1> QED
    BY <1>1, <1>2, <1>3, <1>4, RequestStep

\* What was read of a catalogue is still there, with one entry more.
LEMMA CreateStep ==
  ASSUME NumberInv, NEW n \in Creator, Create(n)
  PROVE  NumberInv'
  <1> DEFINE e == [name |-> request[n].name, number |-> request[n].number]
  <1>1. request' = [request EXCEPT ![n] = NoRequest] /\ key' = key /\ faults' = faults
    BY DEF Create
  <1>2. CASE request[n].number \in Numbers(n)
    <2>1. catalogue' = catalogue
      BY <1>2 DEF Create
    <2>2. Moves /\ faults' \in 0..MaxFaults
      BY <1>1 DEF Moves, NumberInv, NumberTypeOK
    <2>3. Fits(n, NoRequest, key)
      BY <1>1, <2>2, NoRequestFits
    <2> QED
      BY <1>1, <2>1, <2>2, <2>3, RequestStep
  <1>3. CASE request[n].number \notin Numbers(n)
    <2>1. /\ request[n].state = "granted"
          /\ catalogue' = [catalogue EXCEPT ![n] = @ \cup {e}]
      BY <1>3 DEF Create
    <2>2. e.name = request[n].name /\ e.number = request[n].number
      OBVIOUS
    <2>3. /\ e.name \in Table /\ e.number \in 1..MaxNumber
          /\ e.number < key.value /\ e.number \notin DOMAIN Legacy
          /\ \A m \in Creator : \A t \in catalogue[m] : t.number # e.number
          /\ \A m \in Creator \ {n} : request[m].state = "granted" =>
               request[m].number # e.number
      BY <2>1, <2>2 DEF NumberInv, RequestsFit, GrantsAreFresh
    <2>4. e \in TableEntry
      BY <2>2, <2>3 DEF TableEntry
    <2> HIDE DEF e
    <2>5. /\ request'[n] = NoRequest
          /\ \A m \in Creator : m # n => request'[m] = request[m]
      BY <1>1 DEF NumberInv, NumberTypeOK
    <2>6. \A m \in Creator : /\ catalogue[m] \subseteq catalogue'[m]
                             /\ catalogue'[m] \subseteq catalogue[m] \cup {e}
      BY <2>1 DEF NumberInv, NumberTypeOK
    <2>7. NumberTypeOK'
      <3>1. request' \in [Creator -> Request]
        BY <1>1, NoRequestFields DEF NumberInv, NumberTypeOK
      <3>2. catalogue' \in [Creator -> SUBSET TableEntry]
        BY <2>1, <2>4 DEF NumberInv, NumberTypeOK
      <3>3. key.revision \in Nat
        BY TableTypes DEF NumberInv
      <3>4. ASSUME NEW m \in Creator
            PROVE  /\ request'[m].state \in {"read", "update"} =>
                        request'[m].attempt < MaxAttempts
                   /\ request'[m].revision <= key.revision
        <4>1. CASE m = n
          BY <2>5, <3>3, <4>1, NoRequestFields
        <4>2. CASE m # n
          BY <2>5, <4>2 DEF NumberInv, NumberTypeOK
        <4> QED
          BY <4>1, <4>2
      <3>5. key' \in [value : 1..MaxNumber, revision : Nat] /\ faults' \in 0..MaxFaults
        BY <1>1 DEF NumberInv, NumberTypeOK
      <3> QED
        BY <1>1, <3>1, <3>2, <3>4, <3>5 DEF NumberTypeOK
    <2>8. LegacyIsKept'
      BY <2>6 DEF NumberInv, LegacyIsKept
    <2>9. EntriesAreIssued'
      BY <1>1, <2>3, <2>6 DEF NumberInv, EntriesAreIssued
    <2>10. RequestsFit'
      <3> SUFFICES ASSUME NEW m \in Creator, request'[m].state # "none"
                   PROVE  /\ request'[m].name \in Table
                          /\ request'[m].seen \subseteq catalogue'[m]
                          /\ \A i \in DOMAIN Legacy : i < request'[m].floor
                          /\ request'[m].state = "update" /\ request'[m].revision = key.revision =>
                               request'[m].value = key.value
        BY <1>1 DEF RequestsFit
      <3>1. m # n
        BY <2>5, NoRequestFields
      <3> QED
        BY <2>5, <2>6, <3>1 DEF NumberInv, RequestsFit
    <2>11. GrantsAreFresh'
      <3> SUFFICES ASSUME NEW m \in Creator, request'[m].state = "granted"
                   PROVE  /\ request'[m].number \in 1..MaxNumber
                          /\ request'[m].number < key.value
                          /\ request'[m].number \notin DOMAIN Legacy
                          /\ \A q \in Creator : \A t \in catalogue'[q] :
                               t.number # request'[m].number
                          /\ \A q \in Creator \ {m} : request'[q].state = "granted" =>
                               request'[q].number # request'[m].number
        BY <1>1 DEF GrantsAreFresh
      <3>1. m # n /\ request'[m] = request[m]
        BY <2>5, NoRequestFields
      <3>2. /\ request[m].number \in 1..MaxNumber /\ request[m].number < key.value
            /\ request[m].number \notin DOMAIN Legacy
            /\ \A q \in Creator : \A t \in catalogue[q] : t.number # request[m].number
            /\ \A q \in Creator \ {m} : request[q].state = "granted" =>
                 request[q].number # request[m].number
        BY <3>1 DEF NumberInv, GrantsAreFresh
      <3>3. e.number # request[m].number
        BY <2>3, <3>1
      <3>4. \A q \in Creator : \A t \in catalogue'[q] : t.number # request[m].number
        BY <2>6, <3>2, <3>3
      <3>5. \A q \in Creator \ {m} : request'[q].state = "granted" =>
              request'[q].number # request[m].number
        BY <2>5, <3>2, NoRequestFields
      <3> QED
        BY <3>1, <3>2, <3>4, <3>5
    <2>12. UniqueNumbers'
      BY <2>3, <2>6 DEF NumberInv, UniqueNumbers
    <2> QED
      BY <2>7, <2>8, <2>9, <2>10, <2>11, <2>12 DEF NumberInv
  <1> QED
    BY <1>2, <1>3

LEMMA LearnStep ==
  ASSUME NumberInv, NEW n \in Creator, NEW m \in Creator, Learn(n, m)
  PROVE  NumberInv'
  <1>1. PICK e \in catalogue[m] : catalogue' = [catalogue EXCEPT ![n] = @ \cup {e}]
    BY DEF Learn
  <1>2. key' = key /\ request' = request /\ faults' = faults
    BY DEF Learn
  <1>3. \A q \in Creator : /\ catalogue[q] \subseteq catalogue'[q]
                           /\ catalogue'[q] \subseteq catalogue[q] \cup {e}
    BY <1>1 DEF NumberInv, NumberTypeOK
  <1>4. NumberTypeOK'
    <2>1. catalogue' \in [Creator -> SUBSET TableEntry]
      BY <1>1 DEF NumberInv, NumberTypeOK
    <2> QED
      BY <1>2, <2>1 DEF NumberInv, NumberTypeOK
  <1>5. LegacyIsKept'
    BY <1>3 DEF NumberInv, LegacyIsKept
  <1>6. EntriesAreIssued'
    BY <1>2, <1>3 DEF NumberInv, EntriesAreIssued
  <1>7. RequestsFit'
    BY <1>2, <1>3 DEF NumberInv, RequestsFit
  <1>8. GrantsAreFresh'
    BY <1>2, <1>3 DEF NumberInv, GrantsAreFresh
  <1>9. UniqueNumbers'
    BY <1>3 DEF NumberInv, UniqueNumbers
  <1> QED
    BY <1>4, <1>5, <1>6, <1>7, <1>8, <1>9 DEF NumberInv

LEMMA InitNumberInv == NumberInit => NumberInv
  <1> SUFFICES ASSUME NumberInit PROVE NumberInv
    OBVIOUS
  <1>1. PICK k \in Nat : k < MaxNumber /\ DOMAIN Legacy = 1..k
    BY LegacyNumbers
  <1>2. \A i \in DOMAIN Legacy : i \in 1..MaxNumber /\ Legacy[i] \in Table
    BY <1>1, LegacyNumbers, TableNumbersAssumption
  <1> DEFINE L == {[name |-> Legacy[i], number |-> i] : i \in DOMAIN Legacy}
  <1>3. L \in SUBSET TableEntry
    BY <1>2 DEF TableEntry
  <1>4. \A t \in L : t.number \in DOMAIN Legacy /\ t.name = Legacy[t.number]
    OBVIOUS
  <1>5. \A n \in Creator : catalogue[n] = L /\ request[n] = NoRequest
    BY DEF NumberInit
  <1>6. key = [value |-> 1, revision |-> 1] /\ faults = 0
    BY DEF NumberInit
  <1>7. NumberTypeOK
    <2>1. catalogue \in [Creator -> SUBSET TableEntry]
      BY <1>3 DEF NumberInit
    <2>2. request \in [Creator -> Request]
      BY NoRequestFields DEF NumberInit
    <2>3. key \in [value : 1..MaxNumber, revision : Nat] /\ faults \in 0..MaxFaults
      BY <1>6, TableNumbersAssumption
    <2>4. \A n \in Creator : /\ request[n].state \in {"read", "update"} =>
                                  request[n].attempt < MaxAttempts
                             /\ request[n].revision <= key.revision
      BY <1>5, <1>6, NoRequestFields
    <2> QED
      BY <2>1, <2>2, <2>3, <2>4 DEF NumberTypeOK
  <1>8. LegacyIsKept
    BY <1>5 DEF LegacyIsKept
  <1> HIDE DEF L
  <1>9. EntriesAreIssued /\ UniqueNumbers
    BY <1>4, <1>5 DEF EntriesAreIssued, UniqueNumbers
  <1>10. RequestsFit /\ GrantsAreFresh
    BY <1>5, NoRequestFields DEF RequestsFit, GrantsAreFresh
  <1> QED
    BY <1>7, <1>8, <1>9, <1>10 DEF NumberInv

LEMMA NumberStep == NumberInv /\ [NumberNext]_numberVars => NumberInv'
  <1> SUFFICES ASSUME NumberInv, [NumberNext]_numberVars PROVE NumberInv'
    OBVIOUS
  <1>1. CASE UNCHANGED numberVars
    BY <1>1 DEF numberVars, NumberInv, NumberTypeOK, LegacyIsKept, EntriesAreIssued,
       RequestsFit, GrantsAreFresh, UniqueNumbers
  <1>2. ASSUME NEW n \in Creator,
               \/ \E name \in Table : StartTable(n, name)
               \/ Read(n) \/ Granted(n) \/ Refused(n) \/ Create(n) \/ Abort(n)
               \/ \E m \in Creator : Learn(n, m)
        PROVE  NumberInv'
    BY <1>2, StartTableStep, ReadStep, GrantedStep, RefusedStep, CreateStep,
       AbortStep, LearnStep
  <1> QED
    BY <1>1, <1>2 DEF NumberNext

----------------------------------------------------------------------------
(* Table numbers: the theorems. *)

\* The counter stays ahead of every number in a catalogue or in a
\* transaction, whatever was read of it before, retried, lost or aborted
\* (TableNumberAllocator::allocate).
THEOREM NumberInvariantHolds == NumberSpec => []NumberInv
  <1> QED
    BY InitNumberInv, NumberStep, PTL DEF NumberSpec

\* No two tables of the cluster have the same number: one update of the
\* counter succeeds per revision, and each hands out a number that neither
\* the counter nor the legacy catalogue has used.
THEOREM UniqueNumbersHolds == NumberSpec => []UniqueNumbers
  <1>1. NumberInv => UniqueNumbers
    BY DEF NumberInv
  <1> QED
    BY <1>1, NumberInvariantHolds, PTL

\* The number a transaction is given is free in the catalogue it has read,
\* because next_table_number's floor is above the tables that are older than
\* the counter.
THEOREM NumberIsFreeHolds == NumberSpec => []NumberIsFree
  <1>1. NumberInv => NumberIsFree
    BY DEF NumberInv, RequestsFit, GrantsAreFresh, NumberIsFree
  <1> QED
    BY <1>1, NumberInvariantHolds, PTL
=============================================================================
