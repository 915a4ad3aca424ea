------------------------- MODULE TimestampOracleInv -------------------------
(* The inductive invariant behind the properties of TimestampOracle. *)
EXTENDS TimestampOracle

\* Nothing reserved or handed out reaches the counter.
CounterAhead ==
  /\ \A i \in 1..Len(issued) : issued[i].ts < counter
  /\ \A n \in Node : /\ batch[n].upper <= counter
                     /\ task[n].pc = "install" => task[n].low + BatchSize <= counter

\* A revision that is still current was read together with the counter.
ReadIsCurrent ==
  \A n \in Node : task[n].pc = "swap" =>
    /\ task[n].rev <= rev
    /\ task[n].rev = rev => task[n].seen = counter

\* A range about to be installed lies above the node's own past.
PendingIsAbove ==
  \A n \in Node : task[n].pc = "install" =>
    /\ batch[n].upper <= task[n].low
    /\ \A i \in 1..Len(issued) :
         issued[i].node = n => issued[i].ts < task[n].low

Apart(lo1, hi1, lo2, hi2) == hi1 <= lo2 \/ hi2 <= lo1

\* What is left of two nodes' ranges, installed or about to be, never meets.
RangesApart ==
  \A n, m \in Node : n # m =>
    /\ Apart(batch[n].current, batch[n].upper,
             batch[m].current, batch[m].upper)
    /\ task[n].pc = "install" =>
         /\ Apart(task[n].low, task[n].low + BatchSize,
                  batch[m].current, batch[m].upper)
         /\ task[m].pc = "install" =>
              Apart(task[n].low, task[n].low + BatchSize,
                    task[m].low, task[m].low + BatchSize)

\* No range holds a timestamp that was handed out already.
IssuedOutside ==
  \A i \in 1..Len(issued) : \A n \in Node :
    /\ Apart(issued[i].ts, issued[i].ts + 1,
             batch[n].current, batch[n].upper)
    /\ task[n].pc = "install" =>
         Apart(issued[i].ts, issued[i].ts + 1, task[n].low, task[n].low + BatchSize)

\* A node's range lies above what the node was given, and above everything
\* handed out before its epoch.
RangeIsAbove ==
  /\ \A n \in Node : batch[n].current <= batch[n].upper
  /\ \A n \in Node : \A i \in 1..Len(issued) :
       issued[i].node = n \/ i <= mark[n] =>
         issued[i].ts < batch[n].current \/ batch[n].current = batch[n].upper

\* A range reserved in the present epoch lies above its beginning.
EpochIsFenced ==
  \A n \in Node :
    /\ mark[n] <= Len(issued)
    /\ task[n].epoch <= batch[n].epoch
    /\ task[n].pc = "install" /\ task[n].epoch = batch[n].epoch =>
         \A i \in 1..Len(issued) :
           i <= mark[n] => issued[i].ts < task[n].low

OracleInv ==
  /\ TypeOK
  /\ CounterAhead
  /\ ReadIsCurrent
  /\ PendingIsAbove
  /\ RangesApart
  /\ IssuedOutside
  /\ RangeIsAbove
  /\ EpochIsFenced
  /\ Unique
  /\ NodeMonotone
  /\ Fenced
=============================================================================
