---------------------------- MODULE AtomicCommit ----------------------------
(***************************************************************************)
(* What a cross-partition mutation promises, with no coordinator, no       *)
(* decision record, no Raft group and no watcher: every transaction gets   *)
(* one outcome, once; a participant partition makes its slice visible only *)
(* after that outcome is "committed"; and a client is told of success only *)
(* for a committed transaction.  TwoPhase.tla is shown to implement it.    *)
(***************************************************************************)
CONSTANTS Txn,          \* transaction ids
          Part,         \* partitions
          Participants  \* [Txn -> SUBSET Part], the partitions written

VARIABLES outcome,      \* [Txn -> {"pending", "committed", "rolledback"}]
          visible,      \* [Txn -> SUBSET Part], where the slice was published
          acked         \* transactions whose client saw success

vars == <<outcome, visible, acked>>

Init == /\ outcome = [t \in Txn |-> "pending"]
        /\ visible = [t \in Txn |-> {}]
        /\ acked = {}

Decide(t) == /\ outcome[t] = "pending"
             /\ \E o \in {"committed", "rolledback"} :
                  outcome' = [outcome EXCEPT ![t] = o]
             /\ UNCHANGED <<visible, acked>>

Publish(t, p) == /\ outcome[t] = "committed"
                 /\ p \in Participants[t]
                 /\ visible' = [visible EXCEPT ![t] = @ \cup {p}]
                 /\ UNCHANGED <<outcome, acked>>

Acknowledge(t) == /\ outcome[t] = "committed"
                  /\ acked' = acked \cup {t}
                  /\ UNCHANGED <<outcome, visible>>

\* The early-acknowledging coordinator learns the outcome and answers the
\* client in one step when it turns the staging record into the decision.
DecideAndAcknowledge(t) == /\ outcome[t] = "pending"
                           /\ outcome' = [outcome EXCEPT ![t] = "committed"]
                           /\ acked' = acked \cup {t}
                           /\ UNCHANGED visible

Next == \E t \in Txn : \/ Decide(t)
                       \/ Acknowledge(t)
                       \/ DecideAndAcknowledge(t)
                       \/ \E p \in Part : Publish(t, p)

Spec == Init /\ [][Next]_vars
=============================================================================
