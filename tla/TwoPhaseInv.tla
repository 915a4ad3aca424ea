----------------------------- MODULE TwoPhaseInv -----------------------------
(***************************************************************************)
(* The inductive invariant behind the safety properties of TwoPhase, as a  *)
(* conjunction of named parts.  TLC checks it on small instances,          *)
(* TwoPhaseProofs.tla proves it for every value of the constants.          *)
(***************************************************************************)
EXTENDS TwoPhase

\* A replica applies a prefix of the log, the ready leader all of it.
AppliedPrefix ==
  \A p \in Part :
    /\ \A r \in Rep : applied[p][r] <= Len(log[p])
    /\ leader[p] # NoLeader => applied[p][leader[p]] = Len(log[p])

\* Log entries, coordinators and clients only act on the recorded outcome.
FollowsOutcome ==
  \A t \in Txn :
    /\ \A p \in Part : /\ InLog(p, "commit", t) => outcome[t] = "committed"
                       /\ InLog(p, "rollback", t) => outcome[t] = "rolledback"
    /\ coord[t] \in {"committing", "cleanup"} => outcome[t] = "committed"
    /\ coord[t] = "rollingback" => outcome[t] = "rolledback"
    /\ coord[t] = "staged" => t \in EarlyAck
    /\ t \in acked => outcome[t] = "committed"

\* The record agrees with the outcome and names all participants of a commit.
RecordAgrees ==
  \A t \in Txn :
    /\ IsFinal(decisions[t]) => decisions[t].st = outcome[t]
    /\ decisions[t].st = "staging" => outcome[t] = "pending"
    /\ decisions[t].st \in {"staging", "committed"}
         => decisions[t].participants = Participants[t]

AppliedCommit(p, r, t) ==
  \E i \in 1..applied[p][r] : log[p][i] = [kind |-> "commit", txn |-> t]

\* A record is deleted only behind the last straggler.
DeletedIsOver ==
  \A t \in Txn :
    decisions[t].st = "none" /\ outcome[t] # "pending" =>
      /\ coord[t] = "done"
      /\ outcome[t] = "committed" =>
           \A p \in Participants[t] : \A r \in Rep : AppliedCommit(p, r, t)

\* Nothing prepares a transaction again behind its commit entry.
NoPrepareAfterCommit ==
  \A p \in Part : \A t \in Txn :
    /\ \A i, j \in 1..Len(log[p]) :
         /\ log[p][i] = [kind |-> "commit", txn |-> t]
         /\ log[p][j] = [kind |-> "prepare", txn |-> t]
         => j < i
    /\ \A r \in Rep : AppliedCommit(p, r, t) => t \notin prepared[p][r]

\* Only participants are asked to prepare, and only they do.
OnlyParticipants ==
  \A t \in Txn : \A p \in Part :
    /\ inflight[t][p] > 0 => p \in Participants[t]
    /\ InLog(p, "prepare", t) => p \in Participants[t]
    /\ \A r \in Rep : t \in prepared[p][r] => p \in Participants[t]

\* A yes vote stands on a staged intent until the outcome removes it.
YesIsBacked ==
  \A t \in Txn :
    /\ \A p \in Part : votes[t][p] = "yes" =>
         Staged(p, t) \/ InLog(p, "commit", t) \/ outcome[t] = "rolledback"
    /\ outcome[t] = "committed" \/ decisions[t].st = "staging" => AllYes(t)

\* An Ok answer under a commit decision is a published slice.
AnsweredIsPublished ==
  \A t \in Txn :
    /\ outcome[t] = "pending" => answered[t] = {}
    /\ outcome[t] = "committed" =>
         \A p \in answered[t] : InLog(p, "commit", t)
    /\ t \in acked /\ t \notin EarlyAck =>
         \A p \in Participants[t] : InLog(p, "commit", t)
    /\ coord[t] = "cleanup" => t \in EarlyAck

\* The inductive invariant, under the assumption that the grace period is long
\* enough (GraceCoversStragglers).
IndInv ==
  /\ TypeOK
  /\ AppliedPrefix
  /\ FollowsOutcome
  /\ RecordAgrees
  /\ DeletedIsOver
  /\ NoPrepareAfterCommit
  /\ OnlyParticipants
  /\ YesIsBacked
  /\ AnsweredIsPublished

----------------------------------------------------------------------------
(* The order of commits. *)

\* Neither the log nor a replica of p knows t.
Untouched(p, t) ==
  /\ \A i \in 1..Len(log[p]) : log[p][i].txn # t
  /\ \A r \in Rep : t \notin prepared[p][r]

\* Without a second delivery, the one that is on its way finds nothing of its
\* transaction, and a log has one prepare entry of it.
PreparedOnce ==
  \A t \in Txn : \A p \in Part :
    /\ coord[t] = "idle" => inflight[t][p] = 0
    /\ coord[t] = "idle" \/ inflight[t][p] > 0 => Untouched(p, t)
    /\ \A i, j \in 1..Len(log[p]) :
         /\ log[p][i] = [kind |-> "prepare", txn |-> t]
         /\ log[p][j] = [kind |-> "prepare", txn |-> t]
         => i = j

\* A yes vote, and a commit decision, stand on prepare entries.
VotesAreLogged ==
  \A t \in Txn :
    /\ \A p \in Part : votes[t][p] = "yes" => InLog(p, "prepare", t)
    /\ \/ coord[t] \in {"staged", "committing", "cleanup"}
       \/ decisions[t].st \in {"staging", "committed"}
       => \A p \in Participants[t] : InLog(p, "prepare", t)
    /\ decisions[t].st \in {"staging", "committed"}
         => decisions[t].participants = Participants[t]

\* A replica that has applied a prepare holds the intent until it applies
\* the entry that resolves it.
IntentsMatch ==
  \A p \in Part : \A r \in Rep : \A t \in Txn : \A i \in 1..applied[p][r] :
    log[p][i] = [kind |-> "prepare", txn |-> t] =>
      (t \in prepared[p][r] <=>
         \A j \in (i + 1)..applied[p][r] : log[p][j].txn # t)

\* What is prepared lies above what is committed.
StagedAbove ==
  \A p \in Part : \A t, u \in Txn :
    Staged(p, t) /\ InLog(p, "commit", u) => TS[u] < TS[t]

\* The inductive invariant behind CommitsInOrder, when a prepare request is
\* delivered at most once.
OrderInv ==
  /\ TypeOK
  /\ AppliedPrefix
  /\ PreparedOnce
  /\ VotesAreLogged
  /\ IntentsMatch
  /\ StagedAbove
  /\ CommitsInOrder
=============================================================================
