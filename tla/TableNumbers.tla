---------------------------- MODULE TableNumbers ----------------------------
(***************************************************************************)
(* How nodes of a cluster number the tables they create. A node finds the  *)
(* first number its own catalogue does not use, asks the shared counter    *)
(* for a number that is no lower (table_number_allocator.rs) and puts the  *)
(* table into its catalogue; other nodes learn of it later. The catalogue  *)
(* may be older than the counter: the nodes start with the tables Legacy,  *)
(* numbered from 1, which stands for the first number of a user table.     *)
(***************************************************************************)
EXTENDS Integers, FiniteSets, FiniteSetsExt

CONSTANTS
  Creator,      \* the nodes, each of which may create tables
  Table,
  NoTable,
  MaxAttempts,  \* how often an allocation tries
  MaxNumber,    \* bound on numbers
  MaxFaults,    \* bound on lost answers and failed transactions
  Legacy        \* the tables that are older than the counter

ASSUME TableNumbersAssumption ==
  /\ NoTable \notin Table
  /\ MaxAttempts \in Nat \ {0} /\ MaxNumber \in Nat \ {0}
  /\ MaxFaults \in Nat
  /\ Legacy \in UNION {[1..k -> Table] : k \in 0..(MaxNumber - 1)}

VARIABLES
  key,       \* the key of the bucket: its value and its revision
  catalogue, \* [Creator -> the tables it has, with their numbers]
  request,   \* [Creator -> the transaction that creates a table, if any]
  faults

numberVars == <<key, catalogue, request, faults>>

Numbers(n) == {t.number : t \in catalogue[n]}
Names(n) == {t.name : t \in catalogue[n]}
Started == UNION {Names(n) : n \in Creator} \cup {request[n].name : n \in Creator}

NoRequest == [state |-> "none", name |-> NoTable, seen |-> {}, floor |-> 1,
              value |-> 1, revision |-> 0, number |-> 0, attempt |-> 0]

\* connect creates the key once, with the first number.
NumberInit ==
  /\ key = [value |-> 1, revision |-> 1]
  /\ catalogue = [n \in Creator |->
                    {[name |-> Legacy[i], number |-> i] : i \in DOMAIN Legacy}]
  /\ request = [n \in Creator |-> NoRequest]
  /\ faults = 0

\* next_table_number: the first number the catalogue does not use.
FirstFree(n) == Min((1..(Cardinality(Numbers(n)) + 1)) \ Numbers(n))

StartTable(n, name) ==
  /\ request[n] = NoRequest /\ name \notin Started
  /\ request' = [request EXCEPT ![n] = [NoRequest EXCEPT
                   !.state = "read", !.name = name, !.seen = catalogue[n],
                   !.floor = FirstFree(n)]]
  /\ UNCHANGED <<key, catalogue, faults>>

\* Every attempt reads the counter and its revision.
Read(n) ==
  /\ request[n].state = "read"
  /\ request' = [request EXCEPT ![n] = [@ EXCEPT
                   !.state = "update", !.value = key.value,
                   !.revision = key.revision]]
  /\ UNCHANGED <<key, catalogue, faults>>

\* Mutant: the counter's value alone is the number.
CandidateOfCounter(n) == request[n].value

CandidateNumber(n) == Max({request[n].value, request[n].floor})

\* Mutant: the counter is written whatever its revision is.
RevisionIgnored(n) == TRUE

RevisionHolds(n) == key.revision = request[n].revision

\* The next attempt, or the failure of the transaction after the last.
Retried(n) ==
  IF request[n].attempt + 1 = MaxAttempts THEN NoRequest
  ELSE [request[n] EXCEPT !.state = "read", !.attempt = @ + 1]

Put(n) ==
  /\ RevisionHolds(n) /\ CandidateNumber(n) < MaxNumber
  /\ key' = [value |-> CandidateNumber(n) + 1, revision |-> key.revision + 1]

\* The update succeeds, and the answer comes.
Granted(n) ==
  /\ request[n].state = "update" /\ Put(n)
  /\ request' = [request EXCEPT ![n] = [@ EXCEPT
                   !.state = "granted", !.number = CandidateNumber(n)]]
  /\ UNCHANGED <<catalogue, faults>>

\* The update fails, or it succeeds and its answer is lost.
Refused(n) ==
  /\ request[n].state = "update"
  /\ \/ ~RevisionHolds(n) /\ UNCHANGED <<key, faults>>
     \/ faults < MaxFaults /\ faults' = faults + 1 /\ Put(n)
     \/ faults < MaxFaults /\ faults' = faults + 1 /\ UNCHANGED key
  /\ request' = [request EXCEPT ![n] = Retried(n)]
  /\ UNCHANGED catalogue

\* next_table_number has read the whole catalogue.
Current(n) == request[n].seen = catalogue[n]

\* The transaction commits if the catalogue is the one it has read and no
\* table has the number.
Create(n) ==
  /\ request[n].state = "granted" /\ Current(n)
  /\ request' = [request EXCEPT ![n] = NoRequest]
  /\ catalogue' = IF request[n].number \in Numbers(n) THEN catalogue
                  ELSE [catalogue EXCEPT ![n] = @ \cup
                          {[name |-> request[n].name, number |-> request[n].number]}]
  /\ UNCHANGED <<key, faults>>

\* The transaction fails after it got a number: the catalogue has changed,
\* or for a reason of its own. Nobody else gets the number.
Abort(n) ==
  /\ request[n].state = "granted"
  /\ \/ ~Current(n) /\ UNCHANGED faults
     \/ faults < MaxFaults /\ faults' = faults + 1
  /\ request' = [request EXCEPT ![n] = NoRequest]
  /\ UNCHANGED <<key, catalogue>>

\* Another node applies the delta; a number that is taken fails it.
Learn(n, m) ==
  \E t \in catalogue[m] \ catalogue[n] :
    /\ t.number \notin Numbers(n)
    /\ catalogue' = [catalogue EXCEPT ![n] = @ \cup {t}]
    /\ UNCHANGED <<key, request, faults>>

NumberNext ==
  \E n \in Creator :
    \/ \E name \in Table : StartTable(n, name)
    \/ Read(n) \/ Granted(n) \/ Refused(n) \/ Create(n) \/ Abort(n)
    \/ \E m \in Creator : Learn(n, m)

NumberSpec == NumberInit /\ [][NumberNext]_numberVars

----------------------------------------------------------------------------
(* Properties. *)

TableEntry == [name : Table, number : 1..MaxNumber]

Request ==
  [state : {"none", "read", "update", "granted"}, name : Table \cup {NoTable},
   seen : SUBSET TableEntry, floor : Nat, value : 1..MaxNumber,
   revision : Nat, number : Nat, attempt : Nat]

NumberTypeOK ==
  /\ key \in [value : 1..MaxNumber, revision : Nat]
  /\ catalogue \in [Creator -> SUBSET TableEntry]
  /\ request \in [Creator -> Request]
  /\ faults \in 0..MaxFaults
  /\ \A n \in Creator : /\ request[n].state \in {"read", "update"} =>
                             request[n].attempt < MaxAttempts
                        /\ request[n].revision <= key.revision

\* No two tables of the cluster have the same number, wherever they were
\* created and whatever was retried, so an identifier names one table on
\* every node.
UniqueNumbers ==
  \A n, m \in Creator : \A s \in catalogue[n], t \in catalogue[m] :
    s.number = t.number => s.name = t.name

\* The number a transaction is given is free in the catalogue it has read,
\* also where that catalogue is older than the counter, so that the
\* transaction is not refused for the number.
NumberIsFree ==
  \A n \in Creator : request[n].state = "granted" =>
    \A t \in request[n].seen : t.number # request[n].number
=============================================================================
