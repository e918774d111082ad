---------------------------- MODULE MachineLedger ----------------------------
(***************************************************************************)
(* What the fleet promises about a machine, whoever handles it: a machine  *)
(* that was launched is put on the books, stays there until it has stopped *)
(* working, and is lost only to a fault.                                   *)
(***************************************************************************)
EXTENDS Naturals, FiniteSets

CONSTANTS Machines, MaxLosses

VARIABLES
  book,     \* where each machine stands in the ledger
  working   \* is the machine on, or a job running on it?

Launch(m) ==
  /\ book[m] = "unlaunched"
  /\ book' = [book EXCEPT ![m] = "held"]
  /\ working' = [working EXCEPT ![m] = TRUE]

Track(m) ==
  /\ book[m] = "held"
  /\ book' = [book EXCEPT ![m] = "tracked"]
  /\ UNCHANGED working

Lose(m) ==
  /\ book[m] = "held"
  /\ Cardinality({n \in Machines : book[n] = "lost"}) < MaxLosses
  /\ book' = [book EXCEPT ![m] = "lost"]
  /\ UNCHANGED working

\* A machine that has stopped working never works again.
StopWorking(m) ==
  /\ working[m]
  /\ working' = [working EXCEPT ![m] = FALSE]
  /\ UNCHANGED book

Retire(m) ==
  /\ book[m] = "tracked" /\ ~working[m]
  /\ book' = [book EXCEPT ![m] = "retired"]
  /\ UNCHANGED working

Init ==
  /\ book = [m \in Machines |-> "unlaunched"]
  /\ working = [m \in Machines |-> FALSE]

Next ==
  \E m \in Machines : Launch(m) \/ Track(m) \/ Lose(m) \/ StopWorking(m) \/ Retire(m)

Spec == Init /\ [][Next]_<<book, working>>
=============================================================================
