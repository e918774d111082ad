------------------------------- MODULE MCFleet -------------------------------
(***************************************************************************)
(* Small fleets for TLC.                                                   *)
(***************************************************************************)
EXTENDS FleetProperties, TLC

CONSTANTS j1, j2, j3, h1, h2, q1, op

OnePolicy   == [j \in Jobs |-> q1]
OneRunner   == [q \in Policies |-> 1]
TwoRunners  == [q \in Policies |-> 2]

(* A bound on the instance: with three jobs, GitHub sees at most one of them end. *)
AtMostOneJobEnds == Cardinality({j \in Jobs : github[j].phase = "done"}) <= 1

JobSymmetry        == Permutations(Jobs)
JobHandlerSymmetry == Permutations(Jobs) \union Permutations(Handlers)
=============================================================================
