----------------------------- MODULE MCImageBake -----------------------------
(***************************************************************************)
(* Small image bakes for TLC.                                              *)
(***************************************************************************)
EXTENDS ImageBakeProperties, TLC

CONSTANTS r1, w1, w2, loop, p1, e1, n1

NoCache   == [image |-> NoImage, network |-> n1, cache |-> FALSE]
WithCache == [image |-> NoImage, network |-> n1, cache |-> TRUE]

WorkerSymmetry == Permutations(Workers)

\* The passes alone: the recipe has been saved.
SavedInit ==
  /\ builds = [b \in Builds |-> Blank]
  /\ recipes = [r \in Recipes |-> [Unpromoted EXCEPT !.state = "saved"]]
  /\ settings = Defaults
  /\ machines = [m \in Machines |-> [build |-> NoBuild, power |-> "unused", log |-> "blank"]]
  /\ images = [i \in Images |-> [machine |-> NoMachine, state |-> "unused"]]
  /\ worker = [w \in Workers |-> IdleWorker]
  /\ promoter = [p \in Promoters |-> IdlePromoter]
  /\ editor = [e \in Editors |-> IdleEditor]
  /\ faults = 0
  /\ disturbed = {} /\ defaulted = {}

SavedSpec == SavedInit /\ [][Next]_vars
SavedFairSpec == SavedSpec /\ Fairness
=============================================================================
