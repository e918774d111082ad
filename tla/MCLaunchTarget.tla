---------------------------- MODULE MCLaunchTarget ----------------------------
(***************************************************************************)
(* Two compartments that share a domain and an image but neither a subnet  *)
(* nor the fixed shape.                                                    *)
(***************************************************************************)
EXTENDS LaunchTargetProperties

CONSTANTS c1, c2, a1, s1, s2, i1, fixed, flexible, small, large

TwoCompartments ==
  [c \in Compartments |->
     [ads |-> {a1}, subnets |-> IF c = c1 THEN {s1} ELSE {s2}, images |-> {i1}]]
TwoOffers == [c \in Compartments |-> IF c = c1 THEN {fixed, flexible} ELSE {flexible}]
SmallForFixed == [s \in Shapes |-> IF s = fixed THEN small ELSE large]
SmallIsFixedOnly == [s \in Shapes |-> IF s = fixed THEN {small} ELSE {large}]

SavedFirst ==
  [compartment |-> c1, ad |-> a1, subnet |-> s1, image |-> i1, cache |-> "fine"]
DraftSecond ==
  [compartment |-> c2, ad |-> a1, subnet |-> s2, image |-> i1, cache |-> "fine"]

(* The page is open for the first time, and the service has no launch settings or those of
   the first compartment; the policy editor is left alone. *)
Opened ==
  /\ PolicyFirst
  /\ server \in {NoSettings, SavedFirst}

(* Later: the first compartment is saved, the second is in the form, both catalogues
   have come; the operator turns to the policies. *)
Later ==
  LET draft == [compartment |-> c2, ad |-> a1]
  IN  /\ signedIn = TRUE /\ server = SavedFirst /\ status = SavedFirst
      /\ form = DraftSecond /\ deferred = draft
      /\ shown = LoadedState(draft) /\ queued = shown
      /\ ran = [params |-> draft, signedIn |-> TRUE]
      /\ calls = {} /\ put = NoPut /\ reads = {}
      /\ policyRan = [params |-> CatalogParams, ready |-> TRUE, signedIn |-> TRUE]
      /\ policyShown = Policy!LoadedState(CatalogParams) /\ policyQueued = policyShown
      /\ policyCalls = {} /\ policyForm = BlankPolicy /\ posts = {}

MCInit ==
  \/ Opened /\ edits = (IF server = NoSettings THEN 0 ELSE 1) /\ policyEdits = MaxPolicyEdits
  \/ Later /\ edits = MaxEdits - 1 /\ policyEdits = 0
MCSpec == MCInit /\ [][PolicyNext]_allVars
MCFairSpec == MCSpec /\ PolicyFairness
=============================================================================
