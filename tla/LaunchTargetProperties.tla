------------------------ MODULE LaunchTargetProperties ------------------------
(***************************************************************************)
(* What the launch-target form owes its operator.                          *)
(***************************************************************************)
EXTENDS PolicyEditor

(* Nothing is pending in the page: every effect has run and every update is on
   the screen. *)
Settled ==
  /\ ~EffectPending
  /\ shown = queued
  /\ deferred = [compartment |-> form.compartment, ad |-> form.ad]

(* Once the page has settled, a Save that is enabled sends settings the service will
   accept: domain, subnet and image are listed by OCI for the very compartment in the
   form.  loadOCICatalog drops stale answers for this (use-workspace-app.js,
   requestIdRef), because the validation itself never compares the compartment of the
   catalogue with the form's. *)
SettledSaveIsSound == Settled /\ SaveEnabled => Accepts(form)

(* The same for the policy editor: with the effects run, both catalogues on the screen and
   the saved launch target the service's own, an enabled Save sends a shape that OCI offers
   for that launch target in a size the shape allows, so the service accepts the policy
   (docs/policies-and-capacity.md, Shape and capacity).  The two catalogues move at
   different times: a new launch target makes the shapes listed for the old one stale. *)
PolicySettled ==
  ~PolicyEffectPending /\ policyShown = policyQueued /\ status = server
SettledPolicyIsSound ==
  PolicySettled /\ signedIn /\ CanSavePolicy => AcceptsPolicy(Payload)

(* After sign-out no answer of the earlier session brings a catalogue back, however
   late it is: resetSetupState moves the request number. *)
SignedOutIsBlank == ~signedIn => queued = BlankCatalog

(* The panel is one that shows only the newest answer. *)
NoQuestion == [compartment |-> Blank, ad |-> Blank, newest |-> FALSE]
Newest == INSTANCE NewestAnswer WITH
  Params <- Params,
  NoQuestion <- NoQuestion,
  screen <- queued,
  question <- IF \E c \in calls : c.latest
              THEN (CHOOSE c \in calls : c.latest).params
              ELSE NoQuestion
NewestAnswerSpec == Newest!Spec

(* A spinner ends: the loading state that disables the selects and the refresh
   button does not stay on the screen for ever. *)
SpinnerEnds == (shown.phase = "loading") ~> (shown.phase # "loading")

(* Once the operator has stopped, the page stops calling the catalogue endpoint:
   what setup-browser-smoke.test.mjs waits for before it presses Save (the number
   of POST /api/v1/oci/catalog calls no longer changes). *)
CatalogSettles == <>[](calls = {})
=============================================================================
