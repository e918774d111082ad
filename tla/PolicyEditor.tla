----------------------------- MODULE PolicyEditor -----------------------------
(***************************************************************************)
(* The policy editor beside the launch-target form.  Its shapes come from  *)
(* a second catalogue, loaded for the saved launch target whenever that    *)
(* changes; a policy can be saved when its shape is in that catalogue and  *)
(* its size is one the shape allows.                                       *)
(***************************************************************************)
EXTENDS LaunchTarget

CONSTANTS
  Shapes, NoShape,
  Sizes, NoSize,    \* OCPU and memory together; empty fields
  FixedShapes,      \* shapes whose size is OCI's
  Allows,           \* the sizes OCI allows for a shape
  DefaultSize,      \* the size OCI proposes for a shape
  Offered,          \* the shapes OCI lists for a compartment
  MaxPolicyEdits    \* bound on the commands in the policy editor

ASSUME NoShapeNoSize == NoShape \notin Shapes /\ NoSize \notin Sizes

ASSUME ShapeTables ==
  /\ FixedShapes \subseteq Shapes
  /\ DefaultSize \in [Shapes -> Sizes]
  /\ Allows \in [Shapes -> SUBSET Sizes]
  /\ \A s \in Shapes : DefaultSize[s] \in Allows[s]
  /\ \A s \in FixedShapes : Allows[s] = {DefaultSize[s]}
  /\ Offered \in [Compartments -> SUBSET Shapes]

ASSUME PolicyBound == MaxPolicyEdits \in Nat

VARIABLES
  policyShown, policyQueued, policyCalls,   \* policyCatalog and its request counter
  policyRan,     \* the dependencies the policy catalogue effect last ran with
  policyForm,    \* policyForm
  posts,         \* POST and PUT /api/v1/policies calls in flight
  policyEdits    \* commands given in the editor

policyVars == <<policyShown, policyQueued, policyCalls, policyRan, policyForm, posts, policyEdits>>
allVars == <<vars, policyVars>>

PolicyParams ==
  [compartment : Compartments \union {Blank}, ad : ADs \union {Blank},
   image : Images \union {Blank}]
NoPolicyParams == [compartment |-> Blank, ad |-> Blank, image |-> Blank]

Policy == INSTANCE CatalogLoader WITH
  Params <- PolicyParams, NoParams <- NoPolicyParams,
  shown <- policyShown, queued <- policyQueued, calls <- policyCalls

PolicyForms ==
  [shape : Shapes \union {NoShape}, size : Sizes \union {NoSize},
   options : {"fine", "broken"}]     \* the warm-pool and budget fields
BlankPolicy == [shape |-> NoShape, size |-> NoSize, options |-> "fine"]

PageTypeOK ==
  /\ TypeOK
  /\ Policy!LoaderTypeOK
  /\ policyRan \in [params : PolicyParams, ready : BOOLEAN, signedIn : BOOLEAN]
  /\ policyForm \in PolicyForms
  /\ posts \in SUBSET PolicyForms
  /\ policyEdits \in 0..MaxPolicyEdits

(***************************************************************************)
(* Validation: buildPolicyValidation                                       *)
(***************************************************************************)
RuntimeReady == status # NoSettings

ShapesIn(catalog) ==
  IF catalog.phase = "loaded" THEN Offered[catalog.params.compartment] ELSE {}
ShapesListed == ShapesIn(policyShown)

(* The editor waits for a launch target and for a catalogue that has shapes. *)
SettingsMessage == ~RuntimeReady \/ policyShown.phase # "loaded" \/ ShapesListed = {}

Selected(form_) == form_.shape \in ShapesListed
FixedSelected == Selected(policyForm) /\ policyForm.shape \in FixedShapes

CanSavePolicy ==
  /\ ~SettingsMessage
  /\ Selected(policyForm)
  /\ FixedSelected \/ policyForm.size \in Allows[policyForm.shape]
  /\ policyForm.options = "fine"

(* What a save sends: for a fixed shape the size of the catalogue. *)
Payload ==
  IF FixedSelected
  THEN [policyForm EXCEPT !.size = DefaultSize[policyForm.shape]]
  ELSE policyForm

(* The service lists the catalogue of its own launch target again. *)
AcceptsPolicy(p) ==
  /\ server # NoSettings
  /\ p.shape \in Offered[server.compartment]
  /\ p.size \in Allows[p.shape]
  /\ p.options = "fine"

(***************************************************************************)
(* React                                                                   *)
(***************************************************************************)
CatalogParams ==
  [compartment |-> status.compartment, ad |-> status.ad, image |-> status.image]

(* A mutant of PolicyDeps: the compartment is missing from the dependencies. *)
DepsWithoutCompartment ==
  [params |-> [CatalogParams EXCEPT !.compartment = policyRan.params.compartment],
   ready |-> RuntimeReady, signedIn |-> signedIn]

PolicyDeps == [params |-> CatalogParams, ready |-> RuntimeReady, signedIn |-> signedIn]
PolicyEffectPending == PolicyDeps # policyRan

(* The effect that keeps the catalogue in step with the saved launch target. *)
PolicyEffect ==
  /\ PolicyEffectPending
  /\ policyRan' = PolicyDeps
  /\ IF signedIn /\ RuntimeReady /\ Blank \notin {CatalogParams.compartment, CatalogParams.ad,
                                                  CatalogParams.image}
     THEN Policy!Ask(CatalogParams)
     ELSE Policy!ResetCatalog
  /\ UNCHANGED <<vars, policyForm, posts, policyEdits>>

EffectsDone == ~EffectPending /\ ~PolicyEffectPending

(* The effect behind a newly selected fixed shape: the form takes its size. *)
Fixed(f, catalog) ==
  IF f.shape \in ShapesIn(catalog) \intersect FixedShapes
  THEN [f EXCEPT !.size = DefaultSize[f.shape]]
  ELSE f

(* A render shows all that is pending in both catalogues. *)
Render ==
  /\ EffectsDone
  /\ \/ RenderCatalog
     \/ shown = queued /\ policyShown # policyQueued /\ UNCHANGED vars
  /\ policyShown' = policyQueued
  /\ policyForm' = IF policyShown = policyQueued THEN policyForm
                   ELSE Fixed(policyForm, policyQueued)
  /\ UNCHANGED <<policyQueued, policyCalls, policyRan, posts, policyEdits>>

(***************************************************************************)
(* The editor                                                              *)
(***************************************************************************)
PolicyCommand ==
  /\ policyEdits < MaxPolicyEdits
  /\ policyEdits' = policyEdits + 1
  /\ signedIn /\ EffectsDone

EditPolicyForm(f) ==
  /\ PolicyCommand
  /\ f # policyForm
  /\ policyForm' = f
  /\ UNCHANGED <<vars, policyShown, policyQueued, policyCalls, policyRan, posts>>

(* handlePolicyShapeChange: the size the catalogue proposes comes with the shape. *)
ChooseShape ==
  /\ ~SettingsMessage
  /\ \E s \in ShapesListed :
       EditPolicyForm([policyForm EXCEPT !.shape = s, !.size = DefaultSize[s]])

TypeSize ==
  /\ ~FixedSelected
  /\ \E z \in Sizes \union {NoSize} : EditPolicyForm([policyForm EXCEPT !.size = z])

EditOptions ==
  \E o \in {"fine", "broken"} : EditPolicyForm([policyForm EXCEPT !.options = o])

(* handlePolicyEdit: a policy saved earlier, perhaps for another launch target. *)
OpenPolicy ==
  \E s \in Shapes : \E z \in Allows[s] :
    LET f == [shape |-> s, size |-> z, options |-> "fine"]
    IN  EditPolicyForm(IF s = policyForm.shape THEN f ELSE Fixed(f, policyShown))

CancelPolicy == EditPolicyForm(BlankPolicy)

(* handlePolicySubmit; the button stays enabled while a call is out. *)
SubmitPolicy ==
  /\ PolicyCommand
  /\ CanSavePolicy
  /\ posts' = posts \union {Payload}
  /\ UNCHANGED <<vars, policyShown, policyQueued, policyCalls, policyRan, policyForm>>

(***************************************************************************)
(* Answers                                                                 *)
(***************************************************************************)
PolicyCatalogAnswered ==
  /\ \E c \in policyCalls : Policy!Answered(c) \/ Policy!Failed(c)
  /\ UNCHANGED <<vars, policyRan, policyForm, posts, policyEdits>>

(* Saved: the editor is emptied and refreshAll reads the settings again. *)
PolicySaved ==
  /\ EffectsDone
  /\ \E p \in posts : AcceptsPolicy(p) /\ posts' = posts \ {p}
  /\ policyForm' = BlankPolicy
  /\ reads' = IF signedIn /\ Cardinality(reads) < MaxReads THEN reads \union {server} ELSE reads
  /\ UNCHANGED <<loaderVars, signedIn, server, formVars, ran, put, edits,
                 policyShown, policyQueued, policyCalls, policyRan, policyEdits>>

(* Refused by the service, or lost: a toast. *)
PolicyNotSaved ==
  /\ EffectsDone
  /\ \E p \in posts : posts' = posts \ {p}
  /\ UNCHANGED <<vars, policyShown, policyQueued, policyCalls, policyRan, policyForm, policyEdits>>

(***************************************************************************)
(* Specification                                                           *)
(***************************************************************************)
(* The page is open for the first time. *)
PolicyFirst ==
  /\ FirstOpen
  /\ Policy!LoaderInit
  /\ policyRan = [params |-> NoPolicyParams, ready |-> FALSE, signedIn |-> FALSE]
  /\ policyForm = BlankPolicy
  /\ posts = {}

(* resetSetupState empties this catalogue too; the editor keeps its form. *)
PageSignOut ==
  /\ ~PolicyEffectPending
  /\ SignOut
  /\ Policy!DropQuestion
  /\ UNCHANGED <<policyRan, policyForm, posts, policyEdits>>

(* What happens on the launch-target page alone. *)
PageCommand ==
  \/ EditCompartment \/ ChooseDomain \/ ChooseSubnet \/ ChooseImage \/ EditCache
  \/ RefreshCatalog \/ Save \/ Clear \/ SignIn \/ RefreshAll

PageStep ==
  /\ \/ CatalogEffect
     \/ ~PolicyEffectPending /\ (RenderDeferred \/ PageCommand \/ Answers)
  /\ UNCHANGED policyVars

PolicyAnswers == PolicyCatalogAnswered \/ PolicySaved \/ PolicyNotSaved

PolicyNext ==
  \/ PageStep \/ PageSignOut
  \/ PolicyEffect \/ Render
  \/ ChooseShape \/ TypeSize \/ EditOptions \/ OpenPolicy \/ CancelPolicy \/ SubmitPolicy
  \/ PolicyAnswers

PolicyInit == PolicyFirst /\ edits = 0 /\ policyEdits = 0

PolicySpec == PolicyInit /\ [][PolicyNext]_allVars

(* As for the launch-target page: React renders and the service answers. *)
PolicyFairness ==
  /\ WF_allVars(CatalogEffect /\ UNCHANGED policyVars)
  /\ WF_allVars(RenderDeferred /\ ~PolicyEffectPending /\ UNCHANGED policyVars)
  /\ WF_allVars(PolicyEffect \/ Render)
  /\ WF_allVars(CatalogAnswered /\ ~PolicyEffectPending /\ UNCHANGED policyVars)
  /\ WF_allVars(ReadAnswered /\ ~PolicyEffectPending /\ UNCHANGED policyVars)
  /\ WF_allVars(PolicyAnswers)
=============================================================================
