----------------------------- MODULE LaunchTarget -----------------------------
(***************************************************************************)
(* The launch-target form of the web console: the settings a runner is     *)
(* launched with, the OCI catalogue they are chosen from, and the React    *)
(* machinery between the two (deferred values, transitions, effects).      *)
(*                                                                         *)
(* The operator types a compartment; the catalogue of that compartment is  *)
(* loaded by an effect; availability domain, subnet and image are chosen   *)
(* from it; saving is possible when the validation of the form against the *)
(* shown catalogue finds nothing.                                          *)
(***************************************************************************)
EXTENDS Naturals, FiniteSets, CatalogLoader

CONSTANTS
  Compartments,   \* complete compartment OCIDs
  ADs, Subnets, Images,
  Listing,        \* what OCI lists for each compartment
  Blank,          \* the empty string
  Typing,         \* a text in the compartment field that is no OCID
  MaxEdits,       \* bound on the operator's commands
  MaxReads        \* bound on GET /api/v1/oci/runtime calls in flight

ASSUME BlankAndTyping ==
  /\ Blank \notin Compartments \union ADs \union Subnets \union Images
  /\ Typing \notin Compartments \union {Blank}

ASSUME BoundsAreNat == MaxEdits \in Nat /\ MaxReads \in Nat

ASSUME ListingType ==
  Listing \in [Compartments ->
    [ads : SUBSET ADs, subnets : SUBSET Subnets, images : SUBSET Images]]

(* The loader's questions are those of this form. *)
FormParams == [compartment : Compartments \union {Blank, Typing}, ad : ADs \union {Blank}]
BlankParams == [compartment |-> Blank, ad |-> Blank]

ASSUME ParamsAreTheForms == Params = FormParams /\ NoParams = BlankParams

VARIABLES
  signedIn,   \* session.authenticated
  server,     \* the launch settings the service holds
  status,     \* ociRuntimeStatus.effectiveSettings
  form,       \* ociRuntimeForm
  deferred,   \* useDeferredValue of the form's compartment and availability domain
  ran,        \* the dependencies the catalogue effect last ran with
  put,        \* the PUT or DELETE in flight and what it carries
  reads,      \* answers of the GET calls in flight
  edits       \* commands given so far

vars == <<shown, queued, calls, signedIn, server, status, form, deferred, ran, put, reads, edits>>
formVars == <<status, form, deferred>>

(***************************************************************************)
(* Data                                                                    *)
(***************************************************************************)
Settings ==
  [compartment : Compartments \union {Blank}, ad : ADs \union {Blank},
   subnet : Subnets \union {Blank}, image : Images \union {Blank},
   cache : {"fine"}]
Forms ==
  [compartment : Compartments \union {Blank, Typing}, ad : ADs \union {Blank},
   subnet : Subnets \union {Blank}, image : Images \union {Blank},
   cache : {"fine", "broken"}]

NoSettings ==
  [compartment |-> Blank, ad |-> Blank, subnet |-> Blank, image |-> Blank, cache |-> "fine"]

(* A PUT carries the form as it was when the button was pressed; "none" and "clear" carry nothing. *)
Puts == [kind : {"none", "save", "clear"}, body : Forms]
NoPut == [kind |-> "none", body |-> NoSettings]

(* The lists of the catalogue on the screen: empty unless it is loaded. *)
NothingListed == [ads |-> {}, subnets |-> {}, images |-> {}]
Listed ==
  IF shown.phase = "loaded" /\ shown.params.compartment \in Compartments
  THEN Listing[shown.params.compartment]
  ELSE NothingListed

TypeOK ==
  /\ LoaderTypeOK
  /\ signedIn \in BOOLEAN
  /\ server \in Settings
  /\ status \in Settings
  /\ form \in Forms
  /\ deferred \in Params
  /\ ran \in [params : Params, signedIn : BOOLEAN]
  /\ put \in Puts
  /\ reads \in SUBSET Settings
  /\ edits \in 0..MaxEdits

(***************************************************************************)
(* Validation                                                              *)
(***************************************************************************)

(* A message about the whole catalogue: nothing typed, no OCID, loading or failed. *)
CatalogMessage ==
  \/ form.compartment = Blank
  \/ form.compartment = Typing /\ shown.phase = "blank"
  \/ shown.phase \in {"loading", "error"}

(* The choices that a loaded catalogue does not (or no longer) offer. *)
StaleFields ==
  IF CatalogMessage \/ shown.phase # "loaded" THEN {}
  ELSE {f \in {"ad", "subnet", "image"} :
          \/ f = "ad" /\ form.ad \notin Listed.ads
          \/ f = "subnet" /\ form.subnet \notin Listed.subnets
          \/ f = "image" /\ form.image \notin Listed.images}

CanSave == ~CatalogMessage /\ StaleFields = {} /\ form.cache # "broken"

(* The page: while a save or a clear is out, both buttons and the refresh are
   disabled; while the catalogue loads, the refresh and the three selects are. *)
Busy == put.kind # "none"
SaveEnabled == signedIn /\ ~Busy /\ CanSave
ClearEnabled == signedIn /\ ~Busy
RefreshEnabled == signedIn /\ ~Busy /\ shown.phase # "loading"
SelectsEnabled == signedIn /\ shown.phase # "loading"

(***************************************************************************)
(* React                                                                   *)
(***************************************************************************)

(* The question the form asks: its availability domain takes part only while
   the catalogue on the screen is the compartment's and lists it. *)
RuntimeParams ==
  [compartment |-> deferred.compartment,
   ad |-> IF /\ shown.params.compartment = deferred.compartment
             /\ deferred.ad \in Listed.ads
          THEN deferred.ad ELSE Blank]

EffectDeps == [params |-> RuntimeParams, signedIn |-> signedIn]
EffectPending == EffectDeps # ran

FullOcid(c) == c \in Compartments

(* The effect that keeps the catalogue in step with the form. *)
CatalogEffect ==
  /\ EffectPending
  /\ ran' = EffectDeps
  /\ CASE ~signedIn -> WipeCatalog
       [] signedIn /\ ~FullOcid(RuntimeParams.compartment) -> ResetCatalog
       [] OTHER -> Ask(RuntimeParams)
  /\ UNCHANGED <<signedIn, server, formVars, put, reads, edits>>

(* A render: effects of the render before it have been flushed. *)
RenderCatalog ==
  /\ ~EffectPending
  /\ Commit
  /\ UNCHANGED <<signedIn, server, formVars, ran, put, reads, edits>>

RenderDeferred ==
  /\ ~EffectPending
  /\ deferred # [compartment |-> form.compartment, ad |-> form.ad]
  /\ deferred' = [compartment |-> form.compartment, ad |-> form.ad]
  /\ UNCHANGED <<loaderVars, signedIn, server, status, form, ran, put, reads, edits>>

(* A settings form filled by the program: inside a transition a deferred value
   follows at once. *)
FillForm(s) ==
  /\ form' = s
  /\ deferred' = [compartment |-> s.compartment, ad |-> s.ad]

ShowSettings(s) == status' = s /\ FillForm(s)

(***************************************************************************)
(* The operator                                                            *)
(***************************************************************************)
Command == edits < MaxEdits /\ edits' = edits + 1

EditForm(f) ==
  /\ Command
  /\ ~EffectPending
  /\ f # form
  /\ form' = f
  /\ UNCHANGED <<loaderVars, signedIn, server, status, deferred, ran, put, reads>>

EditCompartment == \E c \in Compartments \union {Blank, Typing} :
  signedIn /\ EditForm([form EXCEPT !.compartment = c])
ChooseDomain == \E a \in Listed.ads :
  SelectsEnabled /\ EditForm([form EXCEPT !.ad = a])
ChooseSubnet == \E s \in Listed.subnets :
  SelectsEnabled /\ EditForm([form EXCEPT !.subnet = s])
ChooseImage == \E i \in Listed.images :
  SelectsEnabled /\ EditForm([form EXCEPT !.image = i])
EditCache == \E k \in {"fine", "broken"} :
  signedIn /\ EditForm([form EXCEPT !.cache = k])

(* Refresh catalog: a forced load, which an incomplete OCID does not stop. *)
RefreshCatalog ==
  /\ Command
  /\ RefreshEnabled
  /\ Load(RuntimeParams, RuntimeParams.compartment # Blank)
  /\ UNCHANGED <<signedIn, server, formVars, ran, put, reads>>

(* Save launch target: handleOCIRuntimeSave checks the validation again, then sends. *)
Save ==
  /\ Command
  /\ SaveEnabled
  /\ put' = [kind |-> "save", body |-> form]
  /\ UNCHANGED <<loaderVars, signedIn, server, formVars, ran, reads>>

Clear ==
  /\ Command
  /\ ClearEnabled
  /\ put' = [NoPut EXCEPT !.kind = "clear"]
  /\ UNCHANGED <<loaderVars, signedIn, server, formVars, ran, reads>>

(* A mutant of ResetSetupState: the request number stays. *)
ResetWithoutNumber ==
  /\ ShowSettings(NoSettings)
  /\ queued' = BlankCatalog
  /\ UNCHANGED <<shown, calls>>

(* resetSetupState: blank settings and form, a blank catalogue and a new number,
   all of it queued in one transition. *)
ResetSetupState == ShowSettings(NoSettings) /\ DropQuestion

SignOut ==
  /\ Command
  /\ signedIn
  /\ ~EffectPending
  /\ signedIn' = FALSE
  /\ ResetSetupState
  /\ UNCHANGED <<server, ran, put, reads>>

(* refreshAll, as far as this page goes: a GET of the settings leaves. *)
SendRead == Cardinality(reads) < MaxReads /\ reads' = reads \union {server}

SignIn ==
  /\ ~signedIn
  /\ ~EffectPending
  /\ signedIn' = TRUE
  /\ SendRead
  /\ UNCHANGED <<loaderVars, server, formVars, ran, put, edits>>

RefreshAll ==
  /\ Command
  /\ signedIn
  /\ SendRead
  /\ UNCHANGED <<loaderVars, signedIn, server, formVars, ran, put>>

(***************************************************************************)
(* Answers                                                                 *)
(***************************************************************************)

(* The catalogue of a compartment OCI knows, or a failure. *)
CatalogAnswered ==
  /\ \E c \in calls :
       \/ c.params.compartment \in Compartments /\ Answered(c)
       \/ Failed(c)
  /\ UNCHANGED <<signedIn, server, formVars, ran, put, reads, edits>>

(* loadOCIRuntimeStatus: the answer, or the blank state when it fails. *)
ReadAnswered ==
  /\ ~EffectPending
  /\ \E s \in reads :
       /\ reads' = reads \ {s}
       /\ ShowSettings(s) \/ ShowSettings(NoSettings)
  /\ UNCHANGED <<loaderVars, signedIn, server, ran, put, edits>>

(* A mutant of Accepts: without a catalogue nothing is validated. *)
AcceptsAnything(f) == TRUE

(* What the service stores: it lists the compartment again and refuses a choice that is
   not in it, and a cache without a bucket. *)
Accepts(f) ==
  /\ f.compartment \in Compartments
  /\ f.ad \in Listing[f.compartment].ads
  /\ f.subnet \in Listing[f.compartment].subnets
  /\ f.image \in Listing[f.compartment].images
  /\ f.cache # "broken"

(* A save that succeeds shows what was stored and, when setup is complete,
   refreshes the workspace, which reads the settings again. *)
SaveAnswered ==
  /\ put.kind = "save" /\ ~EffectPending
  /\ Accepts(put.body)
  /\ server' = put.body
  /\ ShowSettings(put.body)
  /\ put' = NoPut
  /\ \/ UNCHANGED reads
     \/ Cardinality(reads) < MaxReads /\ reads' = reads \union {put.body}
  /\ UNCHANGED <<loaderVars, signedIn, ran, edits>>

(* The saved row is gone, and the environment gives no settings of its own (with some, the
   service would answer with those). *)
ClearAnswered ==
  /\ put.kind = "clear" /\ ~EffectPending
  /\ server' = NoSettings
  /\ ShowSettings(NoSettings)
  /\ put' = NoPut
  /\ UNCHANGED <<loaderVars, signedIn, ran, reads, edits>>

(* Either call is refused or fails: a toast, and the form stays as it is. *)
PutFailed ==
  /\ Busy
  /\ put' = NoPut
  /\ UNCHANGED <<loaderVars, signedIn, server, formVars, ran, reads, edits>>

(***************************************************************************)
(* Specification                                                           *)
(***************************************************************************)
FirstOpen ==
  /\ LoaderInit
  /\ signedIn = FALSE
  /\ server \in Settings
  /\ status = NoSettings
  /\ form = NoSettings
  /\ deferred = NoParams
  /\ ran = [params |-> NoParams, signedIn |-> FALSE]
  /\ put = NoPut
  /\ reads = {}

Init == FirstOpen /\ edits = 0

Operator ==
  \/ EditCompartment \/ ChooseDomain \/ ChooseSubnet \/ ChooseImage \/ EditCache
  \/ RefreshCatalog \/ Save \/ Clear \/ SignOut \/ SignIn \/ RefreshAll

React == CatalogEffect \/ RenderCatalog \/ RenderDeferred

Answers == CatalogAnswered \/ ReadAnswered \/ SaveAnswered \/ ClearAnswered \/ PutFailed

Next == Operator \/ React \/ Answers

Spec == Init /\ [][Next]_vars
=============================================================================
