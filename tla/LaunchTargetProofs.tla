-------------------------- MODULE LaunchTargetProofs --------------------------
(***************************************************************************)
(* Proofs about the launch-target form and the policy editor, for any      *)
(* compartments, domains, images, shapes, whatever OCI lists, and any      *)
(* number of commands and reads.                                           *)
(***************************************************************************)
EXTENDS LaunchTargetProperties, TLAPS

-----------------------------------------------------------------------------
(* The inductive invariant                                                  *)

\* What the page asks follows what the effect has last run with, unless the effect is
\* due again: a catalogue is there, or under way, exactly for a complete compartment
\* of a signed-in page, and it is that compartment's.
CatalogFollows ==
  /\ queued.phase = "loaded" => queued.params.compartment \in Compartments
  /\ ~EffectPending =>
       /\ queued.phase # "blank" => queued.params.compartment = ran.params.compartment
       /\ ran.signedIn /\ ran.params.compartment \in Compartments => queued.phase # "blank"

\* The shapes are those of the launch target the effect has last run with.
ShapesFollow == policyQueued.phase # "blank" => policyQueued.params = policyRan.params

\* A question about shapes names a compartment.
AsksCompartments ==
  /\ \A c \in policyCalls : c.params.compartment \in Compartments
  /\ \A t \in {policyQueued, policyShown} :
       t.phase # "blank" => t.params.compartment \in Compartments

Inv ==
  /\ PageTypeOK
  /\ AsksCompartments
  /\ SpinnerIsAwaited
  /\ SignedOutIsBlank
  /\ CatalogFollows
  /\ Policy!SpinnerIsAwaited
  /\ ShapesFollow

-----------------------------------------------------------------------------
(* The loader                                                               *)

\* The states a load shows are catalogue states.
LEMMA CatalogStates ==
  /\ BlankCatalog \in Catalog
  /\ \A p \in Params : {LoadingState(p), LoadedState(p), ErrorState(p)} \subseteq Catalog
BY NoParamsIsParams
   DEF BlankCatalog, LoadingState, LoadedState, ErrorState, Catalog, Phases

\* A new number makes every call in flight stale, and changes nothing else about it.
LEMMA SupersededCalls ==
  ASSUME LoaderTypeOK
  PROVE  Superseded \in SUBSET Call /\ \A c \in Superseded : ~c.latest
BY DEF LoaderTypeOK, Superseded, Call

\* Every operation of the loader leaves it well typed.
LEMMA LoaderTypes ==
  ASSUME LoaderTypeOK
  PROVE  /\ \A p \in Params : Ask(p) => LoaderTypeOK'
         /\ DropQuestion \/ ResetCatalog \/ WipeCatalog \/ Commit => LoaderTypeOK'
         /\ \A c \in calls : Answered(c) \/ Failed(c) => LoaderTypeOK'
<1>1. ASSUME NEW p \in Params, Ask(p) PROVE LoaderTypeOK'
  <2>1. [params |-> p, latest |-> TRUE] \in Call
    BY DEF Call
  <2> QED
    BY <1>1, <2>1, CatalogStates, SupersededCalls DEF Ask, LoaderTypeOK
<1>2. ASSUME DropQuestion \/ ResetCatalog \/ WipeCatalog \/ Commit PROVE LoaderTypeOK'
  BY <1>2, CatalogStates, SupersededCalls
     DEF DropQuestion, ResetCatalog, WipeCatalog, Commit, LoaderTypeOK
<1>3. ASSUME NEW c \in calls, Answered(c) \/ Failed(c) PROVE LoaderTypeOK'
  <2>1. c.params \in Params
    BY DEF LoaderTypeOK, Call
  <2> QED
    BY <1>3, <2>1, CatalogStates DEF Answered, Failed, AppliedAnswer, LoaderTypeOK
<1> QED
  BY <1>1, <1>2, <1>3

\* The spinner goes on being awaited; the blank state alone may be set only when
\* nothing is awaited.
LEMMA LoaderSpins ==
  ASSUME LoaderTypeOK, SpinnerIsAwaited
  PROVE  /\ \A p \in Params : Ask(p) => SpinnerIsAwaited'
         /\ DropQuestion \/ ResetCatalog => SpinnerIsAwaited'
         /\ WipeCatalog /\ queued.phase # "loading" => SpinnerIsAwaited'
         /\ \A c \in calls : Answered(c) \/ Failed(c) => SpinnerIsAwaited'
<1>1. ASSUME NEW p \in Params, Ask(p) PROVE SpinnerIsAwaited'
  <2> DEFINE new == [params |-> p, latest |-> TRUE]
  <2>1. calls' = Superseded \union {new} /\ queued' = LoadingState(p)
    BY <1>1 DEF Ask
  <2>2. new.latest = TRUE /\ new.params = p
    OBVIOUS
  <2> HIDE DEF new
  <2>3. \A c \in calls' : c.latest => c = new
    BY <2>1, SupersededCalls
  <2>4. OneNewest'
    BY <2>3 DEF OneNewest
  <2>5. queued'.phase = "loading" /\ queued'.params = p
    BY <2>1 DEF LoadingState
  <2>6. new \in calls'
    BY <2>1
  <2>7. \A c \in calls' : c.latest => c.params = queued'.params
    BY <2>2, <2>3, <2>5
  <2> QED
    BY <2>2, <2>4, <2>5, <2>6, <2>7 DEF SpinnerIsAwaited
<1>2. ASSUME DropQuestion \/ ResetCatalog PROVE SpinnerIsAwaited'
  <2>1. calls' = Superseded /\ queued' = BlankCatalog
    BY <1>2 DEF DropQuestion, ResetCatalog
  <2> QED
    BY <2>1, SupersededCalls DEF SpinnerIsAwaited, OneNewest, BlankCatalog
<1>3. ASSUME WipeCatalog, queued.phase # "loading" PROVE SpinnerIsAwaited'
  BY <1>3 DEF WipeCatalog, SpinnerIsAwaited, OneNewest, BlankCatalog
<1>4. ASSUME NEW c \in calls, Answered(c) \/ Failed(c) PROVE SpinnerIsAwaited'
  <2>1. calls' = calls \ {c}
    BY <1>4 DEF Answered, Failed
  <2>2. CASE c.latest
    <3>1. \A d \in calls' : ~d.latest
      BY <2>1, <2>2 DEF SpinnerIsAwaited, OneNewest
    <3>2. queued'.phase # "loading"
      BY <1>4, <2>2 DEF Answered, Failed, AppliedAnswer, LoadedState, ErrorState
    <3> QED
      BY <3>1, <3>2 DEF SpinnerIsAwaited, OneNewest
  <2>3. CASE ~c.latest
    <3>1. queued' = queued
      BY <1>4, <2>3 DEF Answered, Failed, AppliedAnswer
    <3> QED
      BY <2>1, <2>3, <3>1 DEF SpinnerIsAwaited, OneNewest
  <2> QED
    BY <2>2, <2>3
<1> QED
  BY <1>1, <1>2, <1>3, <1>4

-----------------------------------------------------------------------------
(* Types                                                                    *)

\* What the program puts into the form has its type.
LEMMA SettingsAreForms ==
  /\ NoSettings \in Settings /\ Settings \subseteq Forms /\ NoPut \in Puts
  /\ \A f \in Forms : Accepts(f) => f \in Settings
  /\ \A s \in Settings : [compartment |-> s.compartment, ad |-> s.ad] \in Params
<1>1. NoSettings \in Settings /\ Settings \subseteq Forms
  BY DEF NoSettings, Settings, Forms
<1>2. NoPut \in Puts
  BY <1>1 DEF NoPut, Puts
<1>3. ASSUME NEW f \in Forms, Accepts(f) PROVE f \in Settings
  <2>1. /\ f.compartment \in Compartments /\ f.ad \in ADs
        /\ f.subnet \in Subnets /\ f.image \in Images
    BY <1>3, ListingType DEF Accepts
  <2>2. f.cache = "fine"
    BY <1>3 DEF Accepts, Forms
  <2> QED
    BY <2>1, <2>2 DEF Forms, Settings
<1>4. ASSUME NEW s \in Settings PROVE [compartment |-> s.compartment, ad |-> s.ad] \in Params
  BY ParamsAreTheForms DEF Settings, FormParams
<1> QED
  BY <1>1, <1>2, <1>3, <1>4

\* The question of the form, and the effect's dependencies.
LEMMA RuntimeQuestion ==
  ASSUME TypeOK
  PROVE  /\ RuntimeParams \in Params
         /\ EffectDeps \in [params : Params, signedIn : BOOLEAN]
         /\ [compartment |-> form.compartment, ad |-> form.ad] \in Params
<1>1. deferred \in FormParams
  BY ParamsAreTheForms DEF TypeOK
<1>2. RuntimeParams \in Params
  BY <1>1, ParamsAreTheForms DEF RuntimeParams, FormParams
<1>3. [compartment |-> form.compartment, ad |-> form.ad] \in Params
  BY ParamsAreTheForms DEF TypeOK, Forms, FormParams
<1> QED
  BY <1>2, <1>3 DEF EffectDeps, TypeOK

\* The parts of the type invariant a settings form is filled through.
LEMMA FillTypes ==
  ASSUME NEW s \in Settings, FillForm(s)
  PROVE  form' \in Forms /\ deferred' \in Params
BY SettingsAreForms DEF FillForm

\* An operator command keeps the count within its bound.
LEMMA CommandType ==
  ASSUME TypeOK, Command
  PROVE  edits' \in 0..MaxEdits
BY BoundsAreNat DEF TypeOK, Command

\* The steps of the launch-target page alone.
LaunchStep ==
  \/ CatalogEffect \/ RenderCatalog \/ RenderDeferred
  \/ PageCommand \/ SignOut \/ Answers

\* They keep its variables in their types.
LEMMA LaunchTypes ==
  ASSUME TypeOK, LaunchStep
  PROVE  TypeOK'
<1> USE DEF formVars, loaderVars
<1>0. LoaderTypeOK
  BY DEF TypeOK
<1>1. CASE CatalogEffect
  <2>1. LoaderTypeOK'
    BY <1>0, <1>1, LoaderTypes, RuntimeQuestion DEF CatalogEffect
  <2> QED
    BY <1>1, <2>1, RuntimeQuestion DEF CatalogEffect, TypeOK
<1>2. CASE RenderCatalog
  <2>1. LoaderTypeOK'
    BY <1>0, <1>2, LoaderTypes DEF RenderCatalog
  <2> QED
    BY <1>2, <2>1 DEF RenderCatalog, TypeOK
<1>3. CASE RenderDeferred
  BY <1>3, RuntimeQuestion DEF RenderDeferred, TypeOK, LoaderTypeOK
<1>4. CASE PageCommand
  <2>1. ASSUME NEW f \in Forms, EditForm(f) PROVE TypeOK'
    BY <2>1, CommandType DEF EditForm, TypeOK, LoaderTypeOK
  <2>2. CASE EditCompartment
    <3>1. PICK c \in Compartments \union {Blank, Typing} : EditForm([form EXCEPT !.compartment = c])
      BY <2>2 DEF EditCompartment
    <3>2. [form EXCEPT !.compartment = c] \in Forms
      BY DEF TypeOK, Forms
    <3> QED
      BY <2>1, <3>1, <3>2
  <2>3. Listed.ads \subseteq ADs /\ Listed.subnets \subseteq Subnets /\ Listed.images \subseteq Images
    BY ListingType DEF Listed, NothingListed
  <2>4. CASE ChooseDomain
    <3>1. PICK a \in Listed.ads : EditForm([form EXCEPT !.ad = a])
      BY <2>4 DEF ChooseDomain
    <3>2. [form EXCEPT !.ad = a] \in Forms
      BY <2>3 DEF TypeOK, Forms
    <3> QED
      BY <2>1, <3>1, <3>2
  <2>5. CASE ChooseSubnet
    <3>1. PICK s \in Listed.subnets : EditForm([form EXCEPT !.subnet = s])
      BY <2>5 DEF ChooseSubnet
    <3>2. [form EXCEPT !.subnet = s] \in Forms
      BY <2>3 DEF TypeOK, Forms
    <3> QED
      BY <2>1, <3>1, <3>2
  <2>6. CASE ChooseImage
    <3>1. PICK i \in Listed.images : EditForm([form EXCEPT !.image = i])
      BY <2>6 DEF ChooseImage
    <3>2. [form EXCEPT !.image = i] \in Forms
      BY <2>3 DEF TypeOK, Forms
    <3> QED
      BY <2>1, <3>1, <3>2
  <2>7. CASE EditCache
    <3>1. PICK k \in {"fine", "broken"} : EditForm([form EXCEPT !.cache = k])
      BY <2>7 DEF EditCache
    <3>2. [form EXCEPT !.cache = k] \in Forms
      BY DEF TypeOK, Forms
    <3> QED
      BY <2>1, <3>1, <3>2
  <2>8. CASE RefreshCatalog
    <3>1. LoaderTypeOK'
      BY <1>0, <2>8, LoaderTypes, RuntimeQuestion DEF RefreshCatalog, Load
    <3> QED
      BY <2>8, <3>1, CommandType DEF RefreshCatalog, TypeOK
  <2>9. CASE Save
    <3>1. put' \in Puts
      BY <2>9 DEF Save, Puts, TypeOK
    <3> QED
      BY <2>9, <3>1, CommandType DEF Save, TypeOK, LoaderTypeOK
  <2>10. CASE Clear
    <3>1. put' \in Puts
      BY <2>10, SettingsAreForms DEF Clear, NoPut, Puts
    <3> QED
      BY <2>10, <3>1, CommandType DEF Clear, TypeOK, LoaderTypeOK
  <2>11. CASE SignIn
    BY <2>11 DEF SignIn, SendRead, TypeOK, LoaderTypeOK
  <2>12. CASE RefreshAll
    BY <2>12, CommandType DEF RefreshAll, SendRead, TypeOK, LoaderTypeOK
  <2> QED
    BY <1>4, <2>2, <2>4, <2>5, <2>6, <2>7, <2>8, <2>9, <2>10, <2>11, <2>12 DEF PageCommand
<1>5. CASE SignOut
  <2>1. LoaderTypeOK'
    BY <1>0, <1>5, LoaderTypes DEF SignOut, ResetSetupState
  <2> QED
    BY <1>5, <2>1, CommandType, FillTypes, SettingsAreForms
       DEF SignOut, ResetSetupState, ShowSettings, TypeOK
<1>6. CASE Answers
  <2>1. CASE CatalogAnswered
    <3>1. LoaderTypeOK'
      BY <1>0, <2>1, LoaderTypes DEF CatalogAnswered
    <3> QED
      BY <2>1, <3>1 DEF CatalogAnswered, TypeOK
  <2>2. CASE ReadAnswered
    <3>1. PICK s \in Settings : reads' \subseteq reads /\ ShowSettings(s)
      BY <2>2, SettingsAreForms DEF ReadAnswered, TypeOK
    <3> QED
      BY <2>2, <3>1, FillTypes DEF ReadAnswered, ShowSettings, TypeOK, LoaderTypeOK
  <2>3. CASE SaveAnswered
    <3>1. put.body \in Settings
      BY <2>3, SettingsAreForms DEF SaveAnswered, TypeOK, Puts
    <3> QED
      BY <2>3, <3>1, FillTypes, SettingsAreForms
         DEF SaveAnswered, ShowSettings, TypeOK, LoaderTypeOK
  <2>4. CASE ClearAnswered
    BY <2>4, FillTypes, SettingsAreForms DEF ClearAnswered, ShowSettings, TypeOK, LoaderTypeOK
  <2>5. CASE PutFailed
    BY <2>5, SettingsAreForms DEF PutFailed, TypeOK, LoaderTypeOK
  <2> QED
    BY <1>6, <2>1, <2>2, <2>3, <2>4, <2>5 DEF Answers
<1> QED
  BY <1>1, <1>2, <1>3, <1>4, <1>5, <1>6 DEF LaunchStep

-----------------------------------------------------------------------------
(* The policy editor's loader                                               *)

\* A new number makes every call of the policy catalogue stale.
LEMMA PolicySuperseded ==
  ASSUME Policy!LoaderTypeOK
  PROVE  Policy!Superseded \in SUBSET Policy!Call /\ \A c \in Policy!Superseded : ~c.latest
BY DEF Policy!LoaderTypeOK, Policy!Superseded, Policy!Call

\* Its operations leave it well typed.
LEMMA PolicyLoaderTypes ==
  ASSUME Policy!LoaderTypeOK
  PROVE  /\ \A p \in PolicyParams : Policy!Ask(p) => Policy!LoaderTypeOK'
         /\ Policy!DropQuestion \/ Policy!ResetCatalog => Policy!LoaderTypeOK'
         /\ \A c \in policyCalls :
              Policy!Answered(c) \/ Policy!Failed(c) => Policy!LoaderTypeOK'
<1>1. Policy!BlankCatalog \in Policy!Catalog
  BY DEF Policy!BlankCatalog, Policy!Catalog, Policy!Phases, NoPolicyParams, PolicyParams
<1>2. ASSUME NEW p \in PolicyParams, Policy!Ask(p) PROVE Policy!LoaderTypeOK'
  <2>1. Policy!LoadingState(p) \in Policy!Catalog /\ [params |-> p, latest |-> TRUE] \in Policy!Call
    BY DEF Policy!LoadingState, Policy!Catalog, Policy!Phases, Policy!Call
  <2> QED
    BY <1>2, <2>1, PolicySuperseded DEF Policy!Ask, Policy!LoaderTypeOK
<1>3. ASSUME Policy!DropQuestion \/ Policy!ResetCatalog PROVE Policy!LoaderTypeOK'
  BY <1>1, <1>3, PolicySuperseded
     DEF Policy!DropQuestion, Policy!ResetCatalog, Policy!LoaderTypeOK
<1>4. ASSUME NEW c \in policyCalls, Policy!Answered(c) \/ Policy!Failed(c)
      PROVE  Policy!LoaderTypeOK'
  <2>1. {Policy!LoadedState(c.params), Policy!ErrorState(c.params)} \subseteq Policy!Catalog
    BY DEF Policy!LoaderTypeOK, Policy!Call, Policy!Catalog, Policy!Phases,
           Policy!LoadedState, Policy!ErrorState
  <2> QED
    BY <1>4, <2>1 DEF Policy!Answered, Policy!Failed, Policy!AppliedAnswer, Policy!LoaderTypeOK
<1> QED
  BY <1>2, <1>3, <1>4

\* Its spinner goes on being awaited.
LEMMA PolicyLoaderSpins ==
  ASSUME Policy!LoaderTypeOK, Policy!SpinnerIsAwaited
  PROVE  /\ \A p \in PolicyParams : Policy!Ask(p) => Policy!SpinnerIsAwaited'
         /\ Policy!DropQuestion \/ Policy!ResetCatalog => Policy!SpinnerIsAwaited'
         /\ \A c \in policyCalls :
              Policy!Answered(c) \/ Policy!Failed(c) => Policy!SpinnerIsAwaited'
<1>1. ASSUME NEW p \in PolicyParams, Policy!Ask(p) PROVE Policy!SpinnerIsAwaited'
  <2> DEFINE new == [params |-> p, latest |-> TRUE]
  <2>1. policyCalls' = Policy!Superseded \union {new} /\ policyQueued' = Policy!LoadingState(p)
    BY <1>1 DEF Policy!Ask
  <2>2. new.latest = TRUE /\ new.params = p
    OBVIOUS
  <2> HIDE DEF new
  <2>3. \A c \in policyCalls' : c.latest => c = new
    BY <2>1, PolicySuperseded
  <2>4. Policy!OneNewest'
    BY <2>3 DEF Policy!OneNewest
  <2>5. policyQueued'.phase = "loading" /\ policyQueued'.params = p
    BY <2>1 DEF Policy!LoadingState
  <2>6. new \in policyCalls'
    BY <2>1
  <2>7. \A c \in policyCalls' : c.latest => c.params = policyQueued'.params
    BY <2>2, <2>3, <2>5
  <2> QED
    BY <2>2, <2>4, <2>5, <2>6, <2>7 DEF Policy!SpinnerIsAwaited
<1>2. ASSUME Policy!DropQuestion \/ Policy!ResetCatalog PROVE Policy!SpinnerIsAwaited'
  <2>1. policyCalls' = Policy!Superseded /\ policyQueued' = Policy!BlankCatalog
    BY <1>2 DEF Policy!DropQuestion, Policy!ResetCatalog
  <2> QED
    BY <2>1, PolicySuperseded DEF Policy!SpinnerIsAwaited, Policy!OneNewest, Policy!BlankCatalog
<1>3. ASSUME NEW c \in policyCalls, Policy!Answered(c) \/ Policy!Failed(c)
      PROVE  Policy!SpinnerIsAwaited'
  <2>1. policyCalls' = policyCalls \ {c}
    BY <1>3 DEF Policy!Answered, Policy!Failed
  <2>2. CASE c.latest
    <3>1. \A d \in policyCalls' : ~d.latest
      BY <2>1, <2>2 DEF Policy!SpinnerIsAwaited, Policy!OneNewest
    <3>2. policyQueued'.phase # "loading"
      BY <1>3, <2>2 DEF Policy!Answered, Policy!Failed, Policy!AppliedAnswer,
                        Policy!LoadedState, Policy!ErrorState
    <3> QED
      BY <3>1, <3>2 DEF Policy!SpinnerIsAwaited, Policy!OneNewest
  <2>3. CASE ~c.latest
    <3>1. policyQueued' = policyQueued
      BY <1>3, <2>3 DEF Policy!Answered, Policy!Failed, Policy!AppliedAnswer
    <3> QED
      BY <2>1, <2>3, <3>1 DEF Policy!SpinnerIsAwaited, Policy!OneNewest
  <2> QED
    BY <2>2, <2>3
<1> QED
  BY <1>1, <1>2, <1>3

\* The dependencies of the policy catalogue have their type.
LEMMA PolicyQuestion ==
  ASSUME TypeOK
  PROVE  /\ CatalogParams \in PolicyParams
         /\ PolicyDeps \in [params : PolicyParams, ready : BOOLEAN, signedIn : BOOLEAN]
<1>1. CatalogParams \in PolicyParams
  BY DEF CatalogParams, PolicyParams, TypeOK, Settings
<1>2. RuntimeReady \in BOOLEAN /\ signedIn \in BOOLEAN
  BY DEF RuntimeReady, TypeOK
<1> QED
  BY <1>1, <1>2 DEF PolicyDeps

\* Every step keeps the page in its types.
LEMMA PageTypes ==
  ASSUME PageTypeOK, AsksCompartments, [PolicyNext]_allVars
  PROVE  PageTypeOK'
<1>0. TypeOK /\ Policy!LoaderTypeOK
  BY DEF PageTypeOK
<1>1. CASE PageStep
  <2>1. LaunchStep
    BY <1>1 DEF PageStep, LaunchStep
  <2> QED
    BY <1>0, <1>1, <2>1, LaunchTypes
       DEF PageStep, policyVars, PageTypeOK, Policy!LoaderTypeOK
<1>2. CASE PageSignOut
  <2>1. Policy!LoaderTypeOK'
    BY <1>0, <1>2, PolicyLoaderTypes DEF PageSignOut
  <2>2. TypeOK'
    BY <1>0, <1>2, LaunchTypes DEF PageSignOut, LaunchStep
  <2> QED
    BY <1>2, <2>1, <2>2 DEF PageSignOut, PageTypeOK
<1>3. CASE PolicyEffect
  <2>1. Policy!LoaderTypeOK'
    BY <1>0, <1>3, PolicyLoaderTypes, PolicyQuestion DEF PolicyEffect
  <2> QED
    BY <1>0, <1>3, <2>1, PolicyQuestion
       DEF PolicyEffect, PageTypeOK, vars, TypeOK, LoaderTypeOK
<1>4. CASE Render
  <2>1. TypeOK'
    BY <1>0, <1>4, LaunchTypes DEF Render, LaunchStep, vars, TypeOK, LoaderTypeOK
  <2>2. policyForm' \in PolicyForms
    BY <1>4, ShapeTables DEF Render, Fixed, PolicyForms, PageTypeOK
  <2> QED
    BY <1>0, <1>4, <2>1, <2>2 DEF Render, PageTypeOK, Policy!LoaderTypeOK
<1>5. ASSUME NEW f \in PolicyForms, EditPolicyForm(f) PROVE PageTypeOK'
  BY <1>0, <1>5, PolicyBound
     DEF EditPolicyForm, PolicyCommand, vars, PageTypeOK, TypeOK, LoaderTypeOK, Policy!LoaderTypeOK
<1>6. CASE ChooseShape
  <2>1. PICK s \in ShapesListed :
          EditPolicyForm([policyForm EXCEPT !.shape = s, !.size = DefaultSize[s]])
    BY <1>6 DEF ChooseShape
  <2>2. ShapesListed \subseteq Shapes
    BY ShapeTables DEF ShapesListed, ShapesIn, AsksCompartments
  <2> QED
    BY <1>5, <2>1, <2>2, ShapeTables DEF PolicyForms, PageTypeOK
<1>7. CASE TypeSize
  <2>1. PICK z \in Sizes \union {NoSize} : EditPolicyForm([policyForm EXCEPT !.size = z])
    BY <1>7 DEF TypeSize
  <2> QED
    BY <1>5, <2>1 DEF PolicyForms, PageTypeOK
<1>8. CASE EditOptions
  <2>1. PICK o \in {"fine", "broken"} : EditPolicyForm([policyForm EXCEPT !.options = o])
    BY <1>8 DEF EditOptions
  <2> QED
    BY <1>5, <2>1 DEF PolicyForms, PageTypeOK
<1>9. CASE OpenPolicy
  <2> DEFINE saved(s, z) == [shape |-> s, size |-> z, options |-> "fine"]
  <2>1. PICK s \in Shapes : \E z \in Allows[s] :
          EditPolicyForm(IF s = policyForm.shape THEN saved(s, z) ELSE Fixed(saved(s, z), policyShown))
    BY <1>9 DEF OpenPolicy
  <2>2. PICK z \in Allows[s] :
          EditPolicyForm(IF s = policyForm.shape THEN saved(s, z) ELSE Fixed(saved(s, z), policyShown))
    BY <2>1
  <2>3. saved(s, z) \in PolicyForms /\ Fixed(saved(s, z), policyShown) \in PolicyForms
    BY ShapeTables DEF Fixed, PolicyForms
  <2> QED
    BY <1>5, <2>2, <2>3
<1>10. CASE CancelPolicy
  BY <1>5, <1>10 DEF CancelPolicy, BlankPolicy, PolicyForms
<1>11. CASE SubmitPolicy
  <2>1. Payload \in PolicyForms
    BY ShapeTables DEF Payload, FixedSelected, PolicyForms, PageTypeOK
  <2> QED
    BY <1>0, <1>11, <2>1, PolicyBound
       DEF SubmitPolicy, PolicyCommand, vars, PageTypeOK, TypeOK, LoaderTypeOK, Policy!LoaderTypeOK
<1>12. CASE PolicyCatalogAnswered
  <2>1. Policy!LoaderTypeOK'
    BY <1>0, <1>12, PolicyLoaderTypes DEF PolicyCatalogAnswered
  <2> QED
    BY <1>0, <1>12, <2>1 DEF PolicyCatalogAnswered, vars, PageTypeOK, TypeOK, LoaderTypeOK
<1>13. CASE PolicySaved
  <2>1. /\ reads' \in SUBSET Settings /\ posts' \in SUBSET PolicyForms
        /\ policyForm' \in PolicyForms
    BY <1>13 DEF PolicySaved, BlankPolicy, PolicyForms, PageTypeOK, TypeOK
  <2> QED
    BY <1>0, <1>13, <2>1
       DEF PolicySaved, formVars, loaderVars, PageTypeOK, TypeOK, LoaderTypeOK, Policy!LoaderTypeOK
<1>14. CASE PolicyNotSaved
  BY <1>0, <1>14
     DEF PolicyNotSaved, vars, PageTypeOK, TypeOK, LoaderTypeOK, Policy!LoaderTypeOK
<1>15. CASE UNCHANGED allVars
  BY <1>0, <1>15
     DEF allVars, vars, policyVars, PageTypeOK, TypeOK, LoaderTypeOK, Policy!LoaderTypeOK
<1> QED
  BY <1>1, <1>2, <1>3, <1>4, <1>6, <1>7, <1>8, <1>9, <1>10, <1>11, <1>12, <1>13, <1>14, <1>15
     DEF PolicyNext, PolicyAnswers

-----------------------------------------------------------------------------
(* The catalogue of the launch target                                       *)

\* A step that touches neither the question nor its calls; the effect, once it is due,
\* stays due.
Calm ==
  /\ UNCHANGED <<queued, calls, ran>>
  /\ signedIn => signedIn'
  /\ EffectPending => UNCHANGED <<shown, deferred, signedIn>>

\* Only four kinds of steps are not calm.
LEMMA StepKinds ==
  ASSUME [PolicyNext]_allVars
  PROVE  CatalogEffect \/ SignOut \/ RefreshCatalog \/ CatalogAnswered \/ Calm
<1> USE DEF Calm, loaderVars, formVars, vars
<1>1. CASE PageStep
  <2>1. CASE RenderDeferred
    BY <2>1 DEF RenderDeferred
  <2>2. CASE PageCommand
    <3>1. ASSUME NEW f, EditForm(f) PROVE Calm
      BY <3>1 DEF EditForm
    <3>2. CASE EditCompartment \/ ChooseDomain \/ ChooseSubnet \/ ChooseImage \/ EditCache
      BY <3>1, <3>2 DEF EditCompartment, ChooseDomain, ChooseSubnet, ChooseImage, EditCache
    <3>3. CASE Save \/ Clear \/ SignIn \/ RefreshAll
      BY <3>3 DEF Save, Clear, SignIn, RefreshAll
    <3> QED
      BY <2>2, <3>2, <3>3 DEF PageCommand
  <2>3. CASE ReadAnswered \/ SaveAnswered \/ ClearAnswered \/ PutFailed
    BY <2>3 DEF ReadAnswered, SaveAnswered, ClearAnswered, PutFailed
  <2> QED
    BY <1>1, <2>1, <2>2, <2>3 DEF PageStep, Answers
<1>2. CASE PageSignOut
  BY <1>2 DEF PageSignOut
<1>3. CASE PolicyEffect
  BY <1>3 DEF PolicyEffect
<1>4. CASE Render
  BY <1>4 DEF Render, RenderCatalog, Commit
<1>5. ASSUME NEW f, EditPolicyForm(f) PROVE Calm
  BY <1>5 DEF EditPolicyForm
<1>6. CASE ChooseShape \/ TypeSize \/ EditOptions \/ OpenPolicy \/ CancelPolicy
  BY <1>5, <1>6 DEF ChooseShape, TypeSize, EditOptions, OpenPolicy, CancelPolicy
<1>7. CASE SubmitPolicy
  BY <1>7 DEF SubmitPolicy
<1>8. CASE PolicyAnswers
  BY <1>8 DEF PolicyAnswers, PolicyCatalogAnswered, PolicySaved, PolicyNotSaved
<1>9. CASE UNCHANGED allVars
  BY <1>9 DEF allVars
<1> QED
  BY <1>1, <1>2, <1>3, <1>4, <1>6, <1>7, <1>8, <1>9 DEF PolicyNext

\* The effect's dependencies are what its definition reads.
LEMMA SameDependencies ==
  ASSUME UNCHANGED <<shown, deferred, signedIn>>
  PROVE  EffectDeps' = EffectDeps
BY DEF EffectDeps, RuntimeParams, Listed, NothingListed

\* The catalogue is awaited for the newest question, and blank once signed out.
LEMMA CatalogIsAwaited ==
  ASSUME Inv, [PolicyNext]_allVars
  PROVE  SpinnerIsAwaited' /\ SignedOutIsBlank'
<1>0. LoaderTypeOK /\ TypeOK /\ SpinnerIsAwaited /\ SignedOutIsBlank
  BY DEF Inv, PageTypeOK, TypeOK
<1>1. CASE CatalogEffect
  <2>1. CASE signedIn
    BY <1>0, <1>1, <2>1, LoaderSpins, RuntimeQuestion DEF CatalogEffect, SignedOutIsBlank
  <2>2. CASE ~signedIn
    <3>1. WipeCatalog /\ queued = BlankCatalog
      BY <1>0, <1>1, <2>2 DEF CatalogEffect, SignedOutIsBlank
    <3>2. queued.phase # "loading"
      BY <3>1 DEF BlankCatalog
    <3>3. SpinnerIsAwaited'
      BY <1>0, <3>1, <3>2, LoaderSpins
    <3> QED
      BY <3>1, <3>3 DEF WipeCatalog, SignedOutIsBlank, BlankCatalog
  <2> QED
    BY <2>1, <2>2
<1>2. CASE SignOut
  BY <1>0, <1>2, LoaderSpins
     DEF SignOut, ResetSetupState, DropQuestion, SignedOutIsBlank, BlankCatalog
<1>3. CASE RefreshCatalog
  <2>1. SpinnerIsAwaited'
    BY <1>0, <1>3, LoaderSpins, RuntimeQuestion DEF RefreshCatalog, Load
  <2> QED
    BY <1>3, <2>1 DEF RefreshCatalog, RefreshEnabled, SignedOutIsBlank
<1>4. CASE CatalogAnswered
  <2>1. PICK c \in calls : Answered(c) \/ Failed(c)
    BY <1>4 DEF CatalogAnswered
  <2>2. SpinnerIsAwaited'
    BY <1>0, <2>1, LoaderSpins
  <2>3. CASE signedIn
    BY <1>4, <2>2, <2>3 DEF CatalogAnswered, SignedOutIsBlank
  <2>4. CASE ~signedIn
    <3>1. queued = BlankCatalog /\ ~c.latest
      BY <1>0, <2>4 DEF SignedOutIsBlank, SpinnerIsAwaited, BlankCatalog
    <3>2. queued' = queued
      BY <2>1, <3>1 DEF Answered, Failed, AppliedAnswer
    <3> QED
      BY <2>2, <3>1, <3>2 DEF SignedOutIsBlank, BlankCatalog
  <2> QED
    BY <2>3, <2>4
<1>5. CASE Calm
  BY <1>0, <1>5 DEF Calm, SpinnerIsAwaited, OneNewest, SignedOutIsBlank, BlankCatalog
<1> QED
  BY <1>1, <1>2, <1>3, <1>4, <1>5, StepKinds

\* It is the catalogue of the compartment the effect has last run with.
LEMMA CatalogIsFollowed ==
  ASSUME Inv, [PolicyNext]_allVars
  PROVE  CatalogFollows'
<1>0. LoaderTypeOK /\ TypeOK /\ SpinnerIsAwaited /\ CatalogFollows
  BY DEF Inv, PageTypeOK, TypeOK
<1>1. CASE CatalogEffect
  <2>0. ran' = EffectDeps
    BY <1>1 DEF CatalogEffect
  <2>1. CASE signedIn /\ FullOcid(RuntimeParams.compartment)
    <3>1. queued' = LoadingState(RuntimeParams)
      BY <1>1, <2>1 DEF CatalogEffect, Ask
    <3> QED
      BY <2>0, <3>1 DEF CatalogFollows, LoadingState, EffectDeps
  <2>2. CASE ~(signedIn /\ FullOcid(RuntimeParams.compartment))
    <3>1. queued' = BlankCatalog
      BY <1>1, <2>2 DEF CatalogEffect, WipeCatalog, ResetCatalog
    <3> QED
      BY <2>0, <2>2, <3>1 DEF CatalogFollows, BlankCatalog, EffectDeps, FullOcid
  <2> QED
    BY <2>1, <2>2
<1>2. CASE SignOut
  <2>1. queued' = BlankCatalog /\ ran' = ran /\ ~signedIn' /\ signedIn /\ ~EffectPending
    BY <1>2 DEF SignOut, ResetSetupState, DropQuestion
  <2>2. ran.signedIn
    BY <2>1 DEF EffectPending, EffectDeps
  <2>3. EffectPending'
    BY <2>1, <2>2 DEF EffectPending, EffectDeps
  <2> QED
    BY <2>1, <2>3 DEF CatalogFollows, BlankCatalog
<1>3. CASE RefreshCatalog
  <2>1. EffectDeps' = EffectDeps /\ ran' = ran
    BY <1>3, SameDependencies
       DEF RefreshCatalog, Load, Ask, DropQuestion, formVars
  <2>2. queued' \in {LoadingState(RuntimeParams), BlankCatalog}
    BY <1>3 DEF RefreshCatalog, Load, Ask, DropQuestion
  <2>3. queued'.phase # "loaded"
    BY <2>2 DEF LoadingState, BlankCatalog
  <2>4. ASSUME ~EffectPending
        PROVE  /\ queued'.phase # "blank" => queued'.params.compartment = ran.params.compartment
               /\ ran.signedIn /\ ran.params.compartment \in Compartments => queued'.phase # "blank"
    <3>1. ran.params = RuntimeParams
      BY <2>4 DEF EffectPending, EffectDeps
    <3>2. CASE RuntimeParams.compartment # Blank
      <4>1. queued' = LoadingState(RuntimeParams)
        BY <1>3, <3>2 DEF RefreshCatalog, Load, Ask
      <4> QED
        BY <3>1, <4>1 DEF LoadingState
    <3>3. CASE RuntimeParams.compartment = Blank
      <4>1. queued' = BlankCatalog
        BY <1>3, <3>3 DEF RefreshCatalog, Load, DropQuestion
      <4> QED
        BY <3>1, <3>3, <4>1, BlankAndTyping DEF BlankCatalog
    <3> QED
      BY <3>2, <3>3
  <2> QED
    BY <2>1, <2>3, <2>4 DEF CatalogFollows, EffectPending
<1>4. CASE CatalogAnswered
  <2>1. PICK c \in calls : \/ c.params.compartment \in Compartments /\ Answered(c)
                           \/ Failed(c)
    BY <1>4 DEF CatalogAnswered
  <2>2. UNCHANGED <<shown, deferred, signedIn, ran>>
    BY <1>4, <2>1 DEF CatalogAnswered, Answered, Failed, formVars
  <2>3. EffectDeps' = EffectDeps
    BY <2>2, SameDependencies
  <2>4. CASE c.latest
    <3>1. queued.phase = "loading" /\ c.params = queued.params
      BY <1>0, <2>4 DEF SpinnerIsAwaited
    <3>2. \/ queued' = LoadedState(c.params) /\ c.params.compartment \in Compartments
          \/ queued' = ErrorState(c.params)
      BY <2>1, <2>4 DEF Answered, Failed, AppliedAnswer
    <3>3. /\ queued'.phase # "blank" /\ queued'.params = queued.params
          /\ queued'.phase = "loaded" => queued'.params.compartment \in Compartments
      BY <3>1, <3>2 DEF LoadedState, ErrorState
    <3> QED
      BY <1>0, <2>2, <2>3, <3>1, <3>3 DEF CatalogFollows, EffectPending
  <2>5. CASE ~c.latest
    <3>1. queued' = queued
      BY <2>1, <2>5 DEF Answered, Failed, AppliedAnswer
    <3> QED
      BY <1>0, <2>2, <2>3, <3>1 DEF CatalogFollows, EffectPending
  <2> QED
    BY <2>4, <2>5
<1>5. CASE Calm
  <2>1. EffectPending => EffectPending'
    BY <1>5, SameDependencies DEF Calm, EffectPending
  <2> QED
    BY <1>0, <1>5, <2>1 DEF Calm, CatalogFollows
<1> QED
  BY <1>1, <1>2, <1>3, <1>4, <1>5, StepKinds

-----------------------------------------------------------------------------
(* The catalogue of the policy editor                                       *)

\* Only its effect, its render, its answers and signing out touch it.
LEMMA PolicyStepKinds ==
  ASSUME [PolicyNext]_allVars
  PROVE  \/ PolicyEffect \/ Render \/ PageSignOut \/ PolicyCatalogAnswered
         \/ UNCHANGED <<policyShown, policyQueued, policyCalls, policyRan>>
<1>1. ASSUME NEW f, EditPolicyForm(f)
      PROVE  UNCHANGED <<policyShown, policyQueued, policyCalls, policyRan>>
  BY <1>1 DEF EditPolicyForm
<1>2. CASE ChooseShape \/ TypeSize \/ EditOptions \/ OpenPolicy \/ CancelPolicy
  BY <1>1, <1>2 DEF ChooseShape, TypeSize, EditOptions, OpenPolicy, CancelPolicy
<1> QED
  BY <1>2 DEF PolicyNext, PolicyAnswers, PageStep, SubmitPolicy, PolicySaved, PolicyNotSaved,
              allVars, policyVars

\* Its questions name compartments, its spinner is awaited, and what it shows follows the
\* launch target.
LEMMA ShapesAreFollowed ==
  ASSUME Inv, [PolicyNext]_allVars
  PROVE  AsksCompartments' /\ Policy!SpinnerIsAwaited' /\ ShapesFollow'
<1>0. /\ TypeOK /\ Policy!LoaderTypeOK
      /\ AsksCompartments /\ Policy!SpinnerIsAwaited /\ ShapesFollow
  BY DEF Inv, PageTypeOK
<1>1. \A c \in Policy!Superseded : c.params.compartment \in Compartments
  BY <1>0 DEF AsksCompartments, Policy!Superseded, Policy!LoaderTypeOK, Policy!Call
<1>2. CASE PolicyEffect
  <2>1. policyRan'.params = CatalogParams
    BY <1>2 DEF PolicyEffect, PolicyDeps
  <2>2. CASE Policy!Ask(CatalogParams) /\ CatalogParams.compartment # Blank
    <3>1. CatalogParams.compartment \in Compartments
      BY <1>0, <2>2, PolicyQuestion DEF PolicyParams
    <3>2. /\ policyQueued' = Policy!LoadingState(CatalogParams) /\ policyShown' = policyShown
          /\ policyCalls' = Policy!Superseded \union {[params |-> CatalogParams, latest |-> TRUE]}
      BY <2>2 DEF Policy!Ask
    <3>3. policyQueued'.params = CatalogParams
      BY <3>2 DEF Policy!LoadingState
    <3>4. ShapesFollow'
      BY <2>1, <3>3 DEF ShapesFollow
    <3>5. \A c \in policyCalls' : c.params.compartment \in Compartments
      BY <1>1, <3>1, <3>2
    <3>6. AsksCompartments'
      BY <1>0, <3>1, <3>2, <3>3, <3>5 DEF AsksCompartments
    <3> QED
      BY <1>0, <2>2, <3>4, <3>6, PolicyLoaderSpins, PolicyQuestion
  <2>3. CASE Policy!ResetCatalog
    BY <1>0, <1>1, <2>3, PolicyLoaderSpins
       DEF Policy!ResetCatalog, Policy!BlankCatalog, AsksCompartments, ShapesFollow
  <2> QED
    BY <1>2, <2>2, <2>3 DEF PolicyEffect
<1>3. CASE Render
  BY <1>0, <1>3
     DEF Render, AsksCompartments, ShapesFollow, Policy!SpinnerIsAwaited, Policy!OneNewest
<1>4. CASE PageSignOut
  BY <1>0, <1>1, <1>4, PolicyLoaderSpins
     DEF PageSignOut, Policy!DropQuestion, Policy!BlankCatalog, AsksCompartments, ShapesFollow
<1>5. CASE PolicyCatalogAnswered
  <2>1. PICK c \in policyCalls : Policy!Answered(c) \/ Policy!Failed(c)
    BY <1>5 DEF PolicyCatalogAnswered
  <2>2. /\ policyShown' = policyShown /\ policyRan' = policyRan
        /\ policyCalls' = policyCalls \ {c}
    BY <1>5, <2>1 DEF PolicyCatalogAnswered, Policy!Answered, Policy!Failed
  <2>3. \/ policyQueued' = policyQueued
        \/ /\ policyQueued'.params = policyQueued.params
           /\ policyQueued.phase # "blank"
    <3>1. CASE c.latest
      <4>1. policyQueued.phase = "loading" /\ c.params = policyQueued.params
        BY <1>0, <3>1 DEF Policy!SpinnerIsAwaited
      <4>2. policyQueued'.params = c.params
        BY <2>1, <3>1 DEF Policy!Answered, Policy!Failed, Policy!AppliedAnswer,
                          Policy!LoadedState, Policy!ErrorState
      <4> QED
        BY <4>1, <4>2
    <3>2. CASE ~c.latest
      BY <2>1, <3>2 DEF Policy!Answered, Policy!Failed, Policy!AppliedAnswer
    <3> QED
      BY <3>1, <3>2
  <2>4. AsksCompartments'
    BY <1>0, <2>2, <2>3 DEF AsksCompartments
  <2>5. ShapesFollow'
    BY <1>0, <2>2, <2>3 DEF ShapesFollow
  <2> QED
    BY <1>0, <2>1, <2>4, <2>5, PolicyLoaderSpins
<1>6. CASE UNCHANGED <<policyShown, policyQueued, policyCalls, policyRan>>
  BY <1>0, <1>6
     DEF AsksCompartments, ShapesFollow, Policy!SpinnerIsAwaited, Policy!OneNewest
<1> QED
  BY <1>2, <1>3, <1>4, <1>5, <1>6, PolicyStepKinds

-----------------------------------------------------------------------------
(* The theorems                                                             *)

\* The invariant holds when the page is opened.
LEMMA InitInv == PolicyInit => Inv
<1> SUFFICES ASSUME PolicyInit PROVE Inv
  OBVIOUS
<1> USE DEF PolicyInit, PolicyFirst, FirstOpen
<1>1. LoaderTypeOK /\ queued = BlankCatalog /\ calls = {}
  BY CatalogStates DEF LoaderInit, LoaderTypeOK
<1>2. TypeOK
  <2>1. signedIn \in BOOLEAN /\ server \in Settings /\ reads \in SUBSET Settings
    OBVIOUS
  <2>2. status \in Settings /\ form \in Forms /\ put \in Puts
    BY SettingsAreForms
  <2>3. ran \in [params : Params, signedIn : BOOLEAN] /\ deferred \in Params
    BY NoParamsIsParams
  <2>4. edits \in 0..MaxEdits
    BY BoundsAreNat
  <2> QED
    BY <1>1, <2>1, <2>2, <2>3, <2>4 DEF TypeOK
<1>3. /\ policyShown = Policy!BlankCatalog /\ policyQueued = Policy!BlankCatalog
      /\ policyCalls = {}
  BY DEF Policy!LoaderInit
<1>4. Policy!LoaderTypeOK
  BY <1>3 DEF Policy!LoaderTypeOK, Policy!BlankCatalog, Policy!Catalog, Policy!Phases,
              NoPolicyParams, PolicyParams
<1>5. PageTypeOK
  <2>1. policyRan \in [params : PolicyParams, ready : BOOLEAN, signedIn : BOOLEAN]
    BY DEF NoPolicyParams, PolicyParams
  <2>2. policyForm \in PolicyForms /\ posts \in SUBSET PolicyForms
    BY DEF BlankPolicy, PolicyForms
  <2>3. policyEdits \in 0..MaxPolicyEdits
    BY PolicyBound
  <2> QED
    BY <1>2, <1>4, <2>1, <2>2, <2>3 DEF PageTypeOK
<1>6. SpinnerIsAwaited /\ SignedOutIsBlank
  BY <1>1 DEF SpinnerIsAwaited, OneNewest, SignedOutIsBlank, BlankCatalog
<1>7. CatalogFollows
  BY <1>1 DEF CatalogFollows, BlankCatalog
<1>8. AsksCompartments /\ Policy!SpinnerIsAwaited /\ ShapesFollow
  BY <1>3 DEF AsksCompartments, Policy!SpinnerIsAwaited, Policy!OneNewest, ShapesFollow,
              Policy!BlankCatalog
<1> QED
  BY <1>5, <1>6, <1>7, <1>8 DEF Inv

\* Every step keeps it.
LEMMA StepInv == Inv /\ [PolicyNext]_allVars => Inv'
<1> SUFFICES ASSUME Inv, [PolicyNext]_allVars PROVE Inv'
  OBVIOUS
<1>1. PageTypeOK'
  BY PageTypes DEF Inv
<1> QED
  BY <1>1, CatalogIsAwaited, CatalogIsFollowed, ShapesAreFollowed DEF Inv

\* The inductive invariant of the page: its types, what is awaited, and what each
\* catalogue follows.
THEOREM PageInvariance == PolicySpec => []Inv
<1>1. PolicyInit => Inv
  BY InitInv
<1>2. Inv /\ [PolicyNext]_allVars => Inv'
  BY StepInv
<1> QED
  BY <1>1, <1>2, PTL DEF PolicySpec

\* Form, settings, catalogues and calls hold only what the page can put there: a saved
\* launch target is complete and valid, a question names what the form may name.
THEOREM PageTypeCorrect == PolicySpec => []PageTypeOK
<1>1. Inv => PageTypeOK
  BY DEF Inv
<1> QED
  BY <1>1, PageInvariance, PTL

\* The panel waits exactly while the newest question is out, however calls overtake each
\* other and whatever resets come in between.
THEOREM SpinnersAreAwaited == PolicySpec => []SpinnerIsAwaited
<1>1. Inv => SpinnerIsAwaited
  BY DEF Inv
<1> QED
  BY <1>1, PageInvariance, PTL

\* No late answer brings a catalogue back after sign-out.
THEOREM BlankOnceSignedOut == PolicySpec => []SignedOutIsBlank
<1>1. Inv => SignedOutIsBlank
  BY DEF Inv
<1> QED
  BY <1>1, PageInvariance, PTL

\* An enabled Save of a settled page sends a launch target that the service accepts.
THEOREM SaveIsSound == PolicySpec => []SettledSaveIsSound
<1>1. Inv => SettledSaveIsSound
  <2> SUFFICES ASSUME Inv, Settled, SaveEnabled PROVE Accepts(form)
    BY DEF SettledSaveIsSound
  <2>1. /\ TypeOK /\ SpinnerIsAwaited /\ CatalogFollows
        /\ ~EffectPending /\ shown = queued /\ signedIn /\ CanSave
        /\ deferred = [compartment |-> form.compartment, ad |-> form.ad]
    BY DEF Inv, PageTypeOK, Settled, SaveEnabled
  <2>2. ran.params.compartment = form.compartment /\ ran.signedIn
    BY <2>1 DEF EffectPending, EffectDeps, RuntimeParams
  <2>3. ~CatalogMessage /\ StaleFields = {} /\ form.cache # "broken"
    BY <2>1 DEF CanSave
  <2>4. form.compartment # Blank /\ shown.phase \notin {"loading", "error"}
    BY <2>3 DEF CatalogMessage
  <2>5. shown.phase = "loaded"
    <3>1. CASE form.compartment \in Compartments
      BY <2>1, <2>2, <2>4, <3>1 DEF CatalogFollows, TypeOK, LoaderTypeOK, Catalog, Phases
    <3>2. CASE form.compartment = Typing
      BY <2>1, <2>3, <2>4, <3>2 DEF CatalogMessage, TypeOK, LoaderTypeOK, Catalog, Phases
    <3> QED
      BY <2>1, <2>4, <3>1, <3>2 DEF TypeOK, Forms
  <2>6. /\ shown.params.compartment = form.compartment
        /\ form.compartment \in Compartments
    BY <2>1, <2>2, <2>5 DEF CatalogFollows
  <2>7. Listed = Listing[form.compartment]
    BY <2>5, <2>6 DEF Listed
  <2>8. form.ad \in Listed.ads /\ form.subnet \in Listed.subnets /\ form.image \in Listed.images
    BY <2>3, <2>5 DEF StaleFields
  <2> QED
    BY <2>3, <2>6, <2>7, <2>8 DEF Accepts
<1> QED
  BY <1>1, PageInvariance, PTL

\* The same for the policy editor.
THEOREM PolicySaveIsSound == PolicySpec => []SettledPolicyIsSound
<1>1. Inv => SettledPolicyIsSound
  <2> SUFFICES ASSUME Inv, PolicySettled, signedIn, CanSavePolicy PROVE AcceptsPolicy(Payload)
    BY DEF SettledPolicyIsSound
  <2>1. /\ PageTypeOK /\ ShapesFollow
        /\ policyRan = PolicyDeps /\ policyShown = policyQueued /\ status = server
    BY DEF Inv, PolicySettled, PolicyEffectPending
  <2>2. /\ server # NoSettings /\ policyShown.phase = "loaded"
        /\ policyForm.shape \in ShapesListed /\ policyForm.options = "fine"
        /\ FixedSelected \/ policyForm.size \in Allows[policyForm.shape]
    BY <2>1 DEF CanSavePolicy, SettingsMessage, RuntimeReady, Selected
  <2>3. policyShown.params.compartment = server.compartment
    BY <2>1, <2>2 DEF ShapesFollow, PolicyDeps, CatalogParams
  <2>4. policyForm.shape \in Offered[server.compartment]
    BY <2>2, <2>3 DEF ShapesListed, ShapesIn
  <2>5. CASE FixedSelected
    <3>1. policyForm.shape \in Shapes
      BY <2>5, ShapeTables DEF FixedSelected
    <3>2. /\ Payload.shape = policyForm.shape /\ Payload.options = "fine"
          /\ Payload.size = DefaultSize[policyForm.shape]
      BY <2>1, <2>2, <2>5 DEF Payload, PageTypeOK, PolicyForms
    <3> QED
      BY <2>2, <2>4, <3>1, <3>2, ShapeTables DEF AcceptsPolicy
  <2>6. CASE ~FixedSelected
    BY <2>2, <2>4, <2>6 DEF AcceptsPolicy, Payload
  <2> QED
    BY <2>5, <2>6
<1> QED
  BY <1>1, PageInvariance, PTL

-----------------------------------------------------------------------------
(* The page shows only the newest answer                                    *)

\* The refinement's question: that of the newest call in flight.
Question == IF \E c \in calls : c.latest
            THEN (CHOOSE c \in calls : c.latest).params
            ELSE NoQuestion

\* The blank question is none that the page asks.
LEMMA NoQuestionIsNone == NoQuestion \notin Params
BY ParamsAreTheForms DEF NoQuestion, FormParams

\* While the spinner is awaited, the newest call is unique.
LEMMA QuestionIs ==
  ASSUME SpinnerIsAwaited
  PROVE  /\ \A c \in calls : c.latest => Question = c.params
         /\ queued.phase # "loading" => Question = NoQuestion
<1>1. ASSUME NEW c \in calls, c.latest PROVE Question = c.params
  <2>1. (CHOOSE d \in calls : d.latest) = c
    BY <1>1 DEF SpinnerIsAwaited, OneNewest
  <2> QED
    BY <1>1, <2>1 DEF Question
<1>2. ASSUME queued.phase # "loading" PROVE Question = NoQuestion
  BY <1>2 DEF SpinnerIsAwaited, Question
<1> QED
  BY <1>1, <1>2

\* The same after a step.
LEMMA QuestionIsNext ==
  ASSUME SpinnerIsAwaited'
  PROVE  /\ \A c \in calls' : c.latest => Question' = c.params
         /\ queued'.phase # "loading" => Question' = NoQuestion
<1>1. ASSUME NEW c \in calls', c.latest PROVE Question' = c.params
  <2>1. (CHOOSE d \in calls' : d.latest) = c
    BY <1>1 DEF SpinnerIsAwaited, OneNewest
  <2> QED
    BY <1>1, <2>1 DEF Question
<1>2. ASSUME queued'.phase # "loading" PROVE Question' = NoQuestion
  BY <1>2 DEF SpinnerIsAwaited, Question
<1> QED
  BY <1>1, <1>2

\* What a step of the panel is, in terms of the question and what is shown next.
AskStep(p) == Question' = p /\ queued' = LoadingState(p)
ClearStep == Question' = NoQuestion /\ queued'.phase = "blank"
AnswerStep ==
  /\ Question # NoQuestion /\ Question' = NoQuestion
  /\ queued' \in {LoadedState(Question), ErrorState(Question)}
PanelStep ==
  (\E p \in Params : AskStep(p)) \/ ClearStep \/ AnswerStep \/ UNCHANGED <<Question, queued>>

\* The loader's operations are such steps.
LEMMA LoaderIsPanel ==
  ASSUME LoaderTypeOK, SpinnerIsAwaited, SpinnerIsAwaited'
  PROVE  /\ \A p \in Params : Ask(p) => PanelStep
         /\ DropQuestion \/ ResetCatalog \/ WipeCatalog => PanelStep
         /\ \A c \in calls : Answered(c) \/ Failed(c) => PanelStep
<1>1. ASSUME NEW p \in Params, Ask(p) PROVE PanelStep
  <2>1. [params |-> p, latest |-> TRUE] \in calls' /\ queued' = LoadingState(p)
    BY <1>1 DEF Ask
  <2>2. Question' = p
    BY <2>1, QuestionIsNext
  <2> QED
    BY <2>1, <2>2 DEF PanelStep, AskStep
<1>2. ASSUME DropQuestion \/ ResetCatalog \/ WipeCatalog PROVE PanelStep
  <2>1. queued' = BlankCatalog
    BY <1>2 DEF DropQuestion, ResetCatalog, WipeCatalog
  <2>2. queued'.phase = "blank"
    BY <2>1 DEF BlankCatalog
  <2> QED
    BY <2>2, QuestionIsNext DEF PanelStep, ClearStep
<1>3. ASSUME NEW c \in calls, Answered(c) \/ Failed(c) PROVE PanelStep
  <2>1. CASE c.latest
    <3>1. Question = c.params /\ c.params \in Params
      BY <2>1, QuestionIs DEF LoaderTypeOK, Call
    <3>2. queued' \in {LoadedState(Question), ErrorState(Question)}
      BY <1>3, <2>1, <3>1 DEF Answered, Failed, AppliedAnswer
    <3>3. queued'.phase # "loading"
      BY <3>2 DEF LoadedState, ErrorState
    <3> QED
      BY <3>1, <3>2, <3>3, QuestionIsNext, NoQuestionIsNone DEF PanelStep, AnswerStep
  <2>2. CASE ~c.latest
    <3>1. queued' = queued /\ calls' = calls \ {c}
      BY <1>3, <2>2 DEF Answered, Failed, AppliedAnswer
    <3>2. CASE queued.phase = "loading"
      <4>1. PICK d \in calls : d.latest
        BY <3>2 DEF SpinnerIsAwaited
      <4>2. d \in calls'
        BY <2>2, <3>1, <4>1
      <4>3. Question = d.params /\ Question' = d.params
        BY <4>1, <4>2, QuestionIs, QuestionIsNext
      <4> QED
        BY <3>1, <4>3 DEF PanelStep
    <3>3. CASE queued.phase # "loading"
      BY <3>1, <3>3, QuestionIs, QuestionIsNext DEF PanelStep
    <3> QED
      BY <3>2, <3>3
  <2> QED
    BY <2>1, <2>2
<1> QED
  BY <1>1, <1>2, <1>3

\* Every step of the page is one of the panel, or leaves it alone.
LEMMA PageIsPanel ==
  ASSUME Inv, Inv', [PolicyNext]_allVars
  PROVE  PanelStep
<1>0. LoaderTypeOK /\ TypeOK /\ SpinnerIsAwaited /\ SpinnerIsAwaited'
  BY DEF Inv, PageTypeOK, TypeOK
<1>1. CASE CatalogEffect
  BY <1>0, <1>1, LoaderIsPanel, RuntimeQuestion DEF CatalogEffect
<1>2. CASE SignOut
  BY <1>0, <1>2, LoaderIsPanel DEF SignOut, ResetSetupState
<1>3. CASE RefreshCatalog
  BY <1>0, <1>3, LoaderIsPanel, RuntimeQuestion DEF RefreshCatalog, Load
<1>4. CASE CatalogAnswered
  BY <1>0, <1>4, LoaderIsPanel DEF CatalogAnswered
<1>5. CASE Calm
  <2>1. UNCHANGED <<calls, queued>>
    BY <1>5 DEF Calm
  <2> QED
    BY <2>1 DEF PanelStep, Question
<1> QED
  BY <1>1, <1>2, <1>3, <1>4, <1>5, StepKinds

\* The launch-target page implements the panel that shows only the newest answer: an
\* answer that a newer question has overtaken is never seen.
THEOREM NewestAnswerOnly == PolicySpec => NewestAnswerSpec
<1>1. PolicyInit => Newest!Init
  <2> SUFFICES ASSUME PolicyInit PROVE Newest!Init
    OBVIOUS
  <2>1. calls = {} /\ queued = BlankCatalog
    BY DEF PolicyInit, PolicyFirst, FirstOpen, LoaderInit
  <2> QED
    BY <2>1 DEF Newest!Init, BlankCatalog
<1>2. Inv /\ Inv' /\ [PolicyNext]_allVars => [Newest!Next]_<<Question, queued>>
  <2> SUFFICES ASSUME Inv, Inv', [PolicyNext]_allVars PROVE [Newest!Next]_<<Question, queued>>
    OBVIOUS
  <2>1. CASE \E p \in Params : AskStep(p)
    BY <2>1 DEF AskStep, LoadingState, Question, Newest!Next, Newest!Ask
  <2>2. CASE ClearStep
    BY <2>2 DEF ClearStep, Question, Newest!Next, Newest!Clear
  <2>3. CASE AnswerStep
    BY <2>3 DEF AnswerStep, LoadedState, ErrorState, Question, Newest!Next, Newest!Answer
  <2>4. CASE UNCHANGED <<Question, queued>>
    BY <2>4
  <2> QED
    BY <2>1, <2>2, <2>3, <2>4, PageIsPanel DEF PanelStep
<1> QED
  BY <1>1, <1>2, PageInvariance, PTL DEF PolicySpec, NewestAnswerSpec, Newest!Spec, Question

=============================================================================
