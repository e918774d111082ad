--------------------------- MODULE ConsoleProofs ---------------------------
(***************************************************************************)
(* The web console is type correct, its flags and spinners mirror what is  *)
(* in flight, and the draft of a GitHub App outlives the failures of a     *)
(* save: for any numbers of slots, commands and mishaps, and any Apps,     *)
(* policies and recipes.                                                   *)
(***************************************************************************)
EXTENDS ConsoleProperties, FiniteSetTheorems, TLAPS

-----------------------------------------------------------------------------
(* The inductive invariant                                                  *)

\* The handlers that can be at a write.
Doers(at) ==
  CASE at = "stage" -> {"save"}
    [] at = "promote" -> {"save", "promote"}
    [] at = "unstage" -> {"clear"}
    [] at = "dropDraft" -> {"save", "discard"}
    [] at = "startManifest" -> {"create"}
    [] at = "putPolicy" -> {"policySave"}
    [] at = "dropPolicy" -> {"policyDelete"}
    [] at = "putRecipe" -> {"recipeSave"}
    [] at = "dropRecipe" -> {"recipeDelete"}
    [] at = "discover" -> Kinds \ {"idle", "loose"}
    [] OTHER -> {at}

\* What a call in flight says of its handler.
CallOK(c) ==
  /\ c.at = "idle" => c.do = "idle"
  /\ c.do = "idle" => c = Idle
  /\ c.do = "loose" => c.at = "settle"
  /\ c.at \in Writes => c.do \in Doers(c.at)
  /\ c.at \in Writes \union {"session", "setup", "pending"} => c.left = {}
  /\ c.at = "denied" => c.do \in {"save", "promote"}
  /\ c.do = "save" /\ c.at \in {"promote", "denied"} => c.auto
  /\ c.do = "discover" => c.at = "discover"
  /\ c.do = "recipeDelete" => c.at \in {"dropRecipe", "settle"}
  /\ c.do = "buildCreate" => c.at \in {"buildCreate", "settle"}
  /\ c.do = "buildPromote" => c.at \in {"buildPromote", "settle"}

\* Flags that are named like the handler they stand for.
OwnFlags ==
  {"password", "verify", "clear", "create", "inspect", "credentialTest", "credentialSave",
   "credentialClear", "runtimeSave", "runtimeClear", "recipeSave", "reconcile", "compat",
   "diagnose"}

\* The handler at the call c is one that flag f stands for.
Held(f, c) ==
  \/ f \in OwnFlags /\ c.do = f
  \/ f = "saving" /\ c.do = "save"
  \/ f = "promoting" /\ (c.do = "promote" \/ (c.do = "save" /\ c.auto))
  \/ f = "draft" /\ c.at \in {"pending", "dropDraft"}
  \/ f = "discovering" /\ c.at = "discover"

\* The call c belongs to refreshAll.
InRefresh(c) ==
  \/ c.at \in {"session", "setup", "wizard", "batch", "gate", "pending"}
  \/ c.at = "discover" /\ c.do # "discover"

\* Whatever shows as busy on the page is awaited by some handler.
SpinInv ==
  /\ \A f \in busy : \E j \in Slots : Held(f, work[j])
  /\ ui.refreshing \/ ui.loading => \E j \in Slots : InRefresh(work[j])
  /\ pages.reports = "loading" => \E j \in Slots : "reports" \in work[j].left
  /\ pages.deleting # Nobody => \E j \in Slots : work[j].do = "recipeDelete"
  /\ pages.building # Nobody => \E j \in Slots : work[j].do = "buildCreate"
  /\ pages.promoting # Nobody => \E j \in Slots : work[j].do = "buildPromote"

\* The handlers of one record exclude each other by their flags.
GitHubKinds == {"verify", "save", "clear"}
CredentialKinds == {"credentialTest", "credentialSave", "credentialClear"}
RuntimeKinds == {"runtimeSave", "runtimeClear"}
FirmFlag(do) == IF do = "save" THEN "saving" ELSE do

\* At most one handler of a record is out, and its flag is up as long as it is.
ExclInv ==
  \A G \in {GitHubKinds, CredentialKinds, RuntimeKinds} :
    /\ \A j \in Slots : work[j].do \in G => FirmFlag(work[j].do) \in busy
    /\ \A j, k \in Slots : work[j].do \in G /\ work[k].do \in G => j = k

\* As long as its flag is up, a promotion keeps the verifications and the clears out.
PromoteInv == "promoting" \in busy => \A j \in Slots : work[j].do \notin {"verify", "clear"}

\* A save that is about to drop the App draft has had its App staged, or promoted.
DraftInv ==
  \A j \in Slots : work[j].do = "save" /\ work[j].at = "dropDraft" =>
    work[j].form.app \in srv.live \union {srv.staged.app}

\* Every slot of the model holds such a call.
WorkInv == \A j \in Slots : CallOK(work[j])

\* The inductive invariant.
CInv == TypeOK /\ WorkInv /\ SpinInv /\ ExclInv /\ PromoteInv /\ DraftInv

-----------------------------------------------------------------------------
(* The data                                                                 *)

\* The tasks of the guided setup that the page may show.
LEMMA TaskTypes ==
  ASSUME NEW facts
  PROVE  /\ CurrentOrFirst(facts) \in Tasks
         /\ EditableTasks(facts) \subseteq Tasks
         /\ TaskOrder[1] \in Tasks
<1> DEFINE left == Tasks \ CompleteTasks(facts)
<1> DEFINE First(k) == TaskOrder[k] \in left /\ \A m \in 1..(k - 1) : TaskOrder[m] \notin left
<1>1. DOMAIN TaskOrder = 1..5
  BY DEF TaskOrder
<1>2. Tasks = {TaskOrder[k] : k \in 1..5}
  BY <1>1 DEF Tasks
<1>3. TaskOrder[1] \in Tasks
  BY <1>2
<1>4. ASSUME left # {} PROVE \E k \in 1..5 : First(k)
  <2> HIDE DEF left
  <2>1. left \subseteq Tasks
    BY DEF left
  <2>2. PICK k \in 1..5 : TaskOrder[k] \in left
    BY <1>2, <1>4, <2>1
  <2>3. CASE TaskOrder[1] \in left
    BY <2>3
  <2>4. CASE TaskOrder[1] \notin left /\ TaskOrder[2] \in left
    BY <2>4
  <2>5. CASE \A m \in 1..2 : TaskOrder[m] \notin left /\ TaskOrder[3] \in left
    BY <2>5
  <2>6. CASE \A m \in 1..3 : TaskOrder[m] \notin left /\ TaskOrder[4] \in left
    BY <2>6
  <2>7. CASE \A m \in 1..4 : TaskOrder[m] \notin left
    BY <2>2, <2>7
  <2> QED
    BY <2>3, <2>4, <2>5, <2>6, <2>7
<1>5. CurrentTask(facts) \in Tasks \union {NoTask}
  <2>1. CASE left = {}
    BY <2>1 DEF CurrentTask
  <2>2. CASE left # {}
    <3>1. CurrentTask(facts) = TaskOrder[CHOOSE k \in 1..5 : First(k)]
      BY <2>2, <1>1 DEF CurrentTask
    <3>2. (CHOOSE k \in 1..5 : First(k)) \in 1..5
      BY <2>2, <1>4
    <3> QED
      BY <3>1, <3>2, <1>2
  <2> QED
    BY <2>1, <2>2
<1> QED
  BY <1>3, <1>5 DEF CurrentOrFirst, EditableTasks, CompleteTasks

\* What the edits of the GitHub form leave is a form.
LEMMA FormTypes ==
  ASSUME NEW form \in Forms
  PROVE  /\ BlankForm \in Forms
         /\ \A staged \in Routes \union {NoRoute}, live \in SUBSET Apps :
              FormOf(staged, live) \in Forms
         /\ \A b \in BOOLEAN : MergedDraft(form, b) \in Forms
         /\ \A f \in Finds : Looked(form, f) \in Forms
         /\ \A g \in Forms : Tested(form, g) \in Forms
         /\ WithoutCredentials(form) \in Forms
<1>1. BlankForm \in Forms
  BY DEF BlankForm, Forms
<1>2. ASSUME NEW staged \in Routes \union {NoRoute}, NEW live \in SUBSET Apps
      PROVE  FormOf(staged, live) \in Forms
  <2>1. CASE staged # NoRoute
    BY <2>1 DEF FormOf, Routes, Forms
  <2>2. CASE staged = NoRoute /\ Cardinality(live) = 1
    <3>1. live # {}
      BY <2>2, FS_EmptySet
    <3>2. (CHOOSE a \in live : TRUE) \in Apps
      BY <3>1
    <3> QED
      BY <2>2, <3>2 DEF FormOf, Forms
  <2>3. CASE staged = NoRoute /\ Cardinality(live) # 1
    BY <2>3, <1>1 DEF FormOf
  <2> QED
    BY <2>1, <2>2, <2>3
<1>3. \A b \in BOOLEAN : MergedDraft(form, b) \in Forms
  BY AppsAreApps DEF MergedDraft, Forms
<1>4. \A f \in Finds : Looked(form, f) \in Forms
  BY DEF Looked, Forms
<1>5. \A g \in Forms : Tested(form, g) \in Forms
  BY DEF Tested, Forms
<1>6. WithoutCredentials(form) \in Forms
  BY DEF WithoutCredentials, Forms
<1> QED
  BY <1>1, <1>2, <1>3, <1>4, <1>5, <1>6

\* Whatever the form holds, it is shown in one of the modes.
LEMMA ModeTypes ==
  ASSUME NEW mode, NEW form
  PROVE  NormalMode(mode, form) \in Modes
BY DEF NormalMode, Modes

\* The empty service, the setup it reports and what a page receives of it.
LEMMA ServiceTypes ==
  /\ NoService \in Services
  /\ NoService.session = "none" /\ ~Ready(NoService)
  /\ \A s \in Services : SetupOf(s) \in SetupStatuses /\ Got(s) \in Services
  /\ BlankSetup \in SetupStatuses
<1>1. NoService \in Services
  BY DEF NoService, Services, Sessions, NoRoute, Drafts, Builds
<1>2. NoService.session = "none" /\ ~Ready(NoService)
  BY DEF NoService, Ready
<1>3. ASSUME NEW s \in Services
      PROVE  SetupOf(s) \in SetupStatuses /\ Got(s) \in Services
  <2>1. s.runtime \in BOOLEAN /\ s.credential \in BOOLEAN
    BY DEF Services
  <2> QED
    BY <1>1, <2>1 DEF SetupOf, SetupStatuses, Ready, Got
<1> QED
  BY <1>1, <1>2, <1>3 DEF BlankSetup, SetupStatuses

\* What each write makes of the service.
LEMMA SessionEffects ==
  ASSUME NEW c, NEW s
  PROVE  /\ c.at = "login" =>
              Effects(c, s) = {[s EXCEPT !.session = IF s.changed THEN "full" ELSE "password"]}
         /\ c.at = "logout" => Effects(c, s) = {Ended(s)}
         /\ c.at = "password" =>
              Effects(c, s) = IF s.session = "none" THEN {}
                              ELSE {[s EXCEPT !.session = "full", !.changed = TRUE]}
         /\ c.at \notin {"login", "logout", "password"} /\ s.session # "full" =>
              Effects(c, s) = {}
BY DEF Effects

\* Calls that leave the service alone.
LEMMA NoEffects ==
  ASSUME NEW c, NEW s, s.session = "full"
  PROVE  /\ c.at \in {"startManifest", "discover", "inspect"} => Effects(c, s) = {s}
         /\ c.at \in {"verify", "credentialTest", "cleanup", "terminate", "compat",
                      "diagnose"} => Effects(c, s) \subseteq {s}
BY DEF Effects

\* The routes of GitHub.
LEMMA RouteEffects ==
  ASSUME NEW c, NEW s, s.session = "full"
  PROVE  /\ c.at = "stage" =>
              Effects(c, s) =
                IF Usable(c.form)
                THEN {[s EXCEPT !.staged = [app |-> c.form.app, repos |-> c.form.repos]]}
                ELSE {}
         /\ c.at = "promote" =>
              Effects(c, s) = IF s.staged.repos THEN {Promoted(s)} ELSE {}
         /\ c.at = "unstage" => Effects(c, s) = {[s EXCEPT !.staged = NoRoute]}
         /\ c.at = "dropDraft" => Effects(c, s) = {[s EXCEPT !.draft = "none"]}
BY DEF Effects

\* The OCI record and the launch target.
LEMMA OciEffects ==
  ASSUME NEW c, NEW s, s.session = "full"
  PROVE  /\ c.at = "credentialSave" =>
              Effects(c, s) \subseteq {[s EXCEPT !.credential = TRUE]}
         /\ c.at = "credentialClear" => Effects(c, s) = {[s EXCEPT !.credential = FALSE]}
         /\ c.at = "runtimeSave" => Effects(c, s) = {[s EXCEPT !.runtime = TRUE]}
         /\ c.at = "runtimeClear" => Effects(c, s) = {[s EXCEPT !.runtime = FALSE]}
BY DEF Effects

\* The policies.
LEMMA PolicyEffects ==
  ASSUME NEW c, NEW s, s.session = "full"
  PROVE  /\ c.at = "putPolicy" =>
              Effects(c, s) \subseteq
                {s} \union {[s EXCEPT !.policies = r] : r \in Added(s.policies, Policies)}
         /\ c.at = "dropPolicy" =>
              Effects(c, s) \subseteq {[s EXCEPT !.policies = @ \ {c.arg}]}
BY DEF Effects

\* The recipes of the runner images.
LEMMA RecipeEffects ==
  ASSUME NEW c, NEW s, s.session = "full"
  PROVE  /\ c.at = "putRecipe" =>
              Effects(c, s) \subseteq
                {s} \union {[s EXCEPT !.recipes = r] : r \in Added(s.recipes, Recipes)}
         /\ c.at = "dropRecipe" =>
              Effects(c, s) = {[s EXCEPT !.recipes = @ \ {c.arg}, !.builds[c.arg] = "none"]}
<1>1. CASE c.at = "putRecipe"
  <2>1. Effects(c, s) = IF c.arg = Nobody
                        THEN {[s EXCEPT !.recipes = r] : r \in Added(s.recipes, Recipes)}
                        ELSE IF c.arg \in s.recipes THEN {s} ELSE {}
    BY <1>1 DEF Effects
  <2> QED
    BY <1>1, <2>1
<1>2. CASE c.at = "dropRecipe"
  BY <1>2 DEF Effects
<1> QED
  BY <1>1, <1>2

\* The builds of them.
LEMMA BuildEffects ==
  ASSUME NEW c, NEW s, s.session = "full"
  PROVE  /\ c.at = "buildCreate" => Effects(c, s) \subseteq Built(s, c.arg)
         /\ c.at = "buildPromote" =>
              Effects(c, s) \subseteq
                {[s EXCEPT !.builds[c.arg] = "closed", !.runtime = TRUE]}
         /\ c.at = "reconcile" => Effects(c, s) = Reconciled(s)
<1>1. CASE c.at = "buildCreate"
  BY <1>1 DEF Effects
<1>2. CASE c.at = "buildPromote"
  BY <1>2 DEF Effects
<1>3. CASE c.at = "reconcile"
  BY <1>3 DEF Effects
<1> QED
  BY <1>1, <1>2, <1>3

\* The builds of the runner images after a pass of the service.
LEMMA BuildTypes ==
  ASSUME NEW s \in Services
  PROVE  /\ Reconciled(s) \subseteq Services
         /\ \A r : Built(s, r) \subseteq Services
         /\ \A r, x \in Builds, t \in Services : [t EXCEPT !.builds[r] = x] \in Services
<1>1. Reconciled(s) \subseteq Services
  BY DEF Reconciled, Services
<1>2. ASSUME NEW r, NEW x \in Builds, NEW t \in Services
      PROVE  [t EXCEPT !.builds[r] = x] \in Services
  BY DEF Services
<1>3. ASSUME NEW r, NEW u \in Built(s, r) PROVE u \in Services
  <2>1. PICK t \in Reconciled(s), b \in {"running", "closed"} : u = [t EXCEPT !.builds[r] = b]
    BY <1>3 DEF Built
  <2>2. t \in Services /\ b \in Builds
    BY <1>1 DEF Builds
  <2> QED
    BY <2>1, <2>2, <1>2
<1> QED
  BY <1>1, <1>2, <1>3

\* What the service can be in after a write is a state of it.
LEMMA EffectTypes ==
  ASSUME NEW c \in Calls, c.at \in Writes, NEW s \in Services
  PROVE  Effects(c, s) \subseteq Services
<1>1. CASE c.at \in {"login", "logout", "password"}
  <2>1. /\ [s EXCEPT !.session = IF s.changed THEN "full" ELSE "password"] \in Services
        /\ [s EXCEPT !.session = "full", !.changed = TRUE] \in Services
        /\ Ended(s) \in Services
    BY DEF Services, Sessions, Ended, Drafts
  <2>2. CASE c.at = "login"
    <3>1. Effects(c, s) = {[s EXCEPT !.session = IF s.changed THEN "full" ELSE "password"]}
      BY <2>2, SessionEffects, Zenon
    <3> QED
      BY <2>1, <3>1
  <2>3. CASE c.at = "logout"
    <3>1. Effects(c, s) = {Ended(s)}
      BY <2>3, SessionEffects, Zenon
    <3> QED
      BY <2>1, <3>1
  <2>4. CASE c.at = "password"
    <3>1. Effects(c, s) = IF s.session = "none" THEN {}
                          ELSE {[s EXCEPT !.session = "full", !.changed = TRUE]}
      BY <2>4, SessionEffects, Zenon
    <3> QED
      BY <2>1, <3>1
  <2> QED
    BY <1>1, <2>2, <2>3, <2>4
<1>2. CASE c.at \notin {"login", "logout", "password"} /\ s.session # "full"
  BY <1>2, SessionEffects
<1>3. ASSUME s.session = "full",
             c.at \in {"startManifest", "discover", "inspect", "verify", "credentialTest",
                       "cleanup", "terminate", "compat", "diagnose"}
      PROVE  Effects(c, s) \subseteq Services
  BY <1>3, NoEffects
<1>4. ASSUME s.session = "full", c.at = "stage" PROVE Effects(c, s) \subseteq Services
  <2> DEFINE route == [app |-> c.form.app, repos |-> c.form.repos]
  <2>1. CASE Usable(c.form)
    <3>1. route \in Routes
      BY <2>1 DEF Usable, Calls, Forms, Routes
    <3>2. [s EXCEPT !.staged = route] \in Services
      BY <3>1 DEF Services
    <3> QED
      BY <1>4, <3>2, RouteEffects
  <2>2. CASE ~Usable(c.form)
    BY <1>4, <2>2, RouteEffects
  <2> QED
    BY <2>1, <2>2
<1>5. ASSUME s.session = "full", c.at = "promote" PROVE Effects(c, s) \subseteq Services
  <2>1. CASE s.staged.repos
    <3>1. s.staged.app \in Apps
      BY <2>1 DEF Services, Routes, NoRoute
    <3>2. Promoted(s) \in Services
      BY <3>1 DEF Promoted, Services
    <3> QED
      BY <1>5, <3>2, RouteEffects
  <2>2. CASE ~s.staged.repos
    BY <1>5, <2>2, RouteEffects
  <2> QED
    BY <2>1, <2>2
<1>6. ASSUME s.session = "full", c.at \in {"unstage", "dropDraft"}
      PROVE  Effects(c, s) \subseteq Services
  <2>1. [s EXCEPT !.staged = NoRoute] \in Services /\ [s EXCEPT !.draft = "none"] \in Services
    BY DEF Services, Drafts
  <2> QED
    BY <1>6, <2>1, RouteEffects
<1>7. ASSUME s.session = "full",
             c.at \in {"credentialSave", "credentialClear", "runtimeSave", "runtimeClear"}
      PROVE  Effects(c, s) \subseteq Services
  <2>1. /\ [s EXCEPT !.credential = TRUE] \in Services
        /\ [s EXCEPT !.credential = FALSE] \in Services
        /\ [s EXCEPT !.runtime = TRUE] \in Services
        /\ [s EXCEPT !.runtime = FALSE] \in Services
    BY DEF Services
  <2>2. /\ c.at = "credentialSave" => Effects(c, s) \subseteq {[s EXCEPT !.credential = TRUE]}
        /\ c.at = "credentialClear" => Effects(c, s) = {[s EXCEPT !.credential = FALSE]}
        /\ c.at = "runtimeSave" => Effects(c, s) = {[s EXCEPT !.runtime = TRUE]}
        /\ c.at = "runtimeClear" => Effects(c, s) = {[s EXCEPT !.runtime = FALSE]}
    BY <1>7, OciEffects, Zenon
  <2> QED
    BY <1>7, <2>1, <2>2
<1>8. ASSUME s.session = "full", c.at \in {"putPolicy", "dropPolicy"}
      PROVE  Effects(c, s) \subseteq Services
  <2>1. ASSUME NEW r \in SUBSET Policies PROVE [s EXCEPT !.policies = r] \in Services
    BY DEF Services
  <2>2. [s EXCEPT !.policies = @ \ {c.arg}] \in Services
    BY DEF Services
  <2>3. \A r \in Added(s.policies, Policies) : r \in SUBSET Policies
    BY DEF Added, Services
  <2> QED
    BY <1>8, <2>1, <2>2, <2>3, PolicyEffects
<1>9. ASSUME s.session = "full", c.at \in {"putRecipe", "dropRecipe"}
      PROVE  Effects(c, s) \subseteq Services
  <2>1. ASSUME NEW r \in SUBSET Recipes PROVE [s EXCEPT !.recipes = r] \in Services
    BY DEF Services
  <2>2. [s EXCEPT !.recipes = @ \ {c.arg}, !.builds[c.arg] = "none"] \in Services
    BY DEF Services, Builds
  <2>3. \A r \in Added(s.recipes, Recipes) : r \in SUBSET Recipes
    BY DEF Added, Services
  <2>4. CASE c.at = "putRecipe"
    <3>1. Effects(c, s) \subseteq
            {s} \union {[s EXCEPT !.recipes = r] : r \in Added(s.recipes, Recipes)}
      BY <1>9, <2>4, RecipeEffects, Zenon
    <3> QED
      BY <2>1, <2>3, <3>1
  <2>5. CASE c.at = "dropRecipe"
    <3>1. Effects(c, s) = {[s EXCEPT !.recipes = @ \ {c.arg}, !.builds[c.arg] = "none"]}
      BY <1>9, <2>5, RecipeEffects, Zenon
    <3> QED
      BY <2>2, <3>1
  <2> QED
    BY <1>9, <2>4, <2>5
<1>10. ASSUME s.session = "full", c.at \in {"buildCreate", "buildPromote", "reconcile"}
      PROVE  Effects(c, s) \subseteq Services
  <2>1. [s EXCEPT !.builds[c.arg] = "closed", !.runtime = TRUE] \in Services
    BY DEF Services, Builds
  <2> QED
    BY <1>10, <2>1, BuildEffects, BuildTypes
<1> QED
  BY <1>1, <1>2, <1>3, <1>4, <1>5, <1>6, <1>7, <1>8, <1>9, <1>10 DEF Writes

\* The fields of the service a write can change.
LEMMA EffectFields ==
  ASSUME NEW c \in Calls, c.at \in Writes, NEW s \in Services, NEW t \in Effects(c, s)
  PROVE  /\ c.at \notin {"login", "logout", "password"} =>
              s.session = "full" /\ t.session = "full"
         /\ c.at = "logout" => t.session = "none"
         /\ c.at \in {"login", "password"} => t.session # "none"
         /\ c.at \notin {"stage", "unstage", "promote"} =>
              t.staged = s.staged /\ t.live = s.live
         /\ c.at = "promote" => t = Promoted(s)
         /\ c.at \notin {"logout", "dropDraft"} => t.draft = s.draft
         /\ c.at \notin {"credentialSave", "credentialClear"} => t.credential = s.credential
         /\ c.at \notin {"runtimeSave", "runtimeClear", "buildPromote"} => t.runtime = s.runtime
         /\ c.at \notin {"putPolicy", "dropPolicy"} => t.policies = s.policies
         /\ c.at \notin {"putRecipe", "dropRecipe"} => t.recipes = s.recipes
         /\ c.at \notin {"dropRecipe", "buildCreate", "buildPromote", "reconcile"} =>
              t.builds = s.builds
<1> USE DEF Services
<1>1. CASE c.at = "login"
  <2>1. Effects(c, s) = {[s EXCEPT !.session = IF s.changed THEN "full" ELSE "password"]}
    BY <1>1, SessionEffects, Zenon
  <2> QED
    BY <1>1, <2>1
<1>2. CASE c.at = "logout"
  <2>1. Effects(c, s) = {Ended(s)}
    BY <1>2, SessionEffects, Zenon
  <2> QED
    BY <1>2, <2>1 DEF Ended
<1>3. CASE c.at = "password"
  <2>1. Effects(c, s) = IF s.session = "none" THEN {}
                        ELSE {[s EXCEPT !.session = "full", !.changed = TRUE]}
    BY <1>3, SessionEffects, Zenon
  <2>2. t = [s EXCEPT !.session = "full", !.changed = TRUE]
    BY <2>1
  <2> QED
    BY <1>3, <2>2
<1>4. CASE c.at \notin {"login", "logout", "password"}
  <2>1. s.session = "full"
    BY <1>4, SessionEffects
  <2>2. CASE c.at \in {"startManifest", "discover", "inspect", "verify", "credentialTest",
                       "cleanup", "terminate", "compat", "diagnose"}
    BY <2>1, <2>2, NoEffects
  <2>3. CASE c.at = "stage"
    <3>1. \E r : t = [s EXCEPT !.staged = r]
      BY <2>1, <2>3, RouteEffects
    <3> QED
      BY <2>1, <2>3, <3>1
  <2>4. CASE c.at = "promote"
    <3>1. t = Promoted(s)
      BY <2>1, <2>4, RouteEffects
    <3> QED
      BY <2>1, <2>4, <3>1 DEF Promoted
  <2>5. CASE c.at \in {"unstage", "dropDraft"}
    <3>1. /\ c.at = "unstage" => t = [s EXCEPT !.staged = NoRoute]
          /\ c.at = "dropDraft" => t = [s EXCEPT !.draft = "none"]
      BY <2>1, RouteEffects
    <3> QED
      BY <2>1, <2>5, <3>1
  <2>6. CASE c.at \in {"credentialSave", "credentialClear", "runtimeSave", "runtimeClear"}
    <3>1. /\ c.at = "credentialSave" => t = [s EXCEPT !.credential = TRUE]
          /\ c.at = "credentialClear" => t = [s EXCEPT !.credential = FALSE]
          /\ c.at = "runtimeSave" => t = [s EXCEPT !.runtime = TRUE]
          /\ c.at = "runtimeClear" => t = [s EXCEPT !.runtime = FALSE]
      BY <2>1, OciEffects
    <3> QED
      BY <2>1, <2>6, <3>1
  <2>7. CASE c.at = "putPolicy"
    <3>1. Effects(c, s) \subseteq
            {s} \union {[s EXCEPT !.policies = r] : r \in Added(s.policies, Policies)}
      BY <2>1, <2>7, PolicyEffects, Zenon
    <3>2. t = s \/ \E r : t = [s EXCEPT !.policies = r]
      BY <3>1
    <3> QED
      BY <2>1, <2>7, <3>2
  <2>8. CASE c.at = "dropPolicy"
    <3>1. Effects(c, s) \subseteq {[s EXCEPT !.policies = @ \ {c.arg}]}
      BY <2>1, <2>8, PolicyEffects, Zenon
    <3> QED
      BY <2>1, <2>8, <3>1
  <2>9. CASE c.at = "putRecipe"
    <3>1. Effects(c, s) \subseteq
            {s} \union {[s EXCEPT !.recipes = r] : r \in Added(s.recipes, Recipes)}
      BY <2>1, <2>9, RecipeEffects, Zenon
    <3>2. t = s \/ \E r : t = [s EXCEPT !.recipes = r]
      BY <3>1
    <3> QED
      BY <2>1, <2>9, <3>2
  <2>10. CASE c.at = "dropRecipe"
    <3>1. Effects(c, s) = {[s EXCEPT !.recipes = @ \ {c.arg}, !.builds[c.arg] = "none"]}
      BY <2>1, <2>10, RecipeEffects, Zenon
    <3> QED
      BY <2>1, <2>10, <3>1
  <2>11. CASE c.at = "buildPromote"
    <3>1. Effects(c, s) \subseteq {[s EXCEPT !.builds[c.arg] = "closed", !.runtime = TRUE]}
      BY <2>1, <2>11, BuildEffects, Zenon
    <3>2. t = [s EXCEPT !.builds[c.arg] = "closed", !.runtime = TRUE]
      BY <3>1
    <3> QED
      BY <2>1, <2>11, <3>2
  <2>12. CASE c.at \in {"buildCreate", "reconcile"}
    <3>1. ASSUME NEW u \in Reconciled(s)
          PROVE  u \in Services /\ \E b : u = [s EXCEPT !.builds = b]
      <4>1. u \in Services
        BY BuildTypes
      <4>2. \E b : u = [s EXCEPT !.builds = b]
        BY DEF Reconciled
      <4> QED
        BY <4>1, <4>2
    <3>2. ASSUME t \in Built(s, c.arg) PROVE \E b : t = [s EXCEPT !.builds = b]
      <4>1. PICK u \in Reconciled(s), b \in {"running", "closed"} :
              t = [u EXCEPT !.builds[c.arg] = b]
        BY <3>2 DEF Built
      <4>2. PICK d : u = [s EXCEPT !.builds = d]
        BY <3>1
      <4>3. t = [s EXCEPT !.builds = [d EXCEPT ![c.arg] = b]]
        BY <4>1, <4>2
      <4> QED
        BY <4>3
    <3>3. t \in Built(s, c.arg) \/ t \in Reconciled(s)
      BY <2>1, <2>12, BuildEffects
    <3>4. \E b : t = [s EXCEPT !.builds = b]
      BY <3>1, <3>2, <3>3
    <3> QED
      BY <2>1, <2>12, <3>4
  <2> QED
    BY <1>4, <2>2, <2>3, <2>4, <2>5, <2>6, <2>7, <2>8, <2>9, <2>10, <2>11, <2>12 DEF Writes
<1> QED
  BY <1>1, <1>2, <1>3, <1>4

\* Only staging and clearing a route let go of the App that is staged or live.
LEMMA RoutesKept ==
  ASSUME NEW c \in Calls, c.at \in Writes \ {"stage", "unstage"}, NEW s \in Services,
         NEW t \in Effects(c, s)
  PROVE  s.live \union {s.staged.app} \subseteq t.live \union {t.staged.app}
<1>1. CASE c.at = "promote"
  <2>1. t = Promoted(s)
    BY <1>1, EffectFields
  <2> QED
    BY <2>1 DEF Promoted, Services
<1>2. CASE c.at # "promote"
  BY <1>2, EffectFields
<1> QED
  BY <1>1, <1>2

\* The App draft goes with the session, or is dropped by a call of its own.
LEMMA DraftGoes ==
  ASSUME NEW c \in Calls, c.at \in Writes, NEW s \in Services, NEW t \in Effects(c, s),
         s.draft # "none", t.draft = "none"
  PROVE  c.at = "dropDraft" \/ (c.at = "logout" /\ t.session = "none")
BY EffectFields

-----------------------------------------------------------------------------
(* The screen                                                               *)

\* What each variable of the screen ranges over.
UiStates ==
  [session : Sessions, setup : SetupStatuses, loading : BOOLEAN,
   refreshing : BOOLEAN, task : Tasks, ref : Tasks \union {NoTask},
   marker : {"none", "created", "installed"}]
GitHubStates ==
  [staged : Routes \union {NoRoute}, live : SUBSET Apps, form : Forms, mode : Modes,
   tested : BOOLEAN, draft : Drafts, found : Finds, auto : BOOLEAN, error : BOOLEAN]
OciStates == [credential : BOOLEAN, runtime : BOOLEAN, config : BOOLEAN, key : BOOLEAN]
PageStates ==
  [loaded : BOOLEAN, policies : SUBSET Policies,
   policy : Policies \union {Nobody}, recipes : SUBSET Recipes,
   recipe : Recipes \union {Nobody}, deleting : Recipes \union {Nobody},
   builds : [Recipes -> Builds], building : Recipes \union {Nobody},
   promoting : Recipes \union {Nobody},
   reports : Reports, compat : Lookups, diagnosis : Diagnoses]

\* The type invariant by parts, one for each variable.
LEMMA ScreenTypes ==
  TypeOK <=>
    /\ srv \in Services /\ ui \in UiStates /\ gh \in GitHubStates
    /\ oci \in OciStates /\ pages \in PageStates /\ busy \in SUBSET Flags
    /\ work \in [Slots -> Calls] /\ commands \in 0..MaxCommands
    /\ mishaps \in 0..MaxMishaps /\ clean \in BOOLEAN
BY DEF TypeOK, UiStates, GitHubStates, OciStates, PageStates

\* The finally of refreshAll ends both spinners.
LEMMA SpinnersEnd ==
  ASSUME NEW u \in UiStates, NEW j, EndRefresh(j, u)
  PROVE  Returned(j) /\ ui'.refreshing = FALSE /\ ui'.loading = FALSE
BY DEF EndRefresh, UiStates

\* A refresh that is sent back to the sign-in page ends, and its data with it.
LEMMA GateEnds ==
  ASSUME TypeOK, NEW j, NEW x, RefreshGated(j, x)
  PROVE  /\ Returned(j) /\ ui'.refreshing = FALSE /\ ui'.loading = FALSE
         /\ pages' = WithoutData(pages)
         /\ busy' = busy \ (SetupFlags \union DataFlags \union FlagsOf(work[j]))
<1>1. ui \in UiStates
  BY ScreenTypes
<1> QED
  BY <1>1 DEF RefreshGated, UiStates

-----------------------------------------------------------------------------
(* How a handler moves                                                      *)

\* A handler returns; what it no longer waits for comes back on its own.
Rest(c) == IF c.left = {} THEN Idle ELSE Loose(c)

\* The handler of slot j is at the call d next.
MovedTo(j, d) == d \in Calls /\ work' = [work EXCEPT ![j] = d]

\* It goes on from the await at, its reads having left from s.
SentOn(j, d, at, left, s) ==
  /\ MovedTo(j, d)
  /\ d.do = work[j].do /\ d.auto = work[j].auto
  /\ d.at = at /\ d.left = left /\ d.sent = s
  /\ d.held = FALSE /\ d.done = FALSE
  /\ at = "dropDraft" => d.form = work[j].form

\* A handler that started keeps its kind until it returns.
Follows(c, d) ==
  \/ d.do = c.do /\ d.auto = c.auto
  \/ d.do \in {"idle", "loose"}

\* What is still spinning is awaited: by the handler that moves, or by another one.
SpinOK(c, d) ==
  /\ \A f \in busy' : Held(f, d) \/ (f \in busy /\ ~Held(f, c))
  /\ ui'.refreshing \/ ui'.loading =>
       InRefresh(d) \/ ((ui.refreshing \/ ui.loading) /\ ~InRefresh(c))
  /\ pages'.reports = "loading" =>
       "reports" \in d.left \/ (pages.reports = "loading" /\ "reports" \notin c.left)
  /\ pages'.deleting # Nobody =>
       d.do = "recipeDelete" \/ (pages.deleting # Nobody /\ c.do # "recipeDelete")
  /\ pages'.building # Nobody =>
       d.do = "buildCreate" \/ (pages.building # Nobody /\ c.do # "buildCreate")
  /\ pages'.promoting # Nobody =>
       d.do = "buildPromote" \/ (pages.promoting # Nobody /\ c.do # "buildPromote")

\* The flags no reset clears: only the handler they stand for lets go of them.  The flag of
\* the promotion is no such flag; on the way it goes up for a save that activates its route.
FirmKinds == GitHubKinds \union CredentialKinds \union RuntimeKinds
FirmOK(c, d) ==
  /\ \A k \in FirmKinds :
       FirmFlag(k) \in busy => FirmFlag(k) \in busy' \/ (c.do = k /\ d.do # k)
  /\ "promoting" \in busy' => "promoting" \in busy \/ c.do = "save"

\* A save that goes on to drop the App draft has staged its route.
RouteOK(c, d) == d.at = "dropDraft" => c.at = "stage" /\ d.form.app = srv'.staged.app

\* The service is left alone, or does what the handler's write asks.
ServiceMoves(j) ==
  srv' = srv \/ (work[j].at \in Writes /\ srv' \in Effects(work[j], srv))

\* The bounds of the model are kept.
CountsOK ==
  mishaps' \in 0..MaxMishaps /\ clean' \in BOOLEAN /\ commands' = commands

\* A step in which the handler of slot j goes from its call to d.
Goes(j, d) ==
  /\ MovedTo(j, d) /\ CallOK(d) /\ Follows(work[j], d)
  /\ SpinOK(work[j], d) /\ FirmOK(work[j], d) /\ RouteOK(work[j], d)
  /\ ServiceMoves(j) /\ CountsOK

\* A free slot.
LEMMA IdleCall ==
  /\ Idle \in Calls /\ CallOK(Idle)
  /\ Idle.do = "idle" /\ Idle.at = "idle" /\ Idle.left = {}
<1>1. BlankForm \in Forms
  BY DEF BlankForm, Forms
<1>2. Idle \in Calls
  BY <1>1, ServiceTypes DEF Idle, Calls, Kinds
<1> QED
  BY <1>2 DEF Idle, CallOK, Writes

\* What is left of a call whose handler has returned.
LEMMA RestCall ==
  ASSUME NEW c \in Calls
  PROVE  /\ Rest(c) \in Calls /\ CallOK(Rest(c))
         /\ Rest(c).left = c.left
         /\ c.left = {} => Rest(c) = Idle
         /\ Rest(c).do \in {"idle", "loose"} /\ Rest(c).at \in {"idle", "settle"}
<1>1. CASE c.left = {}
  BY <1>1, IdleCall DEF Rest
<1>2. CASE c.left # {}
  <2> DEFINE d == Loose(c)
  <2>1. d \in Calls
    BY IdleCall DEF Loose, Calls, Kinds, Reads
  <2>2. d.do = "loose" /\ d.at = "settle" /\ d.left = c.left
    BY IdleCall DEF Loose, Idle
  <2>3. CallOK(d)
    <3> HIDE DEF d
    <3> QED
      BY <2>2, IdleCall DEF CallOK, Writes
  <2> QED
    BY <1>2, <2>1, <2>2, <2>3 DEF Rest
<1> QED
  BY <1>1, <1>2

\* How the helpers of the handlers move a slot.
LEMMA ReturnedMoves ==
  ASSUME TypeOK, NEW j \in Slots, Returned(j)
  PROVE  MovedTo(j, Rest(work[j]))
<1>1. work[j] \in Calls
  BY DEF TypeOK
<1> QED
  BY <1>1, RestCall DEF Returned, Rest, MovedTo

\* The handler awaits its next call.
LEMMA GoOnMoves ==
  ASSUME TypeOK, NEW j \in Slots, NEW at \in Writes \union Reads, NEW left \in SUBSET Loads,
         NEW s \in Services, GoOn(j, at, left, s)
  PROVE  \E d \in Calls : SentOn(j, d, at, left, s)
<1> DEFINE c == work[j]
           d == Going(c, at, left, s)
<1>1. c \in Calls
  BY DEF TypeOK
<1>2. c.form \in Forms /\ BlankForm \in Forms
  BY <1>1, IdleCall DEF Calls, Idle
<1>3. d \in Calls
  BY <1>1, <1>2 DEF Going, Calls
<1>4. /\ d.do = c.do /\ d.auto = c.auto /\ d.at = at /\ d.left = left /\ d.sent = s
      /\ d.held = FALSE /\ d.done = FALSE /\ (at = "dropDraft" => d.form = c.form)
  BY <1>1 DEF Going, Calls
<1>5. work' = [work EXCEPT ![j] = d]
  BY DEF GoOn
<1> HIDE DEF d
<1> QED
  BY <1>3, <1>4, <1>5 DEF SentOn, MovedTo

\* A write is accepted: the service does what it asks.
LEMMA AcceptedMoves ==
  ASSUME TypeOK, NEW j \in Slots, work[j].at \in Writes,
         NEW at \in Writes \union Reads, NEW left \in SUBSET Loads, Accepted(j, at, left)
  PROVE  /\ \E d \in Calls :
              SentOn(j, d, at, left, IF at \in Writes THEN NoService ELSE srv')
         /\ srv' \in Effects(work[j], srv) /\ srv' \in Services
         /\ ServiceMoves(j) /\ mishaps' = mishaps /\ clean' = clean
<1>1. work[j] \in Calls /\ srv \in Services
  BY DEF TypeOK
<1>2. /\ srv' \in Effects(work[j], srv)
      /\ GoOn(j, at, left, IF at \in Writes THEN NoService ELSE srv')
      /\ mishaps' = mishaps /\ clean' = clean
  BY DEF Accepted
<1>3. srv' \in Services
  BY <1>1, <1>2, EffectTypes
<1>4. (IF at \in Writes THEN NoService ELSE srv') \in Services
  BY <1>3, ServiceTypes
<1> QED
  BY <1>2, <1>3, <1>4, GoOnMoves DEF ServiceMoves

\* A call fails: a write may have been done before its answer was lost.
LEMMA FailureMoves ==
  ASSUME TypeOK, NEW j \in Slots, NotDone(j)
  PROVE  /\ work[j].at \in Writes /\ ServiceMoves(j) /\ srv' \in Services
         /\ mishaps' \in 0..MaxMishaps /\ clean' \in BOOLEAN
         /\ clean' => srv' = srv /\ clean
<1>1. work[j] \in Calls /\ srv \in Services
  BY DEF TypeOK
<1>2. CASE Refused(j)
  BY <1>1, <1>2 DEF Refused, TypeOK, ServiceMoves
<1>3. CASE Lost(j)
  <2>1. srv' \in Services
    BY <1>1, <1>3, EffectTypes DEF Lost
  <2>2. mishaps' \in 0..MaxMishaps
    BY <1>3, ConsoleBounds DEF Lost, TypeOK
  <2> QED
    BY <1>3, <2>1, <2>2 DEF Lost, ServiceMoves
<1> QED
  BY <1>2, <1>3 DEF NotDone

\* A mishap counts.
LEMMA MishapCounts ==
  ASSUME TypeOK, mishaps < MaxMishaps, mishaps' = mishaps + 1
  PROVE  mishaps' \in 0..MaxMishaps
BY ConsoleBounds DEF TypeOK

\* What a handler receives from a read is a state of the service.
LEMMA AnswerMoves ==
  ASSUME TypeOK, NEW j \in Slots, NEW s \in {Got(work[j].sent), Got(srv), NoService},
         Answer(j, s)
  PROVE  /\ s \in Services /\ mishaps' \in 0..MaxMishaps /\ clean' \in BOOLEAN
         /\ clean' => clean /\ s \in {Got(work[j].sent), Got(srv)}
<1>1. work[j].sent \in Services /\ srv \in Services
  BY DEF TypeOK, Calls
<1>2. s \in Services
  BY <1>1, ServiceTypes
<1>3. mishaps \in 0..MaxMishaps /\ clean \in BOOLEAN
  BY DEF TypeOK
<1>4. CASE s \in {Got(work[j].sent), Got(srv)} /\ mishaps' = mishaps /\ clean' = clean
  BY <1>2, <1>3, <1>4
<1>5. CASE mishaps < MaxMishaps /\ mishaps' = mishaps + 1 /\ clean' = FALSE
  BY <1>2, <1>5, MishapCounts
<1> QED
  BY <1>4, <1>5 DEF Answer

-----------------------------------------------------------------------------
(* The handlers of the buttons                                              *)

\* Rows that are being worked on, and reports under way, as they were.
SameRows ==
  /\ pages'.deleting = pages.deleting /\ pages'.building = pages.building
  /\ pages'.promoting = pages.promoting /\ pages'.reports = pages.reports

\* A write is done, and its handler loads what it has changed.
LEMMA WriteSettles ==
  ASSUME TypeOK, WorkInv, NEW j \in Slots,
         work[j].at \in Writes \ {"dropDraft", "discover"},
         NEW left \in SUBSET Loads, Accepted(j, "settle", left),
         commands' = commands, busy' = busy, ui' = ui, SameRows
  PROVE  \E d \in Calls : Goes(j, d)
<1> DEFINE c == work[j]
<1>1. CallOK(c) /\ c.do \in Doers(c.at) /\ c.left = {}
  BY DEF WorkInv, CallOK
<1>2. c.do # "discover" /\ c.do # "idle" /\ c.do # "loose"
  BY <1>1 DEF CallOK, Doers, Writes, Idle
<1>3. PICK d \in Calls : SentOn(j, d, "settle", left, IF "settle" \in Writes THEN NoService ELSE srv')
  BY AcceptedMoves DEF Reads
<1>4. d.do = c.do /\ d.auto = c.auto /\ d.at = "settle" /\ d.left = left
  BY <1>3 DEF SentOn
<1>5. CallOK(d)
  BY <1>2, <1>4 DEF CallOK, Writes
<1>6. SpinOK(c, d)
  BY <1>1, <1>4 DEF SpinOK, Held, InRefresh, SameRows, Writes
<1>7. FirmOK(c, d) /\ Follows(c, d) /\ RouteOK(c, d)
  BY <1>4 DEF FirmOK, Follows, RouteOK
<1>8. ServiceMoves(j) /\ CountsOK
  BY AcceptedMoves DEF CountsOK, TypeOK, Reads
<1> QED
  BY <1>3, <1>5, <1>6, <1>7, <1>8 DEF Goes, SentOn

\* The same for the handlers that may refresh the workspace afterwards.
LEMMA WriteReloads ==
  ASSUME TypeOK, WorkInv, NEW j \in Slots,
         work[j].at \in {"promote", "credentialSave", "runtimeSave"},
         NEW left \in SUBSET Loads, Accepted(j, "reload", left),
         commands' = commands, busy' = busy, ui' = ui, SameRows
  PROVE  \E d \in Calls : Goes(j, d)
<1> DEFINE c == work[j]
<1>1. CallOK(c) /\ c.do \in Doers(c.at) /\ c.left = {}
  BY DEF WorkInv, CallOK, Writes
<1>2. c.do \in {"save", "promote", "credentialSave", "runtimeSave"}
  BY <1>1 DEF Doers
<1>3. PICK d \in Calls : SentOn(j, d, "reload", left, IF "reload" \in Writes THEN NoService ELSE srv')
  BY AcceptedMoves DEF Reads, Writes
<1>4. d.do = c.do /\ d.auto = c.auto /\ d.at = "reload" /\ d.left = left
  BY <1>3 DEF SentOn
<1>5. CallOK(d)
  BY <1>2, <1>4 DEF CallOK, Writes
<1>6. SpinOK(c, d)
  BY <1>1, <1>4 DEF SpinOK, Held, InRefresh, SameRows
<1>7. FirmOK(c, d) /\ Follows(c, d) /\ RouteOK(c, d)
  BY <1>4 DEF FirmOK, Follows, RouteOK
<1>8. ServiceMoves(j) /\ CountsOK
  BY AcceptedMoves DEF CountsOK, TypeOK, Reads, Writes
<1> QED
  BY <1>3, <1>5, <1>6, <1>7, <1>8 DEF Goes, SentOn

\* An answer arrives, and its handler goes on.
LEMMA AnswersGo ==
  ASSUME TypeOK, WorkInv, NEW j \in Slots,
         \/ VerifyAnswered(j) \/ RoutePromoted(j) \/ Unstaged(j)
         \/ CredentialTested(j) \/ CredentialSaved(j) \/ CredentialCleared(j)
         \/ RuntimeSaved(j) \/ RuntimeCleared(j) \/ RecipeSaved(j) \/ RecipeDropped(j)
         \/ BuildPromoted(j) \/ BuildsChanged(j)
  PROVE  \E d \in Calls : Goes(j, d)
<1> USE DEF After, SameRows, Writes, Loads
<1>0. pages \in [loaded : BOOLEAN, policies : SUBSET Policies,
                policy : Policies \union {Nobody}, recipes : SUBSET Recipes,
                recipe : Recipes \union {Nobody}, deleting : Recipes \union {Nobody},
                builds : [Recipes -> Builds], building : Recipes \union {Nobody},
                promoting : Recipes \union {Nobody},
                reports : Reports, compat : Lookups, diagnosis : Diagnoses]
  BY DEF TypeOK
<1>1. CASE VerifyAnswered(j)
  BY <1>1, WriteSettles DEF VerifyAnswered
<1>2. CASE RoutePromoted(j)
  BY <1>2, WriteReloads DEF RoutePromoted
<1>3. CASE Unstaged(j)
  BY <1>3, WriteSettles DEF Unstaged
<1>4. CASE CredentialTested(j)
  BY <1>4, WriteSettles DEF CredentialTested, screen
<1>5. CASE CredentialSaved(j)
  BY <1>5, WriteReloads DEF CredentialSaved
<1>6. CASE CredentialCleared(j)
  BY <1>6, WriteSettles DEF CredentialCleared
<1>7. CASE RuntimeSaved(j)
  BY <1>7, WriteReloads DEF RuntimeSaved
<1>8. CASE RuntimeCleared(j)
  BY <1>8, WriteSettles DEF RuntimeCleared
<1>9. CASE RecipeSaved(j)
  BY <1>0, <1>9, WriteSettles DEF RecipeSaved
<1>10. CASE RecipeDropped(j)
  BY <1>0, <1>10, WriteSettles DEF RecipeDropped
<1>11. CASE BuildPromoted(j)
  BY <1>11, WriteSettles DEF BuildPromoted, screen
<1>12. CASE BuildsChanged(j)
  BY <1>12, WriteSettles DEF BuildsChanged, screen
<1> QED
  BY <1>1, <1>2, <1>3, <1>4, <1>5, <1>6, <1>7, <1>8, <1>9, <1>10, <1>11, <1>12

\* A handler ends: its flags are let go of, and its row or the spinners of its refresh.
LEMMA HandlerEnds ==
  ASSUME TypeOK, WorkInv, NEW j \in Slots, Returned(j), ServiceMoves(j), CountsOK,
         NEW Y, busy' = busy \ Y,
         \A f : Held(f, work[j]) => f \in Y,
         \A k \in FirmKinds : FirmFlag(k) \in Y => work[j].do = k,
         ui'.refreshing \/ ui'.loading =>
           (ui.refreshing \/ ui.loading) /\ ~InRefresh(work[j]),
         pages'.reports = "loading" => pages.reports = "loading",
         pages'.deleting # Nobody => pages.deleting # Nobody /\ work[j].do # "recipeDelete",
         pages'.building # Nobody => pages.building # Nobody /\ work[j].do # "buildCreate",
         pages'.promoting # Nobody => pages.promoting # Nobody /\ work[j].do # "buildPromote"
  PROVE  \E d \in Calls : Goes(j, d)
<1> DEFINE c == work[j]
           d == Rest(c)
<1>1. c \in Calls
  BY DEF TypeOK
<1>2. /\ d \in Calls /\ CallOK(d) /\ d.left = c.left
      /\ d.do \in {"idle", "loose"} /\ d.at \in {"idle", "settle"}
  BY <1>1, RestCall
<1>3. MovedTo(j, d)
  BY ReturnedMoves
<1> HIDE DEF d
<1>4. SpinOK(c, d)
  BY <1>2 DEF SpinOK
<1>5. Follows(c, d) /\ RouteOK(c, d)
  BY <1>2 DEF Follows, RouteOK
<1>6. FirmOK(c, d)
  BY <1>2 DEF FirmOK, FirmKinds, GitHubKinds, CredentialKinds, RuntimeKinds
<1> QED
  BY <1>2, <1>3, <1>4, <1>5, <1>6 DEF Goes

\* The flags a handler clears are those it has set, but for two that its steps clear.
LEMMA FlagsHeld ==
  ASSUME NEW c \in Calls
  PROVE  /\ \A f : Held(f, c) =>
              \/ f \in FlagsOf(c)
              \/ f = "draft" /\ c.at \in {"pending", "dropDraft"}
              \/ f = "discovering" /\ c.at = "discover"
         /\ \A k \in FirmKinds : FirmFlag(k) \in FlagsOf(c) => c.do = k
         /\ FlagsOf(c) \subseteq Flags
         /\ \A k \in FirmKinds :
              FirmFlag(k) \notin SetupFlags \union DataFlags \union {"draft", "discovering"}
<1>1. c.do \in Kinds /\ c.auto \in BOOLEAN
  BY DEF Calls
<1>2. \A f : Held(f, c) =>
              \/ f \in FlagsOf(c)
              \/ f = "draft" /\ c.at \in {"pending", "dropDraft"}
              \/ f = "discovering" /\ c.at = "discover"
  BY DEF Held, FlagsOf, OwnFlags
<1>3. \A k \in FirmKinds : FirmFlag(k) \in FlagsOf(c) => c.do = k
  BY <1>1 DEF FirmKinds, GitHubKinds, CredentialKinds, RuntimeKinds, FirmFlag, FlagsOf, Kinds
<1>4. FlagsOf(c) \subseteq Flags
  BY <1>1 DEF FlagsOf, Flags
<1>5. \A k \in FirmKinds :
        FirmFlag(k) \notin SetupFlags \union DataFlags \union {"draft", "discovering"}
  BY DEF FirmKinds, GitHubKinds, CredentialKinds, RuntimeKinds, FirmFlag, SetupFlags, DataFlags
<1> QED
  BY <1>2, <1>3, <1>4, <1>5

\* The spinners of a refresh that ends, and the rows it leaves as they are or resets.
SpinnersRest(c) == ui'.refreshing \/ ui'.loading => (ui.refreshing \/ ui.loading) /\ ~InRefresh(c)
RowsRest == SameRows \/ pages' = WithoutData(pages)

\* A refresh ends, wherever it was.
LEMMA RefreshEnds ==
  ASSUME TypeOK, WorkInv, NEW j \in Slots, Returned(j), ServiceMoves(j), CountsOK,
         work[j].at \in {"session", "batch", "gate", "pending", "discover"},
         NEW X, \A k \in FirmKinds : FirmFlag(k) \notin X,
         busy' = busy \ (X \union FlagsOf(work[j])),
         work[j].at = "pending" => "draft" \in X,
         work[j].at = "discover" => "discovering" \in X,
         SpinnersRest(work[j]), RowsRest
  PROVE  \E d \in Calls : Goes(j, d)
<1> DEFINE c == work[j]
           Y == X \union FlagsOf(c)
<1>1. c \in Calls /\ CallOK(c)
  BY DEF TypeOK, WorkInv
<1>2. c.do \notin {"recipeDelete", "buildCreate", "buildPromote"}
  BY <1>1 DEF CallOK
<1>3. \A f : Held(f, c) => f \in Y
  BY <1>1, FlagsHeld
<1>4. \A k \in FirmKinds : FirmFlag(k) \in Y => c.do = k
  BY <1>1, FlagsHeld
<1>5. /\ pages'.reports = "loading" => pages.reports = "loading"
      /\ pages'.deleting # Nobody => pages.deleting # Nobody
      /\ pages'.building # Nobody => pages.building # Nobody
      /\ pages'.promoting # Nobody => pages.promoting # Nobody
  BY DEF RowsRest, SameRows, WithoutData, BlankPages
<1> HIDE DEF Y
<1>6. busy' = busy \ Y
  BY DEF Y
<1> QED
  BY <1>2, <1>3, <1>4, <1>5, <1>6, HandlerEnds DEF SpinnersRest

\* A refresh that ends is a move of its handler.
LEMMA FinishGoes ==
  ASSUME TypeOK, WorkInv, NEW j \in Slots, Finish(j), commands' = commands,
         work[j].at \in {"settle", "reload"}
  PROVE  \E d \in Calls : Goes(j, d)
<1> DEFINE c == work[j]
<1>1. c \in Calls /\ CallOK(c)
  BY DEF TypeOK, WorkInv
<1>2. pages' = RowReleased(c.do) /\ busy' = busy \ FlagsOf(c) /\ ui' = ui /\ srv' = srv
      /\ mishaps' = mishaps /\ clean' = clean /\ Returned(j)
  BY DEF Finish
<1>3. ServiceMoves(j) /\ CountsOK
  BY <1>2 DEF ServiceMoves, CountsOK, TypeOK
<1>4. \A f : Held(f, c) => f \in FlagsOf(c)
  BY <1>1, FlagsHeld
<1>5. \A k \in FirmKinds : FirmFlag(k) \in FlagsOf(c) => c.do = k
  BY <1>1, FlagsHeld
<1>6. ~InRefresh(c)
  BY DEF InRefresh
<1>7. /\ pages'.reports = pages.reports
      /\ pages'.deleting # Nobody => pages.deleting # Nobody /\ c.do # "recipeDelete"
      /\ pages'.building # Nobody => pages.building # Nobody /\ c.do # "buildCreate"
      /\ pages'.promoting # Nobody => pages.promoting # Nobody /\ c.do # "buildPromote"
  BY <1>2 DEF RowReleased, TypeOK
<1> QED
  BY <1>2, <1>3, <1>4, <1>5, <1>6, <1>7, HandlerEnds

\* The calls that end a handler of a button.
LEMMA EndsGo ==
  ASSUME TypeOK, WorkInv, NEW j \in Slots,
         \/ LogoutAnswered(j) \/ Denied(j) \/ Discarded(j) \/ DiscardFailed(j)
         \/ Inspected(j) \/ LookupAnswered(j) \/ WriteFailed(j)
  PROVE  \E d \in Calls : Goes(j, d)
<1> DEFINE c == work[j]
<1>1. /\ c \in Calls /\ CallOK(c) /\ (c.at \in Writes => c.do \in Doers(c.at))
      /\ mishaps \in 0..MaxMishaps /\ clean \in BOOLEAN
  BY DEF TypeOK, WorkInv, CallOK
<1>2. \A k \in FirmKinds : FirmFlag(k) \notin {"draft", "create", "discovering", "inspect"}
  BY DEF FirmKinds, GitHubKinds, CredentialKinds, RuntimeKinds, FirmFlag
<1>3. \A k \in FirmKinds : FirmFlag(k) \notin SetupFlags \union DataFlags
  BY <1>1, FlagsHeld
<1>4. pages \in [loaded : BOOLEAN, policies : SUBSET Policies,
                policy : Policies \union {Nobody}, recipes : SUBSET Recipes,
                recipe : Recipes \union {Nobody}, deleting : Recipes \union {Nobody},
                builds : [Recipes -> Builds], building : Recipes \union {Nobody},
                promoting : Recipes \union {Nobody},
                reports : Reports, compat : Lookups, diagnosis : Diagnoses]
  BY DEF TypeOK
<1>5. CASE LogoutAnswered(j)
  <2>1. c.at = "logout" /\ c.do = "logout"
    BY <1>1, <1>5 DEF LogoutAnswered, After, Doers, Writes
  <2>2. ServiceMoves(j) /\ CountsOK /\ Returned(j)
    BY <1>1, <1>5, <2>1 DEF LogoutAnswered, After, ServiceMoves, CountsOK, Writes
  <2>3. /\ busy' = busy \ (SetupFlags \union DataFlags)
        /\ ui'.refreshing = ui.refreshing /\ ui'.loading = ui.loading
        /\ pages' = WithoutData(pages)
    BY <1>5 DEF LogoutAnswered, ResetFor, TypeOK
  <2>4. \A f : ~Held(f, c)
    BY <2>1 DEF Held, OwnFlags
  <2>5. ~InRefresh(c)
    BY <2>1 DEF InRefresh
  <2>6. /\ pages'.reports = "blank"
        /\ pages'.deleting = Nobody /\ pages'.building = Nobody /\ pages'.promoting = Nobody
    BY <2>3 DEF WithoutData, BlankPages
  <2> QED
    BY <2>2, <2>3, <2>4, <2>5, <2>6, <1>3, HandlerEnds
<1>6. CASE Denied(j)
  <2>1. c.at = "denied" /\ c.do \in {"save", "promote"}
    BY <1>1, <1>6 DEF Denied, After, CallOK
  <2>2. ServiceMoves(j) /\ CountsOK /\ Returned(j)
    BY <1>1, <1>6 DEF Denied, After, ServiceMoves, CountsOK
  <2>3. busy' = busy \ FlagsOf(c) /\ ui' = ui /\ pages' = pages
    BY <1>6 DEF Denied
  <2>4. \A f : Held(f, c) => f \in FlagsOf(c)
    BY <1>1, <2>1, FlagsHeld
  <2>5. \A k \in FirmKinds : FirmFlag(k) \in FlagsOf(c) => c.do = k
    BY <1>1, FlagsHeld
  <2>6. ~InRefresh(c)
    BY <2>1 DEF InRefresh
  <2> QED
    BY <2>1, <2>2, <2>3, <2>4, <2>5, <2>6, HandlerEnds
<1>7. CASE Discarded(j) \/ DiscardFailed(j)
  <2>1. c.at = "dropDraft" /\ c.do = "discard"
    BY <1>7 DEF Discarded, DiscardFailed, After
  <2>2. ServiceMoves(j) /\ CountsOK /\ Returned(j)
    BY <1>1, <1>7, <2>1, FailureMoves
       DEF Discarded, DiscardFailed, After, ServiceMoves, CountsOK, Writes
  <2>3. PICK Y \in {{"draft", "create", "discovering"}, {"draft"}} : busy' = busy \ Y
    BY <1>7 DEF Discarded, DiscardFailed
  <2>4. ui' = ui /\ pages' = pages
    BY <1>7 DEF Discarded, DiscardFailed
  <2>5. \A f : Held(f, c) => f = "draft"
    BY <2>1 DEF Held, OwnFlags
  <2>6. ~InRefresh(c)
    BY <2>1 DEF InRefresh
  <2> QED
    BY <1>2, <2>1, <2>2, <2>3, <2>4, <2>5, <2>6, HandlerEnds
<1>8. CASE Inspected(j)
  <2>1. c.at = "inspect" /\ c.do = "inspect"
    BY <1>1, <1>8 DEF Inspected, After, Doers, Writes
  <2>2. ServiceMoves(j) /\ CountsOK /\ Returned(j)
    BY <1>1, <1>8, <2>1, FailureMoves DEF Inspected, After, ServiceMoves, CountsOK, Writes
  <2>3. busy' = busy \ {"inspect"} /\ ui' = ui /\ pages' = pages
    BY <1>8 DEF Inspected
  <2>4. \A f : Held(f, c) => f = "inspect"
    BY <2>1 DEF Held, OwnFlags
  <2>5. ~InRefresh(c)
    BY <2>1 DEF InRefresh
  <2> QED
    BY <1>2, <2>1, <2>2, <2>3, <2>4, <2>5, HandlerEnds
<1>9. CASE LookupAnswered(j)
  <2>1. c.at \in {"compat", "diagnose"} /\ c.do = c.at
    BY <1>1, <1>9 DEF LookupAnswered, After, Doers, Writes
  <2>2. ServiceMoves(j) /\ CountsOK /\ Returned(j)
    BY <1>1, <1>9 DEF LookupAnswered, After, ServiceMoves, CountsOK
  <2>3. busy' = busy \ FlagsOf(c) /\ ui' = ui
    BY <1>9 DEF LookupAnswered
  <2>4. SameRows
    BY <1>4, <1>9 DEF LookupAnswered, SameRows
  <2>5. \A f : Held(f, c) => f \in FlagsOf(c)
    BY <1>1, <2>1, FlagsHeld
  <2>6. \A k \in FirmKinds : FirmFlag(k) \in FlagsOf(c) => c.do = k
    BY <1>1, FlagsHeld
  <2>7. ~InRefresh(c)
    BY <2>1 DEF InRefresh
  <2> QED
    BY <2>1, <2>2, <2>3, <2>4, <2>5, <2>6, <2>7, HandlerEnds DEF SameRows
<1>10. CASE WriteFailed(j)
  <2>1. c.at \in Writes \ {"dropDraft", "discover"}
    BY <1>10 DEF WriteFailed
  <2>2. ServiceMoves(j) /\ CountsOK /\ Returned(j)
    BY <1>10, FailureMoves DEF WriteFailed, After, CountsOK
  <2>3. busy' = busy \ FlagsOf(c) /\ ui' = ui /\ pages' = LookupFailed(c.do)
    BY <1>10 DEF WriteFailed
  <2>4. /\ pages'.reports = pages.reports
        /\ pages'.deleting # Nobody => pages.deleting # Nobody /\ c.do # "recipeDelete"
        /\ pages'.building # Nobody => pages.building # Nobody /\ c.do # "buildCreate"
        /\ pages'.promoting # Nobody => pages.promoting # Nobody /\ c.do # "buildPromote"
    BY <1>4, <2>3 DEF LookupFailed, RowReleased
  <2>5. \A f : Held(f, c) => f \in FlagsOf(c)
    BY <1>1, <2>1, FlagsHeld DEF Writes
  <2>6. \A k \in FirmKinds : FirmFlag(k) \in FlagsOf(c) => c.do = k
    BY <1>1, FlagsHeld
  <2>7. ~InRefresh(c)
    BY <2>1 DEF InRefresh, Writes
  <2> QED
    BY <2>2, <2>3, <2>4, <2>5, <2>6, <2>7, HandlerEnds
<1> QED
  BY <1>5, <1>6, <1>7, <1>8, <1>9, <1>10

\* A handler that goes on with a refresh, or with the next call of it.
LEMMA RefreshGoesOn ==
  ASSUME TypeOK, WorkInv, NEW j \in Slots, NEW d \in Calls,
         NEW at \in {"session", "setup", "batch", "wizard", "pending"},
         NEW left \in SUBSET Loads, NEW s, SentOn(j, d, at, left, s),
         work[j].do \notin {"idle", "loose", "discover", "recipeDelete", "buildCreate",
                            "buildPromote"},
         work[j].left = {}, work[j].at \notin {"pending", "dropDraft", "discover"},
         at \in {"session", "setup", "pending"} => left = {},
         ServiceMoves(j), CountsOK,
         busy' \subseteq busy \union (IF at = "pending" THEN {"draft"} ELSE {}),
         busy \ busy' \subseteq DataFlags,
         pages'.reports = pages.reports \/ pages'.reports # "loading" \/ "reports" \in left,
         \/ /\ pages'.deleting = pages.deleting /\ pages'.building = pages.building
            /\ pages'.promoting = pages.promoting
         \/ pages' = WithoutData(pages)
  PROVE  \E e \in Calls : Goes(j, e)
<1> DEFINE c == work[j]
<1>1. d.do = c.do /\ d.auto = c.auto /\ d.at = at /\ d.left = left
  BY DEF SentOn
<1>2. CallOK(d)
  BY <1>1 DEF CallOK, Writes
<1>3. InRefresh(d)
  BY <1>1 DEF InRefresh
<1>4. \A f : Held(f, c) => Held(f, d)
  BY <1>1 DEF Held
<1>5. \A f \in busy' : f \in busy \/ Held(f, d)
  BY <1>1 DEF Held
<1>6. /\ pages'.deleting # Nobody => pages.deleting # Nobody
      /\ pages'.building # Nobody => pages.building # Nobody
      /\ pages'.promoting # Nobody => pages.promoting # Nobody
      /\ pages'.reports = "loading" => "reports" \in left \/ pages.reports = "loading"
  BY DEF WithoutData, BlankPages
<1>7. SpinOK(c, d)
  BY <1>1, <1>3, <1>4, <1>5, <1>6 DEF SpinOK
<1>8. FirmOK(c, d)
  <2>1. \A k \in FirmKinds : FirmFlag(k) \notin DataFlags
    BY DEF FirmKinds, GitHubKinds, CredentialKinds, RuntimeKinds, FirmFlag, DataFlags
  <2> QED
    BY <2>1 DEF FirmOK
<1>9. Follows(c, d) /\ RouteOK(c, d)
  BY <1>1 DEF Follows, RouteOK
<1> QED
  BY <1>2, <1>7, <1>8, <1>9 DEF Goes, SentOn

\* The finally alone, and the reset with it.
LEMMA PlainEnd ==
  ASSUME TypeOK, WorkInv, NEW j \in Slots, Returned(j), ServiceMoves(j), CountsOK,
         work[j].at \in {"session", "batch"}, busy' = busy \ FlagsOf(work[j]),
         ~ui'.refreshing, ~ui'.loading, pages' = pages
  PROVE  \E d \in Calls : Goes(j, d)
<1> DEFINE X == {}
<1>1. busy' = busy \ (X \union FlagsOf(work[j])) /\ \A k \in FirmKinds : FirmFlag(k) \notin X
  OBVIOUS
<1>2. SpinnersRest(work[j]) /\ RowsRest
  BY DEF SpinnersRest, RowsRest, SameRows
<1> HIDE DEF X
<1> QED
  BY <1>1, <1>2, RefreshEnds

\* A refresh that is not let in ends, with the data reset.
LEMMA GateGoes ==
  ASSUME TypeOK, WorkInv, NEW j \in Slots, ServiceMoves(j), CountsOK,
         work[j].at \in {"session", "gate"}, NEW x, RefreshGated(j, x)
  PROVE  \E d \in Calls : Goes(j, d)
<1> DEFINE X == SetupFlags \union DataFlags
<1>1. /\ Returned(j) /\ ~ui'.refreshing /\ ~ui'.loading
      /\ pages' = WithoutData(pages) /\ busy' = busy \ (X \union FlagsOf(work[j]))
  BY GateEnds
<1>2. \A k \in FirmKinds : FirmFlag(k) \notin X
  BY FlagsHeld DEF TypeOK
<1>3. SpinnersRest(work[j]) /\ RowsRest
  BY <1>1 DEF SpinnersRest, RowsRest
<1> HIDE DEF X
<1> QED
  BY <1>1, <1>2, <1>3, RefreshEnds

\* The steps of refreshAll.
LEMMA RefreshGoes ==
  ASSUME TypeOK, WorkInv, NEW j \in Slots,
         \/ SessionAnswered(j) \/ SessionLost(j) \/ SetupAnswered(j)
         \/ WizardLoaded(j) \/ BatchLoaded(j) \/ BatchRefused(j) \/ BatchLost(j)
         \/ GateAnswered(j) \/ DraftAnswered(j) \/ DiscoverAnswered(j) \/ DiscoverFailed(j)
  PROVE  \E d \in Calls : Goes(j, d)
<1> DEFINE c == work[j]
<1>1. /\ c \in Calls /\ CallOK(c)
      /\ srv \in Services /\ Got(srv) \in Services /\ NoService \in Services
      /\ mishaps \in 0..MaxMishaps /\ clean \in BOOLEAN
  BY ServiceTypes DEF TypeOK, WorkInv
<1>2. ASSUME c.at \notin {"idle", "settle", "discover"}
      PROVE  c.do \notin {"idle", "loose", "discover"}
  BY <1>1, <1>2 DEF CallOK, Idle
<1>3. ASSUME c.at \in {"session", "setup", "wizard", "batch", "gate", "pending"}
      PROVE  c.do \notin {"idle", "loose", "discover", "recipeDelete", "buildCreate",
                            "buildPromote"}
  BY <1>1, <1>2, <1>3 DEF CallOK
<1>4. c.at \in {"session", "setup", "pending"} => c.left = {}
  BY <1>1 DEF CallOK
<1>5. ui \in UiStates
  BY ScreenTypes
<1>6. CASE SessionAnswered(j)
  <2>1. PICK s \in {c.sent, srv} :
          IF s.session = "full"
          THEN /\ ui' = [ui EXCEPT !.session = "full"]
               /\ GoOn(j, "setup", {}, srv)
               /\ UNCHANGED <<gh, oci, pages, busy>>
          ELSE RefreshGated(j, s.session)
    BY <1>6 DEF SessionAnswered
  <2>2. /\ c.at = "session" /\ c.left = {} /\ ServiceMoves(j) /\ CountsOK
    BY <1>1, <1>4, <1>6 DEF SessionAnswered, After, ServiceMoves, CountsOK
  <2>3. CASE s.session = "full"
    <3>1. GoOn(j, "setup", {}, srv) /\ pages' = pages /\ busy' = busy
      BY <2>1, <2>3
    <3>2. PICK d \in Calls : SentOn(j, d, "setup", {}, srv)
      BY <1>1, <3>1, GoOnMoves DEF Reads
    <3> QED
      BY <1>3, <2>2, <3>1, <3>2, RefreshGoesOn
  <2>4. CASE s.session # "full"
    <3>1. RefreshGated(j, s.session)
      BY <2>1, <2>4
    <3> QED
      BY <2>2, <3>1, GateGoes
  <2> QED
    BY <2>3, <2>4
<1>7. CASE SessionLost(j)
  <2>1. c.at = "session" /\ ServiceMoves(j) /\ CountsOK
    BY <1>1, <1>7, MishapCounts DEF SessionLost, After, ServiceMoves, CountsOK
  <2>2. EndRefresh(j, ui) /\ busy' = busy \ FlagsOf(c) /\ pages' = pages
    BY <1>7 DEF SessionLost, RefreshStopped
  <2> QED
    BY <1>5, <2>1, <2>2, SpinnersEnd, PlainEnd
<1>8. CASE SetupAnswered(j)
  <2>1. PICK s \in {Got(c.sent), Got(srv), NoService} :
       /\ Answer(j, s)
       /\ IF Ready(s)
          THEN /\ GoOn(j, "batch", {"config", "credential", "runtime", "images", "reports"}, srv)
               /\ pages' = [pages EXCEPT !.reports = "loading"]
               /\ UNCHANGED busy
          ELSE /\ GoOn(j, "wizard", {"config", "credential", "runtime"}, srv)
               /\ pages' = WithoutData(pages)
               /\ busy' = busy \ DataFlags
    BY <1>8 DEF SetupAnswered
  <2>2. /\ c.at = "setup" /\ c.left = {} /\ ServiceMoves(j) /\ CountsOK
    BY <1>4, <1>8, <2>1, AnswerMoves DEF SetupAnswered, After, ServiceMoves, CountsOK
  <2>3. CASE Ready(s)
    <3> DEFINE left == {"config", "credential", "runtime", "images", "reports"}
    <3>1. GoOn(j, "batch", left, srv) /\ busy' = busy /\ left \in SUBSET Loads
      BY <2>1, <2>3 DEF Loads
    <3>2. /\ pages'.deleting = pages.deleting /\ pages'.building = pages.building
          /\ pages'.promoting = pages.promoting /\ "reports" \in left
      BY <2>1, <2>3 DEF TypeOK
    <3> HIDE DEF left
    <3>3. PICK d \in Calls : SentOn(j, d, "batch", left, srv)
      BY <1>1, <3>1, GoOnMoves DEF Reads
    <3> QED
      BY <1>3, <2>2, <3>1, <3>2, <3>3, RefreshGoesOn
  <2>4. CASE ~Ready(s)
    <3> DEFINE left == {"config", "credential", "runtime"}
    <3>1. /\ GoOn(j, "wizard", left, srv) /\ busy' = busy \ DataFlags
          /\ pages' = WithoutData(pages) /\ left \in SUBSET Loads
      BY <2>1, <2>4 DEF Loads
    <3>2. pages'.reports = "blank"
      BY <3>1 DEF WithoutData, BlankPages
    <3> HIDE DEF left
    <3>3. PICK d \in Calls : SentOn(j, d, "wizard", left, srv)
      BY <1>1, <3>1, GoOnMoves DEF Reads
    <3> QED
      BY <1>3, <2>2, <3>1, <3>2, <3>3, RefreshGoesOn
  <2> QED
    BY <2>3, <2>4
<1>9. CASE WizardLoaded(j) \/ BatchLoaded(j)
  <2>1. /\ c.at \in {"wizard", "batch"} /\ c.left = {} /\ AskDraft(j)
        /\ ServiceMoves(j) /\ CountsOK
    BY <1>1, <1>9 DEF WizardLoaded, BatchLoaded, After, ServiceMoves, CountsOK
  <2>2. SameRows
    BY <1>9 DEF WizardLoaded, BatchLoaded, ShowWorkspace, SameRows, TypeOK
  <2>3. GoOn(j, "pending", {}, srv) /\ busy' = busy \union {"draft"}
    BY <2>1 DEF AskDraft
  <2>4. PICK d \in Calls : SentOn(j, d, "pending", {}, srv)
    BY <1>1, <2>3, GoOnMoves DEF Reads
  <2> QED
    BY <1>3, <2>1, <2>2, <2>3, <2>4, RefreshGoesOn DEF SameRows
<1>10. CASE BatchRefused(j)
  <2> DEFINE d == [c EXCEPT !.at = "gate"]
  <2>1. c.at = "batch" /\ work' = [work EXCEPT ![j].at = "gate"] /\ busy' = busy
        /\ ui' = ui /\ pages' = pages /\ ServiceMoves(j) /\ CountsOK
    BY <1>1, <1>10 DEF BatchRefused, After, ServiceMoves, CountsOK
  <2>2. /\ d \in Calls /\ work' = [work EXCEPT ![j] = d]
        /\ d.do = c.do /\ d.auto = c.auto /\ d.at = "gate" /\ d.left = c.left
    BY <1>1, <2>1 DEF Calls, Reads
  <2> HIDE DEF d
  <2>3. CallOK(d)
    BY <1>3, <2>1, <2>2 DEF CallOK, Writes
  <2>4. SpinOK(c, d)
    BY <2>1, <2>2 DEF SpinOK, Held, InRefresh
  <2>5. FirmOK(c, d) /\ Follows(c, d) /\ RouteOK(c, d)
    BY <2>1, <2>2 DEF FirmOK, Follows, RouteOK
  <2> QED
    BY <2>1, <2>2, <2>3, <2>4, <2>5 DEF Goes, MovedTo
<1>11. CASE BatchLost(j)
  <2>1. c.at = "batch" /\ ServiceMoves(j) /\ CountsOK
    BY <1>1, <1>11, MishapCounts DEF BatchLost, After, ServiceMoves, CountsOK
  <2> DEFINE u == [ui EXCEPT !.session = "full"]
  <2>2. EndRefresh(j, u) /\ busy' = busy \ FlagsOf(c) /\ pages' = pages
    BY <1>11 DEF BatchLost
  <2>3. u \in UiStates
    BY <1>5 DEF UiStates, Sessions
  <2> HIDE DEF u
  <2> QED
    BY <2>1, <2>2, <2>3, SpinnersEnd, PlainEnd
<1>12. CASE GateAnswered(j)
  <2>1. c.at = "gate" /\ ServiceMoves(j) /\ CountsOK
    BY <1>1, <1>12, MishapCounts DEF GateAnswered, After, ServiceMoves, CountsOK
  <2>2. PICK x \in {srv.session, "none"} : RefreshGated(j, x)
    BY <1>12 DEF GateAnswered
  <2> QED
    BY <2>1, <2>2, GateGoes
<1>13. CASE DraftAnswered(j)
  <2>1. PICK s \in {Got(c.sent), Got(srv), NoService} :
          /\ Answer(j, s)
          /\ \/ /\ GoOn(j, "discover", {}, NoService)
                /\ busy' = (busy \ {"draft"}) \union {"discovering"}
                /\ ui' = ui
             \/ /\ EndRefresh(j, [ui EXCEPT !.marker = "none"])
                /\ busy' = busy \ ({"draft"} \union FlagsOf(c))
    BY <1>13 DEF DraftAnswered
  <2>2. /\ c.at = "pending" /\ ServiceMoves(j) /\ CountsOK /\ pages' = pages
    BY <1>13, <2>1, AnswerMoves DEF DraftAnswered, After, ServiceMoves, CountsOK
  <2>3. CASE /\ GoOn(j, "discover", {}, NoService)
             /\ busy' = (busy \ {"draft"}) \union {"discovering"}
             /\ ui' = ui
    <3>1. PICK d \in Calls : SentOn(j, d, "discover", {}, NoService)
      BY <1>1, <2>3, GoOnMoves DEF Writes
    <3>2. d.do = c.do /\ d.auto = c.auto /\ d.at = "discover" /\ d.left = {}
      BY <3>1 DEF SentOn
    <3>3. CallOK(d)
      BY <1>1, <1>3, <2>2, <3>2 DEF CallOK, Doers, Calls
    <3>4. SpinOK(c, d)
      BY <1>3, <1>4, <2>2, <2>3, <3>2 DEF SpinOK, Held, InRefresh
    <3>5. FirmOK(c, d) /\ Follows(c, d) /\ RouteOK(c, d)
      BY <2>3, <3>2
         DEF FirmOK, Follows, RouteOK, FirmKinds, GitHubKinds, CredentialKinds, RuntimeKinds,
             FirmFlag
    <3> QED
      BY <2>2, <3>1, <3>3, <3>4, <3>5 DEF Goes, SentOn
  <2>4. CASE /\ EndRefresh(j, [ui EXCEPT !.marker = "none"])
             /\ busy' = busy \ ({"draft"} \union FlagsOf(c))
    <3> DEFINE X == {"draft"}
               u == [ui EXCEPT !.marker = "none"]
    <3>1. u \in UiStates
      BY <1>5 DEF UiStates
    <3>2. EndRefresh(j, u)
      BY <2>4
    <3>3. \A k \in FirmKinds : FirmFlag(k) \notin X
      BY <1>1, FlagsHeld
    <3>4. "draft" \in X /\ busy' = busy \ (X \union FlagsOf(c))
      BY <2>4
    <3> HIDE DEF X, u
    <3>5. Returned(j) /\ ~ui'.refreshing /\ ~ui'.loading
      BY <3>1, <3>2, SpinnersEnd
    <3>6. SpinnersRest(c) /\ RowsRest
      BY <2>2, <3>5 DEF SpinnersRest, RowsRest, SameRows
    <3> QED
      BY <2>2, <3>3, <3>4, <3>5, <3>6, RefreshEnds
  <2> QED
    BY <2>1, <2>3, <2>4
<1>14. CASE DiscoverAnswered(j) \/ DiscoverFailed(j)
  <2>1. c.at = "discover" /\ Discovered(j) /\ ServiceMoves(j) /\ CountsOK
    BY <1>1, <1>14, FailureMoves
       DEF DiscoverAnswered, DiscoverFailed, After, ServiceMoves, CountsOK
  <2> DEFINE X == {"discovering"}
             u == [ui EXCEPT !.marker = "none"]
  <2>2. /\ busy' = busy \ (X \union FlagsOf(c)) /\ pages' = pages /\ "discovering" \in X
        /\ EndRefresh(j, u) \/ (Returned(j) /\ ui' = ui /\ c.do = "discover")
    BY <2>1 DEF Discovered
  <2>3. c.do = "discover" => ~InRefresh(c)
    BY <2>1 DEF InRefresh
  <2>4. u \in UiStates
    BY <1>5 DEF UiStates
  <2>5. \A k \in FirmKinds : FirmFlag(k) \notin X
    BY <1>1, FlagsHeld
  <2> HIDE DEF X, u
  <2>6. CASE EndRefresh(j, u)
    <3>1. Returned(j) /\ ui'.refreshing = FALSE /\ ui'.loading = FALSE
      BY <2>4, <2>6, SpinnersEnd
    <3>2. SpinnersRest(c) /\ RowsRest
      BY <2>2, <3>1 DEF SpinnersRest, RowsRest, SameRows
    <3> QED
      BY <2>1, <2>2, <2>5, <3>1, <3>2, RefreshEnds
  <2>7. CASE Returned(j) /\ ui' = ui /\ c.do = "discover"
    <3>1. SpinnersRest(c) /\ RowsRest
      BY <2>2, <2>3, <2>7 DEF SpinnersRest, RowsRest, SameRows
    <3> QED
      BY <2>1, <2>2, <2>5, <2>7, <3>1, RefreshEnds
  <2> QED
    BY <2>2, <2>6, <2>7
<1> QED
  BY <1>6, <1>7, <1>8, <1>9, <1>10, <1>11, <1>12, <1>13, <1>14

\* The loads of a Promise.all come back one at a time.
LEMMA LoadsGo ==
  ASSUME TypeOK, WorkInv, NEW j \in Slots, LoadAnswered(j)
  PROVE  \E d \in Calls : Goes(j, d)
<1> DEFINE c == work[j]
<1>1. c \in Calls /\ CallOK(c) /\ pages \in PageStates /\ ui \in UiStates /\ srv \in Services
  BY ScreenTypes DEF TypeOK, WorkInv
<1>2. PICK l \in c.left, s \in {Got(c.sent), Got(srv), NoService} :
        /\ Answer(j, s)
        /\ ShowLoad(l, s)
        /\ work' = [work EXCEPT ![j].left = @ \ {l},
                                ![j].done = IF l = "setup" THEN Ready(s) ELSE @,
                                ![j].sent = IF work[j].left = {l} /\ work[j].at # "batch"
                                            THEN NoService ELSE @]
  BY DEF LoadAnswered
<1>3. s \in Services /\ ServiceMoves(j) /\ CountsOK /\ busy' = busy
  BY <1>2, AnswerMoves DEF LoadAnswered, After, ServiceMoves, CountsOK
<1>4. Ready(s) \in BOOLEAN
  BY <1>3 DEF Ready, Services
<1> DEFINE done == IF l = "setup" THEN Ready(s) ELSE c.done
           sent == IF c.left = {l} /\ c.at # "batch" THEN NoService ELSE c.sent
           d == [c EXCEPT !.left = @ \ {l}, !.done = done, !.sent = sent]
<1>5. done \in BOOLEAN /\ sent \in Services
  BY <1>1, <1>4, ServiceTypes DEF Calls
<1>6. work' = [work EXCEPT ![j] = d]
  BY <1>2 DEF TypeOK
<1> HIDE DEF done, sent
<1>7. /\ d \in Calls /\ d.do = c.do /\ d.at = c.at /\ d.auto = c.auto
      /\ d.left = c.left \ {l} /\ d.form = c.form
  BY <1>1, <1>5 DEF Calls
<1>8. c.do # "idle" /\ c.at \notin Writes
  BY <1>1, <1>2, IdleCall DEF CallOK
<1> HIDE DEF d
<1>9. CallOK(d)
  BY <1>1, <1>2, <1>7, <1>8 DEF CallOK
<1>10. /\ ui'.refreshing = ui.refreshing /\ ui'.loading = ui.loading
       /\ pages'.deleting = pages.deleting /\ pages'.building = pages.building
       /\ pages'.promoting = pages.promoting
  BY <1>1, <1>2 DEF ShowLoad, ShowImages, PageStates, UiStates
<1>11. pages'.reports = "loading" =>
         "reports" \in d.left \/ (pages.reports = "loading" /\ "reports" \notin c.left)
  <2>1. CASE l = "reports"
    BY <1>1, <1>2, <2>1 DEF ShowLoad, PageStates
  <2>2. CASE l # "reports"
    BY <1>1, <1>2, <1>7, <2>2 DEF ShowLoad, ShowImages, PageStates
  <2> QED
    BY <2>1, <2>2
<1>12. InRefresh(c) <=> InRefresh(d)
  BY <1>7 DEF InRefresh
<1>13. \A f : Held(f, c) <=> Held(f, d)
  BY <1>7 DEF Held
<1>14. SpinOK(c, d)
  BY <1>3, <1>7, <1>10, <1>11, <1>12, <1>13 DEF SpinOK
<1>15. FirmOK(c, d) /\ Follows(c, d) /\ RouteOK(c, d)
  BY <1>3, <1>7, <1>8 DEF FirmOK, Follows, RouteOK, Writes
<1> QED
  BY <1>3, <1>6, <1>7, <1>9, <1>14, <1>15 DEF Goes, MovedTo

\* A handler that has loaded what it changed ends, or refreshes the workspace.
LEMMA SettledGoes ==
  ASSUME TypeOK, WorkInv, NEW j \in Slots, Settled(j) \/ Reloaded(j)
  PROVE  \E d \in Calls : Goes(j, d)
<1> DEFINE c == work[j]
<1>1. c \in Calls /\ CallOK(c) /\ srv \in Services
  BY DEF TypeOK, WorkInv
<1>2. CASE Finish(j)
  BY <1>2, FinishGoes DEF Settled, Reloaded, After
<1>3. CASE ~Finish(j)
  <2>1. /\ c.at = "reload" /\ c.left = {} /\ GoOn(j, "session", {}, srv)
        /\ busy' = busy /\ pages' = pages /\ ServiceMoves(j) /\ CountsOK
    BY <1>3
       DEF Settled, Reloaded, After, StartRefresh, ServiceMoves, CountsOK, TypeOK
  <2>2. PICK d \in Calls : SentOn(j, d, "session", {}, srv)
    BY <1>1, <2>1, GoOnMoves DEF Reads
  <2>3. c.do \notin {"idle", "loose", "discover", "recipeDelete", "buildCreate",
                     "buildPromote"}
    BY <1>1, <2>1, IdleCall DEF CallOK
  <2> QED
    BY <2>1, <2>2, <2>3, RefreshGoesOn
<1> QED
  BY <1>2, <1>3

\* A write is done, and the workspace is refreshed.
LEMMA WritesRefresh ==
  ASSUME TypeOK, WorkInv, NEW j \in Slots, RefreshingAnswered(j)
  PROVE  \E d \in Calls : Goes(j, d)
<1> DEFINE c == work[j]
<1>1. c \in Calls /\ CallOK(c) /\ pages \in PageStates
  BY ScreenTypes DEF TypeOK, WorkInv
<1>2. /\ c.at \in Refreshing /\ Accepted(j, "session", {}) /\ busy' = busy
      /\ commands' = commands
      /\ pages' = IF c.at = "putPolicy" THEN [pages EXCEPT !.policy = Nobody] ELSE pages
  BY DEF RefreshingAnswered, After
<1>3. c.at \in Writes /\ c.left = {} /\ c.do \in Doers(c.at)
  BY <1>1, <1>2 DEF Refreshing, Writes, CallOK
<1>4. PICK d \in Calls : SentOn(j, d, "session", {}, srv')
  BY <1>2, <1>3, AcceptedMoves DEF Reads, Writes
<1>5. ServiceMoves(j) /\ CountsOK
  <2>1. ServiceMoves(j) /\ mishaps' = mishaps /\ clean' = clean
    BY <1>2, <1>3, AcceptedMoves DEF Reads
  <2> QED
    BY <1>2, <2>1 DEF CountsOK, TypeOK
<1>6. SameRows
  BY <1>1, <1>2 DEF SameRows, PageStates
<1>7. c.do \notin {"idle", "loose", "discover", "recipeDelete", "buildCreate", "buildPromote"}
      /\ c.at \notin {"pending", "dropDraft", "discover"}
  BY <1>2, <1>3 DEF Refreshing, Doers
<1> QED
  BY <1>2, <1>3, <1>4, <1>5, <1>6, <1>7, RefreshGoesOn DEF SameRows

\* What follows the staging of a route: the next call of the handler and its flags.
SaveGoesOn(c, at) ==
  \/ at = "dropDraft" /\ c.at = "stage"
  \/ at = "promote" /\ c.auto
  \/ at = "reload"

\* A save goes on: to drop the App draft, to activate its route or to load it again.
LEMMA SavesGo ==
  ASSUME TypeOK, WorkInv, NEW j \in Slots, NEW d \in Calls,
         NEW at \in {"dropDraft", "promote", "reload"},
         NEW left \in SUBSET Loads, NEW s, SentOn(j, d, at, left, s),
         at \in {"dropDraft", "promote"} => left = {},
         work[j].do = "save", work[j].at \in {"stage", "dropDraft"},
         SaveGoesOn(work[j], at),
         at = "dropDraft" => d.form.app = srv'.staged.app,
         ServiceMoves(j), CountsOK, ui' = ui, pages' = pages,
         busy' \subseteq busy \union (IF at = "dropDraft" THEN {"draft"} ELSE {})
                              \union (IF at = "promote" THEN {"promoting"} ELSE {}),
         busy \ busy' \subseteq {"draft", "create", "discovering"},
         work[j].at = "dropDraft" => "draft" \notin busy'
  PROVE  \E e \in Calls : Goes(j, e)
<1> DEFINE c == work[j]
<1>1. d.do = c.do /\ d.auto = c.auto /\ d.at = at /\ d.left = left /\ c.auto \in BOOLEAN
  BY DEF SentOn, TypeOK, Calls
<1>2. CallOK(c) /\ c.left = {}
  BY DEF WorkInv, CallOK, Writes
<1>3. CallOK(d)
  BY <1>1 DEF CallOK, Writes, Doers, SaveGoesOn
<1>4. \A f \in busy' : Held(f, d) \/ (f \in busy /\ ~Held(f, c))
  <2> SUFFICES ASSUME NEW f \in busy', f \in busy => Held(f, c)
               PROVE  Held(f, d)
    OBVIOUS
  <2>1. CASE f \notin busy
    BY <1>1, <2>1 DEF Held, SaveGoesOn
  <2>2. CASE Held(f, c)
    BY <1>1, <2>2 DEF Held
  <2> QED
    BY <2>1, <2>2
<1>5. ~InRefresh(c)
  BY DEF InRefresh
<1>6. SpinOK(c, d)
  BY <1>2, <1>4, <1>5 DEF SpinOK
<1>7. FirmOK(c, d)
  BY DEF FirmOK, FirmKinds, GitHubKinds, CredentialKinds, RuntimeKinds, FirmFlag
<1>8. Follows(c, d) /\ RouteOK(c, d)
  BY <1>1 DEF Follows, RouteOK, SaveGoesOn
<1> QED
  BY <1>3, <1>6, <1>7, <1>8 DEF Goes, SentOn

\* A staged route: the save goes on to the draft, to the activation or to the loads.
LEMMA StagedGoes ==
  ASSUME TypeOK, WorkInv, NEW j \in Slots, Staged(j)
  PROVE  \E d \in Calls : Goes(j, d)
<1> DEFINE c == work[j]
           at == IF c.held THEN "dropDraft" ELSE NextOfStage(c)
           left == IF c.held THEN {} ELSE LoadsOfStage(c)
<1>1. c \in Calls /\ CallOK(c) /\ srv \in Services
  BY DEF TypeOK, WorkInv
<1>2. /\ c.at = "stage" /\ c.do = "save" /\ commands' = commands
      /\ ui' = ui /\ pages' = pages
      /\ busy' = busy \union IF c.held THEN {"draft"} ELSE FlagsOfStage(c)
  BY <1>1 DEF Staged, After, CallOK, Writes, Doers
<1>3. Accepted(j, at, left)
  BY DEF Staged
<1>4. /\ at \in {"dropDraft", "promote", "reload"} /\ left \in SUBSET Loads
      /\ at \in {"dropDraft", "promote"} => left = {}
      /\ SaveGoesOn(c, at)
      /\ at # "dropDraft" => ~c.held
      /\ ~c.held /\ c.auto => at = "promote"
      /\ c.held => at = "dropDraft"
  BY <1>1, <1>2 DEF NextOfStage, LoadsOfStage, Loads, SaveGoesOn, Calls
<1> HIDE DEF at, left
<1>5. /\ c.at \in Writes /\ at \in Writes \union Reads
  BY <1>2, <1>4 DEF Writes, Reads
<1>6. PICK d \in Calls : SentOn(j, d, at, left, IF at \in Writes THEN NoService ELSE srv')
  BY <1>3, <1>4, <1>5, AcceptedMoves
<1>7. /\ srv' \in Effects(c, srv) /\ ServiceMoves(j)
      /\ mishaps' = mishaps /\ clean' = clean
  BY <1>3, <1>4, <1>5, AcceptedMoves
<1>8. CountsOK
  BY <1>2, <1>7 DEF CountsOK, TypeOK
<1>9. srv'.staged.app = c.form.app
  <2>1. srv.session = "full"
    BY <1>2, <1>7, SessionEffects
  <2>2. Effects(c, srv) =
          IF Usable(c.form)
          THEN {[srv EXCEPT !.staged = [app |-> c.form.app, repos |-> c.form.repos]]}
          ELSE {}
    BY <1>2, <2>1, RouteEffects, Zenon
  <2>3. srv' = [srv EXCEPT !.staged = [app |-> c.form.app, repos |-> c.form.repos]]
    BY <1>7, <2>2
  <2> QED
    BY <1>1, <2>3 DEF Services
<1>10. at = "dropDraft" => d.form.app = srv'.staged.app
  BY <1>6, <1>9 DEF SentOn
<1>11. /\ busy' \subseteq busy \union (IF at = "dropDraft" THEN {"draft"} ELSE {})
                               \union (IF at = "promote" THEN {"promoting"} ELSE {})
       /\ busy \subseteq busy'
  BY <1>2, <1>4 DEF FlagsOfStage
<1> QED
  BY <1>2, <1>4, <1>6, <1>7, <1>8, <1>10, <1>11, SavesGo

\* The draft is dropped, or fails to be: the handler goes on either way.
LEMMA DroppedGoes ==
  ASSUME TypeOK, WorkInv, NEW j \in Slots, DraftDropped(j)
  PROVE  \E d \in Calls : Goes(j, d)
<1> DEFINE c == work[j]
           at == NextOfStage(c)
           left == LoadsOfStage(c)
<1>1. c \in Calls /\ CallOK(c) /\ srv \in Services
  BY DEF TypeOK, WorkInv
<1>2. /\ c.at = "dropDraft" /\ c.do = "save" /\ commands' = commands
      /\ ui' = ui /\ pages' = pages
  BY <1>1 DEF DraftDropped, After
<1>3. /\ at \in {"promote", "reload"} /\ left \in SUBSET Loads
      /\ at = "promote" => left = {}
      /\ SaveGoesOn(c, at)
      /\ FlagsOfStage(c) = IF at = "promote" THEN {"promoting"} ELSE {}
      /\ at = "promote" <=> c.auto
  BY <1>1, <1>2 DEF NextOfStage, LoadsOfStage, FlagsOfStage, Loads, SaveGoesOn, Calls
<1>4. /\ \/ Accepted(j, at, left)
         \/ NotDone(j) /\ GoOn(j, at, left, IF c.auto THEN NoService ELSE srv')
      /\ \/ busy' = (busy \ {"draft", "create", "discovering"}) \union FlagsOfStage(c)
         \/ busy' = (busy \ {"draft"}) \union FlagsOfStage(c)
  BY DEF DraftDropped
<1> HIDE DEF at, left
<1>5. /\ c.at \in Writes /\ at \in Writes \union Reads
  BY <1>2, <1>3 DEF Writes, Reads
<1>6. /\ \E s : \E d \in Calls : SentOn(j, d, at, left, s)
      /\ ServiceMoves(j) /\ CountsOK
  <2>1. CASE Accepted(j, at, left)
    <3>1. /\ \E d \in Calls : SentOn(j, d, at, left, IF at \in Writes THEN NoService ELSE srv')
          /\ ServiceMoves(j) /\ mishaps' = mishaps /\ clean' = clean
      BY <1>3, <1>5, <2>1, AcceptedMoves
    <3> QED
      BY <1>2, <3>1 DEF CountsOK, TypeOK
  <2>2. CASE NotDone(j) /\ GoOn(j, at, left, IF c.auto THEN NoService ELSE srv')
    <3>1. /\ ServiceMoves(j) /\ srv' \in Services
          /\ mishaps' \in 0..MaxMishaps /\ clean' \in BOOLEAN
      BY <2>2, FailureMoves
    <3>2. (IF c.auto THEN NoService ELSE srv') \in Services
      BY <3>1, ServiceTypes
    <3>3. \E d \in Calls : SentOn(j, d, at, left, IF c.auto THEN NoService ELSE srv')
      BY <1>3, <1>5, <2>2, <3>2, GoOnMoves
    <3> QED
      BY <1>2, <3>1, <3>3 DEF CountsOK
  <2> QED
    BY <1>4, <2>1, <2>2
<1>7. PICK s : \E d \in Calls : SentOn(j, d, at, left, s)
  BY <1>6
<1>8. PICK d \in Calls : SentOn(j, d, at, left, s)
  BY <1>7
<1>9. /\ busy' \subseteq busy \union (IF at = "dropDraft" THEN {"draft"} ELSE {})
                              \union (IF at = "promote" THEN {"promoting"} ELSE {})
      /\ busy \ busy' \subseteq {"draft", "create", "discovering"}
      /\ "draft" \notin busy'
  BY <1>3, <1>4
<1>10. at # "dropDraft"
  BY <1>3
<1> QED
  BY <1>2, <1>3, <1>6, <1>8, <1>9, <1>10, SavesGo

\* An activation fails, and its handler loads the routes again.
LEMMA PromoteFails ==
  ASSUME TypeOK, WorkInv, NEW j \in Slots, PromoteFailed(j)
  PROVE  \E d \in Calls : Goes(j, d)
<1> DEFINE c == work[j]
<1>1. c \in Calls /\ CallOK(c)
  BY DEF TypeOK, WorkInv
<1>2. /\ c.at = "promote" /\ NotDone(j) /\ GoOn(j, "denied", {"config", "setup"}, srv')
      /\ commands' = commands /\ ui' = ui /\ pages' = pages /\ busy' = busy
  BY DEF PromoteFailed, After, screen
<1>3. c.do \in {"save", "promote"} /\ (c.do = "save" => c.auto) /\ c.left = {}
  BY <1>1, <1>2 DEF CallOK, Writes, Doers
<1>4. ServiceMoves(j) /\ srv' \in Services /\ CountsOK
  BY <1>2, FailureMoves DEF CountsOK
<1>5. {"config", "setup"} \in SUBSET Loads
  BY DEF Loads
<1>6. PICK d \in Calls : SentOn(j, d, "denied", {"config", "setup"}, srv')
  BY <1>2, <1>4, <1>5, GoOnMoves DEF Reads
<1>7. d.do = c.do /\ d.auto = c.auto /\ d.at = "denied" /\ d.left = {"config", "setup"}
  BY <1>6 DEF SentOn
<1>8. CallOK(d)
  BY <1>3, <1>7 DEF CallOK, Writes
<1>9. SpinOK(c, d)
  BY <1>2, <1>3, <1>7 DEF SpinOK, Held, InRefresh
<1>10. FirmOK(c, d) /\ Follows(c, d) /\ RouteOK(c, d)
  BY <1>2, <1>7 DEF FirmOK, Follows, RouteOK
<1> QED
  BY <1>4, <1>6, <1>8, <1>9, <1>10 DEF Goes, SentOn

\* Every step of a handler, but the one that leaves the page, is a move of its call.
LEMMA HandlersGo ==
  ASSUME TypeOK, WorkInv, NEW j \in Slots, HandlerStep(j), ~AppCreated(j)
  PROVE  \E d \in Calls : Goes(j, d)
<1>1. CASE RefreshSteps(j)
  BY <1>1, RefreshGoes, LoadsGo, SettledGoes DEF RefreshSteps
<1>2. CASE RefreshingAnswered(j) \/ Staged(j) \/ DraftDropped(j) \/ PromoteFailed(j)
  BY <1>2, WritesRefresh, StagedGoes, DroppedGoes, PromoteFails
<1>3. CASE \/ VerifyAnswered(j) \/ RoutePromoted(j) \/ Unstaged(j)
           \/ CredentialTested(j) \/ CredentialSaved(j) \/ CredentialCleared(j)
           \/ RuntimeSaved(j) \/ RuntimeCleared(j) \/ RecipeSaved(j) \/ RecipeDropped(j)
           \/ BuildPromoted(j) \/ BuildsChanged(j)
  BY <1>3, AnswersGo
<1>4. CASE \/ LogoutAnswered(j) \/ Denied(j) \/ Discarded(j) \/ DiscardFailed(j)
           \/ Inspected(j) \/ LookupAnswered(j) \/ WriteFailed(j)
  BY <1>4, EndsGo
<1> QED
  BY <1>1, <1>2, <1>3, <1>4 DEF HandlerStep

-----------------------------------------------------------------------------
(* What a move of a handler leaves of the invariant                         *)

\* A move keeps every part of the invariant but the types of the screen.
LEMMA MovesKeep ==
  ASSUME CInv, NEW j \in Slots, NEW d \in Calls, Goes(j, d)
  PROVE  /\ work' \in [Slots -> Calls] /\ srv' \in Services
         /\ mishaps' \in 0..MaxMishaps /\ clean' \in BOOLEAN /\ commands' = commands
         /\ WorkInv' /\ SpinInv' /\ ExclInv' /\ PromoteInv' /\ DraftInv'
<1> DEFINE c == work[j]
<1> USE DEF CInv
<1>1. /\ work \in [Slots -> Calls] /\ srv \in Services
      /\ c \in Calls /\ CallOK(c)
  BY DEF TypeOK, WorkInv
<1>2. /\ work' = [work EXCEPT ![j] = d] /\ CallOK(d) /\ Follows(c, d)
      /\ SpinOK(c, d) /\ FirmOK(c, d) /\ RouteOK(c, d) /\ ServiceMoves(j) /\ CountsOK
  BY DEF Goes, MovedTo
<1>3. /\ work'[j] = d /\ \A k \in Slots \ {j} : work'[k] = work[k]
      /\ work' \in [Slots -> Calls]
  BY <1>1, <1>2
<1>4. srv' \in Services
  BY <1>1, <1>2, EffectTypes DEF ServiceMoves
<1>5. WorkInv'
  BY <1>2, <1>3 DEF WorkInv
<1>6. SpinInv'
  <2>1. ASSUME NEW f \in busy' PROVE \E k \in Slots : Held(f, work'[k])
    <3>1. CASE Held(f, d)
      BY <1>3, <3>1
    <3>2. CASE f \in busy /\ ~Held(f, c)
      <4>1. PICK k \in Slots : Held(f, work[k])
        BY <3>2 DEF SpinInv
      <4> QED
        BY <1>3, <3>2, <4>1
    <3> QED
      BY <1>2, <3>1, <3>2 DEF SpinOK
  <2>2. ASSUME ui'.refreshing \/ ui'.loading PROVE \E k \in Slots : InRefresh(work'[k])
    <3>1. CASE InRefresh(d)
      BY <1>3, <3>1
    <3>2. CASE (ui.refreshing \/ ui.loading) /\ ~InRefresh(c)
      <4>1. PICK k \in Slots : InRefresh(work[k])
        BY <3>2 DEF SpinInv
      <4> QED
        BY <1>3, <3>2, <4>1
    <3> QED
      BY <1>2, <2>2, <3>1, <3>2 DEF SpinOK
  <2>3. ASSUME pages'.reports = "loading" PROVE \E k \in Slots : "reports" \in work'[k].left
    <3>1. "reports" \in d.left \/ (pages.reports = "loading" /\ "reports" \notin c.left)
      BY <1>2, <2>3 DEF SpinOK
    <3> QED
      BY <1>3, <3>1 DEF SpinInv
  <2>4. ASSUME pages'.deleting # Nobody PROVE \E k \in Slots : work'[k].do = "recipeDelete"
    <3>1. d.do = "recipeDelete" \/ (pages.deleting # Nobody /\ c.do # "recipeDelete")
      BY <1>2, <2>4 DEF SpinOK
    <3> QED
      BY <1>3, <3>1 DEF SpinInv
  <2>5. ASSUME pages'.building # Nobody PROVE \E k \in Slots : work'[k].do = "buildCreate"
    <3>1. d.do = "buildCreate" \/ (pages.building # Nobody /\ c.do # "buildCreate")
      BY <1>2, <2>5 DEF SpinOK
    <3> QED
      BY <1>3, <3>1 DEF SpinInv
  <2>6. ASSUME pages'.promoting # Nobody PROVE \E k \in Slots : work'[k].do = "buildPromote"
    <3>1. d.do = "buildPromote" \/ (pages.promoting # Nobody /\ c.do # "buildPromote")
      BY <1>2, <2>6 DEF SpinOK
    <3> QED
      BY <1>3, <3>1 DEF SpinInv
  <2> QED
    BY <2>1, <2>2, <2>3, <2>4, <2>5, <2>6 DEF SpinInv
<1>7. ExclInv'
  <2> SUFFICES ASSUME NEW G \in {GitHubKinds, CredentialKinds, RuntimeKinds}
               PROVE  /\ \A k \in Slots : work'[k].do \in G => FirmFlag(work'[k].do) \in busy'
                      /\ \A k, m \in Slots :
                           work'[k].do \in G /\ work'[m].do \in G => k = m
    BY DEF ExclInv
  <2>1. /\ \A k \in Slots : work[k].do \in G => FirmFlag(work[k].do) \in busy
        /\ \A k, m \in Slots : work[k].do \in G /\ work[m].do \in G => k = m
    BY DEF ExclInv
  <2>2. G \subseteq FirmKinds /\ "idle" \notin G /\ "loose" \notin G
    BY DEF FirmKinds, GitHubKinds, CredentialKinds, RuntimeKinds
  <2>3. \A k \in Slots : work'[k].do \in G => work[k].do = work'[k].do
    BY <1>2, <1>3, <2>2 DEF Follows
  <2>4. ASSUME NEW k \in Slots, work'[k].do \in G PROVE FirmFlag(work'[k].do) \in busy'
    <3>1. work[k].do = work'[k].do /\ FirmFlag(work[k].do) \in busy
      BY <2>1, <2>3, <2>4
    <3>2. c.do = work[k].do => d.do = c.do
      BY <1>3, <2>1, <2>3, <2>4, <3>1
    <3> QED
      BY <1>2, <2>2, <2>4, <3>1, <3>2 DEF FirmOK
  <2> QED
    BY <2>1, <2>3, <2>4
<1>8. DraftInv'
  <2> SUFFICES ASSUME NEW k \in Slots, work'[k].do = "save", work'[k].at = "dropDraft"
               PROVE  work'[k].form.app \in srv'.live \union {srv'.staged.app}
    BY DEF DraftInv
  <2>1. CASE k = j
    BY <1>2, <1>3, <2>1 DEF RouteOK
  <2>2. CASE k # j
    <3>1. work'[k] = work[k] /\ work[k].form.app \in srv.live \union {srv.staged.app}
      BY <1>3, <2>2 DEF DraftInv
    <3>2. c.at \notin {"stage", "unstage"}
      <4> SUFFICES ASSUME c.at \in {"stage", "unstage"} PROVE FALSE
        OBVIOUS
      <4>1. c.do \in GitHubKinds
        BY <1>1 DEF CallOK, Writes, Doers, GitHubKinds
      <4>2. work[k].do \in GitHubKinds
        BY <3>1 DEF GitHubKinds
      <4> QED
        BY <2>2, <4>1, <4>2 DEF ExclInv
    <3>3. srv.live \union {srv.staged.app} \subseteq srv'.live \union {srv'.staged.app}
      BY <1>1, <1>2, <3>2, RoutesKept DEF ServiceMoves
    <3> QED
      BY <3>1, <3>3
  <2> QED
    BY <2>1, <2>2
<1>9. PromoteInv'
  <2> SUFFICES ASSUME "promoting" \in busy', NEW k \in Slots, work'[k].do \in {"verify", "clear"}
               PROVE  FALSE
    BY DEF PromoteInv
  <2>1. work[k].do = work'[k].do
    BY <1>2, <1>3 DEF Follows
  <2>2. c.do = "save"
    BY <1>2, <2>1 DEF FirmOK, PromoteInv
  <2> QED
    BY <2>1, <2>2 DEF ExclInv, GitHubKinds
<1> QED
  BY <1>2, <1>3, <1>4, <1>5, <1>6, <1>7, <1>8, <1>9 DEF CountsOK

-----------------------------------------------------------------------------
(* The screen stays a screen                                                *)

\* The types of the screen after a step.
ScreenOK ==
  /\ ui \in UiStates /\ gh \in GitHubStates /\ oci \in OciStates
  /\ pages \in PageStates /\ busy \in SUBSET Flags

\* The blank screen of a signed-out console.
LEMMA BlankTypes ==
  /\ BlankGitHub \in GitHubStates /\ BlankOci \in OciStates /\ BlankPages \in PageStates
  /\ \A p \in PageStates : WithoutData(p) \in PageStates
  /\ \A m \in {"none", "created", "installed"} : [FirstUi EXCEPT !.marker = m] \in UiStates
  /\ FirstUi \in UiStates /\ FirstUi.marker = "none"
  /\ FirstUi.loading = TRUE /\ FirstUi.refreshing = TRUE
<1>1. BlankGitHub \in GitHubStates
  BY IdleCall DEF BlankGitHub, GitHubStates, Modes, Drafts, Finds, BlankForm, Forms
<1>2. BlankOci \in OciStates
  BY DEF BlankOci, OciStates
<1>3. [r \in Recipes |-> "none"] \in [Recipes -> Builds]
  BY DEF Builds
<1>4. BlankPages \in PageStates
  BY <1>3 DEF BlankPages, PageStates, Reports, Lookups, Diagnoses
<1>5. \A p \in PageStates : WithoutData(p) \in PageStates
  BY <1>4 DEF WithoutData, PageStates
<1>6. /\ FirstUi \in UiStates /\ FirstUi.marker = "none"
      /\ FirstUi.loading = TRUE /\ FirstUi.refreshing = TRUE
  BY TaskTypes, ServiceTypes DEF FirstUi, UiStates, Sessions
<1>7. \A m \in {"none", "created", "installed"} : [FirstUi EXCEPT !.marker = m] \in UiStates
  BY <1>6 DEF UiStates
<1> QED
  BY <1>1, <1>2, <1>4, <1>5, <1>6, <1>7

\* The fields of the screen that a step may give a value of its own.
LEMMA UiChanges ==
  ASSUME ui \in UiStates
  PROVE  /\ \A x \in BOOLEAN : /\ [ui EXCEPT !.refreshing = x] \in UiStates
                               /\ [ui EXCEPT !.loading = x] \in UiStates
         /\ \A x \in Sessions : [ui EXCEPT !.session = x] \in UiStates
         /\ \A x \in SetupStatuses : [ui EXCEPT !.setup = x] \in UiStates
         /\ [ui EXCEPT !.marker = "none"] \in UiStates
         /\ \A x \in Sessions :
              /\ [ui EXCEPT !.session = x, !.setup = BlankSetup, !.ref = NoTask] \in UiStates
              /\ [ui EXCEPT !.session = x, !.setup = BlankSetup, !.ref = NoTask,
                            !.loading = FALSE, !.refreshing = FALSE] \in UiStates
BY ServiceTypes DEF UiStates

\* A refresh that ends leaves a screen.
LEMMA EndRefreshTypes ==
  ASSUME NEW u \in UiStates, NEW j, EndRefresh(j, u)
  PROVE  ui' \in UiStates
BY DEF EndRefresh, UiStates

\* A reset leaves a screen.
LEMMA GateTypes ==
  ASSUME ScreenOK, NEW j, NEW x \in Sessions, RefreshGated(j, x)
  PROVE  ScreenOK'
<1>1. ui' \in UiStates
  BY UiChanges DEF ScreenOK, RefreshGated
<1>2. gh' \in GitHubStates /\ oci' \in OciStates /\ pages' \in PageStates
  BY BlankTypes DEF ScreenOK, RefreshGated
<1>3. busy' \in SUBSET Flags
  BY DEF ScreenOK, RefreshGated
<1> QED
  BY <1>1, <1>2, <1>3 DEF ScreenOK

\* What a load shows.
LEMMA LoadTypes ==
  ASSUME ScreenOK, NEW l, NEW s \in Services, ShowLoad(l, s), busy' = busy
  PROVE  ScreenOK'
<1>1. ui' \in UiStates
  BY UiChanges, ServiceTypes DEF ScreenOK, ShowLoad
<1>2. gh' \in GitHubStates
  <2>1. FormOf(s.staged, s.live) \in Forms
    <3>1. BlankForm \in Forms
      BY DEF BlankForm, Forms
    <3>2. s.staged \in Routes \union {NoRoute} /\ s.live \in SUBSET Apps
      BY DEF Services
    <3> QED
      BY <3>1, <3>2, FormTypes
  <2>2. CASE l = "config"
    <3>1. NormalMode(gh.mode, FormOf(s.staged, s.live)) \in Modes
      BY ModeTypes
    <3> QED
      BY <2>1, <2>2, <3>1 DEF ScreenOK, ShowLoad, ShowConfig, GitHubStates, Services
  <2>3. CASE l # "config"
    BY <2>3 DEF ScreenOK, ShowLoad
  <2> QED
    BY <2>2, <2>3
<1>3. oci' \in OciStates
  <2>1. s.credential \in BOOLEAN /\ s.runtime \in BOOLEAN
    BY DEF Services
  <2>2. [oci EXCEPT !.credential = s.credential] \in OciStates
    BY <2>1 DEF ScreenOK, OciStates
  <2>3. [oci EXCEPT !.runtime = s.runtime] \in OciStates
    BY <2>1 DEF ScreenOK, OciStates
  <2> QED
    BY <2>2, <2>3 DEF ScreenOK, ShowLoad
<1>4. pages' \in PageStates
  <2>1. ShowImages(s) \in PageStates
    BY DEF ScreenOK, ShowImages, PageStates, Services
  <2>2. [pages EXCEPT !.reports = "loaded"] \in PageStates
    BY DEF ScreenOK, PageStates, Reports
  <2> QED
    BY <2>1, <2>2 DEF ScreenOK, ShowLoad
<1> QED
  BY <1>1, <1>2, <1>3, <1>4 DEF ScreenOK

\* The form after the installations of an App were listed.
LEMMA DiscoveredTypes ==
  ASSUME ScreenOK, NEW j, Discovered(j), gh' \in GitHubStates
  PROVE  ScreenOK'
<1>1. ui' \in UiStates
  <2>1. CASE ui' = ui
    BY <2>1 DEF ScreenOK
  <2>2. CASE EndRefresh(j, [ui EXCEPT !.marker = "none"])
    BY <2>2, UiChanges, EndRefreshTypes DEF ScreenOK
  <2> QED
    BY <2>1, <2>2 DEF Discovered
<1> QED
  BY <1>1 DEF ScreenOK, Discovered

\* The steps of refreshAll.
LEMMA RefreshScreens ==
  ASSUME TypeOK, ScreenOK, NEW j \in Slots, RefreshSteps(j)
  PROVE  ScreenOK'
<1> DEFINE c == work[j]
<1>1. /\ c \in Calls /\ c.sent \in Services /\ srv \in Services /\ FlagsOf(c) \subseteq Flags
      /\ Got(srv) \in Services /\ NoService \in Services
      /\ \A s \in Services : s.session \in Sessions /\ SetupOf(s) \in SetupStatuses
      /\ "full" \in Sessions /\ "none" \in Sessions
  BY FlagsHeld, ServiceTypes DEF TypeOK, Calls, Services, Sessions
<1>2. /\ ui \in UiStates /\ gh \in GitHubStates /\ oci \in OciStates
      /\ pages \in PageStates /\ busy \in SUBSET Flags
  BY DEF ScreenOK
<1>3. [ui EXCEPT !.session = "full"] \in UiStates /\ [ui EXCEPT !.marker = "none"] \in UiStates
  BY <1>1, <1>2, UiChanges
<1>4. CASE SessionAnswered(j)
  <2>1. PICK s \in {c.sent, srv} :
          IF s.session = "full"
          THEN /\ ui' = [ui EXCEPT !.session = "full"]
               /\ GoOn(j, "setup", {}, srv)
               /\ UNCHANGED <<gh, oci, pages, busy>>
          ELSE RefreshGated(j, s.session)
    BY <1>4 DEF SessionAnswered
  <2>2. CASE s.session = "full"
    BY <1>2, <1>3, <2>1, <2>2 DEF ScreenOK
  <2>3. CASE s.session # "full"
    BY <1>1, <2>1, <2>3, GateTypes
  <2> QED
    BY <2>2, <2>3
<1>5. CASE SessionLost(j)
  <2>1. ui' \in UiStates
    BY <1>2, <1>5, EndRefreshTypes DEF SessionLost, RefreshStopped
  <2> QED
    BY <1>2, <1>5, <2>1 DEF SessionLost, RefreshStopped, ScreenOK
<1>6. CASE SetupAnswered(j)
  <2>1. PICK s \in {Got(c.sent), Got(srv), NoService} :
          /\ ui' = [ui EXCEPT !.setup = SetupOf(s)]
          /\ pages' = [pages EXCEPT !.reports = "loading"] \/ pages' = WithoutData(pages)
    BY <1>6 DEF SetupAnswered
  <2>2. s \in Services
    BY <1>1, <2>1, ServiceTypes
  <2>3. ui' \in UiStates
    BY <1>1, <1>2, <2>1, <2>2, UiChanges
  <2>4. pages' \in PageStates
    <3>1. [pages EXCEPT !.reports = "loading"] \in PageStates
      BY <1>2 DEF PageStates, Reports
    <3> QED
      BY <1>2, <2>1, <3>1, BlankTypes
  <2>5. busy' \subseteq busy /\ gh' = gh /\ oci' = oci
    BY <1>6 DEF SetupAnswered
  <2> QED
    BY <1>2, <2>3, <2>4, <2>5 DEF ScreenOK
<1>7. CASE WizardLoaded(j)
  BY <1>2, <1>7 DEF WizardLoaded, AskDraft, ScreenOK, Flags
<1>8. CASE BatchLoaded(j)
  <2>1. PICK s \in {c.sent, srv} : pages' = ShowWorkspace(s)
    BY <1>8 DEF BatchLoaded
  <2>2. pages' \in PageStates
    BY <1>1, <1>2, <2>1 DEF ShowWorkspace, PageStates, Services
  <2> QED
    BY <1>2, <1>8, <2>2 DEF BatchLoaded, AskDraft, ScreenOK, Flags
<1>9. CASE BatchRefused(j)
  BY <1>2, <1>9 DEF BatchRefused, ScreenOK
<1>10. CASE BatchLost(j)
  <2>1. ui' \in UiStates
    BY <1>3, <1>10, EndRefreshTypes DEF BatchLost
  <2> QED
    BY <1>2, <1>10, <2>1 DEF BatchLost, ScreenOK
<1>11. CASE GateAnswered(j)
  <2>1. PICK x \in {srv.session, "none"} : RefreshGated(j, x)
    BY <1>11 DEF GateAnswered
  <2> QED
    BY <1>1, <2>1, GateTypes
<1>12. CASE DraftAnswered(j)
  <2>1. PICK s \in {Got(c.sent), Got(srv), NoService} :
          LET back  == ui.marker = "installed"
              found == [gh EXCEPT !.draft = s.draft, !.found = "none",
                                  !.auto = back /\ s # NoService]
          IN gh' = CASE s.draft # "none" ->
                          [found EXCEPT !.form = MergedDraft(gh.form, back),
                                        !.mode = NormalMode(gh.mode, BlankForm)]
                     [] s = NoService -> [found EXCEPT !.mode = NormalMode(gh.mode, gh.form)]
                     [] OTHER -> found
    BY <1>12 DEF DraftAnswered
  <2> DEFINE back  == ui.marker = "installed"
             found == [gh EXCEPT !.draft = s.draft, !.found = "none",
                                 !.auto = back /\ s # NoService]
  <2>2. s \in Services /\ s.draft \in Drafts /\ back \in BOOLEAN
    BY <1>1, ServiceTypes DEF Services
  <2>3. found \in GitHubStates
    BY <1>2, <2>2 DEF GitHubStates, Finds
  <2>4. gh.form \in Forms
    BY <1>2 DEF GitHubStates
  <2>5. /\ MergedDraft(gh.form, back) \in Forms
        /\ NormalMode(gh.mode, BlankForm) \in Modes /\ NormalMode(gh.mode, gh.form) \in Modes
    BY <2>2, <2>4, FormTypes, ModeTypes
  <2>6. gh' = CASE s.draft # "none" ->
                     [found EXCEPT !.form = MergedDraft(gh.form, back),
                                   !.mode = NormalMode(gh.mode, BlankForm)]
                [] s = NoService -> [found EXCEPT !.mode = NormalMode(gh.mode, gh.form)]
                [] OTHER -> found
    BY <2>1
  <2> HIDE DEF found, back
  <2>7. /\ [found EXCEPT !.form = MergedDraft(gh.form, back),
                         !.mode = NormalMode(gh.mode, BlankForm)] \in GitHubStates
        /\ [found EXCEPT !.mode = NormalMode(gh.mode, gh.form)] \in GitHubStates
    BY <2>3, <2>5 DEF GitHubStates
  <2>8. gh' \in GitHubStates
    BY <2>3, <2>6, <2>7
  <2>9. ui' \in UiStates
    BY <1>2, <1>3, <1>12, EndRefreshTypes DEF DraftAnswered
  <2>10. busy' \in SUBSET Flags
    BY <1>2, <1>12 DEF DraftAnswered, Flags
  <2> QED
    BY <1>2, <1>12, <2>8, <2>9, <2>10 DEF DraftAnswered, ScreenOK
<1>13. CASE DiscoverAnswered(j)
  <2>1. PICK f \in Finds :
          gh' = [gh EXCEPT !.found = f, !.auto = @ \/ f = "one", !.form = Looked(@, f)]
    BY <1>13 DEF DiscoverAnswered
  <2>2. Looked(gh.form, f) \in Forms
    BY <1>2, FormTypes DEF GitHubStates
  <2>3. gh' \in GitHubStates
    BY <1>2, <2>1, <2>2 DEF GitHubStates
  <2> QED
    BY <1>13, <2>3, DiscoveredTypes DEF DiscoverAnswered
<1>14. CASE DiscoverFailed(j)
  <2>1. gh' \in GitHubStates
    BY <1>2, <1>14 DEF DiscoverFailed, GitHubStates, Finds
  <2> QED
    BY <1>14, <2>1, DiscoveredTypes DEF DiscoverFailed
<1>15. CASE LoadAnswered(j)
  <2>1. PICK l \in c.left, s \in {Got(c.sent), Got(srv), NoService} : ShowLoad(l, s)
    BY <1>15 DEF LoadAnswered
  <2>2. s \in Services
    BY <1>1, ServiceTypes
  <2> QED
    BY <1>15, <2>1, <2>2, LoadTypes DEF LoadAnswered
<1>16. CASE Finish(j)
  <2>1. pages' \in PageStates
    BY <1>2, <1>16 DEF Finish, RowReleased, PageStates
  <2> QED
    BY <1>2, <1>16, <2>1 DEF Finish, ScreenOK
<1>17. CASE StartRefresh(j, srv) /\ UNCHANGED <<srv, gh, oci, pages, busy, mishaps, clean>>
  <2>1. ui' \in UiStates
    BY <1>2, <1>17, UiChanges DEF StartRefresh
  <2> QED
    BY <1>2, <1>17, <2>1 DEF ScreenOK
<1>18. CASE Settled(j) \/ Reloaded(j)
  BY <1>16, <1>17, <1>18 DEF Settled, Reloaded
<1> QED
  BY <1>4, <1>5, <1>6, <1>7, <1>8, <1>9, <1>10, <1>11, <1>12, <1>13, <1>14, <1>15, <1>18
     DEF RefreshSteps

\* The steps of the buttons' handlers.
LEMMA GitHubScreens ==
  ASSUME TypeOK, ScreenOK, NEW j \in Slots,
         \/ VerifyAnswered(j) \/ Staged(j) \/ DraftDropped(j) \/ RoutePromoted(j)
         \/ PromoteFailed(j) \/ Denied(j) \/ Unstaged(j) \/ Discarded(j) \/ DiscardFailed(j)
  PROVE  ScreenOK'
<1> DEFINE c == work[j]
<1>1. /\ c \in Calls /\ c.form \in Forms /\ c.auto \in BOOLEAN /\ c.held \in BOOLEAN
  BY DEF TypeOK, Calls
<1>2. /\ ui \in UiStates /\ gh \in GitHubStates /\ oci \in OciStates
      /\ pages \in PageStates /\ busy \in SUBSET Flags /\ gh.form \in Forms
  BY DEF ScreenOK, GitHubStates
<1>3. ui' = ui /\ oci' = oci /\ pages' = pages
  BY DEF VerifyAnswered, Staged, DraftDropped, RoutePromoted, PromoteFailed, Denied, Unstaged,
         Discarded, DiscardFailed, screen
<1>4. busy' \in SUBSET Flags
  <2>1. {"draft", "promoting", "create", "discovering"} \subseteq Flags
        /\ FlagsOfStage(c) \subseteq {"promoting"}
    BY DEF Flags, Kinds, FlagsOfStage
  <2> QED
    BY <1>2, <2>1
       DEF VerifyAnswered, Staged, DraftDropped, RoutePromoted, PromoteFailed, Denied,
           Unstaged, Discarded, DiscardFailed, screen
<1>5. gh' \in GitHubStates
  <2>1. CASE VerifyAnswered(j)
    <3>1. Tested(gh.form, c.form) \in Forms
      BY <1>1, <1>2, FormTypes
    <3> QED
      BY <1>2, <2>1, <3>1 DEF VerifyAnswered, GitHubStates
  <2>2. CASE Staged(j)
    BY <1>1, <1>2, <2>2 DEF Staged, GitHubStates
  <2>3. CASE DraftDropped(j)
    <3>1. SelectedMode \in Modes
      BY ModeTypes DEF SelectedMode
    <3>2. [gh EXCEPT !.error = @ /\ ~c.auto] \in GitHubStates
      BY <1>1, <1>2 DEF GitHubStates
    <3>3. [gh EXCEPT !.draft = "none", !.found = "none", !.auto = FALSE,
                     !.mode = SelectedMode, !.error = @ /\ ~c.auto] \in GitHubStates
      BY <1>1, <1>2, <3>1 DEF GitHubStates, Drafts, Finds
    <3> QED
      BY <2>3, <3>2, <3>3 DEF DraftDropped
  <2>4. CASE RoutePromoted(j)
    BY <1>1, <1>2, <2>4 DEF RoutePromoted, GitHubStates
  <2>5. CASE PromoteFailed(j) \/ DiscardFailed(j)
    BY <1>2, <2>5 DEF PromoteFailed, DiscardFailed, screen
  <2>6. CASE Denied(j)
    BY <1>1, <1>2, <2>6 DEF Denied, GitHubStates
  <2>7. CASE Unstaged(j)
    BY <1>2, <2>7 DEF Unstaged, GitHubStates
  <2>8. CASE Discarded(j)
    <3>1. WithoutCredentials(gh.form) \in Forms
      BY <1>2, FormTypes
    <3> QED
      BY <1>2, <2>8, <3>1 DEF Discarded, GitHubStates, Drafts, Finds, Modes
  <2> QED
    BY <2>1, <2>2, <2>3, <2>4, <2>5, <2>6, <2>7, <2>8
<1> QED
  BY <1>2, <1>3, <1>4, <1>5 DEF ScreenOK

\* The steps of the handlers of OCI, policies, images and runners.
LEMMA OtherScreens ==
  ASSUME TypeOK, ScreenOK, NEW j \in Slots,
         \/ RefreshingAnswered(j) \/ LogoutAnswered(j)
         \/ Inspected(j) \/ CredentialTested(j) \/ CredentialSaved(j) \/ CredentialCleared(j)
         \/ RuntimeSaved(j) \/ RuntimeCleared(j) \/ RecipeSaved(j) \/ RecipeDropped(j)
         \/ BuildPromoted(j) \/ BuildsChanged(j) \/ LookupAnswered(j)
         \/ WriteFailed(j)
  PROVE  ScreenOK'
<1> DEFINE c == work[j]
<1>1. /\ ui \in UiStates /\ gh \in GitHubStates /\ oci \in OciStates
      /\ pages \in PageStates /\ busy \in SUBSET Flags
  BY DEF ScreenOK
<1>2. CASE RefreshingAnswered(j)
  <2>1. [ui EXCEPT !.refreshing = TRUE] \in UiStates
    BY <1>1, UiChanges
  <2>2. [pages EXCEPT !.policy = Nobody] \in PageStates
    BY <1>1 DEF PageStates
  <2> QED
    BY <1>1, <1>2, <2>1, <2>2 DEF RefreshingAnswered, ScreenOK
<1>3. CASE LogoutAnswered(j)
  <2>1. ui' \in UiStates
    BY <1>1, <1>3, UiChanges DEF LogoutAnswered, ResetFor, Sessions
  <2>2. gh' \in GitHubStates /\ oci' \in OciStates /\ pages' \in PageStates
    BY <1>1, <1>3, BlankTypes DEF LogoutAnswered, ResetFor
  <2>3. busy' \in SUBSET Flags
    BY <1>1, <1>3 DEF LogoutAnswered, ResetFor
  <2> QED
    BY <2>1, <2>2, <2>3 DEF ScreenOK
<1>4. CASE \/ Inspected(j) \/ CredentialSaved(j) \/ CredentialCleared(j)
           \/ RuntimeSaved(j) \/ RuntimeCleared(j)
  <2>1. oci' \in OciStates
    BY <1>1, <1>4
       DEF Inspected, CredentialSaved, CredentialCleared, RuntimeSaved, RuntimeCleared,
           OciStates
  <2> QED
    BY <1>1, <1>4, <2>1
       DEF Inspected, CredentialSaved, CredentialCleared, RuntimeSaved, RuntimeCleared,
           ScreenOK
<1>5. CASE CredentialTested(j) \/ BuildPromoted(j) \/ BuildsChanged(j)
  BY <1>1, <1>5 DEF CredentialTested, BuildPromoted, BuildsChanged, screen, ScreenOK
<1>6. CASE RecipeSaved(j) \/ RecipeDropped(j) \/ LookupAnswered(j)
  <2>1. pages' \in PageStates
    BY <1>1, <1>6 DEF RecipeSaved, RecipeDropped, LookupAnswered, PageStates, Lookups, Diagnoses
  <2> QED
    BY <1>1, <1>6, <2>1 DEF RecipeSaved, RecipeDropped, LookupAnswered, ScreenOK
<1>7. CASE WriteFailed(j)
  <2>1. pages' \in PageStates
    BY <1>1, <1>7 DEF WriteFailed, LookupFailed, RowReleased, PageStates, Lookups, Diagnoses
  <2> QED
    BY <1>1, <1>7, <2>1 DEF WriteFailed, ScreenOK
<1> QED
  BY <1>2, <1>3, <1>4, <1>5, <1>6, <1>7

\* Together: the steps of all handlers within the page.
LEMMA HandlerScreens ==
  ASSUME TypeOK, NEW j \in Slots, HandlerStep(j), ~AppCreated(j)
  PROVE  ScreenOK'
<1>1. ScreenOK
  BY ScreenTypes DEF ScreenOK
<1> QED
  BY <1>1, RefreshScreens, GitHubScreens, OtherScreens DEF HandlerStep

\* A step of a handler within the page keeps the invariant.
LEMMA HandlersKeep ==
  ASSUME CInv, NEW j \in Slots, HandlerStep(j), ~AppCreated(j)
  PROVE  CInv'
<1>1. TypeOK /\ WorkInv
  BY DEF CInv
<1>2. ScreenOK'
  BY <1>1, HandlerScreens
<1>3. PICK d \in Calls : Goes(j, d)
  BY <1>1, HandlersGo
<1>4. /\ work' \in [Slots -> Calls] /\ srv' \in Services
      /\ mishaps' \in 0..MaxMishaps /\ clean' \in BOOLEAN /\ commands' = commands
      /\ WorkInv' /\ SpinInv' /\ ExclInv' /\ PromoteInv' /\ DraftInv'
  BY <1>3, MovesKeep
<1>5. commands \in 0..MaxCommands
  BY <1>1 DEF TypeOK
<1>6. TypeOK'
  BY <1>2, <1>4, <1>5
     DEF TypeOK, ScreenOK, UiStates, GitHubStates, OciStates, PageStates
<1> QED
  BY <1>4, <1>6 DEF CInv

-----------------------------------------------------------------------------
(* The commands                                                             *)

\* What a command adds to the screen, its handler takes off again.
FlagsStart(c) ==
  busy \subseteq busy' /\ \A f \in busy' : f \in busy \/ Held(f, c)

\* A row that shows as worked on is that of the handler that starts.
RowsStart(c) ==
  /\ pages'.reports = "loading" => pages.reports = "loading"
  /\ pages'.deleting # Nobody => pages.deleting # Nobody \/ c.do = "recipeDelete"
  /\ pages'.building # Nobody => pages.building # Nobody \/ c.do = "buildCreate"
  /\ pages'.promoting # Nobody => pages.promoting # Nobody \/ c.do = "buildPromote"

\* The spinners start with a refresh.
SpinnersStart(c) ==
  ui'.refreshing \/ ui'.loading => ui.refreshing \/ ui.loading \/ InRefresh(c)

\* The buttons of a record are enabled while none of its calls is out.
ExclStart(c) ==
  /\ \A G \in {GitHubKinds, CredentialKinds, RuntimeKinds} :
       c.do \in G => FirmFlag(c.do) \in busy' /\ \A k \in G : FirmFlag(k) \notin busy
  /\ c.do \in {"verify", "clear"} => "promoting" \notin busy'
  /\ "promoting" \in busy' => "promoting" \in busy \/ {"verify", "clear"} \intersect busy = {}

\* A command that sends a call keeps the invariant.
LEMMA LaunchKeeps ==
  ASSUME CInv, NEW c \in Calls, Launch(c), CallOK(c), c.at = "dropDraft" => c.do # "save",
         ScreenOK', FlagsStart(c), RowsStart(c), SpinnersStart(c), ExclStart(c)
  PROVE  CInv'
<1> USE DEF CInv
<1>1. /\ work \in [Slots -> Calls] /\ srv \in Services /\ srv' = srv
      /\ commands \in 0..MaxCommands /\ mishaps \in 0..MaxMishaps /\ clean \in BOOLEAN
  BY DEF TypeOK, Launch
<1>2. PICK j \in Slots : work[j] = Idle /\ work' = [work EXCEPT ![j] = c]
  BY DEF Launch
<1>3. /\ work'[j] = c /\ \A k \in Slots \ {j} : work'[k] = work[k]
      /\ work' \in [Slots -> Calls]
  BY <1>1, <1>2
<1>4. /\ commands' \in 0..MaxCommands /\ mishaps' \in 0..MaxMishaps /\ clean' \in BOOLEAN
  <2>1. commands' \in 0..MaxCommands
    BY <1>1, ConsoleBounds DEF Launch, Command
  <2>2. mishaps' \in 0..MaxMishaps
    BY <1>1, ConsoleBounds DEF Launch
  <2>3. clean' \in BOOLEAN
    BY <1>1 DEF Launch, Quiet
  <2> QED
    BY <2>1, <2>2, <2>3
<1>5. TypeOK'
  BY <1>1, <1>3, <1>4
     DEF TypeOK, ScreenOK, UiStates, GitHubStates, OciStates, PageStates
<1>6. WorkInv'
  BY <1>3 DEF WorkInv
<1>7. /\ Idle.do = "idle" /\ Idle.left = {} /\ ~InRefresh(Idle)
      /\ \A f : ~Held(f, Idle)
  BY IdleCall DEF InRefresh, Held, OwnFlags
<1>8. SpinInv'
  <2>1. ASSUME NEW f \in busy' PROVE \E k \in Slots : Held(f, work'[k])
    BY <1>2, <1>3, <1>7 DEF FlagsStart, SpinInv
  <2>2. ASSUME ui'.refreshing \/ ui'.loading PROVE \E k \in Slots : InRefresh(work'[k])
    BY <1>2, <1>3, <1>7, <2>2 DEF SpinnersStart, SpinInv
  <2>3. ASSUME pages'.reports = "loading" PROVE \E k \in Slots : "reports" \in work'[k].left
    BY <1>2, <1>3, <1>7, <2>3 DEF RowsStart, SpinInv
  <2>4. ASSUME pages'.deleting # Nobody PROVE \E k \in Slots : work'[k].do = "recipeDelete"
    BY <1>2, <1>3, <1>7, <2>4 DEF RowsStart, SpinInv
  <2>5. ASSUME pages'.building # Nobody PROVE \E k \in Slots : work'[k].do = "buildCreate"
    BY <1>2, <1>3, <1>7, <2>5 DEF RowsStart, SpinInv
  <2>6. ASSUME pages'.promoting # Nobody PROVE \E k \in Slots : work'[k].do = "buildPromote"
    BY <1>2, <1>3, <1>7, <2>6 DEF RowsStart, SpinInv
  <2> QED
    BY <2>1, <2>2, <2>3, <2>4, <2>5, <2>6 DEF SpinInv
<1>9. ExclInv'
  <2> SUFFICES ASSUME NEW G \in {GitHubKinds, CredentialKinds, RuntimeKinds}
               PROVE  /\ \A k \in Slots : work'[k].do \in G => FirmFlag(work'[k].do) \in busy'
                      /\ \A k, m \in Slots :
                           work'[k].do \in G /\ work'[m].do \in G => k = m
    BY DEF ExclInv
  <2>1. /\ \A k \in Slots : work[k].do \in G => FirmFlag(work[k].do) \in busy
        /\ \A k, m \in Slots : work[k].do \in G /\ work[m].do \in G => k = m
    BY DEF ExclInv
  <2>2. ASSUME NEW k \in Slots, work'[k].do \in G PROVE FirmFlag(work'[k].do) \in busy'
    BY <1>3, <2>1, <2>2 DEF ExclStart, FlagsStart
  <2>3. CASE c.do \in G
    <3>1. \A k \in Slots : work[k].do \notin G
      BY <2>1, <2>3 DEF ExclStart
    <3> QED
      BY <1>3, <2>2, <3>1
  <2>4. CASE c.do \notin G
    BY <1>3, <2>1, <2>2, <2>4
  <2> QED
    BY <2>3, <2>4
<1>10. DraftInv'
  BY <1>1, <1>3 DEF DraftInv
<1>11. PromoteInv'
  <2> SUFFICES ASSUME "promoting" \in busy', NEW k \in Slots, work'[k].do \in {"verify", "clear"}
               PROVE  FALSE
    BY DEF PromoteInv
  <2>1. work'[k] = work[k]
    BY <1>3 DEF ExclStart
  <2>2. work[k].do \in busy
    BY <2>1 DEF ExclInv, GitHubKinds, FirmFlag
  <2> QED
    BY <2>1, <2>2 DEF ExclStart, PromoteInv
<1> QED
  BY <1>5, <1>6, <1>8, <1>9, <1>10, <1>11

\* The call a button sends: a write, by its own handler, with nothing left to load.
LEMMA NewCalls ==
  ASSUME NEW do \in Kinds, NEW at \in Writes \union Reads
  PROVE  /\ Call(do, at) \in Calls
         /\ Call(do, at).do = do /\ Call(do, at).at = at /\ Call(do, at).left = {}
         /\ Call(do, at).auto = FALSE
BY IdleCall DEF Call, Calls, Idle

\* A button whose handler starts with a write.
LEMMA WriteStarts ==
  ASSUME CInv, NEW c \in Calls, Launch(c), c.at \in Writes, c.left = {},
         c.do \in Doers(c.at),
         c.at = "discover" => c.do = "discover",
         c.at = "promote" => c.do = "promote",
         c.at = "dropDraft" => c.do = "discard",
         ScreenOK', FlagsStart(c), RowsStart(c), ui' = ui, ExclStart(c)
  PROVE  CInv'
<1>1. c.do \notin {"idle", "loose"}
  BY DEF Doers, Writes
<1>2. CallOK(c)
  BY <1>1 DEF CallOK, Writes, Doers
<1>3. SpinnersStart(c)
  BY DEF SpinnersStart
<1> QED
  BY <1>2, <1>3, LaunchKeeps

\* A button that sets no flag, or the flag of its handler.
LEMMA PlainStarts ==
  ASSUME CInv, NEW do \in Kinds \ FirmKinds, NEW at \in Writes, NEW c \in Calls, Launch(c),
         c.do = do, c.at = at, c.left = {}, do \in Doers(at),
         at = "discover" => do = "discover",
         at = "promote" => do = "promote",
         at = "dropDraft" => do = "discard",
         ScreenOK', ui' = ui, RowsStart(c),
         NEW f, busy' = busy \/ (busy' = busy \union {f} /\ Held(f, c)),
         f = "promoting" => {"verify", "clear"} \intersect busy = {}
  PROVE  CInv'
<1>1. FlagsStart(c)
  BY DEF FlagsStart
<1>2. ExclStart(c)
  <2>1. \A G \in {GitHubKinds, CredentialKinds, RuntimeKinds} : c.do \notin G
    BY DEF FirmKinds
  <2>2. c.do \notin {"verify", "clear"}
    BY <2>1 DEF GitHubKinds
  <2>3. "promoting" \in busy' => "promoting" \in busy \/ f = "promoting"
    OBVIOUS
  <2> QED
    BY <2>1, <2>2, <2>3 DEF ExclStart
<1> QED
  BY <1>1, <1>2, WriteStarts

\* A button of the GitHub page, of the credential or of the launch target.
LEMMA FirmStarts ==
  ASSUME CInv, NEW G \in {GitHubKinds, CredentialKinds, RuntimeKinds}, NEW do \in G,
         NEW at \in Writes, NEW c \in Calls, Launch(c),
         c.do = do, c.at = at, c.left = {}, do \in Doers(at),
         at \notin {"promote", "dropDraft", "discover"},
         ScreenOK', ui' = ui, pages' = pages, busy' = busy \union {FirmFlag(do)},
         \A k \in G : FirmFlag(k) \notin busy,
         do \in {"verify", "clear"} => "promoting" \notin busy
  PROVE  CInv'
<1>1. Held(FirmFlag(do), c)
  BY DEF Held, FirmFlag, OwnFlags, GitHubKinds, CredentialKinds, RuntimeKinds
<1>2. FlagsStart(c)
  BY <1>1 DEF FlagsStart
<1>3. ExclStart(c)
  <2>1. ASSUME NEW H \in {GitHubKinds, CredentialKinds, RuntimeKinds}, c.do \in H
        PROVE  H = G
    BY <2>1 DEF GitHubKinds, CredentialKinds, RuntimeKinds
  <2>2. FirmFlag(do) # "promoting"
    BY DEF FirmFlag, GitHubKinds, CredentialKinds, RuntimeKinds
  <2> QED
    BY <2>1, <2>2 DEF ExclStart
<1>4. RowsStart(c)
  BY DEF RowsStart
<1> QED
  BY <1>2, <1>3, <1>4, WriteStarts

\* The screen after a command whose only effects are those listed.
LEMMA FlagScreens ==
  ASSUME TypeOK, ui' = ui, oci' = oci, gh' \in GitHubStates, pages' \in PageStates,
         NEW f \in Flags, busy' = busy \/ busy' = busy \union {f}
  PROVE  ScreenOK'
BY ScreenTypes DEF ScreenOK

\* The sign-in page, the password page and the button that signs out.
LEMMA SessionCommandsKeep ==
  ASSUME CInv, Login \/ Logout \/ ChangePassword \/ Cleanup \/ TerminateRunner
  PROVE  CInv'
<1>1. /\ gh \in GitHubStates /\ pages \in PageStates /\ TypeOK
      /\ "login" \in Kinds \ FirmKinds /\ "logout" \in Kinds \ FirmKinds
      /\ "password" \in Kinds \ FirmKinds /\ "cleanup" \in Kinds \ FirmKinds
      /\ "terminate" \in Kinds \ FirmKinds
  BY ScreenTypes
     DEF CInv, Kinds, FirmKinds, GitHubKinds, CredentialKinds, RuntimeKinds
<1>2. PICK at \in {"login", "logout", "password", "cleanup", "terminate"} :
        /\ Launch(Call(at, at)) /\ ui' = ui /\ gh' = gh /\ oci' = oci /\ pages' = pages
        /\ busy' = busy \/ (at = "password" /\ busy' = busy \union {"password"})
  BY DEF Login, Logout, ChangePassword, Cleanup, TerminateRunner, screen
<1> DEFINE c == Call(at, at)
<1>3. c \in Calls /\ c.do = at /\ c.at = at /\ c.left = {} /\ at \in Writes /\ at \in Doers(at)
  <2>1. at \in Kinds /\ at \in Writes /\ at \in Doers(at)
    BY <1>1, <1>2 DEF Writes, Doers
  <2> QED
    BY <2>1, NewCalls
<1> HIDE DEF c
<1>4. "password" \in Flags
  BY DEF Flags, Kinds
<1>5. ScreenOK'
  BY <1>1, <1>2, <1>4, FlagScreens
<1>6. at = "password" => Held("password", c)
  BY <1>3 DEF Held, OwnFlags
<1>7. RowsStart(c)
  BY <1>2 DEF RowsStart
<1>8. Launch(c)
  BY <1>2 DEF c
<1>9. at \in Kinds \ FirmKinds /\ at \notin {"discover", "promote", "dropDraft"}
  BY <1>1, <1>2
<1> QED
  BY <1>2, <1>3, <1>5, <1>6, <1>7, <1>8, <1>9, PlainStarts

\* The refreshes, of everything and of the runner images.
LEMMA RefreshCommandsKeep ==
  ASSUME CInv, Refresh \/ RefreshImages
  PROVE  CInv'
<1>1. /\ ui \in UiStates /\ gh \in GitHubStates /\ oci \in OciStates /\ pages \in PageStates
      /\ busy \in SUBSET Flags /\ srv \in Services
  BY ScreenTypes DEF CInv
<1>2. gh' = gh /\ oci' = oci /\ pages' = pages /\ busy' = busy
  BY DEF Refresh, RefreshImages, screen
<1>3. ASSUME NEW c, c.do \in {"refresh", "imagesRefresh"}
      PROVE  FlagsStart(c) /\ RowsStart(c) /\ ExclStart(c)
  BY <1>2, <1>3
     DEF FlagsStart, RowsStart, ExclStart, GitHubKinds, CredentialKinds, RuntimeKinds
<1>4. CASE Refresh
  <2> DEFINE c == RefreshCall(srv)
  <2>1. c \in Calls /\ c.do = "refresh" /\ c.at = "session" /\ c.left = {}
    BY <1>1, IdleCall DEF RefreshCall, Calls, Idle, Kinds, Reads
  <2>2. Launch(c) /\ ui' = [ui EXCEPT !.refreshing = TRUE]
    BY <1>4 DEF Refresh
  <2> HIDE DEF c
  <2>3. CallOK(c) /\ InRefresh(c)
    BY <2>1 DEF CallOK, InRefresh, Writes
  <2>4. SpinnersStart(c)
    BY <2>3 DEF SpinnersStart
  <2>5. ScreenOK'
    BY <1>1, <1>2, <2>2, UiChanges DEF ScreenOK
  <2> QED
    BY <1>3, <2>1, <2>2, <2>3, <2>4, <2>5, LaunchKeeps
<1>5. CASE RefreshImages
  <2> DEFINE c == Reading("imagesRefresh", "settle", {"images"})
  <2>1. c \in Calls /\ c.do = "imagesRefresh" /\ c.at = "settle"
    BY <1>1, IdleCall DEF Reading, Call, Calls, Idle, Kinds, Reads, Loads
  <2>2. Launch(c) /\ ui' = ui
    BY <1>5 DEF RefreshImages, screen
  <2> HIDE DEF c
  <2>3. CallOK(c)
    BY <2>1 DEF CallOK, Writes
  <2>4. SpinnersStart(c)
    BY <2>2 DEF SpinnersStart
  <2>5. ScreenOK'
    BY <1>1, <1>2, <2>2 DEF ScreenOK
  <2> QED
    BY <1>3, <2>1, <2>2, <2>3, <2>4, <2>5, LaunchKeeps
<1> QED
  BY <1>4, <1>5

\* The buttons of the GitHub page.
LEMMA GitHubCommandsKeep ==
  ASSUME CInv,
         \/ Verify \/ Save \/ Promote \/ ClearStaged \/ CreateApp \/ FindInstallation
         \/ DiscardDraft
  PROVE  CInv'
<1>1. /\ TypeOK /\ gh \in GitHubStates /\ gh.form \in Forms /\ pages \in PageStates
      /\ pages' = pages /\ ui' = ui /\ oci' = oci
  BY ScreenTypes
     DEF CInv, GitHubStates, Verify, Save, Promote, ClearStaged, CreateApp, FindInstallation,
         DiscardDraft
<1>2. gh' \in GitHubStates
  <2>1. /\ [gh EXCEPT !.error = FALSE] \in GitHubStates
        /\ [gh EXCEPT !.error = FALSE, !.mode = "existing"] \in GitHubStates
        /\ [gh EXCEPT !.error = @ /\ ~SetupMode] \in GitHubStates
    BY <1>1 DEF GitHubStates, Modes
  <2> QED
    BY <1>1, <2>1
       DEF Verify, Save, Promote, ClearStaged, CreateApp, FindInstallation, DiscardDraft
<1>3. \A f \in Flags : busy' = busy \union {f} => ScreenOK'
  BY <1>1, <1>2, FlagScreens
<1>4. ~GitHubBusy => /\ \A k \in GitHubKinds : FirmFlag(k) \notin busy
                     /\ "promoting" \notin busy /\ {"verify", "clear"} \intersect busy = {}
  BY DEF GitHubBusy, GitHubKinds, FirmFlag
<1>5. /\ "verify" \in GitHubKinds /\ "save" \in GitHubKinds /\ "clear" \in GitHubKinds
      /\ FirmFlag("verify") = "verify" /\ FirmFlag("save") = "saving"
      /\ FirmFlag("clear") = "clear"
  BY DEF GitHubKinds, FirmFlag
<1>6. {"verify", "saving", "promoting", "clear", "create", "discovering", "draft"} \subseteq Flags
  BY DEF Flags, Kinds
<1>7. \A c : RowsStart(c)
  BY <1>1 DEF RowsStart
<1>8. CASE Verify
  <2> DEFINE c == [Call("verify", "verify") EXCEPT !.form = gh.form]
  <2>1. c \in Calls /\ c.do = "verify" /\ c.at = "verify" /\ c.left = {}
    <3>1. "verify" \in Kinds /\ "verify" \in Writes
      BY DEF Kinds, Writes
    <3>2. /\ Call("verify", "verify") \in Calls /\ Call("verify", "verify").do = "verify"
          /\ Call("verify", "verify").at = "verify" /\ Call("verify", "verify").left = {}
      BY <3>1, NewCalls
    <3>3. SetupMode \in BOOLEAN
      BY DEF SetupMode, Connect, Repositories, OnTask, Wizard
    <3> QED
      BY <1>1, <3>2, <3>3 DEF Calls
  <2>2. Launch(c) /\ ~GitHubBusy /\ busy' = busy \union {"verify"}
    BY <1>8 DEF Verify
  <2> HIDE DEF c
  <2>3. "verify" \in Writes /\ "verify" \in Doers("verify")
    BY DEF Writes, Doers
  <2> QED
    BY <1>1, <1>3, <1>4, <1>5, <1>6, <2>1, <2>2, <2>3, FirmStarts
<1>9. CASE Save
  <2> DEFINE c == [Call("save", "stage") EXCEPT
                     !.form = gh.form, !.held = gh.draft # "none", !.auto = SetupMode]
  <2>1. c \in Calls /\ c.do = "save" /\ c.at = "stage" /\ c.left = {}
    <3>1. "save" \in Kinds /\ "stage" \in Writes
      BY DEF Kinds, Writes
    <3>2. /\ Call("save", "stage") \in Calls /\ Call("save", "stage").do = "save"
          /\ Call("save", "stage").at = "stage" /\ Call("save", "stage").left = {}
      BY <3>1, NewCalls
    <3>3. SetupMode \in BOOLEAN
      BY DEF SetupMode, Connect, Repositories, OnTask, Wizard
    <3> QED
      BY <1>1, <3>2, <3>3 DEF Calls
  <2>2. Launch(c) /\ ~GitHubBusy /\ busy' = busy \union {"saving"}
    BY <1>9 DEF Save
  <2> HIDE DEF c
  <2>3. "stage" \in Writes /\ "save" \in Doers("stage")
    BY DEF Writes, Doers
  <2> QED
    BY <1>1, <1>3, <1>4, <1>5, <1>6, <2>1, <2>2, <2>3, FirmStarts
<1>10. CASE ClearStaged
  <2> DEFINE c == Call("clear", "unstage")
  <2>1. c \in Calls /\ c.do = "clear" /\ c.at = "unstage" /\ c.left = {}
    <3>1. "clear" \in Kinds /\ "unstage" \in Writes
      BY DEF Kinds, Writes
    <3> QED
      BY <3>1, NewCalls
  <2>2. Launch(c) /\ ~GitHubBusy /\ busy' = busy \union {"clear"}
    BY <1>10 DEF ClearStaged
  <2> HIDE DEF c
  <2>3. "unstage" \in Writes /\ "clear" \in Doers("unstage")
    BY DEF Writes, Doers
  <2> QED
    BY <1>1, <1>3, <1>4, <1>5, <1>6, <2>1, <2>2, <2>3, FirmStarts
<1>11. CASE Promote
  <2> DEFINE c == [Call("promote", "promote") EXCEPT !.auto = SetupMode]
  <2>1. c \in Calls /\ c.do = "promote" /\ c.at = "promote" /\ c.left = {}
    <3>1. "promote" \in Kinds /\ "promote" \in Writes
      BY DEF Kinds, Writes
    <3>2. /\ Call("promote", "promote") \in Calls /\ Call("promote", "promote").do = "promote"
          /\ Call("promote", "promote").at = "promote" /\ Call("promote", "promote").left = {}
      BY <3>1, NewCalls
    <3>3. SetupMode \in BOOLEAN
      BY DEF SetupMode, Connect, Repositories, OnTask, Wizard
    <3> QED
      BY <1>1, <3>2, <3>3 DEF Calls
  <2>2. Launch(c) /\ busy' = busy \union {"promoting"} /\ ~GitHubBusy
    BY <1>11 DEF Promote
  <2> HIDE DEF c
  <2>3. /\ "promote" \in Writes /\ "promote" \in Doers("promote")
        /\ "promote" \in Kinds \ FirmKinds
    BY DEF Writes, Doers, Kinds, FirmKinds, GitHubKinds, CredentialKinds, RuntimeKinds
  <2>4. Held("promoting", c)
    BY <2>1 DEF Held
  <2> QED
    BY <1>1, <1>3, <1>4, <1>6, <1>7, <2>1, <2>2, <2>3, <2>4, PlainStarts
<1>12. CASE CreateApp
  <2> DEFINE c == Call("create", "startManifest")
  <2>1. c \in Calls /\ c.do = "create" /\ c.at = "startManifest" /\ c.left = {}
    <3>1. "create" \in Kinds /\ "startManifest" \in Writes
      BY DEF Kinds, Writes
    <3> QED
      BY <3>1, NewCalls
  <2>2. Launch(c) /\ busy' = busy \union {"create"}
    BY <1>12 DEF CreateApp
  <2> HIDE DEF c
  <2>3. /\ "startManifest" \in Writes /\ "create" \in Doers("startManifest")
        /\ "create" \in Kinds \ FirmKinds
    BY DEF Writes, Doers, Kinds, FirmKinds, GitHubKinds, CredentialKinds, RuntimeKinds
  <2>4. Held("create", c)
    BY <2>1 DEF Held, OwnFlags
  <2> QED
    BY <1>1, <1>3, <1>6, <1>7, <2>1, <2>2, <2>3, <2>4, PlainStarts
<1>13. CASE FindInstallation
  <2> DEFINE c == Call("discover", "discover")
  <2>1. c \in Calls /\ c.do = "discover" /\ c.at = "discover" /\ c.left = {}
    <3>1. "discover" \in Kinds /\ "discover" \in Writes
      BY DEF Kinds, Writes
    <3> QED
      BY <3>1, NewCalls
  <2>2. Launch(c) /\ busy' = busy \union {"discovering"}
    BY <1>13 DEF FindInstallation
  <2> HIDE DEF c
  <2>3. /\ "discover" \in Writes /\ "discover" \in Doers("discover")
        /\ "discover" \in Kinds \ FirmKinds
    BY DEF Writes, Doers, Kinds, FirmKinds, GitHubKinds, CredentialKinds, RuntimeKinds
  <2>4. Held("discovering", c)
    BY <2>1 DEF Held
  <2> QED
    BY <1>1, <1>3, <1>6, <1>7, <2>1, <2>2, <2>3, <2>4, PlainStarts
<1>14. CASE DiscardDraft
  <2> DEFINE c == Call("discard", "dropDraft")
  <2>1. c \in Calls /\ c.do = "discard" /\ c.at = "dropDraft" /\ c.left = {}
    <3>1. "discard" \in Kinds /\ "dropDraft" \in Writes
      BY DEF Kinds, Writes
    <3> QED
      BY <3>1, NewCalls
  <2>2. Launch(c) /\ busy' = busy \union {"draft"}
    BY <1>14 DEF DiscardDraft
  <2> HIDE DEF c
  <2>3. /\ "dropDraft" \in Writes /\ "discard" \in Doers("dropDraft")
        /\ "discard" \in Kinds \ FirmKinds
    BY DEF Writes, Doers, Kinds, FirmKinds, GitHubKinds, CredentialKinds, RuntimeKinds
  <2>4. Held("draft", c)
    BY <2>1 DEF Held
  <2> QED
    BY <1>1, <1>3, <1>6, <1>7, <2>1, <2>2, <2>3, <2>4, PlainStarts
<1> QED
  BY <1>8, <1>9, <1>10, <1>11, <1>12, <1>13, <1>14

\* The buttons of the OCI page.
LEMMA OciCommandsKeep ==
  ASSUME CInv,
         \/ UploadConfig \/ TestCredential \/ SaveCredential \/ ClearCredential
         \/ SaveRuntime \/ ClearRuntime
  PROVE  CInv'
<1>1. /\ TypeOK /\ gh \in GitHubStates /\ pages \in PageStates /\ oci \in OciStates
      /\ pages' = pages /\ ui' = ui /\ oci' = oci /\ gh' = gh
  BY ScreenTypes
     DEF CInv, UploadConfig, TestCredential, SaveCredential, ClearCredential, SaveRuntime,
         ClearRuntime, CredentialCall, RuntimeCall
<1>2. \A f \in Flags : busy' = busy \union {f} => ScreenOK'
  BY <1>1, FlagScreens
<1>3. CASE UploadConfig
  <2> DEFINE c == Call("inspect", "inspect")
  <2>1. /\ "inspect" \in Writes /\ "inspect" \in Doers("inspect")
        /\ "inspect" \in Kinds \ FirmKinds /\ "inspect" \in Flags
    BY DEF Writes, Doers, Kinds, Flags, FirmKinds, GitHubKinds, CredentialKinds, RuntimeKinds
  <2>2. c \in Calls /\ c.do = "inspect" /\ c.at = "inspect" /\ c.left = {}
    BY <2>1, NewCalls
  <2>3. Launch(c) /\ busy' = busy \union {"inspect"}
    BY <1>3 DEF UploadConfig
  <2> HIDE DEF c
  <2>4. Held("inspect", c)
    BY <2>2 DEF Held, OwnFlags
  <2>5. RowsStart(c)
    BY <1>1 DEF RowsStart
  <2> QED
    BY <1>1, <1>2, <2>1, <2>2, <2>3, <2>4, <2>5, PlainStarts
<1>4. ASSUME NEW G \in {CredentialKinds, RuntimeKinds}, NEW do \in G, NEW c, Launch(c),
             c = Call(do, do) \/ c = [Call(do, do) EXCEPT !.held = oci.config /\ oci.key],
             busy' = busy \union {do}, \A k \in G : k \notin busy
      PROVE  CInv'
  <2>1. /\ do \in Writes /\ do \in Doers(do) /\ do \in Kinds /\ do \in Flags
        /\ do \notin {"promote", "dropDraft", "discover", "verify", "clear"}
        /\ \A k \in G : FirmFlag(k) = k
    BY DEF Writes, Doers, Kinds, Flags, CredentialKinds, RuntimeKinds, FirmFlag
  <2>2. /\ Call(do, do) \in Calls /\ Call(do, do).do = do
        /\ Call(do, do).at = do /\ Call(do, do).left = {}
    BY <2>1, NewCalls
  <2>3. c \in Calls /\ c.do = do /\ c.at = do /\ c.left = {}
    <3>1. oci.config \in BOOLEAN /\ oci.key \in BOOLEAN
      BY <1>1 DEF OciStates
    <3> QED
      BY <1>4, <2>2, <3>1 DEF Calls
  <2>4. G \in {GitHubKinds, CredentialKinds, RuntimeKinds}
    OBVIOUS
  <2> QED
    BY <1>1, <1>2, <1>4, <2>1, <2>3, <2>4, FirmStarts
<1>5. CASE TestCredential \/ SaveCredential \/ ClearCredential
  <2>1. PICK do \in CredentialKinds : CredentialCall(do)
    BY <1>5 DEF TestCredential, SaveCredential, ClearCredential, CredentialKinds
  <2>2. \A k \in CredentialKinds : k \notin busy
    BY <2>1 DEF CredentialCall, CredentialBusy, CredentialKinds
  <2> QED
    BY <1>4, <2>1, <2>2 DEF CredentialCall
<1>6. CASE SaveRuntime \/ ClearRuntime
  <2>1. PICK do \in RuntimeKinds : RuntimeCall(do)
    BY <1>6 DEF SaveRuntime, ClearRuntime, RuntimeKinds
  <2>2. \A k \in RuntimeKinds : k \notin busy
    BY <2>1 DEF RuntimeCall, RuntimeBusy, RuntimeKinds
  <2> QED
    BY <1>4, <2>1, <2>2 DEF RuntimeCall
<1> QED
  BY <1>3, <1>5, <1>6

\* The buttons of the lists: policies, recipes, builds, and the lookups.
RowPair(do, at) ==
  \/ do = "policySave" /\ at = "putPolicy"
  \/ do = "policyDelete" /\ at = "dropPolicy"
  \/ do = "recipeSave" /\ at = "putRecipe"
  \/ do = "recipeDelete" /\ at = "dropRecipe"
  \/ /\ do = at
     /\ do \in {"buildCreate", "buildPromote", "reconcile", "compat", "diagnose"}

\* Such a button starts the handler of its row.
LEMMA RowStarts ==
  ASSUME CInv, NEW do, NEW at, RowPair(do, at), NEW c, Launch(c),
         \/ c = Call(do, at)
         \/ \E a \in Policies \union Recipes \union {Nobody} :
              c = [Call(do, at) EXCEPT !.arg = a]
         \/ \E a \in Policies \union Recipes \union {Nobody}, h \in BOOLEAN :
              c = [Call(do, at) EXCEPT !.arg = a, !.held = h],
         pages' \in PageStates, ui' = ui, gh' = gh, oci' = oci,
         \A x : x.do = do => RowsStart(x),
         busy' = busy \/ (do \in OwnFlags /\ busy' = busy \union {do})
  PROVE  CInv'
<1>1. /\ do \in Kinds \ FirmKinds /\ at \in Writes /\ do \in Doers(at) /\ do \in Flags
      /\ at \notin {"discover", "promote", "dropDraft"}
  BY DEF RowPair, Kinds, Flags, FirmKinds, GitHubKinds, CredentialKinds, RuntimeKinds, Writes,
         Doers
<1>2. /\ Call(do, at) \in Calls /\ Call(do, at).do = do
      /\ Call(do, at).at = at /\ Call(do, at).left = {}
  <2>1. do \in Kinds /\ at \in Writes \union Reads
    BY <1>1
  <2> QED
    BY <2>1, NewCalls
<1>3. c \in Calls /\ c.do = do /\ c.at = at /\ c.left = {}
  <2>1. CASE c = Call(do, at)
    BY <1>2, <2>1
  <2>2. ASSUME NEW a \in Policies \union Recipes \union {Nobody},
               c = [Call(do, at) EXCEPT !.arg = a]
        PROVE  c \in Calls /\ c.do = do /\ c.at = at /\ c.left = {}
    BY <1>2, <2>2 DEF Calls
  <2>3. ASSUME NEW a \in Policies \union Recipes \union {Nobody}, NEW h \in BOOLEAN,
               c = [Call(do, at) EXCEPT !.arg = a, !.held = h]
        PROVE  c \in Calls /\ c.do = do /\ c.at = at /\ c.left = {}
    BY <1>2, <2>3 DEF Calls
  <2> QED
    BY <2>1, <2>2, <2>3
<1>4. RowsStart(c) /\ (do \in OwnFlags => Held(do, c))
  BY <1>3 DEF Held
<1>5. ScreenOK'
  <2>1. gh' \in GitHubStates /\ TypeOK
    BY ScreenTypes DEF CInv
  <2> QED
    BY <1>1, <2>1, FlagScreens
<1>6. busy' = busy \/ (busy' = busy \union {do} /\ Held(do, c))
  BY <1>4
<1>7. do # "promoting"
  BY DEF RowPair
<1> QED
  BY <1>1, <1>3, <1>4, <1>5, <1>6, <1>7, PlainStarts

\* The buttons of the lists keep the invariant.
LEMMA RowCommandsKeep ==
  ASSUME CInv,
         \/ SavePolicy \/ DeletePolicy \/ SaveRecipe \/ DeleteRecipe
         \/ CreateBuild \/ PromoteBuild \/ Reconcile \/ CheckCompatibility \/ Diagnose
  PROVE  CInv'
<1>1. /\ pages \in PageStates /\ pages.policy \in Policies \union {Nobody}
      /\ pages.policies \subseteq Policies /\ pages.recipes \subseteq Recipes
      /\ pages.recipe \in Recipes \union {Nobody}
  BY ScreenTypes DEF CInv, PageStates
<1>2. ui' = ui /\ gh' = gh /\ oci' = oci
  BY DEF SavePolicy, DeletePolicy, SaveRecipe, DeleteRecipe, CreateBuild, PromoteBuild,
         Reconcile, CheckCompatibility, Diagnose, screen
<1>3. "recipeSave" \in OwnFlags /\ "reconcile" \in OwnFlags /\ "compat" \in OwnFlags
      /\ "diagnose" \in OwnFlags
  BY DEF OwnFlags
<1>4. pages' = pages => \A x : RowsStart(x)
  BY DEF RowsStart
<1> DEFINE All == Policies \union Recipes \union {Nobody}
<1>5. /\ RowPair("policySave", "putPolicy") /\ RowPair("policyDelete", "dropPolicy")
      /\ RowPair("recipeSave", "putRecipe") /\ RowPair("recipeDelete", "dropRecipe")
      /\ \A x \in {"buildCreate", "buildPromote", "reconcile", "compat", "diagnose"} :
           RowPair(x, x)
  BY DEF RowPair
<1>6. CASE SavePolicy
  <2> DEFINE c == [Call("policySave", "putPolicy") EXCEPT !.arg = pages.policy]
  <2>1. Launch(c) /\ busy' = busy /\ pages' = pages /\ pages.policy \in All
    BY <1>1, <1>6 DEF SavePolicy, screen
  <2>2. \E a \in All : c = [Call("policySave", "putPolicy") EXCEPT !.arg = a]
    BY <1>5, <2>1
  <2> HIDE DEF c
  <2> QED
    BY <1>1, <1>2, <1>4, <1>5, <2>1, <2>2, RowStarts
<1>7. CASE DeletePolicy
  <2>1. PICK p \in pages.policies : Launch([Call("policyDelete", "dropPolicy") EXCEPT !.arg = p])
    BY <1>7 DEF DeletePolicy
  <2> DEFINE c == [Call("policyDelete", "dropPolicy") EXCEPT !.arg = p]
  <2>2. Launch(c) /\ busy' = busy /\ pages' = pages /\ p \in All
    BY <1>1, <1>7, <2>1 DEF DeletePolicy, screen
  <2>3. \E a \in All : c = [Call("policyDelete", "dropPolicy") EXCEPT !.arg = a]
    BY <1>5, <2>2
  <2> HIDE DEF c
  <2> QED
    BY <1>1, <1>2, <1>4, <1>5, <2>2, <2>3, RowStarts
<1>8. CASE SaveRecipe
  <2> DEFINE c == [Call("recipeSave", "putRecipe") EXCEPT !.arg = pages.recipe]
  <2>1. /\ Launch(c) /\ busy' = busy \union {"recipeSave"} /\ pages' = pages
        /\ pages.recipe \in All
    BY <1>1, <1>8 DEF SaveRecipe
  <2>2. \E a \in All : c = [Call("recipeSave", "putRecipe") EXCEPT !.arg = a]
    BY <1>5, <2>1
  <2> HIDE DEF c
  <2> QED
    BY <1>1, <1>2, <1>3, <1>4, <1>5, <2>1, <2>2, RowStarts
<1>9. CASE DeleteRecipe
  <2>1. PICK r \in pages.recipes \ {pages.deleting} :
          /\ Launch([Call("recipeDelete", "dropRecipe") EXCEPT
                       !.arg = r, !.held = pages.recipe = r])
          /\ pages' = [pages EXCEPT !.deleting = r]
    BY <1>9 DEF DeleteRecipe
  <2> DEFINE h == pages.recipe = r
             c == [Call("recipeDelete", "dropRecipe") EXCEPT !.arg = r, !.held = h]
  <2>2. Launch(c) /\ busy' = busy /\ r \in All /\ h \in BOOLEAN
    BY <1>1, <1>9, <2>1 DEF DeleteRecipe
  <2> HIDE DEF h
  <2>3. \E a \in All, x \in BOOLEAN : c = [Call("recipeDelete", "dropRecipe") EXCEPT !.arg = a, !.held = x]
    BY <1>5, <2>2
  <2>4. pages' \in PageStates
    BY <1>1, <2>1 DEF PageStates
  <2>5. \A x : x.do = "recipeDelete" => RowsStart(x)
    BY <1>1, <1>5, <2>1 DEF RowsStart, PageStates
  <2> HIDE DEF c
  <2> QED
    BY <1>2, <1>5, <2>2, <2>3, <2>4, <2>5, RowStarts
<1>10. CASE CreateBuild
  <2>1. PICK r \in pages.recipes \ {pages.building} :
          /\ Launch([Call("buildCreate", "buildCreate") EXCEPT !.arg = r])
          /\ pages' = [pages EXCEPT !.building = r]
    BY <1>10 DEF CreateBuild
  <2> DEFINE c == [Call("buildCreate", "buildCreate") EXCEPT !.arg = r]
  <2>2. Launch(c) /\ busy' = busy /\ r \in All
    BY <1>1, <1>10, <2>1 DEF CreateBuild
  <2>3. \E a \in All : c = [Call("buildCreate", "buildCreate") EXCEPT !.arg = a]
    BY <1>5, <2>2
  <2>4. pages' \in PageStates
    BY <1>1, <2>1 DEF PageStates
  <2>5. \A x : x.do = "buildCreate" => RowsStart(x)
    BY <1>1, <1>5, <2>1 DEF RowsStart, PageStates
  <2> HIDE DEF c
  <2> QED
    BY <1>2, <1>5, <2>2, <2>3, <2>4, <2>5, RowStarts
<1>11. CASE PromoteBuild
  <2>1. PICK r \in Recipes \ {pages.promoting} :
          /\ Launch([Call("buildPromote", "buildPromote") EXCEPT !.arg = r])
          /\ pages' = [pages EXCEPT !.promoting = r]
    BY <1>11 DEF PromoteBuild
  <2> DEFINE c == [Call("buildPromote", "buildPromote") EXCEPT !.arg = r]
  <2>2. Launch(c) /\ busy' = busy /\ r \in All
    BY <1>1, <1>11, <2>1 DEF PromoteBuild
  <2>3. \E a \in All : c = [Call("buildPromote", "buildPromote") EXCEPT !.arg = a]
    BY <1>5, <2>2
  <2>4. pages' \in PageStates
    BY <1>1, <2>1 DEF PageStates
  <2>5. \A x : x.do = "buildPromote" => RowsStart(x)
    BY <1>1, <1>5, <2>1 DEF RowsStart, PageStates
  <2> HIDE DEF c
  <2> QED
    BY <1>2, <1>5, <2>2, <2>3, <2>4, <2>5, RowStarts
<1>12. CASE Reconcile
  <2>1. /\ Launch(Call("reconcile", "reconcile")) /\ busy' = busy \union {"reconcile"} /\ pages' = pages
    BY <1>5, <1>12 DEF Reconcile
  <2> QED
    BY <1>1, <1>2, <1>3, <1>4, <1>5, <2>1, RowStarts
<1>13. CASE CheckCompatibility
  <2>1. /\ Launch(Call("compat", "compat")) /\ busy' = busy \union {"compat"}
        /\ pages' = [pages EXCEPT !.compat = IF @ = "error" THEN "none" ELSE @]
    BY <1>5, <1>13 DEF CheckCompatibility
  <2>2. pages' \in PageStates /\ \A x : RowsStart(x)
    BY <1>1, <2>1 DEF PageStates, Lookups, RowsStart
  <2> QED
    BY <1>2, <1>3, <1>5, <2>1, <2>2, RowStarts
<1>14. CASE Diagnose
  <2>1. /\ Launch(Call("diagnose", "diagnose")) /\ busy' = busy \union {"diagnose"}
        /\ pages' = [pages EXCEPT !.diagnosis = "none"]
    BY <1>5, <1>14 DEF Diagnose
  <2>2. pages' \in PageStates /\ \A x : RowsStart(x)
    BY <1>1, <2>1 DEF PageStates, Diagnoses, RowsStart
  <2> QED
    BY <1>2, <1>3, <1>5, <2>1, <2>2, RowStarts
<1> QED
  BY <1>6, <1>7, <1>8, <1>9, <1>10, <1>11, <1>12, <1>13, <1>14

\* The edits: nothing leaves the page.
LEMMA EditsKeep ==
  ASSUME CInv,
         \/ SelectTask \/ ChangeMode \/ TypeRoute \/ ChooseInstallation \/ ToggleRepositories
         \/ FillCredential \/ EditPolicy \/ EditRecipe \/ CheckIncomplete
  PROVE  CInv'
<1>1. /\ ui \in UiStates /\ gh \in GitHubStates /\ oci \in OciStates /\ pages \in PageStates
      /\ busy \in SUBSET Flags /\ commands \in 0..MaxCommands /\ clean \in BOOLEAN
  BY ScreenTypes DEF CInv
<1>2. /\ Edit /\ busy' = busy
  BY DEF SelectTask, ChangeMode, TypeRoute, ChooseInstallation, ToggleRepositories,
         FillCredential, EditPolicy, EditRecipe, CheckIncomplete
<1>3. /\ srv' = srv /\ work' = work /\ mishaps' = mishaps
      /\ commands' \in 0..MaxCommands /\ clean' \in BOOLEAN
  BY <1>1, <1>2, ConsoleBounds DEF Edit, Command, Quiet
<1>4. ui' \in UiStates /\ ui'.refreshing = ui.refreshing /\ ui'.loading = ui.loading
  <2>1. CASE SelectTask
    <3>1. PICK t \in Tasks : ui' = [ui EXCEPT !.task = t]
      BY <2>1, TaskTypes DEF SelectTask
    <3> QED
      BY <1>1, <3>1 DEF UiStates
  <2>2. CASE ui' = ui
    BY <1>1, <2>2
  <2> QED
    BY <2>1, <2>2
       DEF ChangeMode, TypeRoute, ChooseInstallation, ToggleRepositories, FillCredential,
           EditPolicy, EditRecipe, CheckIncomplete
<1>5. gh' \in GitHubStates
  <2>1. gh.form \in Forms
    BY <1>1 DEF GitHubStates
  <2>2. CASE ChangeMode
    <3>1. PICK m \in Modes :
            gh' = [gh EXCEPT !.error = FALSE, !.mode = NormalMode(m, gh.form)]
      BY <2>2 DEF ChangeMode
    <3>2. NormalMode(m, gh.form) \in Modes
      BY ModeTypes
    <3> QED
      BY <1>1, <3>1, <3>2 DEF GitHubStates
  <2>3. CASE TypeRoute
    <3>1. PICK a \in Apps : gh' = [gh EXCEPT !.form.app = a, !.form.key = a, !.form.inst = TRUE]
      BY <2>3 DEF TypeRoute
    <3> QED
      BY <1>1, <2>1, <3>1 DEF GitHubStates, Forms
  <2>4. CASE ChooseInstallation \/ ToggleRepositories
    <3>1. [gh.form EXCEPT !.inst = TRUE] \in Forms /\ [gh.form EXCEPT !.repos = ~@] \in Forms
      BY <2>1 DEF Forms
    <3>2. \A f \in Forms : [gh EXCEPT !.form = f] \in GitHubStates
      BY <1>1 DEF GitHubStates
    <3>3. \/ gh' = [gh EXCEPT !.form = [gh.form EXCEPT !.inst = TRUE]]
          \/ gh' = [gh EXCEPT !.form = [gh.form EXCEPT !.repos = ~@]]
      BY <1>1, <2>4 DEF ChooseInstallation, ToggleRepositories, GitHubStates
    <3> QED
      BY <3>1, <3>2, <3>3
  <2>5. CASE gh' = gh
    BY <1>1, <2>5
  <2> QED
    BY <2>2, <2>3, <2>4, <2>5
       DEF SelectTask, FillCredential, EditPolicy, EditRecipe, CheckIncomplete
<1>6. oci' \in OciStates
  <2>1. CASE FillCredential
    BY <1>1, <2>1 DEF FillCredential, OciStates
  <2>2. CASE oci' = oci
    BY <1>1, <2>2
  <2> QED
    BY <2>1, <2>2
       DEF SelectTask, ChangeMode, TypeRoute, ChooseInstallation, ToggleRepositories,
           EditPolicy, EditRecipe, CheckIncomplete
<1>7. /\ pages' \in PageStates /\ pages'.reports = pages.reports
      /\ pages'.deleting = pages.deleting /\ pages'.building = pages.building
      /\ pages'.promoting = pages.promoting
  <2>1. CASE EditPolicy
    <3>1. PICK p \in pages.policies \union {Nobody} : pages' = [pages EXCEPT !.policy = p]
      BY <2>1 DEF EditPolicy
    <3> QED
      BY <1>1, <3>1 DEF PageStates
  <2>2. CASE EditRecipe
    <3>1. PICK r \in pages.recipes \union {Nobody} : pages' = [pages EXCEPT !.recipe = r]
      BY <2>2 DEF EditRecipe
    <3> QED
      BY <1>1, <3>1 DEF PageStates
  <2>3. CASE CheckIncomplete
    BY <1>1, <2>3 DEF CheckIncomplete, PageStates, Lookups
  <2>4. CASE pages' = pages
    BY <1>1, <2>4
  <2> QED
    BY <2>1, <2>2, <2>3, <2>4
       DEF SelectTask, ChangeMode, TypeRoute, ChooseInstallation, ToggleRepositories,
           FillCredential
<1>8. TypeOK'
  BY <1>1, <1>2, <1>3, <1>4, <1>5, <1>6, <1>7
     DEF CInv, TypeOK, UiStates, GitHubStates, OciStates, PageStates
<1>9. WorkInv' /\ DraftInv' /\ ExclInv' /\ PromoteInv'
  BY <1>2, <1>3 DEF CInv, WorkInv, DraftInv, ExclInv, PromoteInv
<1>10. SpinInv'
  BY <1>2, <1>3, <1>4, <1>7 DEF CInv, SpinInv
<1> QED
  BY <1>8, <1>9, <1>10 DEF CInv

\* The page of the task that the address names.
LEMMA SyncKeeps ==
  ASSUME CInv, SyncTask
  PROVE  CInv'
<1>1. ui \in UiStates
  BY ScreenTypes DEF CInv
<1>2. SyncedUi \in UiStates /\ SyncedUi.refreshing = ui.refreshing
      /\ SyncedUi.loading = ui.loading
  <2> DEFINE first == CurrentOrFirst(SetupFacts)
  <2>1. first \in Tasks /\ TaskOrder[1] \in Tasks
    BY TaskTypes
  <2> HIDE DEF first
  <2>2. SyncedUi = CASE ~NeedsSetup -> [ui EXCEPT !.ref = NoTask, !.task = TaskOrder[1]]
                     [] NeedsSetup /\ ui.ref # first -> [ui EXCEPT !.ref = first, !.task = first]
                     [] NeedsSetup /\ ui.ref = first /\ ui.task \notin EditableTasks(SetupFacts) ->
                          [ui EXCEPT !.task = first]
                     [] OTHER -> ui
    BY DEF SyncedUi, first
  <2>3. \/ SyncedUi = [ui EXCEPT !.ref = NoTask, !.task = TaskOrder[1]]
        \/ SyncedUi = [ui EXCEPT !.ref = first, !.task = first]
        \/ SyncedUi = [ui EXCEPT !.task = first]
        \/ SyncedUi = ui
    BY <2>2
  <2> QED
    BY <1>1, <2>1, <2>3 DEF UiStates
<1>3. /\ ui' = SyncedUi /\ srv' = srv /\ gh' = gh /\ oci' = oci /\ pages' = pages
      /\ busy' = busy /\ work' = work /\ commands' = commands /\ mishaps' = mishaps
      /\ clean' = clean
  BY DEF SyncTask
<1> HIDE DEF SyncedUi
<1>4. TypeOK'
  BY <1>2, <1>3 DEF CInv, TypeOK, UiStates
<1>5. WorkInv' /\ DraftInv' /\ ExclInv' /\ PromoteInv'
  BY <1>3 DEF CInv, WorkInv, DraftInv, ExclInv, PromoteInv
<1>6. SpinInv'
  BY <1>2, <1>3 DEF CInv, SpinInv
<1> QED
  BY <1>4, <1>5, <1>6 DEF CInv

\* The session ends on the service, or the hour of the App draft, behind the back of the page.
LEMMA ExpiryKeeps ==
  ASSUME CInv, SessionExpires \/ DraftExpires
  PROVE  CInv'
<1>1. srv \in Services /\ mishaps < MaxMishaps /\ mishaps' = mishaps + 1 /\ TypeOK
  BY DEF CInv, SessionExpires, DraftExpires, TypeOK
<1>2. /\ ui' = ui /\ gh' = gh /\ oci' = oci /\ pages' = pages /\ busy' = busy
      /\ work' = work /\ commands' = commands /\ clean' = FALSE
      /\ srv' = Ended(srv) \/ srv' = [srv EXCEPT !.draft = "none"]
  BY DEF SessionExpires, DraftExpires, screen
<1>3. /\ srv' \in Services /\ srv'.live = srv.live /\ srv'.staged = srv.staged
  BY <1>1, <1>2 DEF Ended, Services, Sessions, Drafts
<1>4. mishaps' \in 0..MaxMishaps
  BY <1>1, MishapCounts
<1>5. TypeOK'
  <2>1. ScreenOK'
    BY <1>1, <1>2, ScreenTypes DEF ScreenOK
  <2>2. work \in [Slots -> Calls] /\ commands \in 0..MaxCommands
    BY <1>1 DEF TypeOK
  <2> QED
    BY <1>2, <1>3, <1>4, <2>1, <2>2
       DEF TypeOK, ScreenOK, UiStates, GitHubStates, OciStates, PageStates
<1>6. WorkInv' /\ DraftInv' /\ ExclInv' /\ PromoteInv' /\ SpinInv'
  BY <1>2, <1>3 DEF CInv, WorkInv, DraftInv, ExclInv, PromoteInv, SpinInv
<1> QED
  BY <1>5, <1>6 DEF CInv

\* A page that loads starts over.
LEMMA LoadsKeep ==
  ASSUME NEW s \in Services, NEW m \in {"none", "created", "installed"}, PageLoads(s, m),
         commands' \in 0..MaxCommands, mishaps' \in 0..MaxMishaps, clean' \in BOOLEAN
  PROVE  CInv'
<1> DEFINE c == RefreshCall(s)
<1>1. c \in Calls /\ c.do = "refresh" /\ c.at = "session" /\ c.left = {}
  BY IdleCall DEF RefreshCall, Calls, Idle, Kinds, Reads
<1>2. /\ srv' = s /\ ui' = [FirstUi EXCEPT !.marker = m] /\ gh' = BlankGitHub
      /\ oci' = BlankOci /\ pages' = BlankPages /\ busy' = {}
      /\ work' = [j \in Slots |-> IF j = 1 THEN c ELSE Idle]
  BY DEF PageLoads
<1>3. 1 \in Slots
  BY ConsoleBounds DEF Slots
<1> HIDE DEF c
<1>4. CallOK(c) /\ InRefresh(c)
  BY <1>1 DEF CallOK, InRefresh, Writes
<1>5. /\ work' \in [Slots -> Calls] /\ work'[1] = c
      /\ \A j \in Slots : work'[j] = c \/ work'[j] = Idle
  BY <1>1, <1>2, <1>3, IdleCall
<1>6. /\ ui' \in UiStates /\ gh' \in GitHubStates /\ oci' \in OciStates
      /\ pages' \in PageStates /\ busy' \in SUBSET Flags
  BY <1>2, BlankTypes
<1>7. TypeOK'
  BY <1>2, <1>5, <1>6 DEF TypeOK, UiStates, GitHubStates, OciStates, PageStates
<1>8. WorkInv'
  BY <1>4, <1>5, IdleCall DEF WorkInv
<1>9. SpinInv'
  BY <1>2, <1>3, <1>4, <1>5 DEF SpinInv, BlankPages
<1>10. ExclInv' /\ PromoteInv' /\ DraftInv'
  BY <1>1, <1>2, <1>5, IdleCall
     DEF ExclInv, PromoteInv, DraftInv, GitHubKinds, CredentialKinds, RuntimeKinds
<1> QED
  BY <1>7, <1>8, <1>9, <1>10 DEF CInv

\* A command of the user, and a page that is opened.
LEMMA PagesKeep ==
  ASSUME CInv, OpenPage \/ \E j \in Slots : AppCreated(j)
  PROVE  CInv'
<1>1. /\ srv \in Services /\ work \in [Slots -> Calls] /\ commands \in 0..MaxCommands
      /\ mishaps \in 0..MaxMishaps /\ clean \in BOOLEAN
  BY DEF CInv, TypeOK
<1>2. CASE OpenPage
  <2>1. PICK s \in {srv} \union UNION {Effects(work[j], srv) : j \in WritesInFlight},
             m \in {"none", "installed"} : PageLoads(s, m)
    BY <1>2 DEF OpenPage
  <2>2. s \in Services
    BY <1>1, EffectTypes DEF WritesInFlight
  <2>3. commands' \in 0..MaxCommands /\ mishaps' \in 0..MaxMishaps /\ clean' \in BOOLEAN
    BY <1>1, <1>2, ConsoleBounds DEF OpenPage, Command
  <2> QED
    BY <2>1, <2>2, <2>3, LoadsKeep
<1>3. ASSUME NEW j \in Slots, AppCreated(j) PROVE CInv'
  <2>1. commands' \in 0..MaxCommands /\ mishaps' \in 0..MaxMishaps /\ clean' \in BOOLEAN
    BY <1>1, <1>3 DEF AppCreated, After
  <2>2. CASE PageLoads(srv, "none")
    BY <1>1, <2>1, <2>2, LoadsKeep
  <2>3. CASE \E d \in {"personal", "organization"} : PageLoads([srv EXCEPT !.draft = d], "created")
    <3>1. PICK d \in {"personal", "organization"} : PageLoads([srv EXCEPT !.draft = d], "created")
      BY <2>3
    <3>2. [srv EXCEPT !.draft = d] \in Services
      BY <1>1 DEF Services, Drafts
    <3> QED
      BY <2>1, <3>1, <3>2, LoadsKeep
  <2> QED
    BY <1>3, <2>2, <2>3 DEF AppCreated
<1> QED
  BY <1>2, <1>3

-----------------------------------------------------------------------------
(* The invariant                                                            *)

\* The page is loaded for the first time.
LEMMA FirstInv ==
  ASSUME Init
  PROVE  CInv
<1> DEFINE c == RefreshCall(srv)
<1>1. /\ srv \in Services /\ ui = FirstUi /\ gh = BlankGitHub /\ oci = BlankOci
      /\ pages = BlankPages /\ busy = {} /\ clean = TRUE
      /\ work = [j \in Slots |-> IF j = 1 THEN c ELSE Idle]
      /\ commands = 0 /\ mishaps = 0
  BY DEF Init, FirstLoad
<1>2. c \in Calls /\ c.do = "refresh" /\ c.at = "session" /\ c.left = {}
  BY <1>1, IdleCall DEF RefreshCall, Calls, Idle, Kinds, Reads
<1>3. 1 \in Slots
  BY ConsoleBounds DEF Slots
<1> HIDE DEF c
<1>4. CallOK(c) /\ InRefresh(c)
  BY <1>2 DEF CallOK, InRefresh, Writes
<1>5. /\ work \in [Slots -> Calls] /\ work[1] = c
      /\ \A j \in Slots : work[j] = c \/ work[j] = Idle
  BY <1>1, <1>2, <1>3, IdleCall
<1>6. TypeOK
  BY <1>1, <1>5, BlankTypes, ConsoleBounds, ScreenTypes
<1>7. WorkInv
  BY <1>4, <1>5, IdleCall DEF WorkInv
<1>8. SpinInv
  BY <1>1, <1>3, <1>4, <1>5 DEF SpinInv, BlankPages
<1>9. ExclInv /\ PromoteInv /\ DraftInv
  BY <1>1, <1>2, <1>5, IdleCall
     DEF ExclInv, PromoteInv, DraftInv, GitHubKinds, CredentialKinds, RuntimeKinds
<1> QED
  BY <1>6, <1>7, <1>8, <1>9 DEF CInv

\* Every step of the console keeps the invariant.
LEMMA StepsKeep ==
  ASSUME CInv, [Next]_vars
  PROVE  CInv'
<1>1. CASE SyncTask \/ SessionExpires \/ DraftExpires
  BY <1>1, SyncKeeps, ExpiryKeeps
<1>2. CASE Commands
  BY <1>2, SessionCommandsKeep, RefreshCommandsKeep, GitHubCommandsKeep, OciCommandsKeep,
     RowCommandsKeep, EditsKeep, PagesKeep
     DEF Commands
<1>3. CASE \E j \in Slots : HandlerStep(j)
  BY <1>3, HandlersKeep, PagesKeep
<1>4. CASE UNCHANGED vars
  <2>1. /\ srv' = srv /\ ui' = ui /\ gh' = gh /\ oci' = oci /\ pages' = pages /\ busy' = busy
        /\ work' = work /\ commands' = commands /\ mishaps' = mishaps /\ clean' = clean
    BY <1>4 DEF vars
  <2> QED
    BY <2>1 DEF CInv, TypeOK, WorkInv, SpinInv, ExclInv, PromoteInv, DraftInv
<1> QED
  BY <1>1, <1>2, <1>3, <1>4 DEF Next

-----------------------------------------------------------------------------
(* What follows from it                                                     *)

\* What the screen shows of the handlers, whatever is in flight.
LEMMA FlagsMirror ==
  ASSUME CInv
  PROVE  BusyMirrorsWork /\ NothingSpinsAlone
<1> USE DEF CInv
<1>1. ASSUME NEW G \in {GitHubKinds, CredentialKinds, RuntimeKinds}, NEW k \in G
      PROVE  FirmFlag(k) \in busy <=> OfKind({k}) # {}
  <2>1. ASSUME FirmFlag(k) \in busy PROVE \E j \in Slots : work[j].do = k
    <3>1. PICK j \in Slots : Held(FirmFlag(k), work[j])
      BY <2>1 DEF SpinInv
    <3> QED
      BY <3>1
         DEF Held, OwnFlags, FirmFlag, GitHubKinds, CredentialKinds, RuntimeKinds
  <2>2. ASSUME NEW j \in Slots, work[j].do = k PROVE FirmFlag(k) \in busy
    BY <2>2 DEF ExclInv
  <2> QED
    BY <2>1, <2>2 DEF OfKind
<1>2. ASSUME NEW G \in {GitHubKinds, CredentialKinds, RuntimeKinds}
      PROVE  Cardinality(OfKind(G)) <= 1
  <2>1. CASE OfKind(G) = {}
    BY <2>1, FS_EmptySet
  <2>2. CASE OfKind(G) # {}
    <3>1. PICK j \in Slots : work[j].do \in G
      BY <2>2 DEF OfKind
    <3>2. OfKind(G) = {j}
      BY <3>1 DEF OfKind, ExclInv
    <3> QED
      BY <3>2, FS_Singleton
  <2> QED
    BY <2>1, <2>2
<1>3. "promoting" \in busy =>
        OfKind({"save", "promote"}) # {} /\ OfKind({"verify", "clear"}) = {}
  BY DEF SpinInv, PromoteInv, Held, OwnFlags, OfKind
<1>4. BusyMirrorsWork
  <2>1. /\ FlagMirrors("verify", "verify") /\ FlagMirrors("saving", "save")
        /\ FlagMirrors("clear", "clear")
    <3>1. \A k \in GitHubKinds : FirmFlag(k) \in busy <=> OfKind({k}) # {}
      BY <1>1
    <3> QED
      BY <3>1 DEF FlagMirrors, GitHubKinds, FirmFlag
  <2>2. \A k \in CredentialKinds \union RuntimeKinds : FlagMirrors(k, k)
    <3>1. \A k \in CredentialKinds \union RuntimeKinds : FirmFlag(k) = k
      BY DEF CredentialKinds, RuntimeKinds, FirmFlag
    <3> QED
      BY <1>1, <3>1 DEF FlagMirrors
  <2>3. /\ Cardinality(OfKind({"verify", "save", "clear"})) <= 1
        /\ Cardinality(OfKind({"credentialTest", "credentialSave", "credentialClear"})) <= 1
        /\ Cardinality(OfKind({"runtimeSave", "runtimeClear"})) <= 1
    BY <1>2 DEF GitHubKinds, CredentialKinds, RuntimeKinds
  <2>4. \A k \in {"credentialTest", "credentialSave", "credentialClear", "runtimeSave",
                  "runtimeClear"} : FlagMirrors(k, k)
    BY <2>2 DEF CredentialKinds, RuntimeKinds
  <2> QED
    BY <1>3, <2>1, <2>3, <2>4 DEF BusyMirrorsWork
<1>5. NothingSpinsAlone
  <2> SUFFICES ASSUME Quiet
               PROVE  /\ busy = {} /\ ~ui.refreshing /\ ~ui.loading
                      /\ pages.reports # "loading"
                      /\ {pages.deleting, pages.building, pages.promoting} = {Nobody}
    BY DEF NothingSpinsAlone
  <2>1. \A j \in Slots : /\ work[j].do = "idle" /\ work[j].left = {} /\ ~InRefresh(work[j])
                         /\ \A f : ~Held(f, work[j])
    BY IdleCall DEF Quiet, InRefresh, Held, OwnFlags
  <2>2. busy = {} /\ ~(ui.refreshing \/ ui.loading) /\ pages.reports # "loading"
    BY <2>1 DEF SpinInv
  <2>3. pages.deleting = Nobody /\ pages.building = Nobody /\ pages.promoting = Nobody
    BY <2>1 DEF SpinInv
  <2> QED
    BY <2>2, <2>3
<1> QED
  BY <1>4, <1>5

\* A write of a handler that lets go of the App draft may do so.
LEMMA DraftOutlives ==
  ASSUME CInv, NEW j \in Slots, srv' \in Effects(work[j], srv), work[j].at \in Writes,
         srv.draft # "none", srv'.draft = "none"
  PROVE  \/ srv'.session = "none"
         \/ \E k \in Slots : work[k].do = "discard" /\ work[k].at = "dropDraft"
         \/ \E k \in Slots :
              /\ work[k].do = "save" /\ work[k].at = "dropDraft"
              /\ work[k].form.app \in srv.live \union {srv.staged.app}
<1>1. work[j] \in Calls /\ srv \in Services /\ CallOK(work[j])
  BY DEF CInv, TypeOK, WorkInv
<1>2. work[j].at = "dropDraft" \/ (work[j].at = "logout" /\ srv'.session = "none")
  BY <1>1, DraftGoes
<1>3. work[j].at = "dropDraft" => work[j].do \in {"save", "discard"}
  BY <1>1 DEF CallOK, Doers, Writes
<1> QED
  BY <1>2, <1>3 DEF CInv, DraftInv

\* The same for any step: an expiry of the session or of the draft, or one of those writes.
LEMMA DraftStep ==
  ASSUME CInv, [Next]_vars, srv.draft # "none", srv'.draft = "none"
  PROVE  \/ DraftExpires \/ srv'.session = "none"
         \/ \E k \in Slots : work[k].do = "discard" /\ work[k].at = "dropDraft"
         \/ \E k \in Slots :
              /\ work[k].do = "save" /\ work[k].at = "dropDraft"
              /\ work[k].form.app \in srv.live \union {srv.staged.app}
<1>1. srv' # srv
  OBVIOUS
<1>2. CASE SessionExpires \/ DraftExpires
  BY <1>2 DEF SessionExpires, Ended, CInv, TypeOK, Services
<1>3. CASE OpenPage
  <2>1. PICK j \in WritesInFlight : srv' \in Effects(work[j], srv)
    BY <1>1, <1>3 DEF OpenPage, PageLoads
  <2> QED
    BY <2>1, DraftOutlives DEF WritesInFlight
<1>4. ASSUME NEW j \in Slots, AppCreated(j) PROVE FALSE
  <2>1. \E d \in {"personal", "organization"} : srv' = [srv EXCEPT !.draft = d]
    BY <1>1, <1>4 DEF AppCreated, PageLoads
  <2> QED
    BY <2>1 DEF CInv, TypeOK, Services
<1>5. ASSUME NEW j \in Slots, HandlerStep(j), ~AppCreated(j)
      PROVE  work[j].at \in Writes /\ srv' \in Effects(work[j], srv)
  BY <1>1, <1>5, HandlersGo DEF CInv, Goes, ServiceMoves
<1>6. CASE SyncTask \/ UNCHANGED vars
  BY <1>1, <1>6 DEF SyncTask, vars
<1>7. CASE Commands /\ ~OpenPage
  <2>1. (\E c : Launch(c)) \/ Edit
    BY <1>7
       DEF Commands, Login, Logout, ChangePassword, Refresh, Cleanup, SelectTask, Verify, Save,
           Promote, ClearStaged, CreateApp, FindInstallation, DiscardDraft, ChangeMode,
           TypeRoute, ChooseInstallation, ToggleRepositories, FillCredential, UploadConfig,
           TestCredential, SaveCredential, ClearCredential, SaveRuntime, ClearRuntime,
           CredentialCall, RuntimeCall, EditPolicy, SavePolicy, DeletePolicy, EditRecipe,
           SaveRecipe, DeleteRecipe, CreateBuild, PromoteBuild, Reconcile, RefreshImages,
           TerminateRunner, CheckCompatibility, CheckIncomplete, Diagnose
  <2> QED
    BY <1>1, <2>1 DEF Launch, Edit
<1> QED
  BY <1>2, <1>3, <1>4, <1>5, <1>6, <1>7, DraftOutlives DEF Next

\* The invariant above holds at every step of the handlers of use-workspace-app.js,
\* however their awaits interleave and whichever of their calls fail.
THEOREM ConsoleInvariant == Spec => []CInv
<1>1. Init => CInv
  BY FirstInv
<1>2. CInv /\ [Next]_vars => CInv'
  BY StepsKeep
<1> QED
  BY <1>1, <1>2, PTL DEF Spec

\* Every field of the page, of the service and of the calls keeps its type.
THEOREM ConsoleTypes == Spec => []TypeOK
<1>1. CInv => TypeOK
  BY DEF CInv
<1> QED
  BY <1>1, ConsoleInvariant, PTL

\* A busy flag of the GitHub page, of the OCI credential or of the launch target is
\* up exactly while its handler runs, and no two of these run at once: setBusy in try and
\* finally, and the disabled buttons, around every await.  Promotion is the exception: its
\* flag is up only while a promotion or an activating save is out and no verification or
\* removal is, but resetSetupState takes it down under a promotion that is still out.
THEOREM BusyFlagsMirror == Spec => []BusyMirrorsWork
<1>1. CInv => BusyMirrorsWork
  BY FlagsMirror
<1> QED
  BY <1>1, ConsoleInvariant, PTL

\* When no call is out, no button spins, no list is loading and no row is being
\* deleted, built or promoted: every path of every handler, the resets of an ended
\* session included, takes down what the handler has put up.
THEOREM NothingIsLeftSpinning == Spec => []NothingSpinsAlone
<1>1. CInv => NothingSpinsAlone
  BY FlagsMirror
<1> QED
  BY <1>1, ConsoleInvariant, PTL

\* The App draft that the manifest flow has created goes with its hour or its session,
\* when it is discarded, or when a save drops it that has staged its App or has seen it
\* promoted: a save that fails before that leaves the draft where it was.
THEOREM DraftIsKept == Spec => DraftOutlivesFailures
<1>1. CInv /\ [Next]_vars =>
        [srv.draft # "none" /\ srv'.draft = "none" =>
           \/ DraftExpires \/ srv'.session = "none"
           \/ \E j \in Slots : work[j].do = "discard" /\ work[j].at = "dropDraft"
           \/ \E j \in Slots :
                /\ work[j].do = "save" /\ work[j].at = "dropDraft"
                /\ work[j].form.app \in srv.live \union {srv.staged.app}]_vars
  BY DraftStep
<1> QED
  BY <1>1, ConsoleInvariant, PTL DEF Spec, DraftOutlivesFailures

=============================================================================
