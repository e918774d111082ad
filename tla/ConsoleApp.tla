------------------------------- MODULE ConsoleApp -------------------------------
(***************************************************************************)
(* The pages of the web console: what each button needs to be enabled,     *)
(* what its handler sends and what it does with the answer; and the whole  *)
(* console as one specification.                                           *)
(***************************************************************************)
EXTENDS Console

Call(do, at) == [Idle EXCEPT !.do = do, !.at = at]
Reading(do, at, left) == [Call(do, at) EXCEPT !.left = left, !.sent = srv]

(***************************************************************************)
(* Session                                                                 *)
(***************************************************************************)
SignedOut == ui.session = "none" /\ ~ui.loading
SignedIn  == ui.session # "none" /\ ~ui.loading

Login ==
  /\ SignedOut
  /\ Launch(Call("login", "login"))
  /\ UNCHANGED screen

Logout ==
  /\ SignedIn
  /\ Launch(Call("logout", "logout"))
  /\ UNCHANGED screen

ChangePassword ==
  /\ OnTask("password")
  /\ "password" \notin busy
  /\ Launch(Call("password", "password"))
  /\ busy' = busy \union {"password"}
  /\ UNCHANGED <<ui, gh, oci, pages>>

(* The refresh button of the wizard and of the workspace. *)
Refresh ==
  /\ SignedIn /\ ~ui.refreshing
  /\ Launch(RefreshCall(srv))
  /\ ui' = [ui EXCEPT !.refreshing = TRUE]
  /\ UNCHANGED <<gh, oci, pages, busy>>

Cleanup ==
  /\ Workspace
  /\ Launch(Call("cleanup", "cleanup"))
  /\ UNCHANGED screen

(* Terminate, on any row of the runners listed. *)
TerminateRunner ==
  /\ Workspace /\ pages.loaded
  /\ Launch(Call("terminate", "terminate"))
  /\ UNCHANGED screen

(* The handlers that end with refreshAll: login, password, cleanup, terminate and the
   policy handlers.  Only a saved policy closes its editor. *)
Refreshing == {"login", "password", "cleanup", "terminate", "putPolicy", "dropPolicy"}

RefreshingAnswered(j) ==
  /\ work[j].at \in Refreshing /\ After(j, work[j].at)
  /\ Accepted(j, "session", {})
  /\ ui' = [ui EXCEPT !.refreshing = TRUE]
  /\ pages' = IF work[j].at = "putPolicy" THEN [pages EXCEPT !.policy = Nobody] ELSE pages
  /\ UNCHANGED <<gh, oci, busy>>

LogoutAnswered(j) ==
  /\ After(j, "logout")
  /\ \E s \in Effects(work[j], srv) : srv' = s
  /\ Returned(j)
  /\ ResetFor("none")
  /\ UNCHANGED <<mishaps, clean>>

SelectTask ==
  /\ Wizard
  /\ Edit
  /\ \E t \in EditableTasks(SetupFacts) \ {ui.task} : ui' = [ui EXCEPT !.task = t]
  /\ UNCHANGED <<gh, oci, pages, busy>>

(***************************************************************************)
(* The GitHub page: a task of the wizard, or a page of the workspace       *)
(***************************************************************************)
Connect      == OnTask("github-connect")
Repositories == OnTask("github-repositories")
SetupMode    == Connect \/ Repositories
Settings     == Workspace
Credentials  == Connect \/ Settings

(* A mutant of GitHubBusy: a save that is out is forgotten. *)
GitHubBusyButSaving == busy \intersect {"verify", "clear", "promoting"} # {}

SelectedMode == NormalMode(gh.mode, gh.form)
GitHubBusy   == busy \intersect {"verify", "saving", "clear", "promoting"} # {}
ManifestBusy == GitHubBusy \/ busy \intersect {"create", "discovering"} # {}

InstallationReady == gh.form.inst \/ gh.auto

VerifyShown ==
  Credentials /\ (SelectedMode = "existing" \/ (gh.draft # "none" /\ InstallationReady))

SaveEnabled ==
  \/ Connect /\ gh.tested
  \/ (Repositories \/ Settings) /\ gh.form.repos

(* Repositories can be chosen from a verification, the staged route or the only live one. *)
ChoicesShown ==
  /\ Repositories \/ (Settings /\ SelectedMode = "existing")
  /\ gh.tested \/ gh.staged # NoRoute \/ Cardinality(gh.live) = 1

Verify ==
  /\ VerifyShown /\ ~GitHubBusy
  /\ Launch([Call("verify", "verify") EXCEPT !.form = gh.form])
  /\ busy' = busy \union {"verify"}
  /\ gh' = [gh EXCEPT !.error = FALSE]
  /\ UNCHANGED <<ui, oci, pages>>

(* A mutant of Save: the App draft is dropped before the route is staged. *)
SaveDroppingFirst ==
  /\ SaveEnabled /\ ~GitHubBusy
  /\ Launch([Call("save", IF gh.draft # "none" THEN "dropDraft" ELSE "stage") EXCEPT
               !.form = gh.form, !.auto = SetupMode])
  /\ busy' = busy \union {"saving"}
  /\ gh' = [gh EXCEPT !.error = FALSE]
  /\ UNCHANGED <<ui, oci, pages>>

(* Save: in the wizard the staged route is activated at once. *)
Save ==
  /\ SaveEnabled /\ ~GitHubBusy
  /\ Launch([Call("save", "stage") EXCEPT
               !.form = gh.form, !.held = gh.draft # "none", !.auto = SetupMode])
  /\ busy' = busy \union {"saving"}
  /\ gh' = [gh EXCEPT !.error = FALSE]
  /\ UNCHANGED <<ui, oci, pages>>

(* Promote in the settings; Activate in the wizard, once an activation has failed. *)
Promote ==
  /\ ~GitHubBusy
  /\ \/ Settings /\ gh.staged.repos
     \/ SetupMode /\ gh.error
  /\ Launch([Call("promote", "promote") EXCEPT !.auto = SetupMode])
  /\ busy' = busy \union {"promoting"}
  /\ gh' = [gh EXCEPT !.error = @ /\ ~SetupMode]
  /\ UNCHANGED <<ui, oci, pages>>

ClearStaged ==
  /\ Settings /\ gh.staged # NoRoute /\ ~GitHubBusy
  /\ Launch(Call("clear", "unstage"))
  /\ busy' = busy \union {"clear"}
  /\ UNCHANGED <<ui, gh, oci, pages>>

CreateApp ==
  /\ Credentials /\ SelectedMode = "create" /\ gh.draft = "none" /\ ~ManifestBusy
  /\ Launch(Call("create", "startManifest"))
  /\ busy' = busy \union {"create"}
  /\ UNCHANGED <<ui, gh, oci, pages>>

FindInstallation ==
  /\ Credentials /\ SelectedMode = "create" /\ gh.draft # "none"
  /\ ~InstallationReady /\ gh.found # "many" /\ ~ManifestBusy
  /\ Launch(Call("discover", "discover"))
  /\ busy' = busy \union {"discovering"}
  /\ UNCHANGED <<ui, gh, oci, pages>>

DiscardDraft ==
  /\ Credentials /\ SelectedMode = "existing" /\ gh.draft # "none"
  /\ ~GitHubBusy /\ "draft" \notin busy
  /\ Launch(Call("discard", "dropDraft"))
  /\ busy' = busy \union {"draft"}
  /\ gh' = [gh EXCEPT !.error = FALSE, !.mode = "existing"]
  /\ UNCHANGED <<ui, oci, pages>>

(* handleGitHubConfigModeChange: no button is disabled for it. *)
ChangeMode ==
  /\ Credentials
  /\ Edit
  /\ \E m \in Modes \ {SelectedMode} :
       gh' = [gh EXCEPT !.error = FALSE, !.mode = NormalMode(m, gh.form)]
  /\ UNCHANGED <<ui, oci, pages, busy>>

(* The fields of the form; the installation picked from several. *)
TypeRoute ==
  /\ Credentials /\ SelectedMode = "existing"
  /\ Edit
  /\ \E a \in Apps :
       gh' = [gh EXCEPT !.form.app = a, !.form.key = a, !.form.inst = TRUE]
  /\ UNCHANGED <<ui, oci, pages, busy>>

ChooseInstallation ==
  /\ Credentials /\ SelectedMode = "create" /\ gh.draft # "none" /\ gh.found = "many"
  /\ ~gh.form.inst
  /\ Edit
  /\ gh' = [gh EXCEPT !.form.inst = TRUE]
  /\ UNCHANGED <<ui, oci, pages, busy>>

ToggleRepositories ==
  /\ ChoicesShown /\ ~GitHubBusy
  /\ Edit
  /\ gh' = [gh EXCEPT !.form.repos = ~@]
  /\ UNCHANGED <<ui, oci, pages, busy>>

(* The answers. *)
VerifyAnswered(j) ==
  /\ After(j, "verify")
  /\ Accepted(j, "settle", {"setup"})
  /\ gh' = [gh EXCEPT !.tested = TRUE, !.form = Tested(@, work[j].form)]
  /\ UNCHANGED <<ui, oci, pages, busy>>

(* The route is staged: the App draft it came from is dropped first; then it is
   activated, or the page is loaded again. *)
NextOfStage(call) == IF call.auto THEN "promote" ELSE "reload"
LoadsOfStage(call) == IF call.auto THEN {} ELSE {"config", "setup"}
FlagsOfStage(call) == IF call.auto THEN {"promoting"} ELSE {}

Staged(j) ==
  /\ After(j, "stage")
  /\ IF work[j].held THEN Accepted(j, "dropDraft", {})
     ELSE Accepted(j, NextOfStage(work[j]), LoadsOfStage(work[j]))
  /\ busy' = busy \union IF work[j].held THEN {"draft"} ELSE FlagsOfStage(work[j])
  /\ gh' = [gh EXCEPT !.tested = TRUE, !.error = @ /\ (work[j].held \/ ~work[j].auto)]
  /\ UNCHANGED <<ui, oci, pages>>

(* DELETE manifest/pending within a save; a failure is passed over. *)
DraftDropped(j) ==
  /\ work[j].do = "save" /\ After(j, "dropDraft")
  /\ \/ /\ Accepted(j, NextOfStage(work[j]), LoadsOfStage(work[j]))
        /\ gh' = [gh EXCEPT !.draft = "none", !.found = "none", !.auto = FALSE,
                            !.mode = SelectedMode, !.error = @ /\ ~work[j].auto]
        /\ busy' = (busy \ {"draft", "create", "discovering"}) \union FlagsOfStage(work[j])
     \/ /\ NotDone(j)
        /\ GoOn(j, NextOfStage(work[j]), LoadsOfStage(work[j]),
                IF work[j].auto THEN NoService ELSE srv')
        /\ gh' = [gh EXCEPT !.error = @ /\ ~work[j].auto]
        /\ busy' = (busy \ {"draft"}) \union FlagsOfStage(work[j])
  /\ UNCHANGED <<ui, oci, pages>>

RoutePromoted(j) ==
  /\ After(j, "promote")
  /\ Accepted(j, "reload", {"config", "setup"})
  /\ gh' = [gh EXCEPT !.tested = FALSE, !.error = @ /\ ~work[j].auto]
  /\ UNCHANGED <<ui, oci, pages, busy>>

(* A mutant of PromoteFailed: a refusal by the service is not handled. *)
PromoteLost(j) ==
  /\ After(j, "promote")
  /\ Lost(j)
  /\ GoOn(j, "denied", {"config", "setup"}, srv')
  /\ UNCHANGED screen

PromoteFailed(j) ==
  /\ After(j, "promote")
  /\ NotDone(j)
  /\ GoOn(j, "denied", {"config", "setup"}, srv')
  /\ UNCHANGED screen

(* After the reload, the wizard shows why. *)
Denied(j) ==
  /\ After(j, "denied") /\ work[j].left = {}
  /\ gh' = [gh EXCEPT !.error = @ \/ work[j].auto]
  /\ Returned(j)
  /\ busy' = busy \ FlagsOf(work[j])
  /\ UNCHANGED <<srv, ui, oci, pages, mishaps, clean>>

Unstaged(j) ==
  /\ After(j, "unstage")
  /\ Accepted(j, "settle", {"config", "setup"})
  /\ gh' = [gh EXCEPT !.tested = FALSE]
  /\ UNCHANGED <<ui, oci, pages, busy>>

Discarded(j) ==
  /\ work[j].do = "discard" /\ After(j, "dropDraft")
  /\ \E s \in Effects(work[j], srv) : srv' = s
  /\ Returned(j)
  /\ gh' = [gh EXCEPT !.draft = "none", !.found = "none", !.auto = FALSE, !.tested = FALSE,
                      !.form = WithoutCredentials(@), !.mode = "existing"]
  /\ busy' = busy \ {"draft", "create", "discovering"}
  /\ UNCHANGED <<ui, oci, pages, mishaps, clean>>

DiscardFailed(j) ==
  /\ work[j].do = "discard" /\ After(j, "dropDraft")
  /\ NotDone(j)
  /\ Returned(j)
  /\ busy' = busy \ {"draft"}
  /\ UNCHANGED <<ui, gh, oci, pages>>

(***************************************************************************)
(* The OCI page: the credential, and the save and clear of the launch      *)
(* target (its form and its catalogue are LaunchTarget)                    *)
(***************************************************************************)
OnCredential   == OnTask("oci-credential") \/ Workspace
OnRuntime      == OnTask("oci-runtime") \/ Workspace
CredentialBusy == busy \intersect {"credentialTest", "credentialSave", "credentialClear"} # {}
RuntimeBusy    == busy \intersect {"runtimeSave", "runtimeClear"} # {}

(* A private key is given, or a config pasted. *)
FillCredential ==
  /\ OnCredential
  /\ Edit
  /\ \/ ~oci.key /\ oci' = [oci EXCEPT !.key = TRUE]
     \/ ~oci.config /\ oci' = [oci EXCEPT !.config = TRUE]
  /\ UNCHANGED <<ui, gh, pages, busy>>

(* A config file is given: the service parses it, and the text is kept either way. *)
UploadConfig ==
  /\ OnCredential
  /\ Launch(Call("inspect", "inspect"))
  /\ busy' = busy \union {"inspect"}
  /\ UNCHANGED <<ui, gh, oci, pages>>

Inspected(j) ==
  /\ After(j, "inspect")
  /\ \/ srv' \in Effects(work[j], srv) /\ UNCHANGED <<mishaps, clean>>
     \/ NotDone(j)
  /\ oci' = [oci EXCEPT !.config = TRUE]
  /\ Returned(j)
  /\ busy' = busy \ {"inspect"}
  /\ UNCHANGED <<ui, gh, pages>>

CredentialCall(do) ==
  /\ ~CredentialBusy
  /\ Launch([Call(do, do) EXCEPT !.held = oci.config /\ oci.key])
  /\ busy' = busy \union {do}
  /\ UNCHANGED <<ui, gh, oci, pages>>

TestCredential  == OnCredential /\ CredentialCall("credentialTest")
SaveCredential  == OnCredential /\ CredentialCall("credentialSave")
ClearCredential == Workspace /\ CredentialCall("credentialClear")

RuntimeCall(do) ==
  /\ ~RuntimeBusy
  /\ Launch(Call(do, do))
  /\ busy' = busy \union {do}
  /\ UNCHANGED <<ui, gh, oci, pages>>

SaveRuntime  == OnRuntime /\ RuntimeCall("runtimeSave")
ClearRuntime == Workspace /\ RuntimeCall("runtimeClear")

CredentialTested(j) ==
  /\ After(j, "credentialTest")
  /\ Accepted(j, "settle", {"credential", "setup"})
  /\ UNCHANGED screen

CredentialSaved(j) ==
  /\ After(j, "credentialSave")
  /\ Accepted(j, "reload", {"credential", "setup"})
  /\ oci' = [oci EXCEPT !.config = FALSE, !.key = FALSE]
  /\ UNCHANGED <<ui, gh, pages, busy>>

CredentialCleared(j) ==
  /\ After(j, "credentialClear")
  /\ Accepted(j, "settle", {"setup", "runtime"})
  /\ oci' = [oci EXCEPT !.config = FALSE, !.key = FALSE, !.credential = FALSE]
  /\ UNCHANGED <<ui, gh, pages, busy>>

RuntimeSaved(j) ==
  /\ After(j, "runtimeSave")
  /\ Accepted(j, "reload", {"credential", "setup"})
  /\ oci' = [oci EXCEPT !.runtime = TRUE]
  /\ UNCHANGED <<ui, gh, pages, busy>>

RuntimeCleared(j) ==
  /\ After(j, "runtimeClear")
  /\ Accepted(j, "settle", {"credential", "setup"})
  /\ oci' = [oci EXCEPT !.runtime = FALSE]
  /\ UNCHANGED <<ui, gh, pages, busy>>

(***************************************************************************)
(* Policies and runner-image recipes                                       *)
(***************************************************************************)
EditPolicy ==
  /\ Workspace
  /\ Edit
  /\ \E p \in (pages.policies \union {Nobody}) \ {pages.policy} :
       pages' = [pages EXCEPT !.policy = p]
  /\ UNCHANGED <<ui, gh, oci, busy>>

(* Save policy: nothing disables it while a save is out. *)
SavePolicy ==
  /\ Workspace
  /\ Launch([Call("policySave", "putPolicy") EXCEPT !.arg = pages.policy])
  /\ UNCHANGED screen

DeletePolicy ==
  /\ Workspace
  /\ \E p \in pages.policies : Launch([Call("policyDelete", "dropPolicy") EXCEPT !.arg = p])
  /\ UNCHANGED screen

EditRecipe ==
  /\ Workspace
  /\ Edit
  /\ \E r \in (pages.recipes \union {Nobody}) \ {pages.recipe} :
       pages' = [pages EXCEPT !.recipe = r]
  /\ UNCHANGED <<ui, gh, oci, busy>>

SaveRecipe ==
  /\ Workspace /\ "recipeSave" \notin busy
  /\ Launch([Call("recipeSave", "putRecipe") EXCEPT !.arg = pages.recipe])
  /\ busy' = busy \union {"recipeSave"}
  /\ UNCHANGED <<ui, gh, oci, pages>>

(* Delete recipe: the handler remembers whether the editor was open on it. *)
DeleteRecipe ==
  /\ Workspace
  /\ \E r \in pages.recipes \ {pages.deleting} :
       /\ Launch([Call("recipeDelete", "dropRecipe") EXCEPT
                    !.arg = r, !.held = pages.recipe = r])
       /\ pages' = [pages EXCEPT !.deleting = r]
  /\ UNCHANGED <<ui, gh, oci, busy>>

RecipeSaved(j) ==
  /\ After(j, "putRecipe")
  /\ Accepted(j, "settle", {"images"})
  /\ pages' = [pages EXCEPT !.recipe = Nobody]
  /\ UNCHANGED <<ui, gh, oci, busy>>

(* A mutant of RecipeDropped: the editor stays open. *)
RecipeDroppedOnly(j) ==
  /\ After(j, "dropRecipe")
  /\ Accepted(j, "settle", {"images"})
  /\ UNCHANGED screen

RecipeDropped(j) ==
  /\ After(j, "dropRecipe")
  /\ Accepted(j, "settle", {"images"})
  /\ pages' = [pages EXCEPT !.recipe = IF work[j].held THEN Nobody ELSE @]
  /\ UNCHANGED <<ui, gh, oci, busy>>

(***************************************************************************)
(* Image builds                                                            *)
(***************************************************************************)
CreateBuild ==
  /\ Workspace
  /\ \E r \in pages.recipes \ {pages.building} :
       /\ Launch([Call("buildCreate", "buildCreate") EXCEPT !.arg = r])
       /\ pages' = [pages EXCEPT !.building = r]
  /\ UNCHANGED <<ui, gh, oci, busy>>

PromoteBuild ==
  /\ Workspace
  /\ \E r \in Recipes \ {pages.promoting} :
       /\ pages.builds[r] = "available"
       /\ Launch([Call("buildPromote", "buildPromote") EXCEPT !.arg = r])
       /\ pages' = [pages EXCEPT !.promoting = r]
  /\ UNCHANGED <<ui, gh, oci, busy>>

Reconcile ==
  /\ Workspace /\ "reconcile" \notin busy
  /\ Launch(Call("reconcile", "reconcile"))
  /\ busy' = busy \union {"reconcile"}
  /\ UNCHANGED <<ui, gh, oci, pages>>

RefreshImages ==
  /\ Workspace
  /\ Launch(Reading("imagesRefresh", "settle", {"images"}))
  /\ UNCHANGED screen

(* A promotion changes the launch target as well. *)
BuildPromoted(j) ==
  /\ After(j, "buildPromote")
  /\ Accepted(j, "settle", {"images", "credential", "runtime", "setup"})
  /\ UNCHANGED screen

BuildsChanged(j) ==
  /\ work[j].at \in {"buildCreate", "reconcile"} /\ After(j, work[j].at)
  /\ Accepted(j, "settle", {"images"})
  /\ UNCHANGED screen

(***************************************************************************)
(* Lookups                                                                 *)
(***************************************************************************)

(* Check compatibility: a form with a field missing is refused by the page. *)
CheckCompatibility ==
  /\ Workspace /\ "compat" \notin busy
  /\ Launch(Call("compat", "compat"))
  /\ busy' = busy \union {"compat"}
  /\ pages' = [pages EXCEPT !.compat = IF @ = "error" THEN "none" ELSE @]
  /\ UNCHANGED <<ui, gh, oci>>

CheckIncomplete ==
  /\ Workspace /\ "compat" \notin busy
  /\ Edit
  /\ pages' = [pages EXCEPT !.compat = "error"]
  /\ UNCHANGED <<ui, gh, oci, busy>>

(* The diagnostics of a job, unless they are already known. *)
Diagnose ==
  /\ Workspace /\ pages.loaded /\ pages.diagnosis # "shown"
  /\ Launch(Call("diagnose", "diagnose"))
  /\ busy' = busy \union {"diagnose"}
  /\ pages' = [pages EXCEPT !.diagnosis = "none"]
  /\ UNCHANGED <<ui, gh, oci>>

LookupAnswered(j) ==
  /\ work[j].at \in {"compat", "diagnose"} /\ After(j, work[j].at)
  /\ Effects(work[j], srv) # {}
  /\ Returned(j)
  /\ pages' = IF work[j].at = "compat" THEN [pages EXCEPT !.compat = "result"]
              ELSE [pages EXCEPT !.diagnosis = "shown"]
  /\ busy' = busy \ FlagsOf(work[j])
  /\ UNCHANGED <<srv, ui, gh, oci, mishaps, clean>>

(***************************************************************************)
(* Failures                                                                *)
(***************************************************************************)

(* A lookup that fails leaves its error, in the place of the last compatibility result. *)
LookupFailed(do) ==
  CASE do = "compat" -> [pages EXCEPT !.compat = "error"]
    [] do = "diagnose" -> [pages EXCEPT !.diagnosis = "error"]
    [] OTHER -> RowReleased(do)

(* Every other handler reports a failed write and returns. *)
WriteFailed(j) ==
  /\ work[j].at \in Writes \ {"dropDraft", "promote", "discover", "inspect"}
  /\ After(j, work[j].at)
  /\ NotDone(j)
  /\ Returned(j)
  /\ busy' = busy \ FlagsOf(work[j])
  /\ pages' = LookupFailed(work[j].do)
  /\ UNCHANGED <<ui, gh, oci>>

(* The session runs out on the service; the page is not told. *)
SessionExpires ==
  /\ srv.session # "none"
  /\ mishaps < MaxMishaps /\ mishaps' = mishaps + 1 /\ clean' = FALSE
  /\ srv' = Ended(srv)
  /\ UNCHANGED <<screen, work, commands>>

(* The hour of an App draft is over: the service finds it no more.  The page is not told,
   and goes on showing it until it loads it again. *)
DraftExpires ==
  /\ srv.draft # "none"
  /\ mishaps < MaxMishaps /\ mishaps' = mishaps + 1 /\ clean' = FALSE
  /\ srv' = [srv EXCEPT !.draft = "none"]
  /\ UNCHANGED <<screen, work, commands>>

(* The page is loaded: blank state, nothing in flight but its own refreshAll. *)
PageLoads(s, marker) ==
  /\ srv' = s
  /\ ui' = [FirstUi EXCEPT !.marker = marker]
  /\ gh' = BlankGitHub
  /\ oci' = BlankOci
  /\ pages' = BlankPages
  /\ busy' = {}
  /\ work' = [j \in Slots |-> IF j = 1 THEN RefreshCall(s) ELSE Idle]

(* F5, or the return from GitHub with the App installed.  A write in flight may have
   reached the service, or may still. *)
WritesInFlight == {j \in Slots : work[j].at \in Writes}
OpenPage ==
  /\ Command
  /\ \E s \in {srv} \union UNION {Effects(work[j], srv) : j \in WritesInFlight},
        m \in IF gh.draft # "none" /\ srv.draft # "none"
              THEN {"none", "installed"} ELSE {"none"} :
       PageLoads(s, m)
  /\ clean' = (WritesInFlight = {})
  /\ UNCHANGED mishaps

(* POST manifest/start is answered with a redirect: the page goes to GitHub and comes
   back with a new App draft, or without one. *)
AppCreated(j) ==
  /\ After(j, "startManifest")
  /\ Effects(work[j], srv) # {}
  /\ \/ \E d \in {"personal", "organization"} : PageLoads([srv EXCEPT !.draft = d], "created")
     \/ PageLoads(srv, "none")
  /\ clean' = (WritesInFlight = {j})
  /\ UNCHANGED mishaps

(***************************************************************************)
(* Specification                                                           *)
(***************************************************************************)
(* The page is open for the first time. *)
FirstLoad ==
  /\ srv \in Services
  /\ ui = FirstUi
  /\ gh = BlankGitHub
  /\ oci = BlankOci
  /\ pages = BlankPages
  /\ busy = {}
  /\ work = [j \in Slots |-> IF j = 1 THEN RefreshCall(srv) ELSE Idle]
  /\ clean = TRUE

Init == FirstLoad /\ commands = 0 /\ mishaps = 0

Commands ==
  \/ Login \/ Logout \/ ChangePassword \/ Refresh \/ Cleanup \/ SelectTask \/ OpenPage
  \/ Verify \/ Save \/ Promote \/ ClearStaged \/ CreateApp \/ FindInstallation
  \/ DiscardDraft \/ ChangeMode \/ TypeRoute \/ ChooseInstallation \/ ToggleRepositories
  \/ FillCredential \/ UploadConfig \/ TestCredential \/ SaveCredential \/ ClearCredential
  \/ SaveRuntime \/ ClearRuntime
  \/ EditPolicy \/ SavePolicy \/ DeletePolicy \/ EditRecipe \/ SaveRecipe \/ DeleteRecipe
  \/ CreateBuild \/ PromoteBuild \/ Reconcile \/ RefreshImages
  \/ TerminateRunner \/ CheckCompatibility \/ CheckIncomplete \/ Diagnose

HandlerStep(j) ==
  \/ RefreshSteps(j) \/ RefreshingAnswered(j) \/ LogoutAnswered(j)
  \/ VerifyAnswered(j) \/ Staged(j) \/ DraftDropped(j) \/ RoutePromoted(j)
  \/ PromoteFailed(j) \/ Denied(j) \/ Unstaged(j) \/ Discarded(j) \/ DiscardFailed(j)
  \/ AppCreated(j)
  \/ Inspected(j) \/ CredentialTested(j) \/ CredentialSaved(j) \/ CredentialCleared(j)
  \/ RuntimeSaved(j) \/ RuntimeCleared(j) \/ RecipeSaved(j) \/ RecipeDropped(j)
  \/ BuildPromoted(j) \/ BuildsChanged(j) \/ LookupAnswered(j)
  \/ WriteFailed(j)

Next == SyncTask \/ SessionExpires \/ DraftExpires \/ Commands \/ \E j \in Slots : HandlerStep(j)

Spec == Init /\ [][Next]_vars
=============================================================================
