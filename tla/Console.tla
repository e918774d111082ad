-------------------------------- MODULE Console --------------------------------
(***************************************************************************)
(* The web console: its session, the guided setup, the GitHub and OCI      *)
(* pages and the record editors (hooks/use-workspace-app.js and the views  *)
(* that call it).  Every handler is an async function whose awaits return  *)
(* in any order relative to the other handlers'; each is a call here that  *)
(* goes from await to await.  A GET is answered with what the service held *)
(* when the request left or holds when the answer is taken; a write takes  *)
(* effect when it is answered, or its answer is lost.                      *)
(***************************************************************************)
EXTENDS Naturals, FiniteSets, SetupFlow, ConsoleService

CONSTANTS
  MaxWork,        \* handlers in flight
  MaxCommands,    \* commands of the operator
  MaxMishaps      \* lost answers, expired sessions and drafts, overlapping handlers

ASSUME ConsoleBounds == MaxWork \in Nat \ {0} /\ MaxCommands \in Nat /\ MaxMishaps \in Nat

VARIABLES
  srv,        \* the service
  ui,         \* session, setup status, loading, refreshing, the active task and its ref
  gh,         \* the GitHub page: status, form, mode, result, draft, activation error
  oci,        \* the OCI page: statuses and credential form
  pages,      \* policies, recipes and builds as listed, their editors, what was looked up
  busy,       \* the busy flags that are set
  work,       \* the handlers in flight
  commands, mishaps,
  clean       \* no mishap since the last refresh that ran alone, no editor open

vars == <<srv, ui, gh, oci, pages, busy, work, commands, mishaps, clean>>
screen == <<ui, gh, oci, pages, busy>>

Slots == 1..MaxWork
Loads == {"config", "setup", "credential", "runtime", "images", "reports"}

Kinds ==
  {"idle", "loose", "refresh", "login", "logout", "password", "verify", "save", "promote",
   "clear", "discard", "create", "discover", "inspect", "credentialTest", "credentialSave",
   "credentialClear", "runtimeSave", "runtimeClear", "policySave", "policyDelete",
   "recipeSave", "recipeDelete", "cleanup", "terminate", "compat", "diagnose",
   "buildCreate", "buildPromote", "reconcile", "imagesRefresh"}
Writes ==
  {"login", "logout", "password", "verify", "stage", "promote", "unstage", "dropDraft",
   "startManifest", "discover", "inspect", "credentialTest", "credentialSave",
   "credentialClear", "runtimeSave", "runtimeClear", "putPolicy", "dropPolicy", "putRecipe",
   "dropRecipe", "cleanup", "terminate", "compat", "diagnose", "buildCreate",
   "buildPromote", "reconcile"}
Reads == {"session", "setup", "wizard", "batch", "gate", "pending", "reload", "settle", "denied"}
Flags == Kinds \union {"saving", "promoting", "draft", "discovering"}

(* What the lookups have left on their pages: a compatibility result, a job's
   diagnostics; and the reports (billing, guardrails, subnets). *)
Lookups   == {"none", "result", "error"}
Diagnoses == {"none", "shown", "error"}
Reports   == {"blank", "loading", "loaded"}

NoService ==
  [session |-> "none", changed |-> FALSE, staged |-> NoRoute, live |-> {}, draft |-> "none",
   credential |-> FALSE, runtime |-> FALSE, policies |-> {}, recipes |-> {},
   builds |-> [r \in Recipes |-> "none"]]

Calls ==
  [do : Kinds,                  \* the handler
   at : Writes \union Reads \union {"idle"},    \* the await it is at
   left : SUBSET Loads,         \* the loads of a Promise.all that have not returned
   sent : Services,             \* the service when the reads left
   form : Forms,                \* the form in the handler's closure
   arg : Policies \union Recipes \union {Nobody},
   held : BOOLEAN,              \* what else the closure holds: see each handler
   auto : BOOLEAN,              \* activate after staging; show an activation error
   done : BOOLEAN]              \* the setup status it read was complete
Idle ==
  [do |-> "idle", at |-> "idle", left |-> {}, sent |-> NoService, form |-> BlankForm,
   arg |-> Nobody, held |-> FALSE, auto |-> FALSE, done |-> FALSE]

(***************************************************************************)
(* Blank states                                                            *)
(***************************************************************************)
BlankGitHub ==
  [staged |-> NoRoute, live |-> {}, form |-> BlankForm, mode |-> "create", tested |-> FALSE,
   draft |-> "none", found |-> "none", auto |-> FALSE, error |-> FALSE]
BlankOci == [credential |-> FALSE, runtime |-> FALSE, config |-> FALSE, key |-> FALSE]
BlankPages ==
  [loaded |-> FALSE, policies |-> {}, policy |-> Nobody,
   recipes |-> {}, recipe |-> Nobody, deleting |-> Nobody,
   builds |-> [r \in Recipes |-> "none"], building |-> Nobody, promoting |-> Nobody,
   reports |-> "blank", compat |-> "none", diagnosis |-> "none"]
FirstUi ==
  [session |-> "none", setup |-> BlankSetup, loading |-> TRUE, refreshing |-> TRUE,
   task |-> TaskOrder[1], ref |-> NoTask, marker |-> "none"]

TypeOK ==
  /\ srv \in Services
  /\ ui \in [session : Sessions, setup : SetupStatuses, loading : BOOLEAN,
             refreshing : BOOLEAN, task : Tasks, ref : Tasks \union {NoTask},
             marker : {"none", "created", "installed"}]
  /\ gh \in [staged : Routes \union {NoRoute}, live : SUBSET Apps, form : Forms, mode : Modes,
             tested : BOOLEAN, draft : Drafts, found : Finds,
             auto : BOOLEAN, error : BOOLEAN]
  /\ oci \in [credential : BOOLEAN, runtime : BOOLEAN, config : BOOLEAN, key : BOOLEAN]
  /\ pages \in [loaded : BOOLEAN, policies : SUBSET Policies,
                policy : Policies \union {Nobody}, recipes : SUBSET Recipes,
                recipe : Recipes \union {Nobody}, deleting : Recipes \union {Nobody},
                builds : [Recipes -> Builds], building : Recipes \union {Nobody},
                promoting : Recipes \union {Nobody},
                reports : Reports, compat : Lookups, diagnosis : Diagnoses]
  /\ busy \in SUBSET Flags
  /\ work \in [Slots -> Calls]
  /\ commands \in 0..MaxCommands
  /\ mishaps \in 0..MaxMishaps
  /\ clean \in BOOLEAN

(***************************************************************************)
(* Resets                                                                  *)
(***************************************************************************)

(* resetWorkspaceData: everything listed and the recipe editor; the policy editor stays. *)
WithoutData(p) == [BlankPages EXCEPT !.policy = p.policy]
DataFlags == {"recipeSave", "reconcile", "compat", "diagnose"}

(* resetSetupState: setup, GitHub and OCI, and the flags it names. *)
SetupFlags == {"promoting", "inspect", "draft", "create", "discovering"}

(* A mutant of ResetFor: the forms of the OCI page are kept. *)
ResetForAllButOci(session) ==
  /\ ui' = [ui EXCEPT !.session = session, !.setup = BlankSetup, !.ref = NoTask]
  /\ gh' = BlankGitHub
  /\ oci' = oci
  /\ pages' = WithoutData(pages)
  /\ busy' = busy \ (SetupFlags \union DataFlags)

(* resetProtectedState, and the session it is reset for. *)
ResetFor(session) ==
  /\ ui' = [ui EXCEPT !.session = session, !.setup = BlankSetup, !.ref = NoTask]
  /\ gh' = BlankGitHub
  /\ oci' = BlankOci
  /\ pages' = WithoutData(pages)
  /\ busy' = busy \ (SetupFlags \union DataFlags)

(***************************************************************************)
(* The guided setup                                                        *)
(***************************************************************************)
NeedsSetup == ui.session # "none" /\ ~ui.setup.completed
Wizard     == NeedsSetup /\ ~ui.loading
Workspace  == ui.session # "none" /\ ui.setup.completed /\ ~ui.loading

SetupFacts ==
  [password |-> ui.session = "full", live |-> gh.live # {}, scope |-> gh.live # {},
   credential |-> oci.credential, bootstrap |-> ui.setup.bootstrap,
   runtime |-> oci.runtime \/ ui.setup.runtime]

(* The effect behind the active task: it follows the current task when that changes,
   and leaves a task that is no longer editable. *)
SyncedUi ==
  LET first == CurrentOrFirst(SetupFacts)
  IN  CASE ~NeedsSetup -> [ui EXCEPT !.ref = NoTask, !.task = TaskOrder[1]]
        [] NeedsSetup /\ ui.ref # first -> [ui EXCEPT !.ref = first, !.task = first]
        [] NeedsSetup /\ ui.ref = first /\ ui.task \notin EditableTasks(SetupFacts) ->
             [ui EXCEPT !.task = first]
        [] OTHER -> ui

Synced == ui = SyncedUi

SyncTask ==
  /\ ~Synced
  /\ ui' = SyncedUi
  /\ UNCHANGED <<srv, gh, oci, pages, busy, work, commands, mishaps, clean>>

OnTask(t) == Wizard /\ ui.task = t

(***************************************************************************)
(* Calls                                                                   *)
(***************************************************************************)
Quiet == \A j \in Slots : work[j] = Idle

(* React runs its effects before the next event is handled. *)
Command == commands < MaxCommands /\ Synced /\ commands' = commands + 1

(* A handler starts; one that starts while another is in flight overlaps with it. *)
Launch(call) ==
  /\ Command
  /\ \E j \in Slots :
       /\ work[j] = Idle
       /\ \A k \in 1..(j - 1) : work[k] # Idle
       /\ work' = [work EXCEPT ![j] = call]
  /\ mishaps' = IF Quiet THEN mishaps ELSE mishaps + 1
  /\ mishaps' <= MaxMishaps
  /\ clean' = (Quiet /\ (clean \/ (call.do = "refresh" /\ pages.recipe = Nobody)))
  /\ UNCHANGED srv

(* An edit on the page: no call leaves. *)
Edit ==
  /\ Command
  /\ clean' = (clean /\ Quiet)
  /\ UNCHANGED <<srv, work, mishaps>>

(* The await a handler goes on from. *)
After(j, at) == work[j].at = at /\ Synced /\ UNCHANGED commands

(* A call at its next await, its reads leaving from s; of its closure only what is read
   later is kept, and the route of a save while its App draft is dropped. *)
Going(call, at, left, s) ==
  [call EXCEPT !.at = at, !.left = left, !.sent = s, !.arg = Nobody, !.held = FALSE,
               !.form = IF at = "dropDraft" THEN @ ELSE BlankForm, !.done = FALSE]

GoOn(j, at, left, s) == work' = [work EXCEPT ![j] = Going(work[j], at, left, s)]

(* The service does what a write asks, and its handler goes on: with reads, with the
   next write, or with refreshAll. *)
Accepted(j, at, left) ==
  /\ \E s \in Effects(work[j], srv) :
       /\ srv' = s
       /\ GoOn(j, at, left, IF at \in Writes THEN NoService ELSE s)
  /\ UNCHANGED <<mishaps, clean>>

RefreshCall(s) == [Idle EXCEPT !.do = "refresh", !.at = "session", !.sent = s]

(* A mutant of FlagsOf: a save forgets that it has promoted as well. *)
OwnFlagOf(call) ==
  CASE call.do = "save" -> {"saving"}
    [] call.do = "promote" -> {"promoting"}
    [] OTHER -> {call.do}

(* The flags a handler's finally clears. *)
FlagsOf(call) ==
  CASE call.do = "save" -> IF call.auto THEN {"saving", "promoting"} ELSE {"saving"}
    [] call.do = "promote" -> {"promoting"}
    [] OTHER -> {call.do}

(* The handler returns; loads it no longer waits for come back on their own. *)
Loose(call) ==
  [Idle EXCEPT !.do = "loose", !.at = "settle", !.left = call.left, !.sent = call.sent]
Returned(j) ==
  work' = [work EXCEPT ![j] = IF @.left = {} THEN Idle ELSE Loose(@)]

(* Handlers of a row of the tables keep its id while they run, one id for all rows. *)
RowReleased(do) ==
  [pages EXCEPT !.deleting  = IF do = "recipeDelete" THEN Nobody ELSE @,
                !.building  = IF do = "buildCreate" THEN Nobody ELSE @,
                !.promoting = IF do = "buildPromote" THEN Nobody ELSE @]

Finish(j) ==
  /\ Returned(j)
  /\ busy' = busy \ FlagsOf(work[j])
  /\ UNCHANGED <<srv, ui, gh, oci, mishaps, clean>>
  /\ pages' = RowReleased(work[j].do)

(* A write fails.  The service refuses it, or a service behind it does; or the answer
   is lost, whether the write was done or not. *)
Unsure == {"login", "verify", "startManifest", "discover", "inspect", "credentialTest",
           "credentialSave", "terminate", "diagnose", "buildPromote"}
Refused(j) ==
  /\ work[j].at \in Writes
  /\ work[j].at \in Unsure \/ Effects(work[j], srv) = {}
  /\ UNCHANGED <<srv, mishaps, clean>>
Lost(j) ==
  /\ work[j].at \in Writes
  /\ mishaps < MaxMishaps
  /\ mishaps' = mishaps + 1
  /\ clean' = FALSE
  /\ srv' \in Effects(work[j], srv) \union {srv}
NotDone(j) == Refused(j) \/ Lost(j)

(***************************************************************************)
(* Reads                                                                   *)
(***************************************************************************)

(* What a protected GET brings: 401 without a full session. *)
Got(s) == IF s.session = "full" THEN s ELSE NoService

(* The answer of a GET: from the service as it was when the request left or as it is
   now, or none. *)
Answer(j, s) ==
  \/ s \in {Got(work[j].sent), Got(srv)} /\ UNCHANGED <<mishaps, clean>>
  \/ s = NoService /\ mishaps < MaxMishaps /\ mishaps' = mishaps + 1 /\ clean' = FALSE

ShowConfig(s) ==
  gh' = [gh EXCEPT !.staged = s.staged, !.live = s.live, !.form = FormOf(s.staged, s.live),
                   !.mode = NormalMode(gh.mode, FormOf(s.staged, s.live))]

(* GET runner-images: what is listed stays when there is no answer. *)
ShowImages(s) ==
  IF s = NoService THEN pages
  ELSE [pages EXCEPT !.recipes = s.recipes, !.builds = s.builds]

ShowLoad(l, s) ==
  /\ IF l = "config" THEN ShowConfig(s) ELSE UNCHANGED gh
  /\ ui' = IF l = "setup" THEN [ui EXCEPT !.setup = SetupOf(s)] ELSE ui
  /\ oci' = CASE l = "credential" -> [oci EXCEPT !.credential = s.credential]
              [] l = "runtime" -> [oci EXCEPT !.runtime = s.runtime]
              [] OTHER -> oci
  /\ pages' = CASE l = "images" -> ShowImages(s)
                [] l = "reports" -> [pages EXCEPT !.reports = "loaded"]
                [] OTHER -> pages

(* One load of a Promise.all returns. *)
LoadAnswered(j) ==
  /\ work[j].left # {}
  /\ After(j, work[j].at)
  /\ \E l \in work[j].left, s \in {Got(work[j].sent), Got(srv), NoService} :
       /\ Answer(j, s)
       /\ ShowLoad(l, s)
       /\ work' = [work EXCEPT ![j].left = @ \ {l},
                               ![j].done = IF l = "setup" THEN Ready(s) ELSE @,
                               ![j].sent = IF work[j].left = {l} /\ work[j].at # "batch"
                                           THEN NoService ELSE @]
  /\ UNCHANGED <<srv, busy>>

(* All loads of a handler that ends with them have returned. *)
Settled(j) ==
  /\ work[j].left = {} /\ After(j, "settle")
  /\ Finish(j)

(* All loads have returned: a handler that refreshes a configured workspace goes on. *)
StartRefresh(j, s) ==
  /\ GoOn(j, "session", {}, s)
  /\ ui' = [ui EXCEPT !.refreshing = TRUE]

(* A mutant of Reloaded: completing the setup refreshes nothing. *)
ReloadedOnly(j) ==
  /\ work[j].left = {} /\ After(j, "reload")
  /\ Finish(j)

Reloaded(j) ==
  /\ work[j].left = {} /\ After(j, "reload")
  /\ IF work[j].done
     THEN /\ StartRefresh(j, srv)
          /\ UNCHANGED <<srv, gh, oci, pages, busy, mishaps, clean>>
     ELSE Finish(j)

(***************************************************************************)
(* refreshAll                                                              *)
(***************************************************************************)

(* Its finally: the spinners end, and so does the handler that called it. *)
EndRefresh(j, screenUi) ==
  /\ ui' = [screenUi EXCEPT !.loading = FALSE, !.refreshing = FALSE]
  /\ Returned(j)

RefreshStopped(j) ==
  /\ EndRefresh(j, ui)
  /\ busy' = busy \ FlagsOf(work[j])
  /\ UNCHANGED <<gh, oci, pages>>

(* resetProtectedState for a session that sees nothing, then the finally. *)
RefreshGated(j, session) ==
  /\ ui' = [ui EXCEPT !.session = session, !.setup = BlankSetup, !.ref = NoTask,
                      !.loading = FALSE, !.refreshing = FALSE]
  /\ gh' = BlankGitHub
  /\ oci' = BlankOci
  /\ pages' = WithoutData(pages)
  /\ busy' = busy \ (SetupFlags \union DataFlags \union FlagsOf(work[j]))
  /\ Returned(j)

(* GET auth/session returns; only a full session reads on. *)
SessionAnswered(j) ==
  /\ After(j, "session")
  /\ \E s \in {work[j].sent, srv} :
       IF s.session = "full"
       THEN /\ ui' = [ui EXCEPT !.session = "full"]
            /\ GoOn(j, "setup", {}, srv)
            /\ UNCHANGED <<gh, oci, pages, busy>>
       ELSE RefreshGated(j, s.session)
  /\ UNCHANGED <<srv, mishaps, clean>>

SessionLost(j) ==
  /\ After(j, "session")
  /\ mishaps < MaxMishaps /\ mishaps' = mishaps + 1 /\ clean' = FALSE
  /\ RefreshStopped(j)
  /\ UNCHANGED srv

(* GET setup/status returns: the loads of the wizard leave, or those of the workspace. *)
SetupAnswered(j) ==
  /\ After(j, "setup")
  /\ \E s \in {Got(work[j].sent), Got(srv), NoService} :
       /\ Answer(j, s)
       /\ ui' = [ui EXCEPT !.setup = SetupOf(s)]
       /\ IF Ready(s)
          THEN /\ GoOn(j, "batch", {"config", "credential", "runtime", "images", "reports"}, srv)
               /\ pages' = [pages EXCEPT !.reports = "loading"]
               /\ UNCHANGED busy
          ELSE /\ GoOn(j, "wizard", {"config", "credential", "runtime"}, srv)
               /\ pages' = WithoutData(pages)
               /\ busy' = busy \ DataFlags
  /\ UNCHANGED <<srv, gh, oci>>

(* The GET of the App draft leaves. *)
AskDraft(j) ==
  /\ GoOn(j, "pending", {}, srv)
  /\ busy' = busy \union {"draft"}

WizardLoaded(j) ==
  /\ work[j].left = {} /\ After(j, "wizard")
  /\ AskDraft(j)
  /\ UNCHANGED <<srv, ui, gh, oci, pages, mishaps, clean>>

(* Policies, runners, jobs and events; of these the model keeps the policies. *)
ShowWorkspace(s) == [pages EXCEPT !.loaded = TRUE, !.policies = s.policies]

(* All of the workspace has returned. *)
BatchLoaded(j) ==
  /\ work[j].left = {} /\ After(j, "batch")
  /\ \E s \in {work[j].sent, srv} :
       /\ s.session = "full" /\ Ready(s)
       /\ pages' = ShowWorkspace(s)
  /\ AskDraft(j)
  /\ UNCHANGED <<srv, ui, gh, oci, mishaps, clean>>

(* One of those four calls is refused, whatever is still out: the session is asked for
   again. *)
BatchRefused(j) ==
  /\ After(j, "batch")
  /\ \E s \in {work[j].sent, srv} : ~(s.session = "full" /\ Ready(s))
  /\ work' = [work EXCEPT ![j].at = "gate"]
  /\ UNCHANGED <<srv, ui, gh, oci, pages, busy, mishaps, clean>>

(* One of them fails otherwise: refreshAll gives up, with the session it was told of. *)
BatchLost(j) ==
  /\ After(j, "batch")
  /\ mishaps < MaxMishaps /\ mishaps' = mishaps + 1 /\ clean' = FALSE
  /\ EndRefresh(j, [ui EXCEPT !.session = "full"])
  /\ busy' = busy \ FlagsOf(work[j])
  /\ UNCHANGED <<srv, gh, oci, pages>>

(* GET auth/session after a refusal, or no answer to it. *)
GateAnswered(j) ==
  /\ After(j, "gate")
  /\ \/ RefreshGated(j, srv.session) /\ UNCHANGED <<mishaps, clean>>
     \/ /\ mishaps < MaxMishaps /\ mishaps' = mishaps + 1 /\ clean' = FALSE
        /\ RefreshGated(j, "none")
  /\ UNCHANGED srv

(* The App draft arrives: it is merged into the form, with the installation GitHub has
   just returned with, and its installation is looked for. *)
DraftAnswered(j) ==
  /\ After(j, "pending")
  /\ \E s \in {Got(work[j].sent), Got(srv), NoService} :
       LET back  == ui.marker = "installed"
           found == [gh EXCEPT !.draft = s.draft, !.found = "none",
                               !.auto = back /\ s # NoService]
       IN  /\ Answer(j, s)
           /\ gh' = CASE s.draft # "none" ->
                           [found EXCEPT !.form = MergedDraft(gh.form, back),
                                         !.mode = NormalMode(gh.mode, BlankForm)]
                      [] s = NoService -> [found EXCEPT !.mode = NormalMode(gh.mode, gh.form)]
                      [] OTHER -> found
           /\ IF s.draft = "personal" \/ (s.draft # "none" /\ back)
              THEN /\ GoOn(j, "discover", {}, NoService)
                   /\ busy' = (busy \ {"draft"}) \union {"discovering"}
                   /\ UNCHANGED ui
              ELSE /\ EndRefresh(j, [ui EXCEPT !.marker = "none"])
                   /\ busy' = busy \ ({"draft"} \union FlagsOf(work[j]))
  /\ UNCHANGED <<srv, oci, pages>>

(* POST installations/discover returns, to refreshAll or to the button. *)
Discovered(j) ==
  /\ busy' = busy \ ({"discovering"} \union FlagsOf(work[j]))
  /\ IF work[j].do = "discover"
     THEN Returned(j) /\ UNCHANGED ui
     ELSE EndRefresh(j, [ui EXCEPT !.marker = "none"])
  /\ UNCHANGED <<oci, pages>>

DiscoverAnswered(j) ==
  /\ After(j, "discover")
  /\ Effects(work[j], srv) # {}
  /\ \E f \in Finds :
       gh' = [gh EXCEPT !.found = f, !.auto = @ \/ f = "one", !.form = Looked(@, f)]
  /\ Discovered(j)
  /\ UNCHANGED <<srv, mishaps, clean>>

DiscoverFailed(j) ==
  /\ After(j, "discover")
  /\ NotDone(j)
  /\ gh' = [gh EXCEPT !.found = "none"]
  /\ Discovered(j)

RefreshSteps(j) ==
  \/ SessionAnswered(j) \/ SessionLost(j) \/ SetupAnswered(j)
  \/ WizardLoaded(j) \/ BatchLoaded(j) \/ BatchRefused(j) \/ BatchLost(j)
  \/ GateAnswered(j) \/ DraftAnswered(j) \/ DiscoverAnswered(j) \/ DiscoverFailed(j)
  \/ LoadAnswered(j) \/ Settled(j) \/ Reloaded(j)
=============================================================================
