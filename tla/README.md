# ohoci in TLA+

ohoci gives GitHub Actions self-hosted runners on Oracle Cloud (OCI). A webhook
tells it that a job is queued; it matches the job's labels with a policy, launches
an instance whose agent registers with GitHub for one job, and removes row and
instance when the job is over. One Go process serves the HTTP endpoints and runs a
few loops; everything shared lives in one SQL database, in OCI and in GitHub. No
lock and no transaction spans two statements of the code modelled here, so the
system is as correct as its individual statements are under any interleaving. In
front of it runs a web console, one React page with a single large hook of
asynchronous handlers: what it shows and what it lets the operator send is as correct
as these handlers are under any order of their answers. Three parts are modelled here: the
*fleet*, which launches and removes runners; the *image bake*, which builds the images
they boot from; and the *console*, which sets the service up and edits what the fleet
works with.

All paths below are relative to `src/internal/` of the repository unless they start
with `src/`; paths of the console are relative to `src/web/src/`.

## Inventory

| Component | State it keeps | Operations | Talks to | What is hard |
|---|---|---|---|---|
| Webhook intake (`httpapi/router.go`, `httpapi/workflow.go`) | tables `events`, `jobs`; `runners.status`, `warm_state`, `job_id` | a delivery of action queued, in_progress or completed | admission, launch, cleanup (called in the request) | redelivery, reordering, concurrent requests, failure after the delivery id was recorded |
| Admission (`admission`, `policy`) | none | `Evaluate` | runners, policies, setup, budget | a count that is stale by the time it is used |
| Launch (`runnerlaunch`) | a new row of `runners` | `Launch` | GitHub token, OCI | a machine exists before its row does |
| Warm pool (`warmpool`) | warm rows of `runners` | a pass every 15 s | GitHub, OCI, launch | decisions on rows listed earlier |
| Cleanup (`cleanup`) | `runners.status`, `terminated_at` | a pass: ticker, endpoint, every completed job | GitHub, OCI | passes run at once, on snapshots; failures in the middle |
| Administration (`httpapi/router.go`) | `runners.status` | terminate a runner, run a cleanup | OCI, cleanup | unconditional writes |
| OCI and the agent (`oci`) | instances | launch, get, terminate; power-off, preemption | GitHub | asynchronous, and it goes its own way |
| Runner images (`runnerimages`) | `runner_image_builds`, recipes, runtime settings | create, promote, a pass every 5 s | OCI | overlapping passes over one build |
| Cache compatibility (`cachecompat`) | reservations in memory, `cache_entries`, objects | reserve, upload, commit, restore | OCI object storage | restart, late chunks |
| GitHub routes (`githubapp`) | `github_configs`, installation statuses | save, stage, promote, clear, resolve, reconcile | GitHub | a stale discovery written over a newer webhook |
| Manifest flow (`githubapp/manifest.go`) | pending manifests | start, complete, return | GitHub | a browser that comes back late, or twice |
| Authentication (`auth`, `session`, `store/auth.go`) | users, sessions, login attempts | login, change password, logout, collect | - | lockout counters read and written back |
| Ingress controls (`httpapi/security.go`, `store/http_rate_limits.go`) | `http_rate_limits` | allow | - | window boundaries, concurrent counts |
| Billing and budget (`ocibilling`) | policy snapshots | refresh, evaluate | OCI usage | a stale or missing snapshot |
| Setup, policies, runtime settings | single rows, `policies` | edit | - | sequential |
| OCI credentials, diagnostics, catalog, configuration | - | - | - | no protocol of their own |
| Console: session and refresh (`hooks/use-workspace-app.js`, `App.jsx`) | session, setup status, loading flags | sign in and out, `refreshAll` | every endpoint | a refresh of seven awaits beside any other handler; expiry; reload of the page |
| Console: guided setup (`lib/setup-flow.js`, `views/setup-*.jsx`) | the active task | select, follow the current task | GitHub and OCI pages | a derived task order against an effect that follows it |
| Console: GitHub pages (`views/github-config-view.jsx`) | form, result, App draft, activation error | verify, save, promote, clear, create and discard an App | service, GitHub (redirect) | chains of writes of which any may fail; the draft's key exists once |
| Console: launch target (`views/oci-auth-view.jsx`) | form, catalogue and its request number | edit, refresh, save, clear | service | answers out of order, deferred values, transitions, effects |
| Console: policy editor (`views/policies-view.jsx`) | form, a second catalogue | edit, save | service | a catalogue of the launch target that has just changed |
| Console: credential, images, runners, jobs (`views/*.jsx`) | lists, editors, row ids, lookups | save, delete, build, promote, terminate, look up | service | what each handler forgets to load again |
| Console: overview, events, docs, layout, i18n | - | display | - | nothing of their own |

`PROJECT.json` lists the same parts with their status, and the main hazards of the code,
each at its line, with the properties that watch it.

What makes the parts correct, in short: at most one machine per job; every machine
on the books until it is down; every row closed in the end; a policy's limit passed
by a bounded amount at most; one warm runner per target, never put back once handed
out; nothing terminated without a reason. For the image bake: a row that claims no more than
its machine and image have reached, an image only from commands that passed, and every
build finished. For the console: what is on the screen when
it is at rest is what the service holds; what an enabled button sends is accepted;
answers to older questions are never shown; nothing spins for ever; a sign-out leaves
nothing behind; the only copy of a key outlives a failed save. For the parts not
modelled yet: no cache entry without its object; a route that resolves to one configuration; a lockout after the configured failures; a rate
limit that holds per window.

## Modules

| Module | What it is |
|---|---|
| `Fleet` | The system: intake, admission, launch, warm pool, cleanup and administration as concurrent processes over the store, with OCI, GitHub and the agents as environment. |
| `FleetProperties` | What is claimed of it; the fairness of its loops. |
| `MachineLedger` | The abstract specification of a machine's life: launched, tracked, retired once it has stopped working, lost only to a fault. |
| `MCFleet` | Small instances for TLC. |
| `FleetProofs` | Type correctness and the invariant it needs, proved for all constants. |
| `FleetSafetyProofs` | Rows, machines, capacity and warm targets, proved for all constants. |
| `FleetLedgerProofs` | Orphans and faults, and the refinement of `MachineLedger`, proved for all constants. |
| `FleetRowProofs` | One machine per job, and what goroutines have read stays true until they act on it: terminations for cause, runners handed out for good; proved for all constants. |
| `ImageBake` | Builds, recipes and the runtime settings; passes, promotions and edits as concurrent processes, with OCI and the bake script as environment. |
| `ImageBakeProperties`, `MCImageBake` | What is claimed of it, the fairness of its passes, and small instances for TLC. |
| `VerifiedImages` | The abstract specification of the images: captured only from machines that passed, the default only once ready. |
| `ImageBakeProofs` | The invariant of overlapping passes, every safety property and the refinement of `VerifiedImages`, proved for all constants. |
| `CatalogLoader` | `loadOCICatalog` and its request counter: calls in flight, the state on the screen and the one queued behind it. Used twice, as the page does. |
| `NewestAnswer` | The abstract specification of such a loader: blank, waiting for the newest question, or showing its answer. |
| `LaunchTarget` | The launch-target form, its validation, the effect and the deferred value that drive its loader, and its calls. |
| `PolicyEditor` | The policy editor beside it, with the second loader; composes the two pages. |
| `LaunchTargetProperties`, `MCLaunchTarget` | What is claimed of them, and the instance for TLC. |
| `LaunchTargetProofs` | The invariant of both pages and the refinement, proved for all constants. |
| `SetupFlow` | The guided setup's tasks as operators (`lib/setup-flow.js`). |
| `GitHubForms` | The GitHub form, the draft, and the pure operations on them (`lib/workspace-forms.js`). |
| `ConsoleService` | What the console's calls do to the service. |
| `Console` | The handlers in flight, the screen, the resets, `refreshAll`. |
| `ConsoleApp` | Every page's buttons and what their handlers do with the answers; the whole console. |
| `ConsoleProperties`, `MCConsole` | What is claimed of it, and the services it is opened on. |
| `ConsoleProofs` | The invariant of the handlers in flight: types, flags, spinners and the App draft, proved for all constants. |
| `ConsoleScreenProofs` | What the screen shows of the service while handlers run one at a time, proved for all constants. |

### How `Fleet` corresponds to the code

A process of the model is a goroutine of the program: `Handlers` are HTTP requests of
webhooks, `Operators` requests of an administrator, `CleanupLoop` and `WarmLoop` the
two tickers (`app/app.go:149-153`). `proc[p].pc` is where it is, and the rest of
`proc[p]` its local variables: the delivery, the admission verdict, the row it has
read (`cur`, a snapshot of id, status and GitHub id), the instance it has launched,
the candidates left in its pass. One step is one statement on the database or one
call to OCI or GitHub.

| Code | Actions |
|---|---|
| webhook endpoint, `CreateEventDelivery` | `Receive` |
| `processWorkflowJob`, queued | `AdmissionBlocks`, `FindWarmIdleRunner`, `CountActiveRunners`, `RecordQueuedJob`, `ReserveState`, `ReserveStatus` |
| `processWorkflowJob`, in_progress and completed; `syncWorkflowJobRunner` | `RecordJobProgress`, `ConsumeWarm`, `SyncRunnerStatus` |
| repository not allowed | `RepositoryNotAllowed` |
| `runnerlaunch.Launch` | `LaunchInstance`, `LaunchFails`, `CreateRunner`, `CreateRunnerFails` |
| `cleanup.RunOnce` | `ListCleanupCandidates`, `TakeCandidate`, `FindInstanceEnded`, `CloseRunner`, `TerminateRunner`, `TerminateFails`, `MarkTerminating`, `RowWriteFails`, `SweepFails`, `EndSweep` |
| `/api/v1/runners/{id}/terminate` | `AdminTerminate`, `AdminTerminateInstance`, `AdminMark` |
| `warmpool.RunOnce` | `ListWarming`, `ProbeWarming`, `SetWarmStatus`, `SetWarmIdle`, `FindActiveWarmRunner`, `CountForWarmTarget` |
| cloud-init, the agent, OCI | `AgentRegisters`, `InstancePowersOff`, `TerminationCompletes`, `InstancePreempted` |
| GitHub | `JobStarts`, `JobEnds`, and redelivery and reordering in `Receive` |
| an error returned, a client gone (`r.Context()`), a crash | `Abort` |

What is abstracted:

- A GitHub runner id is the id of the instance that hosts the agent.
- Time: `expired` is `expires_at <= now`, and any open row may expire at any moment.
- `UpsertJob`, its lookup included, shares a step with the read before or after it.
  The fleet never reads a job's status back. The lookup of a runner in GitHub shares a
  step with the read of its row, and `DeleteRepoRunner` with the write of the row.
- A policy has one repository on its warm list. The policies do not change.
- Every refusal before the capacity check (setup, route, no matching policy) and the
  budget's after it are `AdmissionBlocks`, possible for any queued job.
- GitHub gives a job only to an agent of the job's policy, on a running instance.
- A pass takes its candidates in any order (the code orders them by `updated_at`).
- Event logs and job diagnostics are left out: nothing of the fleet reads them.
- The status `stopped`, which the cleanup query also accepts, is written nowhere.

### How `ImageBake` corresponds to the code

`Workers` are the goroutines that may be in `RunOnce`: requests, and the loop of the
process (`Ticker`). `worker[w].list` is the slice of builds a pass has listed, each a copy
of its row; `cur` is the copy that `reconcileBuild` was given by value and changes, so
that the error branch of `RunOnce` still has the old one in `list`. `Promoters` and
`Editors` are requests of an administrator. A step is one statement on the database or
one call to OCI.

| Code | Actions |
|---|---|
| `CreateBuild` | `FindRecipe`, `CreateRunnerImageBuild`, `CreateBuildFails`, then a pass |
| `RunOnce` | `ListPending`, `FailBuild`, `FailBuildLost`, `PassEnds` |
| `startBuild` | `LaunchBake`, `LaunchFails`, `SaveBuild` |
| `advanceBuild` | `GetInstance`, `CaptureConsoleOutput`, `SavePhase`; then by the result `BakeFailed`, `CreateImage`, `GetImageReady`, `GetImageCapturing`, `StoppedEarly` or `StillBaking`; `TerminateInstance`, `SaveBuild`; and the error returns `GetInstanceFails`, `CreateImageFails`, `GetImageFails`, `SaveFails` |
| `PromoteBuild` | `FindBuild`, `CurrentStatus`, `SaveSettings`, `MarkBuildPromoted`, `MarkRunnerImageRecipePromoted`, `PromotionFails` |
| recipe endpoints, settings page | `CreateRecipe`, `EditRecipe`, `UpdateRunnerImageRecipe`, `DeleteBuilds`, `DeleteRecipe`, `EditFails`, `SettingsPage` |
| the bake script, OCI | `ScriptPrints`, `MachineStops`, `ImageCompletes` |
| a client gone, the process stopped | `Abort` |

What is abstracted:

- A row is its recipe, status, instance and image. `promoted_at` is set with the status
  and read by no decision; messages, error texts and times are left out.
- The console is the last thing the script has printed; the script prints one marker at
  a time, and a console that cannot be captured reads as one without output.
- The settings are the effective ones: saved settings merged over those of the
  environment. `network` stands for every field but the image and the cache. The check
  against the catalogue shares a step with the write of the row.
- Ids are given in order, and a deleted build keeps its place as `deleted`. A pass lists
  all pending builds (the code: the first 100) and takes them by age.
- A launch or a capture that fails may have reached OCI all the same; that is a fault.
- `disturbed` and `defaulted` are auxiliary: the builds two passes have held at once or a
  pass has dropped half-way, and the images a promotion has made the default.
- Discovery and the preflight only read.

### How `LaunchTarget` and `PolicyEditor` correspond to the code

| Code (`hooks/use-workspace-app.js`) | Definitions |
|---|---|
| `loadOCICatalog`, request ids (2166-2221) | `Ask`, `DropQuestion`, `Answered`, `Failed`; a call's `latest` is `requestIdRef.current === requestId` |
| state set inside `startTransition` | `queued`, rendered by `Commit` |
| `useDeferredValue`, `runtimeCatalogParams` (1681) | `deferred`, `RenderDeferred`, `RuntimeParams` |
| catalogue effects (2224, 2245) and their dependency lists | `CatalogEffect` with `ran`, `PolicyEffect` with `policyRan` |
| fixed-shape effect (2016) | `Fixed` in `Render` |
| `buildRuntimeCatalogValidation`, `buildPolicyValidation` | `CatalogMessage`, `StaleFields`, `CanSave`; `SettingsMessage`, `CanSavePolicy` |
| `handleOCIRuntimeSave`, `handleOCIRuntimeClear` | `Save`, `Clear`, `SaveAnswered`, `ClearAnswered`, `PutFailed` |
| `resetSetupState` | `ResetSetupState` in `PageSignOut` |
| validation by the service (`httpapi/oci_validation.go`) | `Accepts`, `AcceptsPolicy` |

React is modelled by three rules. Effects run before the next event: every other
action waits until no effect is due (`EffectPending`, `PolicyEffectPending`), but for
the answer of a call, which only queues. A state set in a transition is on the screen
one render later. One render shows all that is pending in both catalogues.

### How the console corresponds to the code

A handler in flight is an element of `work`: which handler (`do`), the await it is at
(`at`), the loads of its `Promise.all` that are still out (`left`), and what its closure
holds. One step is the code between two awaits. `Effects` in `ConsoleService` is what
the service does with a write.

| Code | Actions |
|---|---|
| `refreshAll` (2691) | `SessionAnswered`, `SetupAnswered`, `LoadAnswered`, `WizardLoaded`, `BatchLoaded`, `BatchRefused`, `BatchLost`, `GateAnswered`, `DraftAnswered`, `DiscoverAnswered`, `DiscoverFailed` |
| an ended session, the hour of an App draft (`githubapp/manifest.go`) | `SessionExpires`, `DraftExpires` |
| active-task effect | `SyncTask`; other actions wait for it (`Synced`) |
| `handleGitHubTest`, `handleGitHubSave`, `activateGitHubRoute`, `handleGitHubClear` | `Verify`, `Save`, `Promote`, `ClearStaged` and `VerifyAnswered`, `Staged`, `DraftDropped`, `RoutePromoted`, `PromoteFailed`, `Denied`, `Unstaged` |
| `handleGitHubManifestCreate`, the redirect to GitHub and back | `CreateApp`, `AppCreated`, `OpenPage` |
| `clearGitHubManifestPending` | `DiscardDraft`, `Discarded`, `DiscardFailed`, `DraftDropped` |
| credential and launch-target handlers | `UploadConfig` ... `RuntimeCleared` |
| policies, recipes, builds, lookups | the action of the button and the one of its answer |
| `catch` and `finally` of every other handler | `WriteFailed`, `Finish` |
| `resetProtectedState`, `resetSetupState`, `resetWorkspaceData` | `ResetFor`, `RefreshGated`, `WithoutData` |

What is abstracted:

- A write takes effect on the service when its answer arrives, or its answer is lost,
  done or not (`Lost`). A GET is answered with the service as it was when the request
  left or as it is when the answer is taken. The gate of `refreshAll` after a refusal
  reads the service at its answer.
- `mishaps` counts lost answers, expired sessions and drafts, and handlers that start
  while another is in flight; `clean` says that there has been none since the last
  refresh that ran alone. The properties about the screen are about clean, quiet states,
  because the code makes no attempt to order answers of overlapping handlers, and no page
  learns that a session or a draft has expired before it asks again. The properties about
  flags, spinners, handlers and the draft hold in every state.
- An App draft may expire at any moment, as a session may: its hour is not counted. The
  service deletes an expired draft when it is next asked for one.
- A repository selection is empty or not, an installation id given or not, and a key
  belongs to one App. A recipe's builds are its newest one, which the service's own
  ticker does not advance (only the calls that run `RunOnce` do).
- Forms whose fields the page refuses locally make no call and no step, with one
  exception that leaves something on the screen (`CheckIncomplete`). Toasts, the view
  that is open and everything that is only displayed are left out; of billing,
  guardrails and subnets only that they are loading or loaded.
- In the policy editor, `size` is OCPU and memory together and `options` is all of the
  warm-pool and budget fields. What neither page nor this part of the service checks
  (labels, TTL, runner limit) is left out, as is the refusal of a processor
  architecture the agent has no build for. An empty size of a flexible shape counts as
  invalid, as it is whenever OCI gives the shape a minimum.
- The environment holds no launch target: clearing the saved one leaves none (the code
  falls back to the settings of the environment, if it has any).
- The removal of an active App has a handler and no button; the drift panel only shows.
- `MaxReads` bounds the reads of the settings that are in flight; one more does not leave.

## Runs

The runs of `MCFleet` and `MCImageBake` do not turn the deadlock check off: tickers,
redelivery, expiry and new requests leave no state of these instances without a
successor. The runs of the console do: once the operator's commands are used up and the
last answer is in, the page really is at rest. `NoHandlerIsStuck`, `NothingSpinsAlone` and `SpinnerEnds` say what a
deadlock check would.

| Run | Instance | Shows |
|---|---|---|
| `fleet_ondemand` | 3 jobs of which one may end, 2 handlers, limit 1, 2 instances, requests redelivered | `OvershootBounded`; `OneMachinePerJob` |
| `fleet_sweepers` | 2 jobs, handler, operator and ticker, 1 instance | `TypeOK`; `ClosedMachineIsDown`; `TerminationJustified`; `ClosedStaysClosed` |
| `fleet_warm` | 1 job, warm target, limit 2, 2 instances | `OneWarmRunnerPerTarget`; `HandedOutStaysOut` |
| `fleet_live` | 1 job, all deliveries, handler and ticker, 2 instances, 1 fault, fairness | `OneMachinePerJob`; `OrphansComeFromFaults`; `LedgerSpec` (the fleet implements `MachineLedger`); `EveryRunnerIsClosed`; `ProvisioningIsNotStuck` |
| `fleet_busy` | 2 jobs, limit 2 | `RunningJobKeepsItsMachine` fails |
| `bake_overlap` | 1 build, 2 passes, 2 machines, 2 images | `StatusNeverLeads`, `RowsAreWhole`, `TerminatedOnlyWhenDone`, `OneMachineOneImage` |
| `bake_promotion` | 1 build, 1 pass, 1 promotion, 1 editor, 1 fault, from an empty database | `TypeOK`, `PromotionIsInOrder`; `CatalogueSpec` (the bake implements `VerifiedImages`) |
| `bake_live` | 1 build, a request and the ticker, 1 fault, fairness | `EveryBuildFinishes` |
| `bake_settings` | 1 build, 1 pass, 1 promotion, the cache on | `PromotionChangesTheImage` fails |
| `console_launch` | 2 compartments that share a domain and an image, 2 shapes, 3 commands, fairness | `PageTypeOK`, `SpinnerIsAwaited`, `SettledSaveIsSound`, `SettledPolicyIsSound`, `SignedOutIsBlank`; `NewestAnswerSpec` (the loader implements `NewestAnswer`); `SpinnerEnds` |
| `console_settles` | the same | `CatalogSettles` fails |
| `console_setup` | 2 Apps (one of another host), 1 policy, 1 recipe, 2 handlers at once, 3 commands, 2 mishaps | `TypeOK`, `ScreenMatchesService`, `SignedOutIsEmpty`, `BusyMirrorsWork`, `RecipeEditorIsLive`, `NothingSpinsAlone`, `NoHandlerIsStuck`; `DraftOutlivesFailures` |

Eight further configurations are kept beside the runs. Each shows, in seconds, one
behaviour that a document or a test does not expect; where something weaker holds in its
place, it is among the properties above.

| Configuration | Instance | Shows |
|---|---|---|
| `fleet_capacity` | 2 handlers | `MaxRunnersRespected` fails |
| `fleet_reservation` | 2 handlers, warm target | `ReservationIsExclusive` fails |
| `fleet_stopped` | 1 job | `ClosedMachineIsRemoved` fails |
| `bake_twice` | 1 build, 2 passes, 2 machines | `OneBakeInstance` fails |
| `bake_promote` | 1 build, 1 pass, 1 promotion | `PromotesOnlyAvailable` fails |
| `bake_leftover` | 1 build, fairness | `BakeInstanceIsTemporary` fails |
| `setup_deadend` | 1 handler, 3 commands, no mishap | `FaultlessActivation` fails |
| `setup_overtaken` | 2 handlers, 4 commands and 3 mishaps from the loaded workspace; only the promotion, signing out and signing in | `OneGitHubCallAtATime` fails |

Why the bounds are enough for the question: the races are between two processes over
one row or one machine, and every instance has at least two processes that touch the
row, and a second job or a second machine where the property relates two. A launch
stands still where the bound on instances leaves it no machine. In `fleet_ondemand` two
handlers count before either has inserted, so the limit of one is really passed
(`fleet_capacity` shows the behaviour), and a third job asks while two rows are there:
that its launch is refused is what `OvershootBounded` says, and one more in the count
breaks it. That at most one of the three jobs ends (`AtMostOneJobEnds`) only shortens what
comes after: rows still close by expiry and by machines that power off. The warm loop as a
launcher beside the handlers, and a third machine, are left to `CapacityBound`.
`MaxFaults = 1` gives each of the many places where a step can fail its turn; it is spent
in `fleet_live`. A fault beside an operator, beside a second job or beside the warm loop,
and two faults in one behaviour, are left to the proofs, as is the operator beside the
fairness: `EveryRunnerIsClosed` is checked without one.

For the image bake, two passes that list one build at the same moment are what every
race takes, and a second machine and a second image are what shows it. Without the
editor the recipe is saved from the start. Builds meet only in a pass's list, which takes
one at a time, so a second build adds nothing the theorems do not cover: they hold for
any number of builds, passes and faults.

For the console, the first commands are spent in the initial states. `MCConsole` opens
the page on the services an operator can find (fresh, with a draft, with an unscoped
staged route, configured, without a launch target, without a credential), each with the
commands and mishaps already used that leave it room for what matters there; and once
with the workspace loaded, where every button is. `MCLaunchTarget` opens the page for
the first time, and once with one compartment saved and another in the form. Two
handlers at once and two compartments are what a race takes; three commands reach
edit, save and sign-out in any order. The theorems about the
console have none of these limits, and start from `Init` and `PolicyInit` alone.

The three runs that fail are disagreements between the documents and the code, each
quoted under `findings` in `PROJECT.json`:

1. Cleanup of a job that was cancelled in the queue terminates the machine launched for
   it even when GitHub has given that machine to another job, which then fails
   (`fleet_busy`).
2. With an availability domain chosen, the launch-target page asks for the catalogue for
   ever: the loading state lists no domains, so the question changes as soon as it is
   asked, and changes back with the answer (`console_settles`).
3. A promotion switches the cache of the runtime off: its input leaves the cache fields
   out, and the settings are written whole (`bake_settings`).

The configurations beside them:

- The policy limit is not a cap on live runners ("caps how many live runners this policy
  can keep at once", `src/docs/policies-and-capacity.md`) when two webhooks are handled
  at once: the count and the insert are far apart. What holds is `OvershootBounded`: rows
  and launches under way never exceed the limit by as many as there are launchers
  (`fleet_capacity`).
- Two webhooks can reserve the same warm runner; the first job is left without one, where
  the same document promises a launch. What holds is `HandedOutStaysOut`
  (`fleet_reservation`).
- A machine that powered itself off is closed in the books but stays, stopped, in OCI.
  What holds is `ClosedMachineIsDown` (`fleet_stopped`).
- The guided setup activates the route it has just staged, and the service refuses a
  route without repositories, which are chosen only two tasks later (`setup_deadend`).
- Every button of the GitHub page that starts a call is disabled while another of them is
  out, save for a promotion: a sign-out, or an ended session, resets the page and with it
  `githubConfigPromoting` while the call goes on, and after the next sign-in a second
  promotion, or a save or a removal, may run beside the first. What holds is
  `BusyMirrorsWork`: verification, save and removal always exclude each other, and
  promotion's flag is up only while it runs and neither verification nor removal does
  (`setup_overtaken`).
- Two passes over the same queued build both launch a bake instance
  (`runnerimages/service_test.go` expects one): nothing claims a build before the launch,
  and the row keeps the machine written last. What holds is `OneMachineOneImage`
  (`bake_twice`).
- A build can be promoted before it is available, or after it has failed ("Promote only
  from an `available` build", `src/docs/runner-images.md`): promotion asks only for an
  image id, and the settings for an image that OCI has ready. What holds is
  `PromotionIsInOrder` (`bake_promote`).
- The machine of a build that failed without a result is never terminated, though the
  same document calls it temporary (`bake_leftover`).

### Fairness

`Fairness` in `FleetProperties`: the cleanup ticker fires as long as the process lives
(`startCleanupLoop`), so a pass of it always proceeds (weak fairness). A goroutine of a
request proceeds unless it is aborted. The outcome of a call to OCI is not chosen by the
code: TerminateInstance may fail again and again but, tried for ever, it succeeds in the
end, and likewise a GetInstance that would show the end of the instance (strong fairness
of these two steps). Time passes (`RunnerExpires`), and a requested termination completes.
No fairness is assumed of webhooks, of GitHub, of operators, of the agent or of the warm
pool. Faults are bounded, so no pass is aborted for ever.

`Fairness` in `ImageBakeProperties`: the ticker lists pending builds every 5 s as long as
the process lives (`startRunnerImageLoop`), a pass that has begun takes its next step,
whatever its outcome (weak fairness of the whole pass, so that no call has to succeed), a
bake machine stops in the end, by the shutdown that ends its script if not before, and OCI
completes the images it captures. An image that OCI never completes would keep its build
at `creating_image`. No fairness is assumed of requests, promotions and administrators.

`PolicyFairness` in `PolicyEditor`: React runs its effects and renders what is pending,
and each kind of call is answered or fails in the end (weak fairness of the effects, the
renders and the answers). Nothing is assumed of the operator. `MCFairSpec` adds it to the
instance of `console_launch` and `console_settles`.

## Proofs

Everything below is proved from the assumptions on the constants alone
(`ConstantAssumption` of the fleet; of the image bake, `ConstantAssumption` too: the bounds
are numbers, "no recipe" is none, and the settings of the environment name no image
baked here; of the launch-target page that the listings and shape
tables have their types and that a blank field is none of the choices; of the console
`AppsAreApps`, `NobodyIsNone` and `ConsoleBounds`: the App of a draft is an App, the names
for "no App", "no policy" and "no recipe" are none, and the bounds are numbers), for any
sets and limits, and so without the bounds of the runs.

| Theorem | Statement | Module |
|---|---|---|
| `TypeCorrect` | `Spec => []TypeOK` | `FleetProofs` |
| `Invariance` | `Spec => []IInv` | `FleetProofs` |
| `Safety` | `Spec => []SInv` | `FleetSafetyProofs` |
| `ClosedForGood` | `Spec => ClosedStaysClosed` | `FleetSafetyProofs` |
| `ClosedOnlyWhenDown` | `Spec => []ClosedMachineIsDown` | `FleetSafetyProofs` |
| `CapacityBound` | `Spec => []OvershootBounded` | `FleetSafetyProofs` |
| `WarmTargets` | `Spec => []OneWarmRunnerPerTarget` | `FleetSafetyProofs` |
| `OrphansArePaidFor` | `Spec => []OrphansComeFromFaults` | `FleetLedgerProofs` |
| `LedgerIsKept` | `Spec => LedgerSpec` | `FleetLedgerProofs` |
| `OneMachineEach` | `Spec => []OneMachinePerJob` | `FleetRowProofs` |
| `TerminatedForCause` | `Spec => []TerminationJustified` | `FleetRowProofs` |
| `HandedOutForGood` | `Spec => HandedOutStaysOut` | `FleetRowProofs` |
| `BakeInvariance` | `Spec => [](TypeOK /\ IInv)` | `ImageBakeProofs` |
| `BakeTypes` | `Spec => []TypeOK` | `ImageBakeProofs` |
| `StatusIsEarned` | `Spec => []StatusNeverLeads` | `ImageBakeProofs` |
| `RowsBelongTogether` | `Spec => []RowsAreWhole` | `ImageBakeProofs` |
| `TerminatedForGood` | `Spec => []TerminatedOnlyWhenDone` | `ImageBakeProofs` |
| `PromotedInOrder` | `Spec => []PromotionIsInOrder` | `ImageBakeProofs` |
| `OneEach` | `Spec => []OneMachineOneImage` | `ImageBakeProofs` |
| `CatalogueIsKept` | `Spec => CatalogueSpec` | `ImageBakeProofs` |
| `PageInvariance` | `PolicySpec => []Inv` | `LaunchTargetProofs` |
| `PageTypeCorrect` | `PolicySpec => []PageTypeOK` | `LaunchTargetProofs` |
| `SpinnersAreAwaited` | `PolicySpec => []SpinnerIsAwaited` | `LaunchTargetProofs` |
| `BlankOnceSignedOut` | `PolicySpec => []SignedOutIsBlank` | `LaunchTargetProofs` |
| `SaveIsSound` | `PolicySpec => []SettledSaveIsSound` | `LaunchTargetProofs` |
| `PolicySaveIsSound` | `PolicySpec => []SettledPolicyIsSound` | `LaunchTargetProofs` |
| `NewestAnswerOnly` | `PolicySpec => NewestAnswerSpec` | `LaunchTargetProofs` |
| `ConsoleInvariant` | `Spec => []CInv` | `ConsoleProofs` |
| `ConsoleTypes` | `Spec => []TypeOK` | `ConsoleProofs` |
| `BusyFlagsMirror` | `Spec => []BusyMirrorsWork` | `ConsoleProofs` |
| `NothingIsLeftSpinning` | `Spec => []NothingSpinsAlone` | `ConsoleProofs` |
| `DraftIsKept` | `Spec => DraftOutlivesFailures` | `ConsoleProofs` |
| `ScreenInvariance` | `Spec => [](CInv /\ CleanInv)` | `ConsoleScreenProofs` |
| `ScreenIsRight` | `Spec => []ScreenMatchesService` | `ConsoleScreenProofs` |
| `NothingIsLeftBehind` | `Spec => []SignedOutIsEmpty` | `ConsoleScreenProofs` |
| `EditorsAreLive` | `Spec => []RecipeEditorIsLive` | `ConsoleScreenProofs` |

`TypeOK` is not inductive. A completed delivery writes GitHub's conclusion into the job
and the runner, and that is a status only because a finished job has a conclusion
(`ConclusionOK`) and because a handler of a completed delivery has a finished job
(`LocalOK`, with `Fits` saying what each label implies of the local variables); a
queued job's verdict is set before it is used. `IInv` is the conjunction. The proof has
one lemma per group of actions, and below it one step per action; three lemmas on the
ways a row is written and two on the ways a goroutine moves carry most of the load.

None of the safety properties is inductive either, for each rests on what a goroutine
decided several steps earlier. `SInv` adds three things to `IInv`:

- `RowOK` and `MachineOK`: the table is filled in order of id, every row names an
  instance that was launched, and a closed row's instance is `Down`, that is, stopped,
  terminating or terminated with no agent. `Down` is stable, which is why a row closed
  on an old reading of OCI stays true. `STOPPED` had to be in it: the operator may still
  ask for the termination of a stopped machine whose row is closed.
- `Knows`: what each goroutine relies on at its label. A snapshot never holds the status
  of a closed row, so writing it back cannot undo `terminated`; `close` is reached only
  on a machine that is down; the warm pool that counts or launches for a target has seen
  no active warm runner of it, and nobody else creates one.
- `WarmUnique` and `OvershootBounded`. The count is bounded with the launches under way,
  each of which holds room for one runner (`InFlight`): a goroutine gets room only when
  it counts fewer than the limit, and an insert trades its room for a row.

The proof separates what a step does to rows (`RowsKept`) and machines (`MachinesKept`)
from how its goroutine moves (`MoveInv`, `HaltInv`, `StepInv`); only `CreateRunner`, which
adds a row, has a proof of its own. Before it was proved, `SInv` was checked by TLC on the
instances of `fleet_warm` and of `fleet_sweepers` with one job and one fault.

Three further invariants rest on `IInv` and `SInv`:

- `LInv` (`FleetLedgerProofs`): exactly the first `lastInstance` machines have been
  launched, and there are no more orphans than faults. A step launches a
  machine, records it, drops it, closes its row, or does none of these (`LaunchInstance`,
  `CreateRunner`, `Drops`, `Closes`, `Quiet`), and only a fault drops one. The first four
  are the steps of `MachineLedger`; a quiet step ends some machine's work or is a stutter.
- `JInv` (`FleetRowProofs`): a delivery is served by at most one handler, and the machine
  of a job was launched by the handler of its queued delivery, which has left the labels
  before the launch (`Early`) and never returns to them. Everything rests on the insert
  of the delivery into `events`, which is what recognises a redelivery.
- `KInv` (`FleetRowProofs`): what a goroutine has read still holds when it acts on it
  (`Sees`). A candidate of a cleanup pass stays doomed, because a row's expiry, a job's
  end and a conclusion are all for good (`ConclusionsLast`); a conclusion is written only
  on a row of that job, or on a warm one, whose job may change; a warm runner is handed
  out only once it is in the pool, and only the warm pool, which has it on its list at
  most once, puts it there. `MoveSees` is the one lemma that carries it across a step;
  the row writes are classified by what they leave alone (`ColumnWrite`, `HandOutSees`,
  `OfferSees`, `CreateSees`). It needs `JInv` for the one fact that the warm pool works
  for no job.

For the image bake, no property of the rows is inductive, because what is written is a
copy read many steps ago, which others may have overtaken. `IInv` of `ImageBakeProofs`
therefore speaks of every copy as of the row itself:

- `GoodRow(b, row)`: what `row` says of build `b` has come true, be it in the table, in a
  pass's list, in the copy it works on or in a promotion. It mentions only facts that
  last: a machine launched for `b`, an image captured from it, a console that has got so
  far (`Reached`), an image that is ready, an image that has been the default. The status
  of another copy is no such fact, so nothing in it needs the copy to be current.
- `Known`: a copy's build keeps its recipe or is gone. A write of a deleted build changes
  no row, so an old copy does not bring it back.
- `CurOK`, `PromoterOK`, `PairOK`: what the label adds. "terminate" is reached only on a
  reported failure or a ready image; the last two writes of a promotion come after the
  settings; and the pair an editor carries was promoted once.

`Grows` (machines, consoles and images only move forward) and `RowsMove` (a build keeps
its recipe) hold of every step, `GoodRowStays` and the lemmas after it carry the copies
across any such step, and what is left is the one copy a step makes. The refinement of
`VerifiedImages` follows by cases: a marker "passed", a capture, a completion and a choice
of default are its steps, all others stutter.

`OneMachineOneImage` needs `UInv` besides, which *is* about being current, and so holds
only of builds outside `disturbed`: at most one pass holds such a build, and unless that
pass is between an answer of OCI and its write (`Busy`), neither the row nor the copy
says "queued" when there is a machine, or lacks an image when there is one. `IInv` and
`UInv` were checked by TLC on the instances of `bake_promotion` and `bake_overlap`.

For the console, the soundness of a save is not inductive: it follows from what the
shown catalogue has to do with the form when nothing is pending. `Inv` of
`LaunchTargetProofs` says that for every state:

- `SpinnerIsAwaited`, of both loaders: at most one call carries the newest number, the
  queued state is loading exactly while it is out, and for its question. Applying an
  answer then cannot replace anything but its own spinner.
- `CatalogFollows`: unless the effect is due again, a catalogue that is not blank is that
  of the compartment the effect has last run with, and a complete compartment of a
  signed-in page has one, loaded or on its way. `ShapesFollow` is the same for the
  second loader.
- `SignedOutIsBlank` and the types, with `AsksCompartments`: no question about shapes is
  asked of a blank compartment, so the tables are only applied where they are defined.

One group of lemmas is about a loader alone (types, spinners, for either instance), one
says which of a loader's operations each step of the page is (`StepKinds`,
`PolicyStepKinds`), and the invariant follows by cases on the operations, not on the
twenty-odd actions. `NewestAnswerOnly` maps each operation to a step of `NewestAnswer`:
an answer that is not the newest is a stutter, because it changes neither the screen nor
the question. `Inv` was checked by TLC on the instance of `console_launch` first.

The rest of the console is about handlers in flight. `CInv` of `ConsoleProofs` says of
them, whatever overlaps and whatever fails:

- `WorkInv`: which handler can be at which await. A write belongs to the handlers of
  `Doers`, nothing is left to load at it, and only a save that activates comes to
  "promote" and "denied".
- `SpinInv`: every flag that is set, every spinner and every row marked as being worked on
  is held (`Held`, `InRefresh`) by a handler in flight whose `finally` will clear it.
- `ExclInv`: of the GitHub page's verification, save and removal, of the credential's calls
  and of the launch target's at most one is out, and its own flag is set. This is why
  signing out, which clears other flags under running handlers, must leave these alone.
- `PromoteInv`: while "promoting" is up, no verification and no removal is out. Nothing
  is said of a promotion whose flag a reset has taken down: anything may run beside it.
- `DraftInv`: while a save drops the App draft, the service holds its route, staged or
  live.

A handler's step takes it from one call to the next, and `Goes` collects what that move
keeps; each group of answers is shown to go somewhere (`AnswersGo`, `RefreshGoes`,
`StagedGoes`, ...), and `MovesKeep` carries all five parts across any move. A command
starts one handler (`LaunchKeeps`), and a page that loads starts over (`LoadsKeep`).

The proof corrected a property. `DraftOutlivesFailures` used to say that a save drops the
draft only while its route is *staged*. That held in the run and does not hold in general:
resetting the page clears "promoting" while the activation is still out, so a second
activation can overtake a save, and its route is then live (`setup_overtaken` shows two
of them out at once). The property now says staged or live, and names the App of the
save. It lets go of the draft for an hour that is over, too: the service then has
no draft, whatever the page is doing, and the key is lost unless it was staged before.

`CleanInv` (`ConsoleScreenProofs`) is about the states without a mishap, where handlers
have run one at a time. It says what such a handler has still to read at each of its
awaits: `Stale` is the set of those parts of the screen, `ShownBut` that all the others
show what the service holds, and `Fresh` that what the closure has read is still so. Every
step of a handler `Lands` at a call with these three; a write may make wrong only what its
handler reads afterwards (`WritesShow`), and an answer makes one part right
(`LoadShows`). At an idle handler nothing is stale, and the three theorems about the
screen follow. Two facts came out of it. A "reload" needs the setup status among its
loads, for it decides whether policies and recipes have to be read at all. And a refresh
makes every part right but one, the recipe in the editor, which is not reset: this is why
`clean` is regained only with that editor closed. `CleanInv` was checked by TLC on the
constants of `console_setup` first.

Every safety property of the passing runs, invariant or action property, is proved, but
one: `NoHandlerIsStuck` is about ENABLED, which the prover does not handle. Model-checked
only, besides, is everything under a fairness assumption (`EveryRunnerIsClosed`,
`ProvisioningIsNotStuck`, `EveryBuildFinishes`, `SpinnerEnds`).

## Not modelled

- Cache compatibility, the login path, billing and the budget verdict of the service: each
  keeps state of its own, and their hazards are listed. The fleet and the image bake are
  modelled apart: what joins them is the default image, which a launch only passes on. The
  console's model has the calls that reach runner images, with their outcomes. The fleet takes the
  budget as a refusal that may come at any time.
- GitHub routes and the manifest flow inside the service: `ConsoleService` models what
  saving, promoting, clearing and discarding do to them; installation events and drift
  are left out.
- The overview, events, docs and layout of the console show what has been loaded.
  Translations, formatting and the browser scripts have no state.
- The GitHub and OCI clients, the catalogue's parsing, cloud-init's text: calls whose
  outcomes the models choose.

## Plan

1. `LoginPath`: the rate limiter, the lockout counters and the sessions composed as a
   login request meets them; the per-window bound proved.
2. `CacheUpload`: reservations, chunks, commit, restart.
3. `GitHubRoutes`: resolution for webhooks and runners, installation status against drift.
4. `CleanupSweep`: the order of the candidates, and a candidate that fails for ever.
5. Policy matching and the budget verdict as operators against reference definitions.
