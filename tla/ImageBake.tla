------------------------------ MODULE ImageBake ------------------------------
(***************************************************************************)
(* Runner images (internal/runnerimages).  A build launches a bake machine *)
(* that runs the recipe's commands and reports on its console; once they   *)
(* have passed, an image is captured from it, and an administrator may     *)
(* promote that image to the default of the runtime.                       *)
(*                                                                         *)
(* Nothing serialises the work.  The ticker, POST .../reconcile and every  *)
(* POST .../builds run RunOnce, which lists the pending builds once and    *)
(* then works on these snapshots, one call to OCI or the database per      *)
(* step, and writes each of them back as a whole.  Beside it run           *)
(* promotions, edits and deletions of recipes, and the settings page.      *)
(***************************************************************************)
EXTENDS Naturals

CONSTANTS
  Recipes, NoRecipe,
  MaxBuilds, MaxMachines, MaxImages,   \* bounds: rows, launches and captures
  Workers,      \* goroutines that may be in RunOnce: requests, and
  Ticker,       \* the loop of the process
  Promoters,    \* requests that promote a build
  Editors,      \* requests that edit or delete a recipe
  Networks,     \* the settings of the runtime other than image and cache
  Defaults,     \* the settings given by the environment
  MaxFaults     \* bound: lost answers, failed writes, goroutines cut short

Builds   == 1..MaxBuilds
Machines == 1..MaxMachines
Images   == 1..MaxImages

NoBuild   == 0
NoMachine == 0
NoImage   == 0    \* in the settings: an image that was not baked here

Pending  == {"queued", "launching", "provisioning", "verifying", "creating_image"}
Finished == {"available", "failed", "promoted"}

\* A row of runner_image_builds; "unused" before its insert.
Row ==
  [ recipe   : Recipes \union {NoRecipe},
    status   : Pending \union Finished \union {"unused", "deleted"},
    instance : Machines \union {NoMachine},
    image    : Images \union {NoImage} ]

Blank ==
  [recipe |-> NoRecipe, status |-> "unused", instance |-> NoMachine, image |-> NoImage]

Settings ==
  [image : Images \union {NoImage}, network : Networks, cache : BOOLEAN]

ASSUME ConstantAssumption ==
  /\ MaxBuilds \in Nat /\ MaxMachines \in Nat /\ MaxImages \in Nat /\ MaxFaults \in Nat
  /\ NoRecipe \notin Recipes
  /\ Defaults \in Settings /\ Defaults.image = NoImage

VARIABLES
  builds,      \* the table of builds
  recipes,     \* per recipe: saved or not, and the build and image promoted
  settings,    \* the effective settings of the runtime
  machines,    \* the bake instances in OCI, with what they printed
  images,      \* the captured images in OCI
  worker,      \* goroutines in CreateBuild or RunOnce
  promoter,    \* goroutines in PromoteBuild
  editor,      \* goroutines in UpdateRunnerImageRecipe or DeleteRunnerImageRecipe
  faults,
  disturbed,   \* auxiliary: builds two passes have held at once, or one dropped half-way
  defaulted    \* auxiliary: images that a promotion has made the default

store == <<builds, recipes, settings>>
oci   == <<machines, images>>
aux   == <<disturbed, defaulted>>
vars  == <<store, oci, worker, promoter, editor, faults, aux>>

(***************************************************************************)
(* The console of a bake machine (oci.BuildRunnerImageBakeCloudInit) and   *)
(* what the service reads in it.                                           *)
(***************************************************************************)
Logs == {"blank", "provisioning", "verifying", "passed", "setup_failed", "verify_failed"}

PrintsNext(log) ==
  CASE log = "blank"        -> {"provisioning"}
    [] log = "provisioning" -> {"verifying", "setup_failed"}
    [] log = "verifying"    -> {"passed", "verify_failed"}
    [] OTHER                -> {}

\* (Mutant) Whatever the console says last is taken for a phase.
LastMarker(log) == IF log = "blank" THEN "" ELSE log

\* The last phase marker; "" when there is none.
ParseBakePhase(log) ==
  CASE log = "blank"                                   -> ""
    [] log \in {"provisioning", "setup_failed"}        -> "provisioning"
    [] log \in {"verifying", "passed", "verify_failed"} -> "verifying"

Failure(log)   == log \in {"setup_failed", "verify_failed"}
HasResult(log) == log = "passed" \/ Failure(log)

\* (Mutant) Only a terminated instance has ended.
IsTerminated(power) == power = "terminated"
IsTerminal(power) == power \in {"stopped", "terminated"}

(***************************************************************************)
(* State.                                                                  *)
(***************************************************************************)
IdleWorker ==
  [ pc     |-> "idle",
    recipe |-> NoRecipe,                      \* what CreateBuild has found
    list   |-> [b \in Builds |-> Blank],      \* the snapshots still to work on
    at     |-> NoBuild,                       \* the one being worked on
    cur    |-> Blank,                         \* reconcileBuild's copy of it
    power  |-> "unused", log |-> "blank" ]    \* what OCI has answered

IdlePromoter == [pc |-> "idle", at |-> NoBuild, row |-> Blank, read |-> Defaults]

Unpromoted == [state |-> "unsaved", build |-> NoBuild, image |-> NoImage]
IdleEditor == [pc |-> "idle", recipe |-> NoRecipe, read |-> Unpromoted]

\* Type correctness of the rows, the settings, what OCI has, and every goroutine's copies.
TypeOK ==
  /\ builds \in [Builds -> Row]
  /\ recipes \in [Recipes -> [ state : {"unsaved", "saved", "deleted"},
                               build : Builds \union {NoBuild},
                               image : Images \union {NoImage} ]]
  /\ settings \in Settings
  /\ machines \in [Machines -> [ build : Builds \union {NoBuild},
                                 power : {"unused", "running", "stopped", "terminated"},
                                 log   : Logs ]]
  /\ images \in [Images -> [ machine : Machines \union {NoMachine},
                             state   : {"unused", "capturing", "ready"} ]]
  /\ worker \in [Workers ->
       [ pc     : {"idle", "insert", "list", "take", "console", "phase", "judge",
                   "terminate", "save", "fail"},
         recipe : Recipes \union {NoRecipe},
         list   : [Builds -> Row],
         at     : Builds \union {NoBuild},
         cur    : Row,
         power  : {"unused", "running", "stopped", "terminated"},
         log    : Logs ]]
  /\ promoter \in [Promoters ->
       [ pc   : {"idle", "settings", "save", "build", "recipe"},
         at   : Builds \union {NoBuild},
         row  : Row,
         read : Settings ]]
  /\ editor \in [Editors ->
       [ pc     : {"idle", "update", "delete"},
         recipe : Recipes \union {NoRecipe},
         read   : [ state : {"unsaved", "saved", "deleted"},
                    build : Builds \union {NoBuild},
                    image : Images \union {NoImage} ] ]]
  /\ faults \in 0..MaxFaults
  /\ disturbed \subseteq Builds
  /\ defaulted \subseteq Images

Init ==
  /\ builds = [b \in Builds |-> Blank]
  /\ recipes = [r \in Recipes |-> Unpromoted]
  /\ settings = Defaults
  /\ machines = [m \in Machines |-> [build |-> NoBuild, power |-> "unused", log |-> "blank"]]
  /\ images = [i \in Images |-> [machine |-> NoMachine, state |-> "unused"]]
  /\ worker = [w \in Workers |-> IdleWorker]
  /\ promoter = [p \in Promoters |-> IdlePromoter]
  /\ editor = [e \in Editors |-> IdleEditor]
  /\ faults = 0
  /\ disturbed = {} /\ defaulted = {}

Fault == faults < MaxFaults /\ faults' = faults + 1

Exists(b)  == builds[b].status \notin {"unused", "deleted"}
Holds(w, b) == worker[w].list[b].status \in Pending

(***************************************************************************)
(* The ways a goroutine of RunOnce moves.                                  *)
(***************************************************************************)
Goto(w, l) == worker' = [worker EXCEPT ![w].pc = l]

\* The loop of RunOnce takes the next build.
NextBuild(w) ==
  worker' = [worker EXCEPT ![w].pc = "take", ![w].list[worker[w].at] = Blank,
                           ![w].at = NoBuild, ![w].cur = Blank,
                           ![w].power = "unused", ![w].log = "blank"]

\* (Mutant) An empty image is not written.
KeepImage(b, row) ==
  builds' = [builds EXCEPT ![b] = IF Exists(b)
    THEN [row EXCEPT !.image = IF @ = NoImage THEN builds[b].image ELSE @] ELSE @]

\* UPDATE ... WHERE id = b: no row, no error.
UpdateRunnerImageBuild(b, row) ==
  builds' = [builds EXCEPT ![b] = IF Exists(b) THEN row ELSE @]

\* OCI gives the next id.
NewMachine(m) ==
  machines[m].power = "unused" /\ \A k \in 1..(m - 1) : machines[k].power # "unused"
NewImage(i) ==
  images[i].state = "unused" /\ \A k \in 1..(i - 1) : images[k].state # "unused"

Launched(m, b) ==
  machines' = [machines EXCEPT ![m] = [build |-> b, power |-> "running", log |-> "blank"]]
Captured(i, m) ==
  images' = [images EXCEPT ![i] = [machine |-> m, state |-> "capturing"]]

(***************************************************************************)
(* CreateBuild, up to its own pass.                                        *)
(***************************************************************************)
FindRecipe(w, r) ==
  /\ w # Ticker /\ worker[w].pc = "idle"
  /\ recipes[r].state = "saved"
  /\ worker' = [worker EXCEPT ![w].pc = "insert", ![w].recipe = r]
  /\ UNCHANGED <<store, oci, promoter, editor, faults, aux>>

CreateRunnerImageBuild(w) ==
  /\ worker[w].pc = "insert"
  /\ \E b \in Builds :
       /\ builds[b].status = "unused" /\ \A c \in 1..(b - 1) : builds[c].status # "unused"
       /\ builds' = [builds EXCEPT
            ![b] = [Blank EXCEPT !.recipe = worker[w].recipe, !.status = "queued"]]
  /\ worker' = [worker EXCEPT ![w].pc = "list", ![w].recipe = NoRecipe]
  /\ UNCHANGED <<recipes, settings, oci, promoter, editor, faults, aux>>

\* The insert fails, or the recipe's new build is out of the model's bound.
CreateBuildFails(w) ==
  /\ worker[w].pc = "insert"
  /\ worker' = [worker EXCEPT ![w] = IdleWorker]
  /\ UNCHANGED <<store, oci, promoter, editor, faults, aux>>

(***************************************************************************)
(* RunOnce.                                                                *)
(***************************************************************************)
\* A tick, POST .../reconcile, or the end of CreateBuild.
ListPending(w) ==
  LET Pends(b) == builds[b].status \in Pending
  IN  /\ worker[w].pc \in {"idle", "list"}
      /\ \E b \in Builds : Pends(b)
      /\ worker' = [worker EXCEPT ![w].pc = "take",
                      ![w].list = [b \in Builds |-> IF Pends(b) THEN builds[b] ELSE Blank]]
      /\ disturbed' = disturbed \union
           {b \in Builds : Pends(b) /\ \E v \in Workers \ {w} : Holds(v, b)}
      /\ UNCHANGED <<store, oci, promoter, editor, faults, defaulted>>

\* ORDER BY created_at.
IsNext(w, b) ==
  /\ worker[w].pc = "take"
  /\ Holds(w, b)
  /\ \A c \in Builds : Holds(w, c) => b <= c

PassEnds(w) ==
  /\ worker[w].pc \in {"take", "list"}
  /\ \A b \in Builds : ~Holds(w, b)
  /\ Goto(w, "idle")
  /\ UNCHANGED <<store, oci, promoter, editor, faults, aux>>

\* (Mutant) A build that failed is tried again.
RequeueBuild(w) ==
  /\ worker[w].pc = "fail"
  /\ LET b == worker[w].at
     IN  UpdateRunnerImageBuild(b, [worker[w].list[b] EXCEPT !.status = "queued"])
  /\ NextBuild(w)
  /\ UNCHANGED <<recipes, settings, oci, promoter, editor, faults, aux>>

\* reconcileBuild returned an error: RunOnce writes its own copy, the snapshot, as failed.
FailBuild(w) ==
  /\ worker[w].pc = "fail"
  /\ LET b == worker[w].at
     IN  UpdateRunnerImageBuild(b, [worker[w].list[b] EXCEPT !.status = "failed"])
  /\ NextBuild(w)
  /\ UNCHANGED <<recipes, settings, oci, promoter, editor, faults, aux>>

\* The error of that write is ignored.
FailBuildLost(w) ==
  /\ worker[w].pc = "fail"
  /\ Fault
  /\ NextBuild(w)
  /\ disturbed' = disturbed \union {worker[w].at}
  /\ UNCHANGED <<store, oci, promoter, editor, defaulted>>

(***************************************************************************)
(* startBuild.                                                             *)
(***************************************************************************)
LaunchBake(w, b) ==
  /\ IsNext(w, b) /\ worker[w].list[b].status = "queued"
  /\ \E m \in Machines :
       /\ NewMachine(m)
       /\ Launched(m, b)
       /\ worker' = [worker EXCEPT ![w].pc = "save", ![w].at = b,
            ![w].cur = [worker[w].list[b] EXCEPT !.status = "launching", !.instance = m]]
  /\ UNCHANGED <<store, images, promoter, editor, faults, aux>>

\* A refusal, or a machine whose launch is not answered.
LaunchFails(w, b) ==
  /\ IsNext(w, b) /\ worker[w].list[b].status = "queued"
  /\ \/ UNCHANGED <<machines, faults>>
     \/ Fault /\ \E m \in Machines : NewMachine(m) /\ Launched(m, b)
  /\ worker' = [worker EXCEPT ![w].pc = "fail", ![w].at = b]
  /\ UNCHANGED <<store, images, promoter, editor, aux>>

(***************************************************************************)
(* advanceBuild.                                                           *)
(***************************************************************************)
GetInstance(w, b) ==
  /\ IsNext(w, b) /\ worker[w].list[b].status # "queued"
  /\ worker' = [worker EXCEPT ![w].pc = "console", ![w].at = b,
                  ![w].cur = worker[w].list[b],
                  ![w].power = machines[worker[w].list[b].instance].power]
  /\ UNCHANGED <<store, oci, promoter, editor, faults, aux>>

GetInstanceFails(w, b) ==
  /\ IsNext(w, b) /\ worker[w].list[b].status # "queued"
  /\ worker' = [worker EXCEPT ![w].pc = "fail", ![w].at = b]
  /\ UNCHANGED <<store, oci, promoter, editor, faults, aux>>

\* When the capture fails there is no output, and the pass goes on without.
CaptureConsoleOutput(w) ==
  LET cur == worker[w].cur
      log == machines[cur.instance].log
  IN  /\ worker[w].pc = "console"
      /\ \E seen \in {log, "blank"} :
           /\ IF seen = log THEN UNCHANGED faults ELSE Fault
           /\ worker' = [worker EXCEPT ![w].log = seen,
                ![w].pc = IF ParseBakePhase(seen) \in {"", cur.status}
                          THEN "judge" ELSE "phase"]
      /\ UNCHANGED <<store, oci, promoter, editor, aux>>

SavePhase(w) ==
  LET row == [worker[w].cur EXCEPT !.status = ParseBakePhase(worker[w].log)]
  IN  /\ worker[w].pc = "phase"
      /\ UpdateRunnerImageBuild(worker[w].at, row)
      /\ worker' = [worker EXCEPT ![w].pc = "judge", ![w].cur = row]
      /\ UNCHANGED <<recipes, settings, oci, promoter, editor, faults, aux>>

\* What follows depends on the result in the console and on the copy's image.
Judging(w) == worker[w].pc = "judge"
\* (Mutant) Any result will do.
MayCaptureAny(w) ==
  Judging(w) /\ HasResult(worker[w].log) /\ worker[w].cur.image = NoImage
MayCapture(w) ==
  Judging(w) /\ worker[w].log = "passed" /\ worker[w].cur.image = NoImage
HasImage(w) ==
  Judging(w) /\ ~Failure(worker[w].log) /\ worker[w].cur.image # NoImage
NoResult(w) ==
  Judging(w) /\ ~HasResult(worker[w].log) /\ worker[w].cur.image = NoImage

BakeFailed(w) ==
  /\ Judging(w) /\ Failure(worker[w].log)
  /\ worker' = [worker EXCEPT ![w].pc = "terminate", ![w].cur.status = "failed"]
  /\ UNCHANGED <<store, oci, promoter, editor, faults, aux>>

CreateImage(w) ==
  LET m == worker[w].cur.instance
  IN  /\ MayCapture(w)
      /\ machines[m].power # "terminated"
      /\ \E i \in Images :
           /\ NewImage(i)
           /\ Captured(i, m)
           /\ worker' = [worker EXCEPT ![w].pc = "save", ![w].cur.image = i,
                           ![w].cur.status = "creating_image"]
      /\ UNCHANGED <<store, machines, promoter, editor, faults, aux>>

CreateImageFails(w) ==
  LET m == worker[w].cur.instance
  IN  /\ MayCapture(w)
      /\ \/ UNCHANGED <<images, faults>>
         \/ /\ Fault /\ machines[m].power # "terminated"
            /\ \E i \in Images : NewImage(i) /\ Captured(i, m)
      /\ Goto(w, "fail")
      /\ UNCHANGED <<store, machines, promoter, editor, aux>>

\* (Mutant) The state of the image is not looked at.
GetImageAnyState(w) ==
  /\ HasImage(w)
  /\ worker' = [worker EXCEPT ![w].pc = "terminate", ![w].cur.status = "available"]
  /\ UNCHANGED <<store, oci, promoter, editor, faults, aux>>

GetImageReady(w) ==
  /\ HasImage(w) /\ images[worker[w].cur.image].state = "ready"
  /\ worker' = [worker EXCEPT ![w].pc = "terminate", ![w].cur.status = "available"]
  /\ UNCHANGED <<store, oci, promoter, editor, faults, aux>>

\* (Mutant) The instance goes as soon as the capture has started.
TerminateEarly(w) ==
  /\ HasImage(w) /\ images[worker[w].cur.image].state # "ready"
  /\ worker' = [worker EXCEPT ![w].pc = "terminate", ![w].cur.status = "creating_image"]
  /\ UNCHANGED <<store, oci, promoter, editor, faults, aux>>

GetImageCapturing(w) ==
  /\ HasImage(w) /\ images[worker[w].cur.image].state # "ready"
  /\ worker' = [worker EXCEPT ![w].pc = "save", ![w].cur.status = "creating_image"]
  /\ UNCHANGED <<store, oci, promoter, editor, faults, aux>>

GetImageFails(w) ==
  /\ HasImage(w)
  /\ Goto(w, "fail")
  /\ UNCHANGED <<store, oci, promoter, editor, faults, aux>>

StoppedEarly(w) ==
  /\ NoResult(w) /\ IsTerminal(worker[w].power)
  /\ worker' = [worker EXCEPT ![w].pc = "save", ![w].cur.status = "failed"]
  /\ UNCHANGED <<store, oci, promoter, editor, faults, aux>>

StillBaking(w) ==
  /\ NoResult(w) /\ ~IsTerminal(worker[w].power)
  /\ NextBuild(w)
  /\ UNCHANGED <<store, oci, promoter, editor, faults, aux>>

\* The error of TerminateInstance is ignored.
TerminateInstance(w) ==
  LET m == worker[w].cur.instance
  IN  /\ worker[w].pc = "terminate"
      /\ \/ machines' = [machines EXCEPT ![m].power = "terminated"] /\ UNCHANGED faults
         \/ Fault /\ UNCHANGED machines
      /\ Goto(w, "save")
      /\ UNCHANGED <<store, images, promoter, editor, aux>>

SaveBuild(w) ==
  /\ worker[w].pc = "save"
  /\ UpdateRunnerImageBuild(worker[w].at, worker[w].cur)
  /\ NextBuild(w)
  /\ UNCHANGED <<recipes, settings, oci, promoter, editor, faults, aux>>

SaveFails(w) ==
  /\ worker[w].pc \in {"phase", "save"}
  /\ Fault
  /\ Goto(w, "fail")
  /\ UNCHANGED <<store, oci, promoter, editor, aux>>

\* The client of a request goes, or the process stops.
Abort(w) ==
  /\ worker[w].pc # "idle"
  /\ Fault
  /\ worker' = [worker EXCEPT ![w] = IdleWorker]
  /\ disturbed' = IF worker[w].pc \in {"save", "fail"}
                  THEN disturbed \union {worker[w].at} ELSE disturbed
  /\ UNCHANGED <<store, oci, promoter, editor, defaulted>>

(***************************************************************************)
(* PromoteBuild: two reads, then three writes.                             *)
(***************************************************************************)
FindBuild(p, b) ==
  /\ promoter[p].pc = "idle"
  /\ Exists(b) /\ builds[b].image # NoImage
  /\ promoter' = [promoter EXCEPT ![p].pc = "settings", ![p].at = b, ![p].row = builds[b]]
  /\ UNCHANGED <<store, oci, worker, editor, faults, aux>>

\* (Mutant) The build is marked before the settings are saved.
MarkFirst(p) ==
  /\ promoter[p].pc = "settings"
  /\ promoter' = [promoter EXCEPT ![p].pc = "build", ![p].read = settings]
  /\ UNCHANGED <<store, oci, worker, editor, faults, aux>>

CurrentStatus(p) ==
  /\ promoter[p].pc = "settings"
  /\ promoter' = [promoter EXCEPT ![p].pc = "save", ![p].read = settings]
  /\ UNCHANGED <<store, oci, worker, editor, faults, aux>>

\* The catalogue that the settings are checked against lists images OCI has ready.  The
\* settings are written whole, and the input of a promotion says nothing of the cache.
SaveSettings(p) ==
  LET i == promoter[p].row.image
  IN  /\ promoter[p].pc = "save"
      /\ images[i].state = "ready"
      /\ settings' = [promoter[p].read EXCEPT !.image = i, !.cache = FALSE]
      /\ defaulted' = defaulted \union {i}
      /\ promoter' = [promoter EXCEPT ![p].pc = "build"]
      /\ UNCHANGED <<builds, recipes, oci, worker, editor, faults, disturbed>>

MarkBuildPromoted(p) ==
  /\ promoter[p].pc = "build"
  /\ UpdateRunnerImageBuild(promoter[p].at, [promoter[p].row EXCEPT !.status = "promoted"])
  /\ promoter' = [promoter EXCEPT ![p].pc = "recipe"]
  /\ UNCHANGED <<recipes, settings, oci, worker, editor, faults, aux>>

MarkRunnerImageRecipePromoted(p) ==
  LET row == promoter[p].row
  IN  /\ promoter[p].pc = "recipe"
      /\ recipes' = [recipes EXCEPT ![row.recipe] =
           IF @.state = "saved"
           THEN [@ EXCEPT !.build = promoter[p].at, !.image = row.image] ELSE @]
      /\ promoter' = [promoter EXCEPT ![p] = IdlePromoter]
      /\ UNCHANGED <<builds, settings, oci, worker, editor, faults, aux>>

\* Any of its calls returns an error, or the request is cut short.
PromotionFails(p) ==
  /\ promoter[p].pc # "idle"
  /\ promoter' = [promoter EXCEPT ![p] = IdlePromoter]
  /\ UNCHANGED <<store, oci, worker, editor, faults, aux>>

(***************************************************************************)
(* Recipes and settings.                                                   *)
(***************************************************************************)
CreateRecipe(e, r) ==
  /\ editor[e].pc = "idle"
  /\ recipes[r].state = "unsaved"
  /\ recipes' = [recipes EXCEPT ![r].state = "saved"]
  /\ UNCHANGED <<builds, settings, oci, worker, promoter, editor, faults, aux>>

\* An edit reads the promotion of the recipe and writes it back.
EditRecipe(e, r) ==
  /\ editor[e].pc = "idle"
  /\ recipes[r].state = "saved"
  /\ editor' = [editor EXCEPT ![e] = [pc |-> "update", recipe |-> r, read |-> recipes[r]]]
  /\ UNCHANGED <<store, oci, worker, promoter, faults, aux>>

UpdateRunnerImageRecipe(e) ==
  /\ editor[e].pc = "update"
  /\ recipes' = [recipes EXCEPT ![editor[e].recipe] =
       IF @.state = "saved" THEN editor[e].read ELSE @]
  /\ editor' = [editor EXCEPT ![e] = IdleEditor]
  /\ UNCHANGED <<builds, settings, oci, worker, promoter, faults, aux>>

DeleteBuilds(e, r) ==
  /\ editor[e].pc = "idle"
  /\ recipes[r].state = "saved"
  /\ builds' = [b \in Builds |-> IF Exists(b) /\ builds[b].recipe = r
                                 THEN [Blank EXCEPT !.status = "deleted"] ELSE builds[b]]
  /\ editor' = [editor EXCEPT ![e].pc = "delete", ![e].recipe = r]
  /\ UNCHANGED <<recipes, settings, oci, worker, promoter, faults, aux>>

DeleteRecipe(e) ==
  /\ editor[e].pc = "delete"
  /\ recipes' = [recipes EXCEPT ![editor[e].recipe] = [Unpromoted EXCEPT !.state = "deleted"]]
  /\ editor' = [editor EXCEPT ![e] = IdleEditor]
  /\ UNCHANGED <<builds, settings, oci, worker, promoter, faults, aux>>

EditFails(e) ==
  /\ editor[e].pc # "idle"
  /\ editor' = [editor EXCEPT ![e] = IdleEditor]
  /\ UNCHANGED <<store, oci, worker, promoter, faults, aux>>

\* The settings page: Save of the catalogue's choices, or Clear.
SettingsPage(e) ==
  /\ editor[e].pc = "idle"
  /\ settings' \in {s \in Settings : s.image = NoImage \/ images[s.image].state = "ready"}
                   \union {Defaults}
  /\ UNCHANGED <<builds, recipes, oci, worker, promoter, editor, faults, aux>>

(***************************************************************************)
(* OCI and the bake script.                                                *)
(***************************************************************************)
ScriptPrints(m) ==
  /\ machines[m].power = "running"
  /\ \E log \in PrintsNext(machines[m].log) : machines' = [machines EXCEPT ![m].log = log]
  /\ UNCHANGED <<store, images, worker, promoter, editor, faults, aux>>

\* shutdown -h now, or the machine dies earlier.
MachineStops(m) ==
  /\ machines[m].power = "running"
  /\ machines' = [machines EXCEPT ![m].power = "stopped"]
  /\ UNCHANGED <<store, images, worker, promoter, editor, faults, aux>>

ImageCompletes(i) ==
  /\ images[i].state = "capturing"
  /\ images' = [images EXCEPT ![i].state = "ready"]
  /\ UNCHANGED <<store, machines, worker, promoter, editor, faults, aux>>

-----------------------------------------------------------------------------
PassStep(w) ==
  \/ \E b \in Builds : LaunchBake(w, b) \/ LaunchFails(w, b)
                       \/ GetInstance(w, b) \/ GetInstanceFails(w, b)
  \/ CaptureConsoleOutput(w) \/ SavePhase(w) \/ BakeFailed(w) \/ CreateImage(w)
  \/ CreateImageFails(w) \/ GetImageReady(w) \/ GetImageCapturing(w) \/ GetImageFails(w)
  \/ StoppedEarly(w) \/ StillBaking(w) \/ TerminateInstance(w) \/ SaveBuild(w)
  \/ SaveFails(w) \/ FailBuild(w) \/ FailBuildLost(w) \/ PassEnds(w)

WorkerStep(w) ==
  \/ \E r \in Recipes : FindRecipe(w, r)
  \/ CreateRunnerImageBuild(w) \/ CreateBuildFails(w) \/ ListPending(w) \/ PassStep(w) \/ Abort(w)

PromoterStep(p) ==
  \/ \E b \in Builds : FindBuild(p, b)
  \/ CurrentStatus(p) \/ SaveSettings(p) \/ MarkBuildPromoted(p)
  \/ MarkRunnerImageRecipePromoted(p) \/ PromotionFails(p)

EditorStep(e) ==
  \/ \E r \in Recipes : CreateRecipe(e, r) \/ EditRecipe(e, r) \/ DeleteBuilds(e, r)
  \/ UpdateRunnerImageRecipe(e) \/ DeleteRecipe(e) \/ EditFails(e) \/ SettingsPage(e)

Environment ==
  \/ \E m \in Machines : ScriptPrints(m) \/ MachineStops(m)
  \/ \E i \in Images : ImageCompletes(i)

Next ==
  \/ \E w \in Workers : WorkerStep(w)
  \/ \E p \in Promoters : PromoterStep(p)
  \/ \E e \in Editors : EditorStep(e)
  \/ Environment

Spec == Init /\ [][Next]_vars
=============================================================================
