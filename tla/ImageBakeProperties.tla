------------------------- MODULE ImageBakeProperties -------------------------
(***************************************************************************)
(* What is claimed of the image bake, whatever passes, promotions, edits   *)
(* and failures overlap.                                                   *)
(***************************************************************************)
EXTENDS ImageBake

\* The machines launched for build b, and the images captured for it.
MachineOf(m, b) == machines[m].power # "unused" /\ machines[m].build = b
ImageOf(i, b)   == images[i].state # "unused" /\ machines[images[i].machine].build = b

\* The status of a build is a claim about its machine and its image.  It may lag behind
\* them but never runs ahead, though it is written from snapshots: `verifying` only once
\* the verify commands run, `creating_image` only after they passed, `available` and
\* `promoted` only when OCI has the image ready.
StatusNeverLeads ==
  \A b \in Builds :
    LET row == builds[b]
        log == machines[row.instance].log
    IN  /\ row.status = "provisioning" => log # "blank"
        /\ row.status = "verifying" => log \in {"verifying", "passed", "verify_failed"}
        /\ row.status \in {"creating_image", "available", "promoted"} =>
             row.image # NoImage /\ log = "passed"
        /\ row.status \in {"available", "promoted"} => images[row.image].state = "ready"

\* Machine and image of a row belong together: the machine was launched for this build,
\* and the image was captured from this machine, whichever of two passes wrote last.
RowsAreWhole ==
  \A b \in Builds :
    LET row == builds[b]
    IN  /\ row.instance # NoMachine => MachineOf(row.instance, b)
        /\ row.image # NoImage =>
             /\ images[row.image].state # "unused"
             /\ images[row.image].machine = row.instance

\* No pass takes a machine away from a bake that may still succeed: a machine is
\* terminated only after it has reported a failure or an image of it is ready.
TerminatedOnlyWhenDone ==
  \A m \in Machines : machines[m].power = "terminated" =>
    \/ Failure(machines[m].log)
    \/ \E i \in Images : images[i].machine = m /\ images[i].state = "ready"

\* The three writes of a promotion come in an order that claims nothing too early: what a
\* build or a recipe calls promoted has been the default of the runtime, and was ready;
\* and the pair a recipe shows is an image of that very build, a build of that recipe,
\* even after an edit of the recipe wrote back an older pair.
PromotionIsInOrder ==
  /\ \A i \in defaulted : images[i].state = "ready"
  /\ \A b \in Builds : builds[b].status = "promoted" => builds[b].image \in defaulted
  /\ \A r \in Recipes : recipes[r].image # NoImage =>
       /\ recipes[r].image \in defaulted
       /\ ImageOf(recipes[r].image, recipes[r].build)
       /\ Exists(recipes[r].build) => builds[recipes[r].build].recipe = r

\* A build gets a second machine or a second image only when two passes held it at once,
\* or when a pass was cut short between OCI's answer and the write of the row.
OneMachineOneImage ==
  \A b \in Builds \ disturbed :
    /\ \A m, n \in Machines : MachineOf(m, b) /\ MachineOf(n, b) => m = n
    /\ \A i, j \in Images : ImageOf(i, b) /\ ImageOf(j, b) => i = j

\* The bake implements VerifiedImages: an image is captured only from a machine whose
\* commands have passed, and only a ready image becomes the default of the runtime.
Catalogue == INSTANCE VerifiedImages WITH
  passed  <- {m \in Machines : machines[m].log = "passed"},
  source  <- [i \in Images |-> images[i].machine],
  ready   <- {i \in Images : images[i].state = "ready"},
  default <- settings.image

CatalogueSpec == Catalogue!Spec

(***************************************************************************)
(* Liveness.  The ticker fires and a pass proceeds; the script ends in a   *)
(* shutdown, and OCI completes what it captures.                           *)
(***************************************************************************)
Fairness ==
  /\ WF_vars(ListPending(Ticker))
  /\ \A w \in Workers : WF_vars(PassStep(w))
  /\ \A m \in Machines : WF_vars(MachineStops(m))
  /\ \A i \in Images : WF_vars(ImageCompletes(i))

FairSpec == Spec /\ Fairness

\* No build is worked on for ever: with passes that overlap, fail and write back old
\* copies, every pending build still ends as available, failed, promoted or deleted.
EveryBuildFinishes ==
  \A b \in Builds : builds[b].status \in Pending ~> builds[b].status \notin Pending

(***************************************************************************)
(* What the documents and the tests say, and the code does not do.         *)
(***************************************************************************)
\* "expected one bake instance launch" (runnerimages/service_test.go): a build launches
\* one machine.
OneBakeInstance ==
  \A b \in Builds : \A m, n \in Machines : MachineOf(m, b) /\ MachineOf(n, b) => m = n

\* "Promote only from an `available` build" (docs/runner-images.md).
PromotesOnlyAvailable ==
  [][\A b \in Builds : builds[b].status # "promoted" /\ builds'[b].status = "promoted"
       => builds[b].status = "available"]_vars

\* "Promotion updates the default runtime image" (docs/runner-images.md): and nothing
\* else of the settings it has read.
PromotionChangesTheImage ==
  [][\A p \in Promoters : promoter[p].pc = "save" /\ promoter'[p].pc = "build"
       => settings' = [promoter[p].read EXCEPT !.image = settings'.image]]_vars

\* "launches a temporary bake instance" (docs/runner-images.md): the machine of a build
\* that has ended goes.
BakeInstanceIsTemporary ==
  \A b \in Builds : \A m \in Machines :
    builds[b].status = "failed" /\ builds[b].instance = m ~>
      machines[m].power = "terminated" \/ builds[b].instance # m
=============================================================================
