--------------------------- MODULE ImageBakeProofs ---------------------------
(***************************************************************************)
(* The safety of the image bake, for any number of recipes, builds, passes *)
(* and promotions.                                                         *)
(*                                                                         *)
(* The inductive invariant IInv says of every row, in the table and in     *)
(* each copy that a goroutine holds of it, that what the row claims about  *)
(* its machine and its image has come true.  OCI never takes such a fact   *)
(* back (Grows), so a copy stays good however old it is when it is         *)
(* written.  UInv adds, for the builds that no two passes have held and no *)
(* pass has dropped half-way, that the row tells everything OCI has.       *)
(***************************************************************************)
EXTENDS ImageBakeProperties, TLAPS

-----------------------------------------------------------------------------
(* Types                                                                    *)

Powers == {"unused", "running", "stopped", "terminated"}

MachineType == [build : Builds \union {NoBuild}, power : Powers, log : Logs]
ImageType   == [machine : Machines \union {NoMachine}, state : {"unused", "capturing", "ready"}]

PairType ==
  [ state : {"unsaved", "saved", "deleted"},
    build : Builds \union {NoBuild},
    image : Images \union {NoImage} ]

Labels == {"idle", "insert", "list", "take", "console", "phase", "judge", "terminate",
           "save", "fail"}

WorkerType ==
  [ pc     : Labels,
    recipe : Recipes \union {NoRecipe},
    list   : [Builds -> Row],
    at     : Builds \union {NoBuild},
    cur    : Row,
    power  : Powers,
    log    : Logs ]

PromoterType ==
  [ pc   : {"idle", "settings", "save", "build", "recipe"},
    at   : Builds \union {NoBuild},
    row  : Row,
    read : Settings ]

EditorType ==
  [ pc     : {"idle", "update", "delete"},
    recipe : Recipes \union {NoRecipe},
    read   : PairType ]

\* TypeOK in these names, and what they say of the next state.
LEMMA TypeParts ==
  TypeOK <=>
    /\ builds \in [Builds -> Row] /\ recipes \in [Recipes -> PairType]
    /\ settings \in Settings
    /\ machines \in [Machines -> MachineType] /\ images \in [Images -> ImageType]
    /\ worker \in [Workers -> WorkerType] /\ promoter \in [Promoters -> PromoterType]
    /\ editor \in [Editors -> EditorType]
    /\ faults \in 0..MaxFaults /\ disturbed \subseteq Builds /\ defaulted \subseteq Images
PROOF BY Zenon DEF TypeOK, PairType, MachineType, ImageType, Powers, Labels, WorkerType,
  PromoterType, EditorType

\* The same of the next state.
LEMMA NextTypes ==
  TypeOK' <=>
    /\ builds' \in [Builds -> Row] /\ recipes' \in [Recipes -> PairType]
    /\ settings' \in Settings
    /\ machines' \in [Machines -> MachineType] /\ images' \in [Images -> ImageType]
    /\ worker' \in [Workers -> WorkerType] /\ promoter' \in [Promoters -> PromoterType]
    /\ editor' \in [Editors -> EditorType]
    /\ faults' \in 0..MaxFaults /\ disturbed' \subseteq Builds
    /\ defaulted' \subseteq Images
PROOF BY Zenon DEF TypeOK, PairType, MachineType, ImageType, Powers, Labels, WorkerType,
  PromoterType, EditorType

\* The numbers that stand for nothing are no builds, machines or images.
LEMMA Nothing ==
  NoBuild \notin Builds /\ NoMachine \notin Machines /\ NoImage \notin Images
PROOF BY ConstantAssumption DEF NoBuild, NoMachine, NoImage, Builds, Machines, Images

\* A row that does not exist yet is a row.
LEMMA BlankRow == Blank \in Row
PROOF BY DEF Blank, Row, Pending, Finished

\* What a goroutine is before and after its work has the right type.
LEMMA IdleTypes ==
  IdleWorker \in WorkerType /\ IdlePromoter \in PromoterType /\ IdleEditor \in EditorType
  /\ Unpromoted \in PairType
PROOF BY BlankRow, ConstantAssumption
  DEF Labels, IdleWorker, IdlePromoter, IdleEditor, Unpromoted, WorkerType, PromoterType,
    EditorType, PairType, Powers, Logs

-----------------------------------------------------------------------------
(* The inductive invariant                                                  *)

\* The console has got as far as `seen` says.
Reached(seen, log) ==
  CASE seen = "blank"        -> TRUE
    [] seen = "provisioning" -> log # "blank"
    [] seen = "verifying"    -> log \in {"verifying", "passed", "verify_failed"}
    [] OTHER                 -> log = seen

Gone == {"unused", "deleted"}

\* A row of build b, in the table or in a copy: what it says has come true, for good.
GoodRow(b, row) ==
  /\ row.status \notin Gone => row.recipe \in Recipes
  /\ row.instance # NoMachine => MachineOf(row.instance, b)
  /\ row.image # NoImage =>
       /\ row.instance # NoMachine
       /\ images[row.image].state # "unused"
       /\ images[row.image].machine = row.instance
  /\ row.status = "queued" => row.instance = NoMachine
  /\ row.status \notin Gone \union {"queued", "failed"} => row.instance # NoMachine
  /\ row.status \in {"provisioning", "verifying"} =>
       Reached(row.status, machines[row.instance].log)
  /\ row.status \in {"creating_image", "available", "promoted"} => row.image # NoImage
  /\ row.status \in {"available", "promoted"} => images[row.image].state = "ready"
  /\ row.status = "promoted" => row.image \in defaulted

\* A copy of build b with this recipe was read from the table.
Known(b, recipe) ==
  /\ builds[b].status # "unused"
  /\ Exists(b) => builds[b].recipe = recipe

MachinesOK ==
  \A m \in Machines :
    IF machines[m].power = "unused" THEN machines[m].log = "blank"
    ELSE machines[m].build \in Builds /\ builds[machines[m].build].status # "unused"

ImagesOK ==
  \A i \in Images :
    IF images[i].state = "unused" THEN images[i].machine = NoMachine
    ELSE images[i].machine \in Machines /\ machines[images[i].machine].log = "passed"

DefaultsReady == \A i \in defaulted : images[i].state = "ready"

AtWork == {"console", "phase", "judge", "terminate", "save"}

ListOK(list) ==
  \A b \in Builds : list[b].status # "unused" =>
    /\ list[b].status \in Pending
    /\ GoodRow(b, list[b])
    /\ Known(b, list[b].recipe)

\* What a pass knows of the build it works on, by its label.
CurOK(s) ==
  /\ GoodRow(s.at, s.cur)
  /\ s.cur.instance # NoMachine
  /\ s.cur.recipe = s.list[s.at].recipe
  /\ s.cur.status \notin Gone \union {"queued", "promoted"}
  /\ s.pc \in {"console", "phase", "judge"} =>
       s.cur.status \in Pending /\ s.cur.image = s.list[s.at].image
  /\ s.pc \in {"phase", "judge"} => Reached(s.log, machines[s.cur.instance].log)
  /\ s.pc = "phase" => s.log # "blank"
  /\ s.pc = "terminate" =>
       /\ s.cur.status \notin Pending
       /\ \/ Failure(machines[s.cur.instance].log)
          \/ s.cur.image # NoImage /\ images[s.cur.image].state = "ready"

WorkerOK(s) ==
  /\ ListOK(s.list)
  /\ s.pc = "insert" => s.recipe \in Recipes
  /\ s.pc \in {"idle", "insert", "list"} => \A b \in Builds : s.list[b].status = "unused"
  /\ s.pc \in AtWork \union {"fail"} => s.at \in Builds /\ s.list[s.at].status \in Pending
  /\ s.pc \in AtWork => CurOK(s)

PromoterOK(s) ==
  s.pc # "idle" =>
    /\ s.at \in Builds
    /\ GoodRow(s.at, s.row)
    /\ s.row.recipe \in Recipes
    /\ s.row.image # NoImage
    /\ Known(s.at, s.row.recipe)
    /\ s.pc \in {"build", "recipe"} => s.row.image \in defaulted

\* What recipe r shows as promoted, in its row or in an editor's copy of it.
PairOK(r, s) ==
  s.image # NoImage =>
    /\ s.image \in defaulted
    /\ s.build \in Builds
    /\ ImageOf(s.image, s.build)
    /\ Known(s.build, r)

EditorOK(s) ==
  /\ s.pc # "idle" => s.recipe \in Recipes
  /\ s.pc = "update" => PairOK(s.recipe, s.read)

CloudOK      == MachinesOK /\ ImagesOK /\ TerminatedOnlyWhenDone /\ DefaultsReady
RowsOK       == \A b \in Builds : GoodRow(b, builds[b])
RecipesOK    == \A r \in Recipes : PairOK(r, recipes[r])
WorkersOK    == \A w \in Workers : WorkerOK(worker[w])
PromotersOK  == \A p \in Promoters : PromoterOK(promoter[p])
EditorsOK    == \A e \in Editors : EditorOK(editor[e])

IInv == CloudOK /\ RowsOK /\ RecipesOK /\ WorkersOK /\ PromotersOK /\ EditorsOK

-----------------------------------------------------------------------------
(* What has come true stays true                                            *)

\* Machines, consoles and images only move forward.
Grows ==
  /\ \A m \in Machines :
       /\ machines[m].power # "unused" =>
            machines'[m].power # "unused" /\ machines'[m].build = machines[m].build
       /\ Reached(machines[m].log, machines'[m].log)
  /\ \A i \in Images :
       /\ images[i].state # "unused" =>
            images'[i].state # "unused" /\ images'[i].machine = images[i].machine
       /\ images[i].state = "ready" => images'[i].state = "ready"
  /\ defaulted \subseteq defaulted'

\* A build keeps its recipe, and one that is gone does not come back.
RowsMove ==
  \A b \in Builds : builds[b].status # "unused" =>
    /\ builds'[b].status # "unused"
    /\ Exists(b)' => Exists(b) /\ builds'[b].recipe = builds[b].recipe

\* Reached orders the consoles.
LEMMA ReachedFurther ==
  ASSUME NEW a \in Logs, NEW b \in Logs, NEW c \in Logs, Reached(a, b), Reached(b, c)
  PROVE  Reached(a, c)
PROOF BY DEF Reached, Logs

\* A console has got as far as it says.
LEMMA ReachedItself == \A a \in Logs : Reached(a, a)
PROOF BY DEF Reached, Logs

\* What a row claims stays true, whatever OCI goes on to do.
LEMMA GoodRowStays ==
  ASSUME TypeOK, TypeOK', Grows, NEW b, NEW row \in Row, GoodRow(b, row)
  PROVE  GoodRow(b, row)'
PROOF
<1>1. machines \in [Machines -> MachineType] /\ machines' \in [Machines -> MachineType]
  BY TypeParts, NextTypes
<1>2. /\ row.instance \in Machines \union {NoMachine} /\ row.image \in Images \union {NoImage}
      /\ row.status \in Pending \union Finished \union Gone
  BY DEF Row, Gone
<1>3. row.instance # NoMachine => MachineOf(row.instance, b)'
  BY <1>2 DEF GoodRow, MachineOf, Grows
<1>4. row.image # NoImage => /\ images'[row.image].state # "unused"
                             /\ images'[row.image].machine = row.instance
  BY <1>2 DEF GoodRow, Grows
<1>5. row.status \in {"provisioning", "verifying"} =>
        Reached(row.status, machines'[row.instance].log)
  <2> SUFFICES ASSUME row.status \in {"provisioning", "verifying"}
               PROVE  Reached(row.status, machines'[row.instance].log)
    OBVIOUS
  <2>1. row.instance \in Machines
    BY <1>2 DEF GoodRow, Gone
  <2>2. row.status \in Logs /\ machines[row.instance].log \in Logs
        /\ machines'[row.instance].log \in Logs
    BY <1>1, <2>1 DEF Logs, MachineType
  <2> QED
    BY <2>1, <2>2, ReachedFurther DEF GoodRow, Grows
<1>6. row.status \in {"available", "promoted"} => images'[row.image].state = "ready"
  BY <1>2 DEF GoodRow, Grows
<1>7. row.status = "promoted" => row.image \in defaulted'
  BY DEF GoodRow, Grows
<1> QED
  BY <1>3, <1>4, <1>5, <1>6, <1>7 DEF GoodRow

\* Ids are not used twice, so a copy keeps its build.
LEMMA KnownStays ==
  ASSUME RowsMove, NEW b \in Builds, NEW r, Known(b, r)
  PROVE  Known(b, r)'
PROOF BY DEF RowsMove, Known

\* An image remains the image of its build.
LEMMA ImageOfStays ==
  ASSUME TypeOK, IInv, Grows, NEW i \in Images, NEW b \in Builds, ImageOf(i, b)
  PROVE  ImageOf(i, b)'
PROOF
<1>1. images[i].machine \in Machines /\ machines[images[i].machine].log = "passed"
  BY DEF ImageOf, IInv, CloudOK, ImagesOK
<1>2. machines[images[i].machine].power # "unused"
  BY <1>1 DEF IInv, CloudOK, MachinesOK
<1> QED
  BY <1>1, <1>2 DEF ImageOf, Grows

\* What is shown as promoted stays true.
LEMMA PairStays ==
  ASSUME TypeOK, IInv, Grows, RowsMove, NEW r, NEW s \in PairType, PairOK(r, s)
  PROVE  PairOK(r, s)'
PROOF
<1> SUFFICES ASSUME s.image # NoImage
             PROVE  /\ s.image \in defaulted' /\ s.build \in Builds
                    /\ ImageOf(s.image, s.build)' /\ Known(s.build, r)'
  BY DEF PairOK
<1>1. s.image \in Images /\ s.build \in Builds /\ ImageOf(s.image, s.build)
      /\ Known(s.build, r) /\ s.image \in defaulted
  BY DEF PairOK, PairType
<1> QED
  BY <1>1, ImageOfStays, KnownStays DEF Grows

\* So do the snapshots of a pass,
LEMMA ListStays ==
  ASSUME TypeOK, TypeOK', Grows, RowsMove, NEW list \in [Builds -> Row], ListOK(list)
  PROVE  ListOK(list)'
PROOF BY GoodRowStays, KnownStays DEF ListOK

\* the copy it works on,
LEMMA CurStays ==
  ASSUME TypeOK, TypeOK', Grows, NEW s \in WorkerType, CurOK(s)
  PROVE  CurOK(s)'
PROOF
<1>1. machines \in [Machines -> MachineType] /\ machines' \in [Machines -> MachineType]
  BY TypeParts, NextTypes
<1>2. s.cur \in Row /\ s.log \in Logs
  BY DEF WorkerType
<1>3. s.cur.instance \in Machines /\ s.cur.image \in Images \union {NoImage}
  BY <1>2 DEF CurOK, Row
<1>4. machines[s.cur.instance].log \in Logs /\ machines'[s.cur.instance].log \in Logs
      /\ Reached(machines[s.cur.instance].log, machines'[s.cur.instance].log)
  BY <1>1, <1>3 DEF MachineType, Grows
<1>5. GoodRow(s.at, s.cur)'
  BY <1>2, GoodRowStays DEF CurOK
<1>6. s.pc \in {"phase", "judge"} => Reached(s.log, machines'[s.cur.instance].log)
  BY <1>2, <1>4, ReachedFurther DEF CurOK
<1>7. Failure(machines[s.cur.instance].log) => Failure(machines'[s.cur.instance].log)
  BY <1>4 DEF Failure, Reached
<1>8. s.cur.image # NoImage /\ images[s.cur.image].state = "ready"
        => images'[s.cur.image].state = "ready"
  BY <1>3 DEF Grows
<1> QED
  BY <1>5, <1>6, <1>7, <1>8 DEF CurOK

\* and all it knows;
LEMMA WorkerStays ==
  ASSUME TypeOK, TypeOK', Grows, RowsMove, NEW s \in WorkerType, WorkerOK(s)
  PROVE  WorkerOK(s)'
PROOF
<1>1. s.list \in [Builds -> Row]
  BY DEF WorkerType
<1>2. ListOK(s.list)'
  BY <1>1, ListStays DEF WorkerOK
<1>3. s.pc \in AtWork => CurOK(s)'
  BY CurStays DEF WorkerOK
<1> QED
  BY <1>2, <1>3 DEF WorkerOK

\* the row that a promotion has read,
LEMMA PromoterStays ==
  ASSUME TypeOK, TypeOK', Grows, RowsMove, NEW s \in PromoterType, PromoterOK(s)
  PROVE  PromoterOK(s)'
PROOF
<1>1. s.row \in Row
  BY DEF PromoterType
<1>2. s.pc # "idle" => GoodRow(s.at, s.row)'
  BY <1>1, GoodRowStays DEF PromoterOK
<1>3. s.pc # "idle" => Known(s.at, s.row.recipe)'
  BY KnownStays DEF PromoterOK
<1> QED
  BY <1>2, <1>3 DEF PromoterOK, Grows

\* and the pair that an edit has read.
LEMMA EditorStays ==
  ASSUME TypeOK, IInv, Grows, RowsMove, NEW s \in EditorType, EditorOK(s)
  PROVE  EditorOK(s)'
PROOF
<1>1. s.read \in PairType
  BY DEF EditorType
<1> QED
  BY <1>1, PairStays DEF EditorOK

-----------------------------------------------------------------------------
(* Type correctness                                                         *)

Statuses == Pending \union Finished \union {"unused", "deleted"}

\* The fields of a row, and the updates of a row.
LEMMA RowFields ==
  ASSUME NEW row \in Row
  PROVE  /\ row.recipe \in Recipes \union {NoRecipe} /\ row.status \in Statuses
         /\ row.instance \in Machines \union {NoMachine} /\ row.image \in Images \union {NoImage}
         /\ \A status \in Statuses : [row EXCEPT !.status = status] \in Row
         /\ \A m \in Machines, status \in Statuses :
              [row EXCEPT !.status = status, !.instance = m] \in Row
         /\ \A i \in Images, status \in Statuses :
              [row EXCEPT !.image = i, !.status = status] \in Row
PROOF BY DEF Row, Statuses

\* What the labels of a pass say of the build it works on.
LEMMA WorkingOn ==
  ASSUME TypeOK, IInv, NEW w \in Workers
  PROVE  /\ worker[w] \in WorkerType /\ WorkerOK(worker[w])
         /\ worker[w].cur \in Row /\ worker[w].list \in [Builds -> Row]
         /\ worker[w].pc \in AtWork \union {"fail"} =>
              worker[w].at \in Builds /\ worker[w].list[worker[w].at] \in Row
         /\ worker[w].pc \in AtWork => CurOK(worker[w]) /\ worker[w].cur.instance \in Machines
         /\ worker[w].pc = "phase" =>
              ParseBakePhase(worker[w].log) \in {"provisioning", "verifying"}
         /\ \A b \in Builds : Holds(w, b) /\ worker[w].list[b].status # "queued" =>
              worker[w].list[b].instance \in Machines
PROOF
<1>1. worker[w] \in WorkerType
  BY TypeParts
<1>2. WorkerOK(worker[w])
  BY DEF IInv, WorkersOK
<1>3. worker[w].cur \in Row /\ worker[w].list \in [Builds -> Row] /\ worker[w].log \in Logs
  BY <1>1 DEF WorkerType
<1>4. worker[w].pc \in AtWork \union {"fail"} =>
        worker[w].at \in Builds /\ worker[w].list[worker[w].at] \in Row
  BY <1>2, <1>3 DEF WorkerOK
<1>5. worker[w].pc \in AtWork => CurOK(worker[w])
  BY <1>2 DEF WorkerOK
<1>6. worker[w].cur.instance # NoMachine => worker[w].cur.instance \in Machines
  BY <1>3, RowFields
<1>7. worker[w].pc \in AtWork => worker[w].cur.instance \in Machines
  BY <1>5, <1>6 DEF CurOK
<1>8. worker[w].pc = "phase" => worker[w].log # "blank"
  BY <1>5 DEF CurOK, AtWork
<1>9. worker[w].pc = "phase" => ParseBakePhase(worker[w].log) \in {"provisioning", "verifying"}
  BY <1>3, <1>8 DEF ParseBakePhase, Logs
<1>10. ASSUME NEW b \in Builds, Holds(w, b), worker[w].list[b].status # "queued"
       PROVE  worker[w].list[b].instance \in Machines
  <2>1. worker[w].list[b] \in Row /\ worker[w].list[b].status \in Pending
    BY <1>3, <1>10 DEF Holds
  <2>2. GoodRow(b, worker[w].list[b])
    BY <1>2, <2>1 DEF WorkerOK, ListOK, Pending
  <2>3. worker[w].list[b].instance # NoMachine
    BY <1>10, <2>1, <2>2 DEF GoodRow, Pending, Gone
  <2> QED
    BY <2>1, <2>3, RowFields
<1> QED
  BY <1>1, <1>2, <1>3, <1>4, <1>5, <1>7, <1>9, <1>10

\* A goroutine of RunOnce stays a goroutine when its label, its snapshots, its copy or what
\* OCI answered change.
LEMMA WorkerFields ==
  ASSUME TypeOK, NEW w \in Workers
  PROVE  /\ \A l \in Labels :
              /\ [worker EXCEPT ![w].pc = l] \in [Workers -> WorkerType]
              /\ \A at \in Builds :
                   [worker EXCEPT ![w].pc = l, ![w].at = at] \in [Workers -> WorkerType]
              /\ \A at \in Builds, cur \in Row :
                   [worker EXCEPT ![w].pc = l, ![w].at = at, ![w].cur = cur]
                     \in [Workers -> WorkerType]
              /\ \A cur \in Row :
                   [worker EXCEPT ![w].pc = l, ![w].cur = cur] \in [Workers -> WorkerType]
              /\ \A recipe \in Recipes \union {NoRecipe} :
                   [worker EXCEPT ![w].pc = l, ![w].recipe = recipe] \in [Workers -> WorkerType]
              /\ \A list \in [Builds -> Row] :
                   [worker EXCEPT ![w].pc = l, ![w].list = list] \in [Workers -> WorkerType]
              /\ \A log \in Logs :
                   [worker EXCEPT ![w].log = log, ![w].pc = l] \in [Workers -> WorkerType]
PROOF
<1>1. worker \in [Workers -> WorkerType]
  BY TypeParts
<1>2. ASSUME NEW l \in Labels PROVE [worker EXCEPT ![w].pc = l] \in [Workers -> WorkerType]
  BY <1>1, <1>2 DEF WorkerType
<1>3. ASSUME NEW l \in Labels, NEW at \in Builds
      PROVE  [worker EXCEPT ![w].pc = l, ![w].at = at] \in [Workers -> WorkerType]
  BY <1>1, <1>3 DEF WorkerType
<1>4. ASSUME NEW l \in Labels, NEW at \in Builds, NEW cur \in Row
      PROVE  [worker EXCEPT ![w].pc = l, ![w].at = at, ![w].cur = cur] \in [Workers -> WorkerType]
  BY <1>1, <1>4 DEF WorkerType
<1>5. ASSUME NEW l \in Labels, NEW cur \in Row
      PROVE  [worker EXCEPT ![w].pc = l, ![w].cur = cur] \in [Workers -> WorkerType]
  BY <1>1, <1>5 DEF WorkerType
<1>6. ASSUME NEW l \in Labels, NEW recipe \in Recipes \union {NoRecipe}
      PROVE  [worker EXCEPT ![w].pc = l, ![w].recipe = recipe] \in [Workers -> WorkerType]
  BY <1>1, <1>6 DEF WorkerType
<1>7. ASSUME NEW l \in Labels, NEW list \in [Builds -> Row]
      PROVE  [worker EXCEPT ![w].pc = l, ![w].list = list] \in [Workers -> WorkerType]
  BY <1>1, <1>7 DEF WorkerType
<1>8. ASSUME NEW l \in Labels, NEW log \in Logs
      PROVE  [worker EXCEPT ![w].log = log, ![w].pc = l] \in [Workers -> WorkerType]
  BY <1>1, <1>8 DEF WorkerType
<1> QED
  BY <1>2, <1>3, <1>4, <1>5, <1>6, <1>7, <1>8

\* The updates of a pass's copy.
LEMMA CopyFields ==
  ASSUME TypeOK, NEW w \in Workers, NEW l \in Labels, NEW status \in Statuses
  PROVE  /\ [worker EXCEPT ![w].pc = l, ![w].cur.status = status] \in [Workers -> WorkerType]
         /\ \A i \in Images :
              [worker EXCEPT ![w].pc = l, ![w].cur.image = i, ![w].cur.status = status]
                \in [Workers -> WorkerType]
PROOF
<1>1. worker \in [Workers -> WorkerType] /\ worker[w] \in WorkerType /\ worker[w].cur \in Row
  BY TypeParts DEF WorkerType
<1>2. [worker[w].cur EXCEPT !.status = status] \in Row
  BY <1>1, RowFields
<1>3. [worker EXCEPT ![w].pc = l, ![w].cur = [worker[w].cur EXCEPT !.status = status]]
        = [worker EXCEPT ![w].pc = l, ![w].cur.status = status]
  BY <1>1
<1>4. ASSUME NEW i \in Images
      PROVE  [worker EXCEPT ![w].pc = l, ![w].cur.image = i, ![w].cur.status = status]
                \in [Workers -> WorkerType]
  <2>1. [worker[w].cur EXCEPT !.image = i, !.status = status] \in Row
    BY <1>1, RowFields
  <2>2. [worker EXCEPT ![w].pc = l,
                       ![w].cur = [worker[w].cur EXCEPT !.image = i, !.status = status]]
          = [worker EXCEPT ![w].pc = l, ![w].cur.image = i, ![w].cur.status = status]
    BY <1>1
  <2>3. [worker EXCEPT ![w].pc = l,
                       ![w].cur = [worker[w].cur EXCEPT !.image = i, !.status = status]]
          \in [Workers -> WorkerType]
    BY <2>1, WorkerFields, Zenon
  <2> QED
    BY <2>2, <2>3, Zenon
<1>5. [worker EXCEPT ![w].pc = l, ![w].cur = [worker[w].cur EXCEPT !.status = status]]
        \in [Workers -> WorkerType]
  BY <1>2, WorkerFields, Zenon
<1> QED
  BY <1>3, <1>4, <1>5, Zenon

\* A pass that goes on to its next build.
LEMMA NextBuildType ==
  ASSUME TypeOK, NEW w \in Workers, NextBuild(w)
  PROVE  worker' \in [Workers -> WorkerType]
PROOF
<1>1. PICK s : s = worker[w]
  OBVIOUS
<1>2. s \in WorkerType /\ s.list \in [Builds -> Row] /\ worker \in [Workers -> WorkerType]
  BY <1>1, TypeParts DEF WorkerType
<1>3. [s.list EXCEPT ![s.at] = Blank] \in [Builds -> Row]
  BY <1>2, BlankRow
<1>4. worker' = [worker EXCEPT ![w] =
        [s EXCEPT !.pc = "take", !.list = [s.list EXCEPT ![s.at] = Blank], !.at = NoBuild,
                  !.cur = Blank, !.power = "unused", !.log = "blank"]]
  BY <1>1, <1>2 DEF NextBuild, WorkerType
<1>5. "take" \in Labels /\ "unused" \in Powers /\ "blank" \in Logs
  BY DEF Labels, Powers, Logs
<1>6. [s EXCEPT !.pc = "take", !.list = [s.list EXCEPT ![s.at] = Blank], !.at = NoBuild,
                !.cur = Blank, !.power = "unused", !.log = "blank"] \in WorkerType
  BY <1>2, <1>3, <1>5, BlankRow DEF WorkerType
<1> QED
  BY <1>2, <1>4, <1>6

\* A row is written as a row.
LEMMA UpdateType ==
  ASSUME TypeOK, NEW b, NEW row \in Row, UpdateRunnerImageBuild(b, row)
  PROVE  builds' \in [Builds -> Row]
PROOF BY TypeParts DEF UpdateRunnerImageBuild

\* A launch, a capture and a fault keep their types.
LEMMA LaunchedType ==
  ASSUME TypeOK, NEW m \in Machines, NEW b \in Builds, Launched(m, b)
  PROVE  machines' \in [Machines -> MachineType]
PROOF BY TypeParts DEF Launched, MachineType, Powers, Logs

LEMMA CapturedType ==
  ASSUME TypeOK, NEW i \in Images, NEW m \in Machines, Captured(i, m)
  PROVE  images' \in [Images -> ImageType]
PROOF BY TypeParts DEF Captured, ImageType

LEMMA FaultType ==
  ASSUME TypeOK, Fault
  PROVE  faults' \in 0..MaxFaults
PROOF BY TypeParts, ConstantAssumption DEF Fault

\* The steps of a pass.
LEMMA PassTypes ==
  ASSUME TypeOK, IInv, NEW w \in Workers, PassStep(w)
  PROVE  TypeOK'
PROOF
<1> USE TypeParts, NextTypes
<1> DEFINE s == worker[w]
<1>0. /\ s \in WorkerType /\ s.cur \in Row /\ s.list \in [Builds -> Row]
      /\ s.at \in Builds \union {NoBuild} /\ s.log \in Logs
      /\ s.pc \in AtWork \union {"fail"} => s.at \in Builds /\ s.list[s.at] \in Row
      /\ s.pc \in AtWork => s.cur.instance \in Machines
  BY WorkingOn DEF WorkerType
<1>st. /\ "failed" \in Statuses /\ "launching" \in Statuses /\ "creating_image" \in Statuses
       /\ "available" \in Statuses /\ {"provisioning", "verifying"} \subseteq Statuses
       /\ "judge" \in Labels /\ "terminate" \in Labels /\ "save" \in Labels
       /\ "fail" \in Labels /\ "console" \in Labels
  BY DEF Statuses, Pending, Finished, Labels
<1>1. ASSUME NEW b \in Builds, LaunchBake(w, b) PROVE TypeOK'
  <2>1. PICK m \in Machines : /\ Launched(m, b)
          /\ worker' = [worker EXCEPT ![w].pc = "save", ![w].at = b,
               ![w].cur = [worker[w].list[b] EXCEPT !.status = "launching", !.instance = m]]
    BY <1>1 DEF LaunchBake
  <2>2. [worker[w].list[b] EXCEPT !.status = "launching", !.instance = m] \in Row
    BY <1>0, <1>st, RowFields
  <2> QED
    BY <1>1, <1>st, <2>1, <2>2, WorkerFields, LaunchedType DEF LaunchBake, store, aux
<1>2. ASSUME NEW b \in Builds, LaunchFails(w, b) PROVE TypeOK'
  <2>1. machines' \in [Machines -> MachineType] /\ faults' \in 0..MaxFaults
    BY <1>2, LaunchedType, FaultType DEF LaunchFails
  <2> QED
    BY <1>2, <2>1, WorkerFields DEF Labels, LaunchFails, store, aux
<1>3. ASSUME NEW b \in Builds, GetInstance(w, b) PROVE TypeOK'
  <2>1. s.list[b].instance \in Machines /\ s.list[b] \in Row
    BY <1>0, <1>3, WorkingOn DEF GetInstance, IsNext
  <2>2. machines[s.list[b].instance].power \in Powers
    BY <2>1 DEF MachineType
  <2>3. [s EXCEPT !.pc = "console", !.at = b, !.cur = s.list[b],
                  !.power = machines[s.list[b].instance].power] \in WorkerType
    BY <1>0, <1>st, <2>1, <2>2 DEF WorkerType
  <2>4. worker' = [worker EXCEPT ![w] = [s EXCEPT !.pc = "console", !.at = b,
          !.cur = s.list[b], !.power = machines[s.list[b].instance].power]]
    BY <1>3, <1>0 DEF GetInstance
  <2> QED
    BY <1>3, <2>3, <2>4 DEF GetInstance, store, oci, aux
<1>4. ASSUME NEW b \in Builds, GetInstanceFails(w, b) PROVE TypeOK'
  BY <1>4, WorkerFields DEF Labels, GetInstanceFails, store, oci, aux
<1>5. CASE CaptureConsoleOutput(w)
  <2>1. machines[s.cur.instance].log \in Logs /\ "blank" \in Logs
    BY <1>0, <1>5 DEF CaptureConsoleOutput, AtWork, MachineType, Logs
  <2>2. PICK seen \in Logs, l \in {"judge", "phase"} :
          worker' = [worker EXCEPT ![w].log = seen, ![w].pc = l]
    BY <1>5, <2>1 DEF CaptureConsoleOutput
  <2>3. faults' \in 0..MaxFaults
    BY <1>5, FaultType DEF CaptureConsoleOutput
  <2> QED
    BY <1>5, <2>2, <2>3, WorkerFields DEF Labels, CaptureConsoleOutput, store, oci, aux
<1>6. CASE SavePhase(w)
  <2>1. ParseBakePhase(s.log) \in Statuses
    BY <1>6, <1>st, WorkingOn DEF SavePhase
  <2>2. [s.cur EXCEPT !.status = ParseBakePhase(s.log)] \in Row
    BY <1>0, <2>1, RowFields
  <2>3. builds' \in [Builds -> Row]
    BY <1>6, <2>2, UpdateType DEF SavePhase
  <2>4. worker' \in [Workers -> WorkerType]
    BY <1>6, <1>st, <2>2, WorkerFields DEF SavePhase
  <2> QED
    BY <1>6, <2>3, <2>4 DEF SavePhase, oci, aux
<1>7. CASE BakeFailed(w)
  <2>1. worker' \in [Workers -> WorkerType]
    BY <1>7, <1>st, CopyFields DEF BakeFailed
  <2> QED
    BY <1>7, <2>1 DEF BakeFailed, store, oci, aux
<1>8. CASE CreateImage(w)
  <2>1. s.cur.instance \in Machines
    BY <1>0, <1>8 DEF CreateImage, MayCapture, Judging, AtWork
  <2>2. PICK i \in Images : /\ Captured(i, s.cur.instance)
          /\ worker' = [worker EXCEPT ![w].pc = "save", ![w].cur.image = i,
                          ![w].cur.status = "creating_image"]
    BY <1>8 DEF CreateImage
  <2>3. worker' \in [Workers -> WorkerType]
    BY <1>st, <2>2, CopyFields
  <2> QED
    BY <1>8, <2>1, <2>2, <2>3, CapturedType DEF CreateImage, store, aux
<1>9. CASE CreateImageFails(w)
  <2>1. s.cur.instance \in Machines
    BY <1>0, <1>9 DEF CreateImageFails, MayCapture, Judging, AtWork
  <2>2. images' \in [Images -> ImageType] /\ faults' \in 0..MaxFaults
    BY <1>9, <2>1, CapturedType, FaultType DEF CreateImageFails
  <2> QED
    BY <1>9, <2>2, WorkerFields DEF Labels, CreateImageFails, Goto, store, aux
<1>10. CASE GetImageReady(w)
  <2>1. worker' \in [Workers -> WorkerType]
    BY <1>10, <1>st, CopyFields DEF GetImageReady
  <2> QED
    BY <1>10, <2>1 DEF GetImageReady, store, oci, aux
<1>11. CASE GetImageCapturing(w)
  <2>1. worker' \in [Workers -> WorkerType]
    BY <1>11, <1>st, CopyFields DEF GetImageCapturing
  <2> QED
    BY <1>11, <2>1 DEF GetImageCapturing, store, oci, aux
<1>12. CASE GetImageFails(w)
  BY <1>12, WorkerFields DEF Labels, GetImageFails, Goto, store, oci, aux
<1>13. CASE StoppedEarly(w)
  <2>1. worker' \in [Workers -> WorkerType]
    BY <1>13, <1>st, CopyFields DEF StoppedEarly
  <2> QED
    BY <1>13, <2>1 DEF StoppedEarly, store, oci, aux
<1>14. CASE StillBaking(w)
  BY <1>14, NextBuildType DEF StillBaking, store, oci, aux
<1>15. CASE TerminateInstance(w)
  <2>1. machines' \in [Machines -> MachineType]
    BY <1>15 DEF TerminateInstance, MachineType, Powers
  <2>2. faults' \in 0..MaxFaults
    BY <1>15, FaultType DEF TerminateInstance
  <2> QED
    BY <1>15, <2>1, <2>2, WorkerFields DEF Labels, TerminateInstance, Goto, store, aux
<1>16. CASE SaveBuild(w)
  BY <1>16, <1>0, UpdateType, NextBuildType DEF SaveBuild, oci, aux
<1>17. CASE SaveFails(w)
  BY <1>17, FaultType, WorkerFields DEF Labels, SaveFails, Goto, store, oci, aux
<1>18. CASE FailBuild(w)
  <2>1. [s.list[s.at] EXCEPT !.status = "failed"] \in Row
    BY <1>0, <1>18, <1>st, RowFields DEF FailBuild
  <2> QED
    BY <1>18, <2>1, UpdateType, NextBuildType DEF FailBuild, oci, aux
<1>19. CASE FailBuildLost(w)
  <2>1. s.at \in Builds
    BY <1>0, <1>19 DEF FailBuildLost
  <2> QED
    BY <1>19, <2>1, FaultType, NextBuildType DEF FailBuildLost, store, oci
<1>20. CASE PassEnds(w)
  BY <1>20, WorkerFields DEF Labels, PassEnds, Goto, store, oci, aux
<1> QED
  BY <1>1, <1>2, <1>3, <1>4, <1>5, <1>6, <1>7, <1>8, <1>9, <1>10, <1>11, <1>12, <1>13, <1>14,
    <1>15, <1>16, <1>17, <1>18, <1>19, <1>20, Zenon DEF PassStep

\* The other steps of a worker.
LEMMA WorkerTypes ==
  ASSUME TypeOK, IInv, NEW w \in Workers, WorkerStep(w)
  PROVE  TypeOK'
PROOF
<1> USE TypeParts, NextTypes
<1>0. /\ "idle" \in Labels /\ "insert" \in Labels /\ "list" \in Labels /\ "take" \in Labels
      /\ NoRecipe \in Recipes \union {NoRecipe}
  BY DEF Labels
<1>1. ASSUME NEW r \in Recipes, FindRecipe(w, r) PROVE TypeOK'
  <2>1. worker' \in [Workers -> WorkerType]
    BY <1>0, <1>1, WorkerFields DEF FindRecipe
  <2> QED
    BY <1>1, <2>1 DEF FindRecipe, store, oci, aux
<1>2. CASE CreateRunnerImageBuild(w)
  <2>1. worker[w].recipe \in Recipes \union {NoRecipe} /\ "queued" \in Statuses
    BY DEF WorkerType, Statuses, Pending
  <2>2. [Blank EXCEPT !.recipe = worker[w].recipe, !.status = "queued"] \in Row
    BY <2>1, BlankRow DEF Row, Statuses
  <2>3. builds' \in [Builds -> Row]
    BY <1>2, <2>2 DEF CreateRunnerImageBuild
  <2>4. worker' \in [Workers -> WorkerType]
    BY <1>0, <1>2, WorkerFields DEF CreateRunnerImageBuild
  <2> QED
    BY <1>2, <2>3, <2>4 DEF CreateRunnerImageBuild, oci, aux
<1>3. CASE CreateBuildFails(w)
  BY <1>3, IdleTypes DEF CreateBuildFails, store, oci, aux
<1>4. CASE ListPending(w)
  <2>1. PICK list : /\ list = [b \in Builds |-> IF builds[b].status \in Pending
                                                THEN builds[b] ELSE Blank]
                    /\ worker' = [worker EXCEPT ![w].pc = "take", ![w].list = list]
    BY <1>4 DEF ListPending
  <2>2. list \in [Builds -> Row]
    BY <2>1, BlankRow
  <2>3. worker' \in [Workers -> WorkerType]
    BY <1>0, <2>1, <2>2, WorkerFields
  <2>4. disturbed' \subseteq Builds
    BY <1>4 DEF ListPending
  <2> QED
    BY <1>4, <2>3, <2>4 DEF ListPending, store, oci
<1>5. CASE PassStep(w)
  BY <1>5, PassTypes
<1>6. CASE Abort(w)
  <2>1. disturbed' \subseteq Builds
    BY <1>6, WorkingOn DEF Abort, AtWork
  <2>2. worker' \in [Workers -> WorkerType]
    BY <1>6, IdleTypes DEF Abort
  <2> QED
    BY <1>6, <2>1, <2>2, FaultType DEF Abort, store, oci
<1> QED
  BY <1>1, <1>2, <1>3, <1>4, <1>5, <1>6, Zenon DEF WorkerStep

\* The steps of a promotion.
LEMMA PromoterTypes ==
  ASSUME TypeOK, IInv, NEW p \in Promoters, PromoterStep(p)
  PROVE  TypeOK'
PROOF
<1> USE TypeParts, NextTypes
<1>0. /\ promoter[p] \in PromoterType /\ promoter[p].row \in Row
      /\ promoter[p].at \in Builds \union {NoBuild}
      /\ promoter[p].pc # "idle" => promoter[p].at \in Builds
      /\ promoter[p].read \in Settings /\ promoter[p].row.image \in Images \union {NoImage}
      /\ promoter[p].pc # "idle" => promoter[p].row.image \in Images
  BY RowFields DEF PromoterType, IInv, PromotersOK, PromoterOK
<1>1. ASSUME NEW b \in Builds, FindBuild(p, b) PROVE TypeOK'
  <2>1. [promoter[p] EXCEPT !.pc = "settings", !.at = b, !.row = builds[b]] \in PromoterType
    BY <1>0 DEF PromoterType
  <2>2. promoter' = [promoter EXCEPT ![p] =
          [promoter[p] EXCEPT !.pc = "settings", !.at = b, !.row = builds[b]]]
    BY <1>1 DEF FindBuild
  <2>3. promoter' \in [Promoters -> PromoterType]
    BY <2>1, <2>2
  <2> QED
    BY <1>1, <2>3 DEF FindBuild, store, oci, aux
<1>2. CASE CurrentStatus(p)
  <2>1. promoter' \in [Promoters -> PromoterType]
    BY <1>2 DEF CurrentStatus, PromoterType
  <2> QED
    BY <1>2, <2>1 DEF CurrentStatus, store, oci, aux
<1>3. CASE SaveSettings(p)
  <2>1. promoter' \in [Promoters -> PromoterType]
    BY <1>3 DEF SaveSettings, PromoterType
  <2>2. settings' \in Settings
    BY <1>0, <1>3 DEF SaveSettings, Settings
  <2>3. defaulted' \subseteq Images
    BY <1>0, <1>3 DEF SaveSettings
  <2> QED
    BY <1>3, <2>1, <2>2, <2>3 DEF SaveSettings, oci
<1>4. CASE MarkBuildPromoted(p)
  <2>1. promoter' \in [Promoters -> PromoterType]
    BY <1>4 DEF MarkBuildPromoted, PromoterType
  <2>2. [promoter[p].row EXCEPT !.status = "promoted"] \in Row
    BY <1>0, RowFields DEF Statuses, Finished
  <2>3. builds' \in [Builds -> Row]
    BY <1>4, <2>2, UpdateType DEF MarkBuildPromoted
  <2> QED
    BY <1>4, <2>1, <2>3 DEF MarkBuildPromoted, oci, aux
<1>5. CASE MarkRunnerImageRecipePromoted(p)
  <2>1. promoter' \in [Promoters -> PromoterType]
    BY <1>5, IdleTypes DEF MarkRunnerImageRecipePromoted
  <2>2. \A pair \in PairType :
          [pair EXCEPT !.build = promoter[p].at, !.image = promoter[p].row.image] \in PairType
    BY <1>0 DEF PairType
  <2>3. recipes' \in [Recipes -> PairType]
    BY <1>5, <2>2 DEF MarkRunnerImageRecipePromoted
  <2> QED
    BY <1>5, <2>1, <2>3 DEF MarkRunnerImageRecipePromoted, oci, aux
<1>6. CASE PromotionFails(p)
  <2>1. promoter' \in [Promoters -> PromoterType]
    BY <1>6, IdleTypes DEF PromotionFails
  <2> QED
    BY <1>6, <2>1 DEF PromotionFails, store, oci, aux
<1> QED
  BY <1>1, <1>2, <1>3, <1>4, <1>5, <1>6, Zenon DEF PromoterStep

\* The steps of edits and of the settings page.
LEMMA EditorTypes ==
  ASSUME TypeOK, IInv, NEW e \in Editors, EditorStep(e)
  PROVE  TypeOK'
PROOF
<1> USE TypeParts, NextTypes
<1>1. ASSUME NEW r \in Recipes, CreateRecipe(e, r) PROVE TypeOK'
  <2>1. recipes' \in [Recipes -> PairType]
    BY <1>1 DEF CreateRecipe, PairType
  <2> QED
    BY <1>1, <2>1 DEF CreateRecipe, oci, aux
<1>2. ASSUME NEW r \in Recipes, EditRecipe(e, r) PROVE TypeOK'
  <2>1. editor' \in [Editors -> EditorType]
    BY <1>2 DEF EditRecipe, EditorType
  <2> QED
    BY <1>2, <2>1 DEF EditRecipe, store, oci, aux
<1>3. CASE UpdateRunnerImageRecipe(e)
  <2>1. recipes' \in [Recipes -> PairType]
    BY <1>3 DEF UpdateRunnerImageRecipe, EditorType
  <2>2. editor' \in [Editors -> EditorType]
    BY <1>3, IdleTypes DEF UpdateRunnerImageRecipe
  <2> QED
    BY <1>3, <2>1, <2>2 DEF UpdateRunnerImageRecipe, oci, aux
<1>4. ASSUME NEW r \in Recipes, DeleteBuilds(e, r) PROVE TypeOK'
  <2>1. [Blank EXCEPT !.status = "deleted"] \in Row
    BY BlankRow, RowFields DEF Statuses
  <2>2. builds' \in [Builds -> Row]
    BY <1>4, <2>1 DEF DeleteBuilds
  <2>3. editor' \in [Editors -> EditorType]
    BY <1>4 DEF DeleteBuilds, EditorType
  <2> QED
    BY <1>4, <2>2, <2>3 DEF DeleteBuilds, oci, aux
<1>5. CASE DeleteRecipe(e)
  <2>1. [Unpromoted EXCEPT !.state = "deleted"] \in PairType
    BY IdleTypes DEF PairType
  <2>2. recipes' \in [Recipes -> PairType]
    BY <1>5, <2>1 DEF DeleteRecipe
  <2>3. editor' \in [Editors -> EditorType]
    BY <1>5, IdleTypes DEF DeleteRecipe
  <2> QED
    BY <1>5, <2>2, <2>3 DEF DeleteRecipe, oci, aux
<1>6. CASE EditFails(e)
  <2>1. editor' \in [Editors -> EditorType]
    BY <1>6, IdleTypes DEF EditFails
  <2> QED
    BY <1>6, <2>1 DEF EditFails, store, oci, aux
<1>7. CASE SettingsPage(e)
  <2>1. settings' \in Settings
    BY <1>7, ConstantAssumption DEF SettingsPage
  <2> QED
    BY <1>7, <2>1 DEF SettingsPage, oci, aux
<1> QED
  BY <1>1, <1>2, <1>3, <1>4, <1>5, <1>6, <1>7, Zenon DEF EditorStep

\* The steps of OCI.
LEMMA EnvironmentTypes ==
  ASSUME TypeOK, Environment
  PROVE  TypeOK'
PROOF
<1> USE TypeParts, NextTypes
<1>1. ASSUME NEW m \in Machines, ScriptPrints(m) PROVE TypeOK'
  <2>1. machines[m].log \in Logs
    BY DEF MachineType
  <2>2. PrintsNext(machines[m].log) \subseteq Logs
    BY <2>1 DEF PrintsNext, Logs
  <2>3. machines' \in [Machines -> MachineType]
    BY <1>1, <2>2 DEF ScriptPrints, MachineType
  <2> QED
    BY <1>1, <2>3 DEF ScriptPrints, store, aux
<1>2. ASSUME NEW m \in Machines, MachineStops(m) PROVE TypeOK'
  <2>1. machines' \in [Machines -> MachineType]
    BY <1>2 DEF MachineStops, MachineType, Powers
  <2> QED
    BY <1>2, <2>1 DEF MachineStops, store, aux
<1>3. ASSUME NEW i \in Images, ImageCompletes(i) PROVE TypeOK'
  <2>1. images' \in [Images -> ImageType]
    BY <1>3 DEF ImageCompletes, ImageType
  <2> QED
    BY <1>3, <2>1 DEF ImageCompletes, store, aux
<1> QED
  BY <1>1, <1>2, <1>3, Zenon DEF Environment

\* Every step keeps the types.
LEMMA TypesKept ==
  ASSUME TypeOK, IInv, [Next]_vars
  PROVE  TypeOK'
PROOF
<1>1. CASE UNCHANGED vars
  BY <1>1, TypeParts, NextTypes DEF vars, store, oci, aux
<1> QED
  BY <1>1, WorkerTypes, PromoterTypes, EditorTypes, EnvironmentTypes, Zenon DEF Next

-----------------------------------------------------------------------------
(* What a step carries over                                                 *)

\* One worker moves, to a record that suits the state before the step.
Moves(w) ==
  \E s \in WorkerType : WorkerOK(s) /\ worker' = [worker EXCEPT ![w] = s]

Others(w) == \A v \in Workers \ {w} : worker'[v] = worker[v]

\* A step that leaves OCI alone.
LEMMA CloudStays ==
  ASSUME TypeOK, IInv, RowsMove, UNCHANGED <<oci, defaulted>>
  PROVE  CloudOK' /\ Grows
PROOF
<1>1. machines' = machines /\ images' = images /\ defaulted' = defaulted
  BY DEF oci
<1>2. machines \in [Machines -> MachineType]
  BY TypeParts
<1>3. \A m \in Machines : machines[m].log \in Logs
  BY <1>2 DEF MachineType
<1>4. Grows
  BY <1>1, <1>3, ReachedItself DEF Grows
<1>5. MachinesOK'
  BY <1>1 DEF IInv, CloudOK, MachinesOK, RowsMove
<1>6. ImagesOK' /\ TerminatedOnlyWhenDone' /\ DefaultsReady'
  BY <1>1 DEF IInv, CloudOK, ImagesOK, TerminatedOnlyWhenDone, DefaultsReady
<1> QED
  BY <1>4, <1>5, <1>6 DEF CloudOK

\* A step that leaves the builds alone.
LEMMA BuildsStay ==
  ASSUME builds' = builds
  PROVE  RowsMove
PROOF BY DEF RowsMove, Exists

\* The rows, when only OCI moves;
LEMMA RowsStay ==
  ASSUME TypeOK, TypeOK', IInv, Grows, builds' = builds
  PROVE  RowsOK'
PROOF
<1>1. \A b \in Builds : builds[b] \in Row /\ GoodRow(b, builds[b])
  BY TypeParts DEF IInv, RowsOK
<1>2. ASSUME NEW b \in Builds PROVE GoodRow(b, builds[b])'
  <2>1. PICK row \in Row : row = builds[b]
    BY <1>1
  <2>2. GoodRow(b, row)'
    BY <1>1, <2>1, GoodRowStays
  <2>3. builds'[b] = row
    BY <2>1
  <2> QED
    BY <2>2, <2>3 DEF GoodRow
<1> QED
  BY <1>2 DEF RowsOK

\* the recipes,
LEMMA RecipesStay ==
  ASSUME TypeOK, IInv, Grows, RowsMove, recipes' = recipes
  PROVE  RecipesOK'
PROOF
<1> SUFFICES ASSUME NEW r \in Recipes PROVE PairOK(r, recipes[r])'
  BY DEF RecipesOK
<1>1. PICK pair : pair = recipes[r]
  OBVIOUS
<1>2. pair \in PairType /\ PairOK(r, pair)
  BY <1>1, TypeParts DEF IInv, RecipesOK
<1>3. PairOK(r, pair)'
  BY <1>2, PairStays
<1> QED
  BY <1>1, <1>3 DEF PairOK

\* the passes,
LEMMA WorkersStay ==
  ASSUME TypeOK, TypeOK', IInv, Grows, RowsMove, NEW v \in Workers, worker'[v] = worker[v]
  PROVE  WorkerOK(worker[v])'
PROOF
<1>1. PICK s : s = worker[v]
  OBVIOUS
<1>2. s \in WorkerType /\ WorkerOK(s)
  BY <1>1, TypeParts DEF IInv, WorkersOK
<1>3. WorkerOK(s)'
  BY <1>2, WorkerStays
<1> QED
  BY <1>1, <1>3 DEF WorkerOK, CurOK

\* a pass that moves among the others,
LEMMA WorkerMoves ==
  ASSUME TypeOK, TypeOK', IInv, Grows, RowsMove, NEW w \in Workers, Moves(w)
  PROVE  WorkersOK'
PROOF
<1>1. PICK s \in WorkerType : WorkerOK(s) /\ worker' = [worker EXCEPT ![w] = s]
  BY DEF Moves
<1>2. worker \in [Workers -> WorkerType]
  BY TypeParts
<1>3. WorkerOK(s)'
  BY <1>1, WorkerStays
<1>4. worker'[w] = s
  BY <1>1, <1>2
<1>5. WorkerOK(worker[w])'
  BY <1>3, <1>4 DEF WorkerOK, CurOK
<1>6. ASSUME NEW v \in Workers, v # w PROVE WorkerOK(worker[v])'
  <2>1. worker'[v] = worker[v]
    BY <1>1, <1>2, <1>6
  <2> QED
    BY <2>1, WorkersStay
<1> QED
  BY <1>5, <1>6 DEF WorkersOK

\* the promotions,
LEMMA PromotersStay ==
  ASSUME TypeOK, TypeOK', IInv, Grows, RowsMove, NEW p \in Promoters,
         promoter'[p] = promoter[p]
  PROVE  PromoterOK(promoter[p])'
PROOF
<1>1. PICK s : s = promoter[p]
  OBVIOUS
<1>2. s \in PromoterType /\ PromoterOK(s)
  BY <1>1, TypeParts DEF IInv, PromotersOK
<1>3. PromoterOK(s)'
  BY <1>2, PromoterStays
<1> QED
  BY <1>1, <1>3 DEF PromoterOK

\* the edits,
LEMMA EditorsStay ==
  ASSUME TypeOK, IInv, Grows, RowsMove, NEW e \in Editors, editor'[e] = editor[e]
  PROVE  EditorOK(editor[e])'
PROOF
<1>1. PICK s : s = editor[e]
  OBVIOUS
<1>2. s \in EditorType /\ EditorOK(s)
  BY <1>1, TypeParts DEF IInv, EditorsOK
<1>3. EditorOK(s)'
  BY <1>2, EditorStays
<1> QED
  BY <1>1, <1>3 DEF EditorOK, PairOK

\* and all the goroutines.
LEMMA OthersStay ==
  ASSUME TypeOK, TypeOK', IInv, Grows, RowsMove
  PROVE  /\ worker' = worker => WorkersOK'
         /\ promoter' = promoter => PromotersOK'
         /\ editor' = editor => EditorsOK'
PROOF BY WorkersStay, PromotersStay, EditorsStay DEF WorkersOK, PromotersOK, EditorsOK

\* A step that changes neither the store nor OCI.
LEMMA QuietStep ==
  ASSUME TypeOK, TypeOK', IInv, UNCHANGED <<builds, recipes, oci, defaulted>>
  PROVE  /\ CloudOK' /\ RowsOK' /\ RecipesOK'
         /\ Grows /\ RowsMove
PROOF BY BuildsStay, CloudStays, RowsStay, RecipesStay

\* A pass moves and changes nothing else.
LEMMA QuietMove ==
  ASSUME TypeOK, TypeOK', IInv, UNCHANGED <<builds, recipes, oci, defaulted, promoter, editor>>,
         NEW w \in Workers, Moves(w)
  PROVE  IInv'
PROOF
<1>1. /\ CloudOK' /\ RowsOK' /\ RecipesOK'
      /\ Grows /\ RowsMove
  BY QuietStep
<1> QED
  BY <1>1, WorkerMoves, OthersStay DEF IInv

\* A write of a row that is good for its build and was read from the table.
LEMMA RowWritten ==
  ASSUME TypeOK, TypeOK', IInv, NEW b \in Builds, NEW row \in Row,
         GoodRow(b, row), Known(b, row.recipe), row.status # "unused",
         UpdateRunnerImageBuild(b, row), UNCHANGED <<recipes, oci, defaulted>>
  PROVE  /\ CloudOK' /\ RowsOK' /\ RecipesOK'
         /\ Grows /\ RowsMove
PROOF
<1>1. builds \in [Builds -> Row] /\ builds' = [builds EXCEPT ![b] = IF Exists(b) THEN row ELSE @]
  BY TypeParts DEF UpdateRunnerImageBuild
<1>2. RowsMove
  BY <1>1 DEF RowsMove, Known, Exists
<1>3. CloudOK' /\ Grows
  BY <1>2, CloudStays
<1>4. ASSUME NEW c \in Builds PROVE GoodRow(c, builds[c])'
  <2>1. PICK new \in Row : new = builds'[c]
    BY NextTypes
  <2>2. new = builds[c] \/ (c = b /\ new = row)
    BY <1>1, <2>1
  <2>3. GoodRow(c, new)
    BY <2>2 DEF IInv, RowsOK
  <2>4. GoodRow(c, new)'
    BY <1>3, <2>3, GoodRowStays
  <2> QED
    BY <2>1, <2>4 DEF GoodRow
<1> QED
  BY <1>2, <1>3, <1>4, RecipesStay DEF RowsOK

-----------------------------------------------------------------------------
(* How a worker moves                                                       *)

\* An idle worker claims nothing.
LEMMA IdleIsOK == WorkerOK(IdleWorker) /\ IdleWorker \in WorkerType
PROOF BY IdleTypes DEF WorkerOK, ListOK, IdleWorker, Blank, AtWork

\* RunOnce goes on with the next build.
LEMMA NextBuildMoves ==
  ASSUME TypeOK, TypeOK', IInv, NEW w \in Workers, NextBuild(w)
  PROVE  Moves(w)
PROOF
<1>1. PICK s : s = worker[w]
  OBVIOUS
<1>2. /\ s \in WorkerType /\ s.list \in [Builds -> Row] /\ WorkerOK(s)
      /\ worker \in [Workers -> WorkerType]
  BY <1>1, TypeParts, WorkingOn
<1>3. PICK t : t = [s EXCEPT !.pc = "take", !.list = [s.list EXCEPT ![s.at] = Blank],
                      !.at = NoBuild, !.cur = Blank, !.power = "unused", !.log = "blank"]
  OBVIOUS
<1>4. worker' = [worker EXCEPT ![w] = t]
  BY <1>1, <1>2, <1>3 DEF NextBuild, WorkerType
<1>5. t \in WorkerType
  BY <1>2, <1>4, NextTypes
<1>6. t.pc = "take" /\ t.list = [s.list EXCEPT ![s.at] = Blank]
  BY <1>2, <1>3 DEF WorkerType
<1>7. ListOK(t.list)
  BY <1>2, <1>6 DEF WorkerOK, ListOK, Blank
<1>8. WorkerOK(t)
  BY <1>6, <1>7 DEF WorkerOK, AtWork
<1> QED
  BY <1>4, <1>5, <1>8 DEF Moves

\* A pass stays at the build it works on.
LEMMA WorkMoves ==
  ASSUME TypeOK, TypeOK', IInv, NEW w \in Workers, NEW s \in WorkerType,
         worker' = [worker EXCEPT ![w] = s],
         s.list = worker[w].list, s.at \in Builds, s.list[s.at].status \in Pending,
         (s.pc \in AtWork /\ CurOK(s)) \/ s.pc = "fail"
  PROVE  Moves(w)
PROOF
<1>1. ListOK(s.list)
  BY WorkingOn DEF WorkerOK
<1>2. s.pc \notin {"insert", "idle", "list"}
  BY DEF AtWork
<1>3. WorkerOK(s)
  BY <1>1, <1>2 DEF WorkerOK, AtWork
<1> QED
  BY <1>3 DEF Moves

\* It has failed at it.
LEMMA FailMoves ==
  ASSUME TypeOK, TypeOK', IInv, NEW w \in Workers, worker[w].pc \in AtWork, Goto(w, "fail")
  PROVE  Moves(w)
PROOF
<1>1. PICK t : t = [worker[w] EXCEPT !.pc = "fail"]
  OBVIOUS
<1>2. worker \in [Workers -> WorkerType] /\ worker[w] \in WorkerType
  BY TypeParts
<1>3. worker' = [worker EXCEPT ![w] = t]
  BY <1>1, <1>2 DEF Goto
<1>4. t \in WorkerType
  BY <1>2, <1>3, NextTypes
<1>5. t.pc = "fail" /\ t.list = worker[w].list /\ t.at = worker[w].at
  BY <1>1, <1>2 DEF WorkerType
<1>6. t.at \in Builds /\ t.list[t.at].status \in Pending
  BY <1>5, WorkingOn DEF WorkerOK
<1> QED
  BY <1>3, <1>4, <1>5, <1>6, WorkMoves

-----------------------------------------------------------------------------
(* The steps of a pass                                                      *)

\* The copy of a build on a list.
LEMMA OnTheList ==
  ASSUME TypeOK, IInv, NEW w \in Workers, NEW b \in Builds, worker[w].list[b].status \in Pending
  PROVE  /\ worker[w].list[b] \in Row /\ GoodRow(b, worker[w].list[b])
         /\ Known(b, worker[w].list[b].recipe)
PROOF
<1>1. worker[w].list \in [Builds -> Row] /\ ListOK(worker[w].list)
  BY WorkingOn DEF WorkerOK
<1> QED
  BY <1>1 DEF ListOK, Pending

\* The snapshot becomes the copy that the pass works on.
LEMMA GetInstanceMoves ==
  ASSUME TypeOK, TypeOK', IInv, NEW w \in Workers, NEW b \in Builds,
         GetInstance(w, b) \/ GetInstanceFails(w, b)
  PROVE  Moves(w)
PROOF
<1>0. /\ worker \in [Workers -> WorkerType] /\ worker[w] \in WorkerType
      /\ worker[w].list[b].status \in Pending /\ worker[w].list[b].status # "queued"
  BY TypeParts DEF GetInstance, GetInstanceFails, IsNext, Holds
<1>1. CASE GetInstanceFails(w, b)
  <2>1. PICK t : t = [worker[w] EXCEPT !.pc = "fail", !.at = b]
    OBVIOUS
  <2>2. worker' = [worker EXCEPT ![w] = t]
    BY <1>0, <1>1, <2>1 DEF GetInstanceFails
  <2>3. t \in WorkerType
    BY <1>0, <2>2, NextTypes
  <2>4. t.pc = "fail" /\ t.list = worker[w].list /\ t.at = b
    BY <1>0, <2>1 DEF WorkerType
  <2> QED
    BY <1>0, <2>2, <2>3, <2>4, WorkMoves
<1>2. CASE GetInstance(w, b)
  <2>1. PICK t : t = [worker[w] EXCEPT !.pc = "console", !.at = b, !.cur = worker[w].list[b],
                       !.power = machines[worker[w].list[b].instance].power]
    OBVIOUS
  <2>2. worker' = [worker EXCEPT ![w] = t]
    BY <1>0, <1>2, <2>1 DEF GetInstance
  <2>3. t \in WorkerType
    BY <1>0, <2>2, NextTypes
  <2>4. t.pc = "console" /\ t.list = worker[w].list /\ t.at = b /\ t.cur = worker[w].list[b]
    BY <1>0, <2>1 DEF WorkerType
  <2>5. GoodRow(b, t.cur) /\ t.cur.status \in Pending /\ t.cur.status # "queued"
    BY <1>0, <2>4, OnTheList
  <2>6. t.cur.instance # NoMachine /\ t.cur.status \notin Gone \union {"queued", "promoted"}
    BY <2>5 DEF GoodRow, Pending, Gone
  <2>7. CurOK(t)
    BY <2>4, <2>5, <2>6 DEF CurOK
  <2> QED
    BY <1>0, <2>2, <2>3, <2>4, <2>7, WorkMoves DEF AtWork
<1> QED
  BY <1>1, <1>2

\* What a pass has read of the console is in it.
LEMMA CaptureMoves ==
  ASSUME TypeOK, TypeOK', IInv, NEW w \in Workers, CaptureConsoleOutput(w)
  PROVE  Moves(w)
PROOF
<1>1. PICK s : s = worker[w]
  OBVIOUS
<1>2. /\ worker \in [Workers -> WorkerType] /\ s \in WorkerType /\ s.pc = "console"
      /\ CurOK(s) /\ s.at \in Builds /\ s.list[s.at].status \in Pending
      /\ s.cur.instance \in Machines
  BY <1>1, TypeParts, WorkingOn DEF CaptureConsoleOutput, AtWork, WorkerOK
<1>3. machines[s.cur.instance].log \in Logs
  BY <1>2, TypeParts DEF MachineType
<1>4. PICK seen \in {machines[s.cur.instance].log, "blank"} :
        worker' = [worker EXCEPT ![w].log = seen,
                     ![w].pc = IF ParseBakePhase(seen) \in {"", s.cur.status}
                               THEN "judge" ELSE "phase"]
  BY <1>1 DEF CaptureConsoleOutput
<1>5. PICK t : t = [s EXCEPT !.log = seen,
                     !.pc = IF ParseBakePhase(seen) \in {"", s.cur.status}
                            THEN "judge" ELSE "phase"]
  OBVIOUS
<1>6. worker' = [worker EXCEPT ![w] = t]
  BY <1>1, <1>2, <1>4, <1>5
<1>7. t \in WorkerType
  BY <1>2, <1>6, NextTypes
<1>8. /\ t.pc \in {"judge", "phase"} /\ t.list = s.list /\ t.at = s.at /\ t.cur = s.cur
      /\ t.log = seen
      /\ t.pc = "phase" => ParseBakePhase(seen) # ""
  BY <1>2, <1>5 DEF WorkerType
<1>9. Reached(seen, machines[s.cur.instance].log)
  BY <1>3, ReachedItself DEF Reached
<1>10. t.pc = "phase" => t.log # "blank"
  BY <1>8 DEF ParseBakePhase
<1>11. CurOK(t)
  BY <1>2, <1>8, <1>9, <1>10 DEF CurOK
<1> QED
  BY <1>1, <1>2, <1>6, <1>7, <1>8, <1>11, WorkMoves DEF AtWork

\* The phase that a console shows may be written.
LEMMA PhaseIsGood ==
  ASSUME TypeOK, IInv, NEW w \in Workers, worker[w].pc = "phase",
         NEW row, row = [worker[w].cur EXCEPT !.status = ParseBakePhase(worker[w].log)]
  PROVE  /\ row \in Row /\ row.status \in {"provisioning", "verifying"}
         /\ row.instance = worker[w].cur.instance /\ row.image = worker[w].cur.image
         /\ row.recipe = worker[w].cur.recipe
         /\ GoodRow(worker[w].at, row)
PROOF
<1>1. PICK s : s = worker[w]
  OBVIOUS
<1>2. /\ s \in WorkerType /\ s.cur \in Row /\ s.log \in Logs
      /\ CurOK(s) /\ s.cur.instance \in Machines
      /\ ParseBakePhase(s.log) \in {"provisioning", "verifying"}
  BY <1>1, WorkingOn DEF AtWork, WorkerType
<1>3. /\ row.status = ParseBakePhase(s.log) /\ row.instance = s.cur.instance
      /\ row.image = s.cur.image /\ row.recipe = s.cur.recipe
  BY <1>1, <1>2 DEF Row
<1>4. row \in Row
  BY <1>1, <1>2, RowFields DEF Statuses, Pending
<1>5. GoodRow(s.at, s.cur) /\ s.cur.status \notin Gone
      /\ Reached(s.log, machines[s.cur.instance].log)
  BY <1>1, <1>2 DEF CurOK
<1>6. machines[s.cur.instance].log \in Logs
  BY <1>2, TypeParts DEF MachineType
<1>7. Reached(row.status, machines[s.cur.instance].log)
  BY <1>2, <1>3, <1>5, <1>6 DEF Reached, ParseBakePhase, Logs
<1>8. row.status \in {"provisioning", "verifying"} /\ row.instance # NoMachine
  BY <1>2, <1>3, Nothing
<1>9. row.recipe \in Recipes
  BY <1>3, <1>5 DEF GoodRow
<1>10. GoodRow(s.at, row)
  BY <1>3, <1>5, <1>7, <1>8, <1>9 DEF GoodRow, Gone
<1> QED
  BY <1>1, <1>2, <1>3, <1>4, <1>10

\* The phase that was read is written into the copy.
LEMMA PhaseMoves ==
  ASSUME TypeOK, TypeOK', IInv, NEW w \in Workers, SavePhase(w)
  PROVE  Moves(w)
PROOF
<1>1. PICK s : s = worker[w]
  OBVIOUS
<1>2. /\ worker \in [Workers -> WorkerType] /\ s \in WorkerType /\ s.pc = "phase"
      /\ CurOK(s) /\ s.at \in Builds /\ s.list[s.at].status \in Pending
  BY <1>1, TypeParts, WorkingOn DEF SavePhase, AtWork, WorkerOK
<1>3. PICK row : row = [s.cur EXCEPT !.status = ParseBakePhase(s.log)]
  OBVIOUS
<1>4. /\ row \in Row /\ row.status \in {"provisioning", "verifying"}
      /\ row.instance = s.cur.instance /\ row.image = s.cur.image
      /\ row.recipe = s.cur.recipe /\ GoodRow(s.at, row)
  BY <1>1, <1>2, <1>3, PhaseIsGood
<1>5. PICK t : t = [s EXCEPT !.pc = "judge", !.cur = row]
  OBVIOUS
<1>6. worker' = [worker EXCEPT ![w] = t]
  BY <1>1, <1>2, <1>3, <1>5 DEF SavePhase
<1>7. t \in WorkerType
  BY <1>2, <1>6, NextTypes
<1>8. t.pc = "judge" /\ t.list = s.list /\ t.at = s.at /\ t.cur = row /\ t.log = s.log
  BY <1>2, <1>5 DEF WorkerType
<1>9. CurOK(t)
  BY <1>2, <1>4, <1>8 DEF CurOK, Pending, Gone
<1> QED
  BY <1>1, <1>2, <1>6, <1>7, <1>8, <1>9, WorkMoves DEF AtWork

\* The verdicts on a bake: failed, ready, still capturing, stopped early.
LEMMA VerdictMoves ==
  ASSUME TypeOK, TypeOK', IInv, NEW w \in Workers,
         BakeFailed(w) \/ GetImageReady(w) \/ GetImageCapturing(w) \/ StoppedEarly(w)
  PROVE  Moves(w)
PROOF
<1>1. PICK s : s = worker[w]
  OBVIOUS
<1>2. /\ worker \in [Workers -> WorkerType] /\ s \in WorkerType /\ s.pc = "judge"
      /\ CurOK(s) /\ s.at \in Builds /\ s.list[s.at].status \in Pending /\ s.cur \in Row
      /\ s.cur.instance \in Machines /\ s.log \in Logs
  BY <1>1, TypeParts, WorkingOn DEF BakeFailed, GetImageReady, GetImageCapturing, StoppedEarly,
    HasImage, NoResult, Judging, AtWork, WorkerOK, WorkerType
<1>3. PICK l, status :
        /\ worker' = [worker EXCEPT ![w].pc = l, ![w].cur.status = status]
        /\ \/ l = "terminate" /\ status = "failed" /\ Failure(s.log)
           \/ /\ l = "terminate" /\ status = "available" /\ s.cur.image # NoImage
              /\ images[s.cur.image].state = "ready"
           \/ l = "save" /\ status = "creating_image" /\ s.cur.image # NoImage
           \/ l = "save" /\ status = "failed"
  BY <1>1 DEF BakeFailed, GetImageReady, GetImageCapturing, StoppedEarly, HasImage
<1>4. PICK row : row = [s.cur EXCEPT !.status = status]
  OBVIOUS
<1>5. /\ row.status = status /\ row.instance = s.cur.instance /\ row.image = s.cur.image
      /\ row.recipe = s.cur.recipe
  BY <1>2, <1>4 DEF Row
<1>6. PICK t : t = [s EXCEPT !.pc = l, !.cur = row]
  OBVIOUS
<1>7. worker' = [worker EXCEPT ![w] = t]
  BY <1>1, <1>2, <1>3, <1>4, <1>6
<1>8. t \in WorkerType
  BY <1>2, <1>7, NextTypes
<1>9. t.pc = l /\ t.list = s.list /\ t.at = s.at /\ t.cur = row
  BY <1>2, <1>6 DEF WorkerType
<1>10. GoodRow(s.at, s.cur) /\ s.cur.instance # NoMachine /\ s.cur.status \notin Gone
       /\ s.cur.recipe = s.list[s.at].recipe /\ Reached(s.log, machines[s.cur.instance].log)
  BY <1>2 DEF CurOK
<1>11. GoodRow(s.at, row)
  BY <1>3, <1>5, <1>10 DEF GoodRow, Gone
<1>12. Failure(s.log) => Failure(machines[s.cur.instance].log)
  BY <1>10 DEF Failure, Reached
<1>13. CurOK(t)
  BY <1>3, <1>5, <1>9, <1>10, <1>11, <1>12 DEF CurOK, Gone, Pending
<1> QED
  BY <1>1, <1>2, <1>3, <1>7, <1>8, <1>9, <1>13, WorkMoves DEF AtWork

-----------------------------------------------------------------------------
(* What a pass does to OCI                                                  *)

\* A pass that moves to a record which suits the state after the step.
LEMMA WorkerArrives ==
  ASSUME TypeOK, TypeOK', IInv, Grows, RowsMove, NEW w \in Workers, NEW s \in WorkerType,
         worker' = [worker EXCEPT ![w] = s], s.list = worker[w].list,
         s.at \in Builds, s.list[s.at].status \in Pending, s.pc = "save", CurOK(s)'
  PROVE  WorkersOK'
PROOF
<1>1. worker \in [Workers -> WorkerType] /\ s.list \in [Builds -> Row]
  BY TypeParts DEF WorkerType
<1>2. ListOK(s.list)
  BY WorkingOn DEF WorkerOK
<1>3. ListOK(s.list)'
  BY <1>1, <1>2, ListStays
<1>4. WorkerOK(s)'
  BY <1>3 DEF WorkerOK, AtWork
<1>5. worker'[w] = s
  BY <1>1
<1>6. WorkerOK(worker[w])'
  BY <1>4, <1>5 DEF WorkerOK, CurOK
<1>7. ASSUME NEW v \in Workers, v # w PROVE WorkerOK(worker[v])'
  <2>1. worker'[v] = worker[v]
    BY <1>1, <1>7
  <2> QED
    BY <2>1, WorkersStay
<1> QED
  BY <1>6, <1>7 DEF WorkersOK

\* A launch takes nothing back.
LEMMA LaunchKeeps ==
  ASSUME TypeOK, TypeOK', IInv, NEW m \in Machines, NEW b \in Builds,
         builds[b].status # "unused", NewMachine(m), Launched(m, b),
         UNCHANGED <<builds, recipes, images, defaulted>>
  PROVE  /\ CloudOK' /\ RowsOK' /\ RecipesOK'
         /\ Grows /\ RowsMove
         /\ MachineOf(m, b)'
PROOF
<1>1. /\ machines \in [Machines -> MachineType] /\ images \in [Images -> ImageType]
      /\ machines' = [machines EXCEPT ![m] = [build |-> b, power |-> "running", log |-> "blank"]]
      /\ machines[m].power = "unused"
  BY TypeParts DEF Launched, NewMachine
<1>2. machines[m].log = "blank"
  BY <1>1 DEF IInv, CloudOK, MachinesOK
<1>3. \A k \in Machines : machines[k].log \in Logs
  BY <1>1 DEF MachineType
<1>4. \A k \in Machines : Reached(machines[k].log, machines'[k].log)
  BY <1>1, <1>2, <1>3, ReachedItself
<1>5. Grows
  BY <1>1, <1>4 DEF Grows
<1>6. RowsMove
  BY BuildsStay
<1>7. MachinesOK'
  BY <1>1 DEF IInv, CloudOK, MachinesOK
<1>8. ImagesOK'
  BY <1>1, <1>2 DEF IInv, CloudOK, ImagesOK
<1>9. TerminatedOnlyWhenDone' /\ DefaultsReady'
  BY <1>1 DEF IInv, CloudOK, TerminatedOnlyWhenDone, DefaultsReady
<1>10. MachineOf(m, b)'
  BY <1>1 DEF MachineOf
<1> QED
  BY <1>5, <1>6, <1>7, <1>8, <1>9, <1>10, RowsStay, RecipesStay DEF CloudOK

\* Nor does a capture.
LEMMA CaptureKeeps ==
  ASSUME TypeOK, TypeOK', IInv, NEW i \in Images, NEW m \in Machines,
         machines[m].log = "passed", NewImage(i), Captured(i, m),
         UNCHANGED <<builds, recipes, machines, defaulted>>
  PROVE  /\ CloudOK' /\ RowsOK' /\ RecipesOK'
         /\ Grows /\ RowsMove
         /\ images'[i].state # "unused" /\ images'[i].machine = m
PROOF
<1>1. /\ machines \in [Machines -> MachineType] /\ images \in [Images -> ImageType]
      /\ images' = [images EXCEPT ![i] = [machine |-> m, state |-> "capturing"]]
      /\ images[i].state = "unused"
  BY TypeParts DEF Captured, NewImage
<1>2. \A k \in Machines : machines[k].log \in Logs
  BY <1>1 DEF MachineType
<1>3. Grows
  BY <1>1, <1>2, ReachedItself DEF Grows
<1>4. RowsMove
  BY BuildsStay
<1>5. MachinesOK' /\ ImagesOK'
  BY <1>1 DEF IInv, CloudOK, MachinesOK, ImagesOK
<1>6. TerminatedOnlyWhenDone' /\ DefaultsReady'
  BY <1>1 DEF IInv, CloudOK, TerminatedOnlyWhenDone, DefaultsReady
<1>7. images'[i].state # "unused" /\ images'[i].machine = m
  BY <1>1
<1> QED
  BY <1>3, <1>4, <1>5, <1>6, <1>7, RowsStay, RecipesStay DEF CloudOK

\* A machine's power changes, to terminated only with a cause.
LEMMA PowerKeeps ==
  ASSUME TypeOK, TypeOK', IInv, NEW m \in Machines, NEW power \in {"stopped", "terminated"},
         machines' = [machines EXCEPT ![m].power = power], machines[m].power # "unused",
         power = "terminated" =>
           \/ Failure(machines[m].log)
           \/ \E i \in Images : images[i].machine = m /\ images[i].state = "ready",
         UNCHANGED <<builds, recipes, images, defaulted>>
  PROVE  /\ CloudOK' /\ RowsOK' /\ RecipesOK'
         /\ Grows /\ RowsMove
PROOF
<1>1. machines \in [Machines -> MachineType] /\ images \in [Images -> ImageType]
  BY TypeParts
<1>2. \A k \in Machines : /\ machines[k].log \in Logs
                          /\ machines'[k].log = machines[k].log
                          /\ machines'[k].build = machines[k].build
                          /\ machines'[k].power = IF k = m THEN power ELSE machines[k].power
  BY <1>1 DEF MachineType
<1>3. Grows
  BY <1>2, ReachedItself DEF Grows
<1>4. RowsMove
  BY BuildsStay
<1>5. MachinesOK' /\ ImagesOK'
  BY <1>1, <1>2 DEF IInv, CloudOK, MachinesOK, ImagesOK, ImageType
<1>6. TerminatedOnlyWhenDone' /\ DefaultsReady'
  BY <1>2 DEF IInv, CloudOK, TerminatedOnlyWhenDone, DefaultsReady
<1> QED
  BY <1>3, <1>4, <1>5, <1>6, RowsStay, RecipesStay DEF CloudOK

-----------------------------------------------------------------------------
(* A pass keeps the invariant                                               *)

\* A launch, answered or not, leaves the invariant.
LEMMA LaunchInv ==
  ASSUME TypeOK, TypeOK', IInv, NEW w \in Workers, NEW b \in Builds,
         LaunchBake(w, b) \/ LaunchFails(w, b)
  PROVE  IInv'
PROOF
<1>0. /\ worker \in [Workers -> WorkerType] /\ worker[w] \in WorkerType
      /\ worker[w].list[b].status \in Pending /\ worker[w].list[b].status = "queued"
      /\ builds' = builds /\ recipes' = recipes /\ images' = images /\ defaulted' = defaulted
      /\ promoter' = promoter /\ editor' = editor
  BY TypeParts DEF LaunchBake, LaunchFails, IsNext, Holds, store, aux
<1>1. /\ worker[w].list[b] \in Row /\ GoodRow(b, worker[w].list[b])
      /\ Known(b, worker[w].list[b].recipe)
  BY <1>0, OnTheList
<1>2. builds[b].status # "unused"
  BY <1>1 DEF Known
<1>3. CASE LaunchBake(w, b)
  <2>1. PICK m \in Machines : /\ NewMachine(m) /\ Launched(m, b)
          /\ worker' = [worker EXCEPT ![w].pc = "save", ![w].at = b,
               ![w].cur = [worker[w].list[b] EXCEPT !.status = "launching", !.instance = m]]
    BY <1>3 DEF LaunchBake
  <2>2. /\ CloudOK' /\ RowsOK' /\ RecipesOK' /\ Grows /\ RowsMove
        /\ MachineOf(m, b)'
    BY <1>0, <1>2, <2>1, LaunchKeeps
  <2>3. PICK row : row = [worker[w].list[b] EXCEPT !.status = "launching", !.instance = m]
    OBVIOUS
  <2>4. /\ row.status = "launching" /\ row.instance = m
        /\ row.image = worker[w].list[b].image /\ row.recipe = worker[w].list[b].recipe
    BY <1>1, <2>3 DEF Row
  <2>5. row.image = NoImage /\ row.recipe \in Recipes /\ m # NoMachine
    BY <1>0, <1>1, <2>4, Nothing DEF GoodRow, Gone
  <2>6. GoodRow(b, row)'
    BY <2>2, <2>4, <2>5 DEF GoodRow, Gone
  <2>7. PICK t : t = [worker[w] EXCEPT !.pc = "save", !.at = b, !.cur = row]
    OBVIOUS
  <2>8. worker' = [worker EXCEPT ![w] = t]
    BY <1>0, <2>1, <2>3, <2>7
  <2>9. t \in WorkerType
    BY <1>0, <2>8, NextTypes
  <2>10. t.pc = "save" /\ t.list = worker[w].list /\ t.at = b /\ t.cur = row
    BY <1>0, <2>7 DEF WorkerType
  <2>11. CurOK(t)'
    BY <2>4, <2>5, <2>6, <2>10 DEF CurOK, Gone
  <2>12. WorkersOK'
    BY <1>0, <2>2, <2>8, <2>9, <2>10, <2>11, WorkerArrives
  <2> QED
    BY <1>0, <2>2, <2>12, OthersStay DEF IInv
<1>4. CASE LaunchFails(w, b)
  <2>1. /\ CloudOK' /\ RowsOK' /\ RecipesOK' /\ Grows /\ RowsMove
    <3>1. CASE machines' = machines
      BY <1>0, <3>1, QuietStep DEF oci
    <3>2. CASE \E m \in Machines : NewMachine(m) /\ Launched(m, b)
      BY <1>0, <1>2, <3>2, LaunchKeeps
    <3> QED
      BY <1>4, <3>1, <3>2 DEF LaunchFails
  <2>2. PICK t : t = [worker[w] EXCEPT !.pc = "fail", !.at = b]
    OBVIOUS
  <2>3. worker' = [worker EXCEPT ![w] = t]
    BY <1>0, <1>4, <2>2 DEF LaunchFails
  <2>4. t \in WorkerType
    BY <1>0, <2>3, NextTypes
  <2>5. t.pc = "fail" /\ t.list = worker[w].list /\ t.at = b
    BY <1>0, <2>2 DEF WorkerType
  <2>6. Moves(w)
    BY <1>0, <2>3, <2>4, <2>5, WorkMoves
  <2> QED
    BY <1>0, <2>1, <2>6, WorkerMoves, OthersStay DEF IInv
<1> QED
  BY <1>3, <1>4

\* So does a capture,
LEMMA CreateImageInv ==
  ASSUME TypeOK, TypeOK', IInv, NEW w \in Workers, CreateImage(w) \/ CreateImageFails(w)
  PROVE  IInv'
PROOF
<1>1. PICK s : s = worker[w]
  OBVIOUS
<1>2. /\ worker \in [Workers -> WorkerType] /\ s \in WorkerType /\ s.pc = "judge"
      /\ CurOK(s) /\ s.at \in Builds /\ s.list[s.at].status \in Pending /\ s.cur \in Row
      /\ s.cur.instance \in Machines /\ s.log = "passed"
      /\ builds' = builds /\ recipes' = recipes /\ machines' = machines
      /\ defaulted' = defaulted /\ promoter' = promoter /\ editor' = editor
  BY <1>1, TypeParts, WorkingOn DEF CreateImage, CreateImageFails, MayCapture, Judging, AtWork,
    WorkerOK, store, aux
<1>3. machines[s.cur.instance].log = "passed"
  BY <1>2 DEF CurOK, Reached
<1>4. CASE CreateImage(w)
  <2>1. PICK i \in Images : /\ NewImage(i) /\ Captured(i, s.cur.instance)
          /\ worker' = [worker EXCEPT ![w].pc = "save", ![w].cur.image = i,
                          ![w].cur.status = "creating_image"]
    BY <1>1, <1>4 DEF CreateImage
  <2>2. /\ CloudOK' /\ RowsOK' /\ RecipesOK' /\ Grows /\ RowsMove
        /\ images'[i].state # "unused" /\ images'[i].machine = s.cur.instance
    BY <1>2, <1>3, <2>1, CaptureKeeps
  <2>3. PICK row : row = [s.cur EXCEPT !.image = i, !.status = "creating_image"]
    OBVIOUS
  <2>4. /\ row.status = "creating_image" /\ row.instance = s.cur.instance /\ row.image = i
        /\ row.recipe = s.cur.recipe
    BY <1>2, <2>3 DEF Row
  <2>5. GoodRow(s.at, s.cur)' /\ s.cur.status \notin Gone /\ s.cur.instance # NoMachine
    BY <1>2, <2>2, GoodRowStays DEF CurOK
  <2>6. i # NoImage
    BY Nothing
  <2>7. GoodRow(s.at, row)'
    BY <2>2, <2>4, <2>5, <2>6 DEF GoodRow, Gone
  <2>8. PICK t : t = [s EXCEPT !.pc = "save", !.cur = row]
    OBVIOUS
  <2>9. worker' = [worker EXCEPT ![w] = t]
    BY <1>1, <1>2, <2>1, <2>3, <2>8
  <2>10. t \in WorkerType
    BY <1>2, <2>9, NextTypes
  <2>11. t.pc = "save" /\ t.list = s.list /\ t.at = s.at /\ t.cur = row
    BY <1>2, <2>8 DEF WorkerType
  <2>12. s.cur.recipe = s.list[s.at].recipe
    BY <1>2 DEF CurOK
  <2>13. CurOK(t)'
    BY <2>4, <2>5, <2>7, <2>11, <2>12 DEF CurOK, Gone
  <2>14. WorkersOK'
    BY <1>1, <1>2, <2>2, <2>9, <2>10, <2>11, <2>13, WorkerArrives
  <2> QED
    BY <1>2, <2>2, <2>14, OthersStay DEF IInv
<1>5. CASE CreateImageFails(w)
  <2>1. /\ CloudOK' /\ RowsOK' /\ RecipesOK' /\ Grows /\ RowsMove
    <3>1. CASE images' = images
      BY <1>2, <3>1, QuietStep DEF oci
    <3>2. CASE \E i \in Images : NewImage(i) /\ Captured(i, s.cur.instance)
      BY <1>2, <1>3, <3>2, CaptureKeeps
    <3> QED
      BY <1>1, <1>5, <3>1, <3>2 DEF CreateImageFails
  <2>2. Moves(w)
    BY <1>1, <1>2, <1>5, FailMoves DEF CreateImageFails, AtWork
  <2> QED
    BY <1>2, <2>1, <2>2, WorkerMoves, OthersStay DEF IInv
<1> QED
  BY <1>4, <1>5

\* and a termination, which comes only after a verdict.
LEMMA TerminateInv ==
  ASSUME TypeOK, TypeOK', IInv, NEW w \in Workers, TerminateInstance(w)
  PROVE  IInv'
PROOF
<1>1. PICK s : s = worker[w]
  OBVIOUS
<1>2. /\ worker \in [Workers -> WorkerType] /\ s \in WorkerType /\ s.pc = "terminate"
      /\ CurOK(s) /\ s.at \in Builds /\ s.list[s.at].status \in Pending /\ s.cur \in Row
      /\ s.cur.instance \in Machines
      /\ builds' = builds /\ recipes' = recipes /\ images' = images
      /\ defaulted' = defaulted /\ promoter' = promoter /\ editor' = editor
  BY <1>1, TypeParts, WorkingOn DEF TerminateInstance, AtWork, WorkerOK, store, aux
<1>3. GoodRow(s.at, s.cur) /\ s.cur.instance # NoMachine
  BY <1>2 DEF CurOK
<1>4. machines[s.cur.instance].power # "unused"
  BY <1>3 DEF GoodRow, MachineOf
<1>5. \/ Failure(machines[s.cur.instance].log)
      \/ \E i \in Images : images[i].machine = s.cur.instance /\ images[i].state = "ready"
  <2>1. CASE s.cur.image # NoImage /\ images[s.cur.image].state = "ready"
    BY <1>2, <1>3, <2>1, RowFields DEF GoodRow
  <2> QED
    BY <1>2, <2>1 DEF CurOK
<1>6. /\ CloudOK' /\ RowsOK' /\ RecipesOK' /\ Grows /\ RowsMove
  <2>1. CASE machines' = machines
    BY <1>2, <2>1, QuietStep DEF oci
  <2>2. CASE machines' = [machines EXCEPT ![s.cur.instance].power = "terminated"]
    BY <1>2, <1>4, <1>5, <2>2, PowerKeeps
  <2> QED
    BY <1>1, <2>1, <2>2 DEF TerminateInstance
<1>7. PICK t : t = [s EXCEPT !.pc = "save"]
  OBVIOUS
<1>8. worker' = [worker EXCEPT ![w] = t]
  BY <1>1, <1>2, <1>7 DEF TerminateInstance, Goto
<1>9. t \in WorkerType
  BY <1>2, <1>8, NextTypes
<1>10. t.pc = "save" /\ t.list = s.list /\ t.at = s.at /\ t.cur = s.cur
  BY <1>2, <1>7 DEF WorkerType
<1>11. CurOK(t)
  BY <1>2, <1>10 DEF CurOK
<1>12. Moves(w)
  BY <1>1, <1>2, <1>8, <1>9, <1>10, <1>11, WorkMoves DEF AtWork
<1> QED
  BY <1>2, <1>6, <1>12, WorkerMoves, OthersStay DEF IInv

\* The three writes of a pass.
LEMMA WriteInv ==
  ASSUME TypeOK, TypeOK', IInv, NEW w \in Workers,
         SavePhase(w) \/ SaveBuild(w) \/ FailBuild(w)
  PROVE  IInv'
PROOF
<1>1. PICK s : s = worker[w]
  OBVIOUS
<1>2. /\ worker \in [Workers -> WorkerType] /\ s \in WorkerType
      /\ s.at \in Builds /\ s.list[s.at].status \in Pending
      /\ recipes' = recipes /\ machines' = machines /\ images' = images
      /\ defaulted' = defaulted /\ promoter' = promoter /\ editor' = editor
  BY <1>1, TypeParts, WorkingOn DEF SavePhase, SaveBuild, FailBuild, AtWork, WorkerOK, oci, aux
<1>3. /\ s.list[s.at] \in Row /\ GoodRow(s.at, s.list[s.at])
      /\ Known(s.at, s.list[s.at].recipe)
  BY <1>1, <1>2, OnTheList
<1>4. s.pc \in AtWork => s.cur \in Row /\ CurOK(s)
  BY <1>1, WorkingOn
<1>5. Moves(w)
  BY NextBuildMoves, PhaseMoves DEF SavePhase, SaveBuild, FailBuild
<1>6. ASSUME NEW row \in Row, GoodRow(s.at, row), row.recipe = s.list[s.at].recipe,
             row.status # "unused", UpdateRunnerImageBuild(s.at, row)
      PROVE  IInv'
  <2>1. UNCHANGED <<recipes, oci, defaulted>>
    BY <1>2 DEF oci
  <2>2. Known(s.at, row.recipe)
    BY <1>3, <1>6
  <2>3. /\ CloudOK' /\ RowsOK' /\ RecipesOK' /\ Grows /\ RowsMove
    BY <1>2, <1>6, <2>1, <2>2, RowWritten
  <2> QED
    BY <1>2, <1>5, <2>3, WorkerMoves, OthersStay DEF IInv
<1>7. CASE SavePhase(w)
  <2>1. PICK row : row = [s.cur EXCEPT !.status = ParseBakePhase(s.log)]
    OBVIOUS
  <2>2. /\ row \in Row /\ row.status \in {"provisioning", "verifying"}
        /\ row.recipe = s.cur.recipe /\ GoodRow(s.at, row)
    BY <1>1, <1>7, <2>1, PhaseIsGood DEF SavePhase
  <2>3. s.cur.recipe = s.list[s.at].recipe
    BY <1>1, <1>4, <1>7 DEF SavePhase, AtWork, CurOK
  <2>4. UpdateRunnerImageBuild(s.at, row)
    BY <1>1, <1>7, <2>1 DEF SavePhase
  <2> QED
    BY <1>6, <2>2, <2>3, <2>4
<1>8. CASE SaveBuild(w)
  <2>1. UpdateRunnerImageBuild(s.at, s.cur) /\ s.pc \in AtWork
    BY <1>1, <1>8 DEF SaveBuild, AtWork
  <2>2. /\ s.cur \in Row /\ GoodRow(s.at, s.cur) /\ s.cur.recipe = s.list[s.at].recipe
        /\ s.cur.status # "unused"
    BY <1>4, <2>1 DEF CurOK, Gone
  <2> QED
    BY <1>6, <2>1, <2>2
<1>9. CASE FailBuild(w)
  <2>1. PICK row : row = [s.list[s.at] EXCEPT !.status = "failed"]
    OBVIOUS
  <2>2. /\ row.status = "failed" /\ row.instance = s.list[s.at].instance
        /\ row.image = s.list[s.at].image /\ row.recipe = s.list[s.at].recipe
    BY <1>3, <2>1 DEF Row
  <2>3. row \in Row
    BY <1>3, <2>1, RowFields DEF Statuses, Finished
  <2>4. s.list[s.at].recipe \in Recipes
    BY <1>2, <1>3 DEF GoodRow, Pending, Gone
  <2>5. GoodRow(s.at, row)
    BY <1>3, <2>2, <2>4 DEF GoodRow, Gone
  <2>6. UpdateRunnerImageBuild(s.at, row)
    BY <1>1, <1>9, <2>1 DEF FailBuild
  <2> QED
    BY <1>6, <2>2, <2>3, <2>5, <2>6
<1> QED
  BY <1>7, <1>8, <1>9

\* Every step of a pass.
LEMMA PassInv ==
  ASSUME TypeOK, TypeOK', IInv, NEW w \in Workers, PassStep(w)
  PROVE  IInv'
PROOF
<1>1. ASSUME NEW b \in Builds, LaunchBake(w, b) \/ LaunchFails(w, b) PROVE IInv'
  BY <1>1, LaunchInv
<1>2. ASSUME NEW b \in Builds, GetInstance(w, b) \/ GetInstanceFails(w, b) PROVE IInv'
  BY <1>2, GetInstanceMoves, QuietMove DEF GetInstance, GetInstanceFails, store, aux
<1>3. CASE CaptureConsoleOutput(w)
  BY <1>3, CaptureMoves, QuietMove DEF CaptureConsoleOutput, store, aux
<1>4. CASE BakeFailed(w) \/ GetImageReady(w) \/ GetImageCapturing(w) \/ StoppedEarly(w)
  BY <1>4, VerdictMoves, QuietMove
  DEF BakeFailed, GetImageReady, GetImageCapturing, StoppedEarly, store, aux
<1>5. CASE CreateImage(w) \/ CreateImageFails(w)
  BY <1>5, CreateImageInv
<1>6. CASE GetImageFails(w)
  <2>1. worker[w].pc \in AtWork
    BY <1>6 DEF GetImageFails, HasImage, Judging, AtWork
  <2> QED
    BY <1>6, <2>1, FailMoves, QuietMove DEF GetImageFails, store, aux
<1>7. CASE StillBaking(w)
  BY <1>7, NextBuildMoves, QuietMove DEF StillBaking, store, aux
<1>8. CASE TerminateInstance(w)
  BY <1>8, TerminateInv
<1>9. CASE SavePhase(w) \/ SaveBuild(w) \/ FailBuild(w)
  BY <1>9, WriteInv
<1>10. CASE SaveFails(w)
  <2>1. worker[w].pc \in AtWork
    BY <1>10 DEF SaveFails, AtWork
  <2> QED
    BY <1>10, <2>1, FailMoves, QuietMove DEF SaveFails, store, aux
<1>11. CASE FailBuildLost(w)
  BY <1>11, NextBuildMoves, QuietMove DEF FailBuildLost, store
<1>12. CASE PassEnds(w)
  <2>1. PICK t : t = [worker[w] EXCEPT !.pc = "idle"]
    OBVIOUS
  <2>2. /\ worker \in [Workers -> WorkerType] /\ worker[w] \in WorkerType
        /\ worker[w].list \in [Builds -> Row] /\ ListOK(worker[w].list)
    BY TypeParts, WorkingOn DEF WorkerOK
  <2>3. worker' = [worker EXCEPT ![w] = t]
    BY <1>12, <2>1, <2>2 DEF PassEnds, Goto
  <2>4. t \in WorkerType
    BY <2>2, <2>3, NextTypes
  <2>5. t.pc = "idle" /\ t.list = worker[w].list
    BY <2>1, <2>2 DEF WorkerType
  <2>6. \A b \in Builds : t.list[b].status = "unused"
    BY <1>12, <2>2, <2>5 DEF PassEnds, Holds, ListOK
  <2>7. WorkerOK(t)
    BY <2>2, <2>5, <2>6 DEF WorkerOK, AtWork
  <2>8. Moves(w)
    BY <2>3, <2>4, <2>7 DEF Moves
  <2> QED
    BY <1>12, <2>8, QuietMove DEF PassEnds, store, aux
<1> QED
  BY <1>1, <1>2, <1>3, <1>4, <1>5, <1>6, <1>7, <1>8, <1>9, <1>10, <1>11, <1>12, Zenon
  DEF PassStep

-----------------------------------------------------------------------------
(* The other steps                                                          *)

\* The snapshots of a pass are the rows it has listed.
LEMMA ListMoves ==
  ASSUME TypeOK, TypeOK', IInv, NEW w \in Workers, ListPending(w)
  PROVE  Moves(w)
PROOF
<1>1. PICK list : list = [b \in Builds |-> IF builds[b].status \in Pending
                                           THEN builds[b] ELSE Blank]
  OBVIOUS
<1>2. PICK t : t = [worker[w] EXCEPT !.pc = "take", !.list = list]
  OBVIOUS
<1>3. worker \in [Workers -> WorkerType] /\ worker[w] \in WorkerType
  BY TypeParts
<1>4. worker' = [worker EXCEPT ![w] = t]
  BY <1>1, <1>2, <1>3 DEF ListPending
<1>5. t \in WorkerType
  BY <1>3, <1>4, NextTypes
<1>6. t.pc = "take" /\ t.list = list
  BY <1>2, <1>3 DEF WorkerType
<1>7. ASSUME NEW b \in Builds, list[b].status # "unused"
      PROVE  list[b].status \in Pending /\ GoodRow(b, list[b]) /\ Known(b, list[b].recipe)
  BY <1>1, <1>7 DEF Blank, IInv, RowsOK, Known, Pending
<1>8. ListOK(list)
  BY <1>7 DEF ListOK
<1>9. WorkerOK(t)
  BY <1>6, <1>8 DEF WorkerOK, AtWork
<1> QED
  BY <1>4, <1>5, <1>9 DEF Moves

\* The insert of a build.
LEMMA CreateInv ==
  ASSUME TypeOK, TypeOK', IInv, NEW w \in Workers, CreateRunnerImageBuild(w)
  PROVE  IInv'
PROOF
<1>1. PICK s : s = worker[w]
  OBVIOUS
<1>2. /\ worker \in [Workers -> WorkerType] /\ s \in WorkerType /\ WorkerOK(s)
      /\ s.pc = "insert" /\ s.recipe \in Recipes
      /\ builds \in [Builds -> Row]
      /\ recipes' = recipes /\ machines' = machines /\ images' = images
      /\ defaulted' = defaulted /\ promoter' = promoter /\ editor' = editor
  BY <1>1, TypeParts, WorkingOn DEF CreateRunnerImageBuild, WorkerOK, oci, aux
<1>3. PICK b \in Builds :
        /\ builds[b].status = "unused"
        /\ builds' = [builds EXCEPT ![b] = [Blank EXCEPT !.recipe = s.recipe,
                                                         !.status = "queued"]]
  BY <1>1 DEF CreateRunnerImageBuild
<1>4. PICK row : row = [Blank EXCEPT !.recipe = s.recipe, !.status = "queued"]
  OBVIOUS
<1>5. /\ row.recipe = s.recipe /\ row.status = "queued" /\ row.instance = NoMachine
      /\ row.image = NoImage
  BY <1>4 DEF Blank
<1>6. RowsMove
  BY <1>2, <1>3 DEF RowsMove, Exists
<1>7. CloudOK' /\ Grows
  BY <1>2, <1>6, CloudStays DEF oci
<1>8. ASSUME NEW c \in Builds PROVE GoodRow(c, builds[c])'
  <2>1. PICK new \in Row : new = builds'[c]
    BY NextTypes
  <2>2. new = builds[c] \/ new = row
    BY <1>2, <1>3, <1>4, <2>1
  <2>3. GoodRow(c, row)
    BY <1>2, <1>5 DEF GoodRow, Gone
  <2>4. GoodRow(c, new)
    BY <2>2, <2>3 DEF IInv, RowsOK
  <2>5. GoodRow(c, new)'
    BY <1>7, <2>4, GoodRowStays
  <2> QED
    BY <2>1, <2>5 DEF GoodRow
<1>9. PICK t : t = [s EXCEPT !.pc = "list", !.recipe = NoRecipe]
  OBVIOUS
<1>10. worker' = [worker EXCEPT ![w] = t]
  BY <1>1, <1>2, <1>9 DEF CreateRunnerImageBuild
<1>11. t \in WorkerType
  BY <1>2, <1>10, NextTypes
<1>12. t.pc = "list" /\ t.list = s.list
  BY <1>2, <1>9 DEF WorkerType
<1>13. WorkerOK(t)
  BY <1>2, <1>12 DEF WorkerOK, AtWork
<1>14. Moves(w)
  BY <1>10, <1>11, <1>13 DEF Moves
<1>15. RecipesOK'
  BY <1>2, <1>6, <1>7, RecipesStay
<1> QED
  BY <1>2, <1>6, <1>7, <1>8, <1>14, <1>15, WorkerMoves, OthersStay DEF IInv, RowsOK

\* Every step of a worker.
LEMMA WorkerInv ==
  ASSUME TypeOK, TypeOK', IInv, NEW w \in Workers, WorkerStep(w)
  PROVE  IInv'
PROOF
<1>1. ASSUME NEW r \in Recipes, FindRecipe(w, r) PROVE IInv'
  <2>1. PICK t : t = [worker[w] EXCEPT !.pc = "insert", !.recipe = r]
    OBVIOUS
  <2>2. /\ worker \in [Workers -> WorkerType] /\ worker[w] \in WorkerType
        /\ WorkerOK(worker[w]) /\ worker[w].pc = "idle"
    BY <1>1, TypeParts, WorkingOn DEF FindRecipe
  <2>3. worker' = [worker EXCEPT ![w] = t]
    BY <1>1, <2>1, <2>2 DEF FindRecipe
  <2>4. t \in WorkerType
    BY <2>2, <2>3, NextTypes
  <2>5. t.pc = "insert" /\ t.list = worker[w].list /\ t.recipe = r
    BY <2>1, <2>2 DEF WorkerType
  <2>6. WorkerOK(t)
    BY <2>2, <2>5 DEF WorkerOK, AtWork
  <2>7. Moves(w)
    BY <2>3, <2>4, <2>6 DEF Moves
  <2> QED
    BY <1>1, <2>7, QuietMove DEF FindRecipe, store, aux
<1>2. CASE CreateRunnerImageBuild(w)
  BY <1>2, CreateInv
<1>3. CASE CreateBuildFails(w)
  <2>1. Moves(w)
    BY <1>3, IdleIsOK DEF CreateBuildFails, Moves
  <2> QED
    BY <1>3, <2>1, QuietMove DEF CreateBuildFails, store, aux
<1>4. CASE ListPending(w)
  BY <1>4, ListMoves, QuietMove DEF ListPending, store
<1>5. CASE PassStep(w)
  BY <1>5, PassInv
<1>6. CASE Abort(w)
  <2>1. Moves(w)
    BY <1>6, IdleIsOK DEF Abort, Moves
  <2> QED
    BY <1>6, <2>1, QuietMove DEF Abort, store
<1> QED
  BY <1>1, <1>2, <1>3, <1>4, <1>5, <1>6, Zenon DEF WorkerStep

\* A promoter, or an editor, that moves while the others stay.
LEMMA PromoterMoves ==
  ASSUME TypeOK, TypeOK', IInv, Grows, RowsMove, NEW p \in Promoters,
         NEW s \in PromoterType, promoter' = [promoter EXCEPT ![p] = s], PromoterOK(s)'
  PROVE  PromotersOK'
PROOF
<1>1. promoter \in [Promoters -> PromoterType]
  BY TypeParts
<1>2. PromoterOK(promoter[p])'
  <2>1. promoter'[p] = s
    BY <1>1
  <2> QED
    BY <2>1 DEF PromoterOK
<1>3. ASSUME NEW q \in Promoters, q # p PROVE PromoterOK(promoter[q])'
  <2>1. promoter'[q] = promoter[q]
    BY <1>1, <1>3
  <2> QED
    BY <2>1, PromotersStay
<1> QED
  BY <1>2, <1>3 DEF PromotersOK

\* An edit moves among the others.
LEMMA EditorMoves ==
  ASSUME TypeOK, TypeOK', IInv, Grows, RowsMove, NEW e \in Editors,
         NEW s \in EditorType, editor' = [editor EXCEPT ![e] = s], EditorOK(s)'
  PROVE  EditorsOK'
PROOF
<1>1. editor \in [Editors -> EditorType]
  BY TypeParts
<1>2. EditorOK(editor[e])'
  <2>1. editor'[e] = s
    BY <1>1
  <2> QED
    BY <2>1 DEF EditorOK, PairOK
<1>3. ASSUME NEW f \in Editors, f # e PROVE EditorOK(editor[f])'
  <2>1. editor'[f] = editor[f]
    BY <1>1, <1>3
  <2> QED
    BY <2>1, EditorsStay
<1> QED
  BY <1>2, <1>3 DEF EditorsOK

\* A goroutine that has nothing to do claims nothing.
LEMMA IdleOnesAreOK ==
  /\ IdlePromoter \in PromoterType /\ PromoterOK(IdlePromoter)' /\ PromoterOK(IdlePromoter)
  /\ IdleEditor \in EditorType /\ EditorOK(IdleEditor)' /\ EditorOK(IdleEditor)
PROOF BY IdleTypes DEF IdlePromoter, PromoterOK, IdleEditor, EditorOK

\* The label, the build and the copy of a promotion under way.
LEMMA Promoting ==
  ASSUME TypeOK, IInv, NEW p \in Promoters, promoter[p].pc # "idle"
  PROVE  /\ promoter \in [Promoters -> PromoterType] /\ promoter[p] \in PromoterType
         /\ PromoterOK(promoter[p]) /\ promoter[p].at \in Builds /\ promoter[p].row \in Row
         /\ promoter[p].row.image \in Images /\ promoter[p].row.recipe \in Recipes
         /\ promoter[p].row.instance \in Machines
         /\ GoodRow(promoter[p].at, promoter[p].row)
         /\ Known(promoter[p].at, promoter[p].row.recipe)
PROOF
<1>1. promoter \in [Promoters -> PromoterType] /\ PromoterOK(promoter[p])
  BY TypeParts DEF IInv, PromotersOK
<1>2. promoter[p] \in PromoterType /\ promoter[p].row \in Row
  BY <1>1 DEF PromoterType
<1>3. /\ promoter[p].at \in Builds /\ promoter[p].row.image # NoImage
      /\ promoter[p].row.recipe \in Recipes /\ GoodRow(promoter[p].at, promoter[p].row)
      /\ Known(promoter[p].at, promoter[p].row.recipe)
  BY <1>1 DEF PromoterOK
<1>4. promoter[p].row.instance # NoMachine
  BY <1>3 DEF GoodRow
<1> QED
  BY <1>1, <1>2, <1>3, <1>4, RowFields

\* Every step of a promotion.
LEMMA PromoterInv ==
  ASSUME TypeOK, TypeOK', IInv, NEW p \in Promoters, PromoterStep(p)
  PROVE  IInv'
PROOF
<1>1. PICK s : s = promoter[p]
  OBVIOUS
<1>2. promoter \in [Promoters -> PromoterType] /\ s \in PromoterType /\ builds \in [Builds -> Row]
  BY <1>1, TypeParts
<1>3. ASSUME NEW t \in PromoterType, promoter' = [promoter EXCEPT ![p] = t], PromoterOK(t),
             UNCHANGED <<builds, recipes, oci, defaulted, worker, editor>>
      PROVE  IInv'
  <2>1. CloudOK' /\ RowsOK' /\ RecipesOK' /\ Grows /\ RowsMove
    BY <1>3, QuietStep
  <2>2. PromoterOK(t)'
    BY <1>3, <2>1, PromoterStays
  <2> QED
    BY <1>3, <2>1, <2>2, PromoterMoves, OthersStay DEF IInv
<1>4. ASSUME NEW b \in Builds, FindBuild(p, b) PROVE IInv'
  <2>1. PICK t : t = [s EXCEPT !.pc = "settings", !.at = b, !.row = builds[b]]
    OBVIOUS
  <2>2. promoter' = [promoter EXCEPT ![p] = t]
    BY <1>1, <1>2, <1>4, <2>1 DEF FindBuild
  <2>3. t \in PromoterType
    BY <1>2, <2>2, NextTypes
  <2>4. t.pc = "settings" /\ t.at = b /\ t.row = builds[b]
    BY <1>2, <2>1 DEF PromoterType
  <2>5. GoodRow(b, builds[b]) /\ builds[b].status \notin Gone /\ builds[b].image # NoImage
    BY <1>4 DEF FindBuild, Exists, IInv, RowsOK, Gone
  <2>6. builds[b].recipe \in Recipes /\ Known(b, builds[b].recipe)
    BY <2>5 DEF GoodRow, Known, Gone
  <2>7. PromoterOK(t)
    BY <2>4, <2>5, <2>6 DEF PromoterOK
  <2> QED
    BY <1>3, <1>4, <2>2, <2>3, <2>7 DEF FindBuild, store, aux
<1>5. CASE CurrentStatus(p)
  <2>1. PICK t : t = [s EXCEPT !.pc = "save", !.read = settings]
    OBVIOUS
  <2>2. promoter' = [promoter EXCEPT ![p] = t]
    BY <1>1, <1>2, <1>5, <2>1 DEF CurrentStatus
  <2>3. t \in PromoterType
    BY <1>2, <2>2, NextTypes
  <2>4. t.pc = "save" /\ t.at = s.at /\ t.row = s.row
    BY <1>2, <2>1 DEF PromoterType
  <2>5. PromoterOK(s) /\ s.pc = "settings"
    BY <1>1, <1>5, Promoting DEF CurrentStatus
  <2>6. PromoterOK(t)
    BY <2>4, <2>5 DEF PromoterOK
  <2> QED
    BY <1>3, <1>5, <2>2, <2>3, <2>6 DEF CurrentStatus, store, aux
<1>6. CASE SaveSettings(p)
  <2>1. PICK t : t = [s EXCEPT !.pc = "build"]
    OBVIOUS
  <2>2. promoter' = [promoter EXCEPT ![p] = t]
    BY <1>1, <1>2, <1>6, <2>1 DEF SaveSettings
  <2>3. t \in PromoterType
    BY <1>2, <2>2, NextTypes
  <2>4. t.pc = "build" /\ t.at = s.at /\ t.row = s.row
    BY <1>2, <2>1 DEF PromoterType
  <2>5. /\ PromoterOK(s) /\ s.pc = "save" /\ s.at \in Builds /\ s.row \in Row
        /\ s.row.image \in Images /\ images[s.row.image].state = "ready"
        /\ defaulted' = defaulted \union {s.row.image}
        /\ builds' = builds /\ recipes' = recipes /\ machines' = machines /\ images' = images
        /\ worker' = worker /\ editor' = editor
    BY <1>1, <1>6, Promoting DEF SaveSettings, oci
  <2>6. RowsMove
    BY <2>5, BuildsStay
  <2>7. \A m \in Machines : machines[m].log \in Logs
    BY TypeParts DEF MachineType
  <2>8. Grows
    BY <2>5, <2>7, ReachedItself DEF Grows
  <2>9. CloudOK'
    BY <2>5 DEF IInv, CloudOK, MachinesOK, ImagesOK, TerminatedOnlyWhenDone, DefaultsReady
  <2>10. PromoterOK(s)'
    BY <1>2, <2>5, <2>6, <2>8, PromoterStays
  <2>11. PromoterOK(t)'
    BY <2>4, <2>5, <2>10 DEF PromoterOK
  <2> QED
    BY <2>2, <2>3, <2>5, <2>6, <2>8, <2>9, <2>11, RowsStay, RecipesStay, PromoterMoves, OthersStay
    DEF IInv
<1>7. CASE MarkBuildPromoted(p)
  <2>1. /\ PromoterOK(s) /\ s.pc = "build" /\ s.at \in Builds /\ s.row \in Row
        /\ s.row.image \in Images /\ s.row.recipe \in Recipes /\ s.row.instance \in Machines
        /\ GoodRow(s.at, s.row) /\ Known(s.at, s.row.recipe)
    BY <1>1, <1>7, Promoting DEF MarkBuildPromoted
  <2>2. s.row.image \in defaulted /\ images[s.row.image].state = "ready"
    BY <2>1 DEF PromoterOK, IInv, CloudOK, DefaultsReady
  <2>3. PICK row : row = [s.row EXCEPT !.status = "promoted"]
    OBVIOUS
  <2>4. /\ row.status = "promoted" /\ row.instance = s.row.instance /\ row.image = s.row.image
        /\ row.recipe = s.row.recipe
    BY <2>1, <2>3 DEF Row
  <2>5. row \in Row
    BY <2>1, <2>3, RowFields DEF Statuses, Finished
  <2>6. GoodRow(s.at, row)
    BY <2>1, <2>2, <2>4, Nothing DEF GoodRow, Gone
  <2>7. UpdateRunnerImageBuild(s.at, row)
    BY <1>1, <1>7, <2>3 DEF MarkBuildPromoted
  <2>8. /\ UNCHANGED <<recipes, oci, defaulted>>
        /\ worker' = worker /\ editor' = editor
    BY <1>7 DEF MarkBuildPromoted, aux
  <2>9. CloudOK' /\ RowsOK' /\ RecipesOK' /\ Grows /\ RowsMove
    BY <2>1, <2>4, <2>5, <2>6, <2>7, <2>8, RowWritten
  <2>10. PICK t : t = [s EXCEPT !.pc = "recipe"]
    OBVIOUS
  <2>11. promoter' = [promoter EXCEPT ![p] = t]
    BY <1>1, <1>2, <1>7, <2>10 DEF MarkBuildPromoted
  <2>12. t \in PromoterType
    BY <1>2, <2>11, NextTypes
  <2>13. t.pc = "recipe" /\ t.at = s.at /\ t.row = s.row
    BY <1>2, <2>10 DEF PromoterType
  <2>14. PromoterOK(t)
    BY <2>1, <2>13 DEF PromoterOK
  <2>15. PromoterOK(t)'
    BY <2>9, <2>12, <2>14, PromoterStays
  <2> QED
    BY <2>8, <2>9, <2>11, <2>12, <2>15, PromoterMoves, OthersStay DEF IInv
<1>8. CASE MarkRunnerImageRecipePromoted(p)
  <2>1. /\ PromoterOK(s) /\ s.pc = "recipe" /\ s.at \in Builds /\ s.row \in Row
        /\ s.row.image \in Images /\ s.row.recipe \in Recipes /\ s.row.instance \in Machines
        /\ GoodRow(s.at, s.row) /\ Known(s.at, s.row.recipe)
    BY <1>1, <1>8, Promoting DEF MarkRunnerImageRecipePromoted
  <2>2. /\ recipes \in [Recipes -> PairType]
        /\ recipes' = [recipes EXCEPT ![s.row.recipe] =
             IF @.state = "saved" THEN [@ EXCEPT !.build = s.at, !.image = s.row.image] ELSE @]
        /\ promoter' = [promoter EXCEPT ![p] = IdlePromoter]
        /\ UNCHANGED <<builds, oci, defaulted>> /\ worker' = worker /\ editor' = editor
    BY <1>1, <1>8, TypeParts DEF MarkRunnerImageRecipePromoted, aux
  <2>3. s.row.image \in defaulted /\ ImageOf(s.row.image, s.at)
    BY <2>1, Nothing DEF PromoterOK, GoodRow, MachineOf, ImageOf
  <2>4. RowsMove
    BY <2>2, BuildsStay
  <2>5. CloudOK' /\ Grows
    BY <2>2, <2>4, CloudStays
  <2>6. ASSUME NEW r \in Recipes PROVE PairOK(r, recipes[r])'
    <3>1. PICK pair : pair = recipes'[r]
      OBVIOUS
    <3>2. pair \in PairType
      BY <3>1, NextTypes
    <3>3. \/ pair = recipes[r]
          \/ r = s.row.recipe /\ pair = [recipes[r] EXCEPT !.build = s.at, !.image = s.row.image]
      BY <2>2, <3>1
    <3>4. PairOK(r, pair)
      <4>1. CASE pair = recipes[r]
        BY <4>1 DEF IInv, RecipesOK
      <4>2. CASE r = s.row.recipe
                 /\ pair = [recipes[r] EXCEPT !.build = s.at, !.image = s.row.image]
        <5>1. pair.build = s.at /\ pair.image = s.row.image
          BY <2>2, <4>2 DEF PairType
        <5> QED
          BY <2>1, <2>3, <4>2, <5>1 DEF PairOK
      <4> QED
        BY <3>3, <4>1, <4>2
    <3>5. PairOK(r, pair)'
      BY <2>4, <2>5, <3>2, <3>4, PairStays
    <3> QED
      BY <3>1, <3>5 DEF PairOK
  <2>7. RowsOK'
    BY <2>2, <2>5, RowsStay
  <2> QED
    BY <2>2, <2>4, <2>5, <2>6, <2>7, IdleOnesAreOK, PromoterMoves, OthersStay
    DEF IInv, RecipesOK
<1>9. CASE PromotionFails(p)
  BY <1>3, <1>9, IdleOnesAreOK DEF PromotionFails, store, aux
<1> QED
  BY <1>4, <1>5, <1>6, <1>7, <1>8, <1>9, Zenon DEF PromoterStep

\* A recipe is written whose pair is right.
LEMMA RecipeWritten ==
  ASSUME TypeOK, TypeOK', IInv, NEW r \in Recipes,
         \A q \in Recipes \ {r} : recipes'[q] = recipes[q],
         \/ PairOK(r, recipes'[r])
         \/ recipes'[r].build = recipes[r].build /\ recipes'[r].image = recipes[r].image,
         UNCHANGED <<builds, oci, defaulted>>
  PROVE  /\ CloudOK' /\ RowsOK' /\ RecipesOK'
         /\ Grows /\ RowsMove
PROOF
<1>1. RowsMove
  BY BuildsStay
<1>2. CloudOK' /\ Grows
  BY <1>1, CloudStays
<1>3. ASSUME NEW q \in Recipes PROVE PairOK(q, recipes[q])'
  <2>1. PICK pair : pair = recipes'[q]
    OBVIOUS
  <2>2. pair \in PairType
    BY <2>1, NextTypes
  <2>3. PairOK(q, recipes[q])
    BY DEF IInv, RecipesOK
  <2>4. PairOK(q, pair)
    BY <2>1, <2>3 DEF PairOK
  <2>5. PairOK(q, pair)'
    BY <1>1, <1>2, <2>2, <2>4, PairStays
  <2> QED
    BY <2>1, <2>5 DEF PairOK
<1> QED
  BY <1>1, <1>2, <1>3, RowsStay DEF RecipesOK

\* Every step of an edit or of the settings page.
LEMMA EditorInv ==
  ASSUME TypeOK, TypeOK', IInv, NEW e \in Editors, EditorStep(e)
  PROVE  IInv'
PROOF
<1>1. PICK s : s = editor[e]
  OBVIOUS
<1>2. /\ editor \in [Editors -> EditorType] /\ s \in EditorType /\ EditorOK(s)
      /\ builds \in [Builds -> Row] /\ recipes \in [Recipes -> PairType]
  BY <1>1, TypeParts DEF IInv, EditorsOK
<1>3. ASSUME NEW t \in EditorType, editor' = [editor EXCEPT ![e] = t], EditorOK(t),
             CloudOK', RowsOK', RecipesOK', Grows, RowsMove,
             worker' = worker, promoter' = promoter
      PROVE  IInv'
  <2>1. EditorOK(t)'
    BY <1>3, EditorStays
  <2> QED
    BY <1>3, <2>1, EditorMoves, OthersStay DEF IInv
<1>4. ASSUME NEW r \in Recipes, CreateRecipe(e, r) PROVE IInv'
  <2>1. /\ recipes' = [recipes EXCEPT ![r].state = "saved"]
        /\ UNCHANGED <<builds, oci, defaulted>>
        /\ worker' = worker /\ promoter' = promoter /\ editor' = editor
    BY <1>4 DEF CreateRecipe, aux
  <2>2. /\ recipes'[r].build = recipes[r].build /\ recipes'[r].image = recipes[r].image
        /\ \A q \in Recipes \ {r} : recipes'[q] = recipes[q]
    BY <1>2, <2>1 DEF PairType
  <2>3. CloudOK' /\ RowsOK' /\ RecipesOK' /\ Grows /\ RowsMove
    BY <2>1, <2>2, RecipeWritten
  <2> QED
    BY <2>1, <2>3, OthersStay DEF IInv
<1>5. ASSUME NEW r \in Recipes, EditRecipe(e, r) PROVE IInv'
  <2>1. PICK t : t = [pc |-> "update", recipe |-> r, read |-> recipes[r]]
    OBVIOUS
  <2>2. editor' = [editor EXCEPT ![e] = t] /\ t \in EditorType
    BY <1>2, <1>5, <2>1 DEF EditRecipe, EditorType
  <2>3. EditorOK(t)
    BY <2>1 DEF EditorOK, IInv, RecipesOK
  <2> QED
    BY <1>3, <1>5, <2>2, <2>3, QuietStep DEF EditRecipe, store, aux
<1>6. CASE UpdateRunnerImageRecipe(e)
  <2>1. /\ recipes' = [recipes EXCEPT ![s.recipe] = IF @.state = "saved" THEN s.read ELSE @]
        /\ UNCHANGED <<builds, oci, defaulted>>
        /\ worker' = worker /\ promoter' = promoter
        /\ editor' = [editor EXCEPT ![e] = IdleEditor]
        /\ s.recipe \in Recipes /\ PairOK(s.recipe, s.read)
    BY <1>1, <1>2, <1>6 DEF UpdateRunnerImageRecipe, aux, EditorOK
  <2>2. /\ \/ PairOK(s.recipe, recipes'[s.recipe])
           \/ /\ recipes'[s.recipe].build = recipes[s.recipe].build
              /\ recipes'[s.recipe].image = recipes[s.recipe].image
        /\ \A q \in Recipes \ {s.recipe} : recipes'[q] = recipes[q]
    BY <1>2, <2>1
  <2>3. CloudOK' /\ RowsOK' /\ RecipesOK' /\ Grows /\ RowsMove
    BY <2>1, <2>2, RecipeWritten
  <2> QED
    BY <1>3, <2>1, <2>3, IdleOnesAreOK
<1>7. ASSUME NEW r \in Recipes, DeleteBuilds(e, r) PROVE IInv'
  <2>1. /\ builds' = [b \in Builds |-> IF Exists(b) /\ builds[b].recipe = r
                                       THEN [Blank EXCEPT !.status = "deleted"] ELSE builds[b]]
        /\ recipes' = recipes /\ UNCHANGED <<oci, defaulted>>
        /\ worker' = worker /\ promoter' = promoter
        /\ editor' = [editor EXCEPT ![e].pc = "delete", ![e].recipe = r]
    BY <1>7 DEF DeleteBuilds, aux
  <2>2. PICK row : row = [Blank EXCEPT !.status = "deleted"]
    OBVIOUS
  <2>3. row.status = "deleted" /\ row.instance = NoMachine /\ row.image = NoImage
    BY <2>2 DEF Blank
  <2>4. RowsMove
    BY <2>1, <2>2, <2>3 DEF RowsMove, Exists
  <2>5. CloudOK' /\ Grows
    BY <2>1, <2>4, CloudStays
  <2>6. ASSUME NEW b \in Builds PROVE GoodRow(b, builds[b])'
    <3>1. PICK new \in Row : new = builds'[b]
      BY NextTypes
    <3>2. new = builds[b] \/ new = row
      BY <2>1, <2>2, <3>1
    <3>3. GoodRow(b, row)
      BY <2>3 DEF GoodRow, Gone
    <3>4. GoodRow(b, new)
      BY <3>2, <3>3 DEF IInv, RowsOK
    <3>5. GoodRow(b, new)'
      BY <2>5, <3>4, GoodRowStays
    <3> QED
      BY <3>1, <3>5 DEF GoodRow
  <2>7. RowsOK' /\ RecipesOK'
    BY <2>1, <2>4, <2>5, <2>6, RecipesStay DEF RowsOK
  <2>8. PICK t : t = [s EXCEPT !.pc = "delete", !.recipe = r]
    OBVIOUS
  <2>9. editor' = [editor EXCEPT ![e] = t]
    BY <1>1, <1>2, <2>1, <2>8
  <2>10. t \in EditorType
    BY <1>2, <2>9, NextTypes
  <2>11. EditorOK(t)
    BY <1>2, <2>8 DEF EditorOK, EditorType
  <2> QED
    BY <1>3, <2>1, <2>4, <2>5, <2>7, <2>9, <2>10, <2>11
<1>8. CASE DeleteRecipe(e)
  <2>1. /\ recipes' = [recipes EXCEPT ![s.recipe] = [Unpromoted EXCEPT !.state = "deleted"]]
        /\ UNCHANGED <<builds, oci, defaulted>>
        /\ worker' = worker /\ promoter' = promoter
        /\ editor' = [editor EXCEPT ![e] = IdleEditor]
        /\ s.recipe \in Recipes
    BY <1>1, <1>2, <1>8 DEF DeleteRecipe, aux, EditorOK
  <2>2. PairOK(s.recipe, [Unpromoted EXCEPT !.state = "deleted"])
    BY DEF PairOK, Unpromoted
  <2>3. /\ PairOK(s.recipe, recipes'[s.recipe])
        /\ \A q \in Recipes \ {s.recipe} : recipes'[q] = recipes[q]
    BY <1>2, <2>1, <2>2
  <2>4. CloudOK' /\ RowsOK' /\ RecipesOK' /\ Grows /\ RowsMove
    BY <2>1, <2>3, RecipeWritten
  <2> QED
    BY <1>3, <2>1, <2>4, IdleOnesAreOK
<1>9. CASE EditFails(e)
  BY <1>3, <1>9, IdleOnesAreOK, QuietStep DEF EditFails, store, aux
<1>10. CASE SettingsPage(e)
  BY <1>10, QuietStep, OthersStay DEF SettingsPage, aux, IInv
<1> QED
  BY <1>4, <1>5, <1>6, <1>7, <1>8, <1>9, <1>10, Zenon DEF EditorStep

\* Every step of OCI.
LEMMA EnvironmentInv ==
  ASSUME TypeOK, TypeOK', IInv, Environment
  PROVE  IInv'
PROOF
<1>1. machines \in [Machines -> MachineType] /\ images \in [Images -> ImageType]
  BY TypeParts
<1>2. \A k \in Machines : machines[k].log \in Logs
  BY <1>1 DEF MachineType
<1>3. ASSUME CloudOK', RowsOK', RecipesOK', Grows, RowsMove,
             worker' = worker, promoter' = promoter, editor' = editor
      PROVE  IInv'
  BY <1>3, OthersStay DEF IInv
<1>4. ASSUME NEW m \in Machines, ScriptPrints(m) PROVE IInv'
  <2>1. /\ machines[m].power = "running"
        /\ builds' = builds /\ recipes' = recipes /\ images' = images /\ defaulted' = defaulted
        /\ worker' = worker /\ promoter' = promoter /\ editor' = editor
    BY <1>4 DEF ScriptPrints, store, aux
  <2>2. PICK log \in PrintsNext(machines[m].log) : machines' = [machines EXCEPT ![m].log = log]
    BY <1>4 DEF ScriptPrints
  <2>3. Reached(machines[m].log, log) /\ machines[m].log # "passed"
    BY <1>2, <2>2 DEF PrintsNext, Reached, Logs
  <2>4. \A k \in Machines : /\ machines'[k].log = IF k = m THEN log ELSE machines[k].log
                            /\ machines'[k].build = machines[k].build
                            /\ machines'[k].power = machines[k].power
    BY <1>1, <2>2 DEF MachineType
  <2>5. \A k \in Machines : Reached(machines[k].log, machines'[k].log)
    BY <1>2, <2>3, <2>4, ReachedItself
  <2>6. Grows
    BY <2>1, <2>4, <2>5 DEF Grows
  <2>7. RowsMove
    BY <2>1, BuildsStay
  <2>8. MachinesOK'
    BY <2>1, <2>4 DEF IInv, CloudOK, MachinesOK
  <2>9. ImagesOK'
    BY <2>1, <2>3, <2>4 DEF IInv, CloudOK, ImagesOK
  <2>10. TerminatedOnlyWhenDone' /\ DefaultsReady'
    BY <2>1, <2>4 DEF IInv, CloudOK, TerminatedOnlyWhenDone, DefaultsReady
  <2> QED
    BY <1>3, <2>1, <2>6, <2>7, <2>8, <2>9, <2>10, RowsStay, RecipesStay DEF CloudOK
<1>5. ASSUME NEW m \in Machines, MachineStops(m) PROVE IInv'
  <2>1. CloudOK' /\ RowsOK' /\ RecipesOK' /\ Grows /\ RowsMove
    BY <1>5, PowerKeeps DEF MachineStops, store, aux
  <2> QED
    BY <1>3, <1>5, <2>1 DEF MachineStops
<1>6. ASSUME NEW i \in Images, ImageCompletes(i) PROVE IInv'
  <2>1. /\ images[i].state = "capturing" /\ images' = [images EXCEPT ![i].state = "ready"]
        /\ builds' = builds /\ recipes' = recipes /\ machines' = machines
        /\ defaulted' = defaulted
        /\ worker' = worker /\ promoter' = promoter /\ editor' = editor
    BY <1>6 DEF ImageCompletes, store, aux
  <2>2. \A k \in Images : /\ images'[k].machine = images[k].machine
                          /\ images'[k].state = IF k = i THEN "ready" ELSE images[k].state
    BY <1>1, <2>1 DEF ImageType
  <2>3. Grows
    BY <1>2, <2>1, <2>2, ReachedItself DEF Grows
  <2>4. RowsMove
    BY <2>1, BuildsStay
  <2>5. MachinesOK' /\ ImagesOK'
    BY <2>1, <2>2 DEF IInv, CloudOK, MachinesOK, ImagesOK
  <2>6. TerminatedOnlyWhenDone' /\ DefaultsReady'
    BY <2>1, <2>2 DEF IInv, CloudOK, TerminatedOnlyWhenDone, DefaultsReady
  <2> QED
    BY <1>3, <2>1, <2>3, <2>4, <2>5, <2>6, RowsStay, RecipesStay DEF CloudOK
<1> QED
  BY <1>4, <1>5, <1>6, Zenon DEF Environment

-----------------------------------------------------------------------------
(* Theorems                                                                 *)

\* The bake starts in the invariant,
LEMMA InitIsGood == Init => TypeOK /\ IInv
PROOF
<1> SUFFICES ASSUME Init PROVE TypeOK /\ IInv
  OBVIOUS
<1>1. \A m \in Machines : /\ machines[m].power = "unused" /\ machines[m].log = "blank"
                          /\ machines[m] \in MachineType
  BY DEF Init, MachineType, Powers, Logs
<1>2. \A i \in Images : /\ images[i].state = "unused" /\ images[i].machine = NoMachine
                        /\ images[i] \in ImageType
  BY DEF Init, ImageType
<1>3. machines \in [Machines -> MachineType] /\ images \in [Images -> ImageType]
  BY <1>1, <1>2 DEF Init
<1>4. TypeOK
  BY <1>3, TypeParts, BlankRow, IdleTypes, ConstantAssumption DEF Init
<1>5. CloudOK
  BY <1>1, <1>2 DEF Init, CloudOK, MachinesOK, ImagesOK, TerminatedOnlyWhenDone, DefaultsReady
<1>6. RowsOK
  BY DEF Init, RowsOK, GoodRow, Blank, Gone
<1>7. RecipesOK
  BY DEF Init, RecipesOK, PairOK, Unpromoted
<1>8. WorkersOK /\ PromotersOK /\ EditorsOK
  BY IdleIsOK, IdleOnesAreOK DEF Init, WorkersOK, PromotersOK, EditorsOK
<1> QED
  BY <1>4, <1>5, <1>6, <1>7, <1>8 DEF IInv

\* and every step keeps it.
LEMMA StepIsGood == TypeOK /\ IInv /\ [Next]_vars => (TypeOK /\ IInv)'
PROOF
<1> SUFFICES ASSUME TypeOK, IInv, [Next]_vars PROVE TypeOK' /\ IInv'
  OBVIOUS
<1>1. TypeOK'
  BY TypesKept
<1>2. CASE UNCHANGED vars
  BY <1>1, <1>2, QuietStep, OthersStay DEF vars, store, oci, aux, IInv
<1> QED
  BY <1>1, <1>2, WorkerInv, PromoterInv, EditorInv, EnvironmentInv, Zenon DEF Next

\* What every snapshot, copy, row and pair says has come true, for good.
THEOREM BakeInvariance == Spec => [](TypeOK /\ IInv)
PROOF BY InitIsGood, StepIsGood, PTL DEF Spec

\* Every variable of the bake keeps its type.
THEOREM BakeTypes == Spec => []TypeOK
PROOF BY BakeInvariance, PTL

\* No status runs ahead of the machine and the image that it is about (reconcileBuild's
\* writes of old copies).
THEOREM StatusIsEarned == Spec => []StatusNeverLeads
PROOF
<1>1. ASSUME TypeOK, IInv PROVE StatusNeverLeads
  <2>1. ASSUME NEW b \in Builds
        PROVE  LET row == builds[b]
                   log == machines[row.instance].log
               IN  /\ row.status = "provisioning" => log # "blank"
                   /\ row.status = "verifying" => log \in {"verifying", "passed", "verify_failed"}
                   /\ row.status \in {"creating_image", "available", "promoted"} =>
                        row.image # NoImage /\ log = "passed"
                   /\ row.status \in {"available", "promoted"} => images[row.image].state = "ready"
    <3>1. builds[b] \in Row /\ GoodRow(b, builds[b])
      BY <1>1, TypeParts DEF IInv, RowsOK
    <3>2. builds[b].image # NoImage => machines[builds[b].instance].log = "passed"
      BY <1>1, <3>1, RowFields DEF GoodRow, IInv, CloudOK, ImagesOK
    <3> QED
      BY <3>1, <3>2 DEF GoodRow, Reached
  <2> QED
    BY <2>1 DEF StatusNeverLeads
<1> QED
  BY <1>1, BakeInvariance, PTL

\* Whichever of two passes wrote last, the machine and the image of a row belong together.
THEOREM RowsBelongTogether == Spec => []RowsAreWhole
PROOF
<1>1. TypeOK /\ IInv => RowsAreWhole
  BY DEF RowsAreWhole, IInv, RowsOK, GoodRow
<1> QED
  BY <1>1, BakeInvariance, PTL

\* TerminateInstance is reached only for a bake that failed or whose image is ready.
THEOREM TerminatedForGood == Spec => []TerminatedOnlyWhenDone
PROOF
<1>1. TypeOK /\ IInv => TerminatedOnlyWhenDone
  BY DEF IInv, CloudOK
<1> QED
  BY <1>1, BakeInvariance, PTL

\* Nothing is called promoted before it was the default of the runtime, and the pair that
\* a recipe shows belongs together, through failed promotions and edits of old copies.
THEOREM PromotedInOrder == Spec => []PromotionIsInOrder
PROOF
<1>1. ASSUME TypeOK, IInv PROVE PromotionIsInOrder
  <2>1. \A i \in defaulted : images[i].state = "ready"
    BY <1>1 DEF IInv, CloudOK, DefaultsReady
  <2>2. \A b \in Builds : builds[b].status = "promoted" => builds[b].image \in defaulted
    BY <1>1 DEF IInv, RowsOK, GoodRow
  <2>3. \A r \in Recipes : recipes[r].image # NoImage =>
          /\ recipes[r].image \in defaulted
          /\ ImageOf(recipes[r].image, recipes[r].build)
          /\ Exists(recipes[r].build) => builds[recipes[r].build].recipe = r
    BY <1>1 DEF IInv, RecipesOK, PairOK, Known
  <2> QED
    BY <2>1, <2>2, <2>3 DEF PromotionIsInOrder
<1> QED
  BY <1>1, BakeInvariance, PTL

-----------------------------------------------------------------------------
(* The refinement of VerifiedImages                                         *)

Passed  == {m \in Machines : machines[m].log = "passed"}
Source  == [i \in Images |-> images[i].machine]
Ready   == {i \in Images : images[i].state = "ready"}
Default == settings.image

CatalogueNext == [Catalogue!Next]_<<Passed, Source, Ready, Default>>

\* The catalogue starts empty.
LEMMA CatalogueInit == Init => Catalogue!Init
PROOF
<1> SUFFICES ASSUME Init PROVE Catalogue!Init
  OBVIOUS
<1>1. \A m \in Machines : machines[m].log # "passed"
  BY DEF Init
<1>2. \A i \in Images : images[i].machine = NoMachine /\ images[i].state # "ready"
  BY DEF Init
<1>3. settings.image = NoImage
  BY ConstantAssumption DEF Init
<1> QED
  BY <1>1, <1>2, <1>3 DEF Catalogue!Init

\* A step that leaves OCI and the default image alone is a stutter.
LEMMA Unseen ==
  ASSUME UNCHANGED <<machines, images>>, Default' = Default
  PROVE  CatalogueNext
PROOF BY DEF CatalogueNext, Passed, Source, Ready

\* So is one that changes neither the machines that have passed nor the images.
LEMMA NothingPasses ==
  ASSUME UNCHANGED <<images, settings>>,
         \A m \in Machines : machines'[m].log = "passed" <=> machines[m].log = "passed"
  PROVE  CatalogueNext
PROOF BY DEF CatalogueNext, Passed, Source, Ready, Default

\* A launch, and a change of power, are no steps of the catalogue.
LEMMA LaunchUnseen ==
  ASSUME TypeOK, IInv, NEW m \in Machines, NEW b, NewMachine(m), Launched(m, b),
         UNCHANGED <<images, settings>>
  PROVE  CatalogueNext
PROOF
<1>1. /\ machines \in [Machines -> MachineType] /\ machines[m].log = "blank"
      /\ machines' = [machines EXCEPT ![m] = [build |-> b, power |-> "running", log |-> "blank"]]
  BY TypeParts DEF NewMachine, Launched, IInv, CloudOK, MachinesOK
<1> QED
  BY <1>1, NothingPasses

LEMMA PowerUnseen ==
  ASSUME TypeOK, NEW m, NEW power, machines' = [machines EXCEPT ![m].power = power],
         UNCHANGED <<images, settings>>
  PROVE  CatalogueNext
PROOF
<1>1. \A k \in Machines : machines'[k].log = machines[k].log
  BY TypeParts DEF MachineType
<1> QED
  BY <1>1, NothingPasses

\* The capture of an image is a step of the catalogue.
LEMMA CaptureSeen ==
  ASSUME TypeOK, IInv, NEW i \in Images, NEW m \in Machines, machines[m].log = "passed",
         NewImage(i), Captured(i, m), UNCHANGED <<machines, settings>>
  PROVE  CatalogueNext
PROOF
<1>1. /\ images \in [Images -> ImageType]
      /\ images' = [images EXCEPT ![i] = [machine |-> m, state |-> "capturing"]]
      /\ images[i].state = "unused" /\ images[i].machine = NoMachine
  BY TypeParts DEF NewImage, Captured, IInv, CloudOK, ImagesOK
<1>2. Source[i] = NoMachine /\ Source' = [Source EXCEPT ![i] = m]
  BY <1>1 DEF Source
<1>3. Ready' = Ready
  BY <1>1 DEF Ready
<1>4. m \in Passed /\ Passed' = Passed /\ Default' = Default
  BY DEF Passed, Default
<1>5. Catalogue!Capture(i, m)
  BY <1>2, <1>3, <1>4 DEF Catalogue!Capture, Passed, Source, Ready, Default
<1> QED
  BY <1>5 DEF Catalogue!Next, CatalogueNext

\* A pass implements the catalogue.
LEMMA PassSeen ==
  ASSUME TypeOK, IInv, NEW w \in Workers, PassStep(w)
  PROVE  CatalogueNext
PROOF
<1>1. ASSUME UNCHANGED <<machines, images, settings>> PROVE CatalogueNext
  BY <1>1, Unseen DEF Default
<1>2. ASSUME NEW b \in Builds, LaunchBake(w, b) \/ LaunchFails(w, b) PROVE CatalogueNext
  BY <1>1, <1>2, LaunchUnseen DEF LaunchBake, LaunchFails, store
<1>3. CASE CreateImage(w) \/ CreateImageFails(w)
  <2>1. /\ worker[w].cur.instance \in Machines /\ worker[w].log = "passed"
        /\ CurOK(worker[w]) /\ worker[w].pc = "judge"
    BY <1>3, WorkingOn DEF CreateImage, CreateImageFails, MayCapture, Judging, AtWork
  <2>2. machines[worker[w].cur.instance].log = "passed"
    BY <2>1 DEF CurOK, Reached
  <2> QED
    BY <1>1, <1>3, <2>1, <2>2, CaptureSeen DEF CreateImage, CreateImageFails, store
<1>4. CASE TerminateInstance(w)
  BY <1>1, <1>4, PowerUnseen DEF TerminateInstance, store
<1>5. ASSUME NEW b \in Builds, GetInstance(w, b) \/ GetInstanceFails(w, b) PROVE CatalogueNext
  BY <1>1, <1>5 DEF GetInstance, GetInstanceFails, store, oci
<1>6. CASE \/ CaptureConsoleOutput(w) \/ SavePhase(w) \/ BakeFailed(w) \/ GetImageReady(w)
           \/ GetImageCapturing(w) \/ GetImageFails(w) \/ StoppedEarly(w) \/ StillBaking(w)
  BY <1>1, <1>6 DEF CaptureConsoleOutput, SavePhase, BakeFailed, GetImageReady,
    GetImageCapturing, GetImageFails, StoppedEarly, StillBaking, store, oci
<1>7. CASE SaveBuild(w) \/ SaveFails(w) \/ FailBuild(w) \/ FailBuildLost(w) \/ PassEnds(w)
  BY <1>1, <1>7 DEF SaveBuild, SaveFails, FailBuild, FailBuildLost, PassEnds, store, oci
<1> QED
  BY <1>2, <1>3, <1>4, <1>5, <1>6, <1>7, Zenon DEF PassStep

\* So do promotions and the settings page.
LEMMA ChooseSeen ==
  ASSUME TypeOK, UNCHANGED <<machines, images>>,
         settings'.image = NoImage \/
           (settings'.image \in Images /\ images[settings'.image].state = "ready")
  PROVE  CatalogueNext
PROOF
<1>1. Passed' = Passed /\ Source' = Source /\ Ready' = Ready
  BY DEF Passed, Source, Ready
<1>2. Default' \in Ready \union {NoImage} /\ Default' \in Images \union {NoImage}
  BY DEF Default, Ready
<1>3. PICK i : i = Default'
  OBVIOUS
<1>4. Catalogue!Choose(i)
  BY <1>1, <1>2, <1>3 DEF Catalogue!Choose, Passed, Source, Ready, Default
<1> QED
  BY <1>2, <1>3, <1>4 DEF Catalogue!Next, CatalogueNext

\* Every step is one of the catalogue, or none.
LEMMA CatalogueStep ==
  ASSUME TypeOK, TypeOK', IInv, [Next]_vars
  PROVE  CatalogueNext
PROOF
<1>1. ASSUME UNCHANGED <<machines, images, settings>> PROVE CatalogueNext
  BY <1>1, Unseen DEF Default
<1>2. ASSUME NEW w \in Workers, WorkerStep(w) PROVE CatalogueNext
  <2>1. ASSUME NEW r \in Recipes, FindRecipe(w, r) PROVE CatalogueNext
    BY <1>1, <2>1 DEF FindRecipe, store, oci
  <2>2. CASE \/ CreateRunnerImageBuild(w) \/ CreateBuildFails(w) \/ ListPending(w) \/ Abort(w)
    BY <1>1, <2>2 DEF CreateRunnerImageBuild, CreateBuildFails, ListPending, Abort, store, oci
  <2> QED
    BY <1>2, <2>1, <2>2, PassSeen, Zenon DEF WorkerStep
<1>3. ASSUME NEW p \in Promoters, PromoterStep(p) PROVE CatalogueNext
  <2>1. ASSUME NEW b \in Builds, FindBuild(p, b) PROVE CatalogueNext
    BY <1>1, <2>1 DEF FindBuild, store, oci
  <2>2. CASE SaveSettings(p)
    <3>1. promoter[p].row.image \in Images /\ promoter[p].read \in Settings
      BY <2>2, Promoting DEF SaveSettings, PromoterType
    <3>2. /\ settings'.image = promoter[p].row.image /\ UNCHANGED <<machines, images>>
          /\ images[promoter[p].row.image].state = "ready"
      BY <2>2, <3>1 DEF SaveSettings, Settings, oci
    <3> QED
      BY <3>1, <3>2, ChooseSeen
  <2>3. CASE \/ CurrentStatus(p) \/ MarkBuildPromoted(p) \/ MarkRunnerImageRecipePromoted(p)
             \/ PromotionFails(p)
    BY <1>1, <2>3 DEF CurrentStatus, MarkBuildPromoted, MarkRunnerImageRecipePromoted,
      PromotionFails, store, oci
  <2> QED
    BY <1>3, <2>1, <2>2, <2>3, Zenon DEF PromoterStep
<1>4. ASSUME NEW e \in Editors, EditorStep(e) PROVE CatalogueNext
  <2>1. ASSUME NEW r \in Recipes, CreateRecipe(e, r) \/ EditRecipe(e, r) \/ DeleteBuilds(e, r)
        PROVE  CatalogueNext
    BY <1>1, <2>1 DEF CreateRecipe, EditRecipe, DeleteBuilds, store, oci
  <2>2. CASE SettingsPage(e)
    <3>1. \/ settings'.image = NoImage
          \/ settings'.image \in Images /\ images[settings'.image].state = "ready"
      BY <2>2, ConstantAssumption DEF SettingsPage, Settings
    <3>2. UNCHANGED <<machines, images>>
      BY <2>2 DEF SettingsPage, oci
    <3> QED
      BY <3>1, <3>2, ChooseSeen
  <2>3. CASE UpdateRunnerImageRecipe(e) \/ DeleteRecipe(e) \/ EditFails(e)
    BY <1>1, <2>3 DEF UpdateRunnerImageRecipe, DeleteRecipe, EditFails, store, oci
  <2> QED
    BY <1>4, <2>1, <2>2, <2>3, Zenon DEF EditorStep
<1>5. ASSUME NEW m \in Machines, ScriptPrints(m) PROVE CatalogueNext
  <2>1. PICK log \in PrintsNext(machines[m].log) : machines' = [machines EXCEPT ![m].log = log]
    BY <1>5 DEF ScriptPrints
  <2>2. machines \in [Machines -> MachineType] /\ images' = images /\ settings' = settings
    BY <1>5, TypeParts DEF ScriptPrints, store
  <2>3. \A k \in Machines : machines'[k].log = IF k = m THEN log ELSE machines[k].log
    BY <2>1, <2>2 DEF MachineType
  <2>4. machines[m].log # "passed"
    BY <2>1 DEF PrintsNext
  <2>5. CASE log = "passed"
    <3>1. Passed' = Passed \union {m}
      BY <2>3, <2>5 DEF Passed
    <3>2. Source' = Source /\ Ready' = Ready /\ Default' = Default
      BY <2>2 DEF Source, Ready, Default
    <3>3. Catalogue!Pass(m)
      BY <3>1, <3>2 DEF Catalogue!Pass, Passed, Source, Ready, Default
    <3> QED
      BY <3>3 DEF Catalogue!Next, CatalogueNext
  <2>6. CASE log # "passed"
    BY <2>2, <2>3, <2>4, <2>6, NothingPasses
  <2> QED
    BY <2>5, <2>6
<1>6. ASSUME NEW m \in Machines, MachineStops(m) PROVE CatalogueNext
  BY <1>6, PowerUnseen DEF MachineStops, store
<1>7. ASSUME NEW i \in Images, ImageCompletes(i) PROVE CatalogueNext
  <2>1. /\ images[i].state = "capturing" /\ images' = [images EXCEPT ![i].state = "ready"]
        /\ machines' = machines /\ settings' = settings /\ images \in [Images -> ImageType]
    BY <1>7, TypeParts DEF ImageCompletes, store
  <2>2. Source[i] # NoMachine
    BY <2>1, Nothing DEF Source, IInv, CloudOK, ImagesOK
  <2>3. Ready' = Ready \union {i} /\ Source' = Source
    BY <2>1 DEF Ready, Source, ImageType
  <2>4. Passed' = Passed /\ Default' = Default
    BY <2>1 DEF Passed, Default
  <2>5. Catalogue!Finish(i)
    BY <2>2, <2>3, <2>4 DEF Catalogue!Finish, Passed, Source, Ready, Default
  <2> QED
    BY <2>5 DEF Catalogue!Next, CatalogueNext
<1>8. CASE UNCHANGED vars
  BY <1>1, <1>8 DEF vars, store, oci
<1> QED
  BY <1>2, <1>3, <1>4, <1>5, <1>6, <1>7, <1>8, Zenon DEF Next, Environment

\* Module ImageBake implements module VerifiedImages: whatever overlaps, fails or is cut
\* short, an image comes only from a machine whose commands passed, and only a ready image
\* becomes the default of the runtime.
THEOREM CatalogueIsKept == Spec => CatalogueSpec
PROOF
<1>1. TypeOK /\ TypeOK' /\ IInv /\ [Next]_vars => CatalogueNext
  BY CatalogueStep
<1>2. CatalogueSpec <=> Catalogue!Init /\ [][Catalogue!Next]_<<Passed, Source, Ready, Default>>
  BY DEF CatalogueSpec, Catalogue!Spec, Passed, Source, Ready, Default
<1> QED
  BY <1>1, <1>2, CatalogueInit, BakeInvariance, PTL DEF Spec, CatalogueNext

-----------------------------------------------------------------------------
(* One machine and one image                                                *)

NoMachineFor(b) == \A m \in Machines : ~MachineOf(m, b)
NoImageFor(b)   == \A i \in Images : ~ImageOf(i, b)

\* The pass has done something for build b in OCI that is not in the row yet.
Busy(s, b) == s.at = b /\ s.pc \in {"save", "fail"}

Single(b) ==
  /\ \A m, n \in Machines : MachineOf(m, b) /\ MachineOf(n, b) => m = n
  /\ \A i, j \in Images : ImageOf(i, b) /\ ImageOf(j, b) => i = j

\* Unless a pass is busy with it, the row tells what OCI has for the build, and so does
\* a snapshot of it.
RowFresh(b) ==
  (\A w \in Workers : ~Busy(worker[w], b)) =>
    /\ builds[b].status = "queued" => NoMachineFor(b)
    /\ builds[b].status \in Pending /\ builds[b].image = NoImage => NoImageFor(b)

HeldFresh(s, b) ==
  s.list[b].status \in Pending =>
    /\ ~Busy(s, b) => /\ s.list[b].status = "queued" => NoMachineFor(b)
                      /\ s.list[b].image = NoImage => NoImageFor(b)
    /\ Busy(s, b) /\ s.pc = "save" /\ s.cur.image = NoImage /\ s.cur.status \in Pending =>
         NoImageFor(b)

Undisturbed(b) ==
  /\ Single(b) /\ RowFresh(b)
  /\ \A w \in Workers : HeldFresh(worker[w], b)
  /\ \A v, w \in Workers : Holds(v, b) /\ Holds(w, b) => v = w

UInv == \A b \in Builds \ disturbed : Undisturbed(b)

\* A step neither launches nor captures for build b.
SameOCI(b) ==
  /\ \A m \in Machines : MachineOf(m, b)' <=> MachineOf(m, b)
  /\ \A i \in Images : ImageOf(i, b)' <=> ImageOf(i, b)

\* The machine of an image has been launched.
LEMMA UsedMachine ==
  ASSUME IInv, NEW i \in Images, images[i].state # "unused"
  PROVE  images[i].machine \in Machines /\ machines[images[i].machine].power # "unused"
PROOF BY DEF IInv, CloudOK, ImagesOK, MachinesOK

\* A step that uses no new machine and no new image.
LEMMA SameUse ==
  ASSUME IInv, NEW b \in Builds,
         \A k \in Machines : /\ machines'[k].power # "unused" <=> machines[k].power # "unused"
                             /\ machines'[k].build = machines[k].build,
         \A i \in Images : /\ images'[i].state # "unused" <=> images[i].state # "unused"
                           /\ images'[i].machine = images[i].machine
  PROVE  SameOCI(b)
PROOF
<1>1. \A m \in Machines : MachineOf(m, b)' <=> MachineOf(m, b)
  BY DEF MachineOf
<1>2. \A i \in Images : ImageOf(i, b)' <=> ImageOf(i, b)
  BY UsedMachine DEF ImageOf
<1> QED
  BY <1>1, <1>2 DEF SameOCI

\* A launch for build c, as build b sees it.
LEMMA LaunchedFor ==
  ASSUME TypeOK, IInv, NEW b \in Builds, NEW c \in Builds, NEW m \in Machines,
         NewMachine(m), Launched(m, c), images' = images
  PROVE  /\ b # c => SameOCI(b)
         /\ \A k \in Machines : MachineOf(k, c)' <=> MachineOf(k, c) \/ k = m
         /\ \A i \in Images : ImageOf(i, c)' <=> ImageOf(i, c)
PROOF
<1>1. /\ machines \in [Machines -> MachineType] /\ machines[m].power = "unused"
      /\ machines' = [machines EXCEPT ![m] = [build |-> c, power |-> "running", log |-> "blank"]]
  BY TypeParts DEF NewMachine, Launched
<1>2. \A k \in Machines : MachineOf(k, c)' <=> MachineOf(k, c) \/ k = m
  BY <1>1 DEF MachineOf
<1>3. \A k \in Machines : b # c => (MachineOf(k, b)' <=> MachineOf(k, b))
  BY <1>1 DEF MachineOf
<1>4. \A i \in Images : images[i].state # "unused" => images[i].machine \in Machines \ {m}
  BY <1>1, UsedMachine
<1>5. \A i \in Images, d \in Builds : ImageOf(i, d)' <=> ImageOf(i, d)
  BY <1>1, <1>4 DEF ImageOf
<1> QED
  BY <1>2, <1>3, <1>5 DEF SameOCI

\* A capture from machine m, as build b sees it.
LEMMA CapturedFor ==
  ASSUME TypeOK, IInv, NEW b \in Builds, NEW i \in Images, NEW m \in Machines,
         NewImage(i), Captured(i, m), machines' = machines
  PROVE  /\ machines[m].build # b => SameOCI(b)
         /\ \A k \in Machines : MachineOf(k, b)' <=> MachineOf(k, b)
         /\ \A j \in Images : ImageOf(j, b)' => ImageOf(j, b) \/ j = i
PROOF
<1>1. /\ images \in [Images -> ImageType] /\ images[i].state = "unused"
      /\ images' = [images EXCEPT ![i] = [machine |-> m, state |-> "capturing"]]
  BY TypeParts DEF NewImage, Captured
<1>2. \A k \in Machines : MachineOf(k, b)' <=> MachineOf(k, b)
  BY DEF MachineOf
<1>3. \A j \in Images : j # i => (ImageOf(j, b)' <=> ImageOf(j, b))
  BY <1>1 DEF ImageOf
<1>4. ImageOf(i, b)' <=> machines[m].build = b
  BY <1>1 DEF ImageOf
<1>5. ~ImageOf(i, b)
  BY <1>1 DEF ImageOf
<1> QED
  BY <1>2, <1>3, <1>4, <1>5 DEF SameOCI

-----------------------------------------------------------------------------
(* How a step meets a build that nothing has disturbed                      *)

\* A build for which OCI has done nothing has what it had.
LEMMA SingleStays ==
  ASSUME NEW b \in Builds, SameOCI(b)
  PROVE  /\ Single(b) => Single(b)'
         /\ NoMachineFor(b)' <=> NoMachineFor(b)
         /\ NoImageFor(b)' <=> NoImageFor(b)
PROOF BY DEF SameOCI, Single, NoMachineFor, NoImageFor

\* Who is not worker w.
LEMMA OthersHold ==
  ASSUME NEW b \in Builds, NEW w \in Workers, NEW v \in Workers, v # w, Others(w), SameOCI(b),
         HeldFresh(worker[v], b)
  PROVE  HeldFresh(worker[v], b)' /\ (Holds(v, b)' <=> Holds(v, b))
PROOF
<1>1. worker'[v] = worker[v]
  BY DEF Others
<1>2. (NoMachineFor(b)' <=> NoMachineFor(b)) /\ (NoImageFor(b)' <=> NoImageFor(b))
  BY SingleStays
<1> QED
  BY <1>1, <1>2 DEF HeldFresh, Holds, Busy

\* The worker does nothing for build b, but may let go of it.
LEMMA Aside ==
  ASSUME NEW b \in Builds, NEW w \in Workers, Undisturbed(b), Others(w), SameOCI(b),
         builds'[b] = builds[b] \/ builds'[b].status \notin Pending,
         ~Busy(worker[w], b), ~Busy(worker[w], b)',
         worker'[w].list[b] = worker[w].list[b] \/ worker'[w].list[b].status \notin Pending
  PROVE  Undisturbed(b)'
PROOF
<1>1. (NoMachineFor(b)' <=> NoMachineFor(b)) /\ (NoImageFor(b)' <=> NoImageFor(b)) /\ Single(b)'
  BY SingleStays DEF Undisturbed
<1>2. \A v \in Workers : Busy(worker[v], b)' <=> Busy(worker[v], b)
  BY DEF Others, Busy
<1>3. RowFresh(b)'
  BY <1>1, <1>2 DEF Undisturbed, RowFresh, Pending
<1>4. HeldFresh(worker[w], b)' /\ (Holds(w, b)' => Holds(w, b))
  BY <1>1 DEF Undisturbed, HeldFresh, Holds, Busy
<1>5. \A v \in Workers : v # w => HeldFresh(worker[v], b)' /\ (Holds(v, b)' <=> Holds(v, b))
  BY OthersHold DEF Undisturbed
<1> QED
  BY <1>1, <1>3, <1>4, <1>5 DEF Undisturbed

\* The worker has done something for build b, or failed at it.
LEMMA GetsBusy ==
  ASSUME NEW b \in Builds, NEW w \in Workers, Undisturbed(b), Others(w), Holds(w, b),
         Single(b)', Busy(worker[w], b)',
         \/ worker'[w].pc # "save" \/ worker'[w].cur.image # NoImage
         \/ worker'[w].cur.status \notin Pending \/ NoImageFor(b)'
  PROVE  Undisturbed(b)'
PROOF
<1>1. RowFresh(b)'
  BY DEF RowFresh
<1>2. HeldFresh(worker[w], b)'
  BY DEF HeldFresh
<1>3. ASSUME NEW v \in Workers, v # w PROVE HeldFresh(worker[v], b)' /\ ~Holds(v, b)'
  <2>1. ~Holds(v, b) /\ worker'[v] = worker[v]
    BY <1>3 DEF Undisturbed, Others
  <2> QED
    BY <2>1 DEF HeldFresh, Holds
<1> QED
  BY <1>1, <1>2, <1>3 DEF Undisturbed

\* The worker has written the row of build b.
LEMMA HasWritten ==
  ASSUME NEW b \in Builds, NEW w \in Workers, Undisturbed(b), Others(w), Holds(w, b), SameOCI(b),
         worker'[w].list[b] = worker[w].list[b] \/ worker'[w].list[b].status \notin Pending,
         ~Busy(worker[w], b)', ~Busy(worker[w], b) \/ worker'[w].list[b].status \notin Pending,
         RowFresh(b)'
  PROVE  Undisturbed(b)'
PROOF
<1>1. (NoMachineFor(b)' <=> NoMachineFor(b)) /\ (NoImageFor(b)' <=> NoImageFor(b)) /\ Single(b)'
  BY SingleStays DEF Undisturbed
<1>2. HeldFresh(worker[w], b)' /\ (Holds(w, b)' => Holds(w, b))
  BY <1>1 DEF Undisturbed, HeldFresh, Holds, Busy
<1>3. \A v \in Workers : v # w => HeldFresh(worker[v], b)' /\ (Holds(v, b)' <=> Holds(v, b))
  BY OthersHold DEF Undisturbed
<1> QED
  BY <1>1, <1>2, <1>3 DEF Undisturbed

\* No worker moves.
LEMMA Bystanding ==
  ASSUME NEW b \in Builds, Undisturbed(b), worker' = worker, SameOCI(b),
         builds'[b] = builds[b] \/ builds'[b].status \notin Pending
  PROVE  Undisturbed(b)'
PROOF
<1>1. (NoMachineFor(b)' <=> NoMachineFor(b)) /\ (NoImageFor(b)' <=> NoImageFor(b)) /\ Single(b)'
  BY SingleStays DEF Undisturbed
<1>2. RowFresh(b)'
  BY <1>1 DEF Undisturbed, RowFresh, Busy, Pending
<1>3. \A v \in Workers : HeldFresh(worker[v], b)' /\ (Holds(v, b)' <=> Holds(v, b))
  BY <1>1 DEF Undisturbed, HeldFresh, Holds, Busy
<1> QED
  BY <1>1, <1>2, <1>3 DEF Undisturbed

-----------------------------------------------------------------------------
(* Every step leaves the undisturbed builds in order                        *)

\* The fields of a worker after NextBuild and after it has turned to fail.
LEMMA NextBuildFields ==
  ASSUME TypeOK, NEW w \in Workers, NextBuild(w)
  PROVE  /\ worker'[w].pc = "take" /\ Others(w)
         /\ worker'[w].list = [worker[w].list EXCEPT ![worker[w].at] = Blank]
PROOF BY TypeParts DEF NextBuild, WorkerType, Others

\* The fields of a worker that has gone to label l.
LEMMA GotoFields ==
  ASSUME TypeOK, NEW w \in Workers, NEW l, Goto(w, l)
  PROVE  /\ worker'[w].pc = l /\ Others(w) /\ worker'[w].list = worker[w].list
         /\ worker'[w].at = worker[w].at /\ worker'[w].cur = worker[w].cur
PROOF BY TypeParts DEF Goto, WorkerType, Others

\* A step that leaves OCI alone does nothing for any build.
LEMMA SameCloud ==
  ASSUME IInv, NEW b \in Builds, UNCHANGED <<machines, images>>
  PROVE  SameOCI(b)
PROOF BY SameUse

\* The worker lets go of the build that it works on.
LEMMA LetsGo ==
  ASSUME TypeOK, IInv, NEW b \in Builds, NEW w \in Workers, Undisturbed(b), NextBuild(w),
         worker[w].pc \in AtWork \union {"fail"}, SameOCI(b),
         b # worker[w].at => builds'[b] = builds[b],
         b = worker[w].at => RowFresh(b)'
  PROVE  Undisturbed(b)'
PROOF
<1>1. /\ worker'[w].pc = "take" /\ Others(w) /\ worker[w].list \in [Builds -> Row]
      /\ worker'[w].list = [worker[w].list EXCEPT ![worker[w].at] = Blank]
      /\ worker[w].at \in Builds /\ worker[w].list[worker[w].at].status \in Pending
  BY NextBuildFields, WorkingOn DEF WorkerOK
<1>2. CASE b # worker[w].at
  <2>1. worker'[w].list[b] = worker[w].list[b] /\ ~Busy(worker[w], b) /\ ~Busy(worker[w], b)'
    BY <1>1, <1>2 DEF Busy
  <2> QED
    BY <1>1, <1>2, <2>1, Aside
<1>3. CASE b = worker[w].at
  <2>1. /\ worker'[w].list[b].status \notin Pending /\ ~Busy(worker[w], b)'
        /\ Holds(w, b)
    BY <1>1, <1>3 DEF Busy, Blank, Pending, Holds
  <2> QED
    BY <1>1, <1>3, <2>1, HasWritten
<1> QED
  BY <1>2, <1>3

\* The worker moves on with the build that it works on, and leaves OCI and rows alone.
LEMMA MovesOn ==
  ASSUME TypeOK, IInv, NEW b \in Builds, NEW w \in Workers, Undisturbed(b), Others(w),
         worker[w].pc \in AtWork, worker[w].pc # "save",
         worker'[w].list = worker[w].list, worker'[w].at = worker[w].at,
         SameOCI(b), builds'[b] = builds[b],
         \/ worker'[w].pc # "save" \/ worker'[w].cur.image # NoImage
         \/ worker'[w].cur.status \notin Pending
  PROVE  Undisturbed(b)'
PROOF
<1>1. worker[w].at \in Builds /\ worker[w].list[worker[w].at].status \in Pending
  BY WorkingOn DEF WorkerOK
<1>2. ~Busy(worker[w], b)
  BY DEF Busy, AtWork
<1>3. CASE ~Busy(worker[w], b)'
  BY <1>2, <1>3, Aside
<1>4. CASE Busy(worker[w], b)'
  <2>1. Holds(w, b) /\ Single(b)'
    BY <1>1, <1>4, SingleStays DEF Busy, Holds, Undisturbed
  <2> QED
    BY <1>4, <2>1, GetsBusy
<1> QED
  BY <1>3, <1>4

\* The worker takes a build off its list.
LEMMA Takes ==
  ASSUME TypeOK, IInv, NEW b \in Builds, NEW w \in Workers, NEW c \in Builds,
         Undisturbed(b), Others(w), worker[w].pc = "take", Holds(w, c),
         worker'[w].list = worker[w].list, worker'[w].at = c, worker'[w].pc \in {"console", "fail"},
         SameOCI(b), builds'[b] = builds[b]
  PROVE  Undisturbed(b)'
PROOF
<1>1. ~Busy(worker[w], b)
  BY DEF Busy
<1>2. CASE ~Busy(worker[w], b)'
  BY <1>1, <1>2, Aside
<1>3. CASE Busy(worker[w], b)'
  <2>1. Holds(w, b) /\ Single(b)' /\ worker'[w].pc # "save"
    BY <1>3, SingleStays DEF Busy, Undisturbed
  <2> QED
    BY <1>3, <2>1, GetsBusy
<1> QED
  BY <1>2, <1>3

\* A launch meets a build that has no machine and no image.
LEMMA LaunchUndisturbed ==
  ASSUME TypeOK, IInv, NEW b \in Builds, Undisturbed(b),
         NEW w \in Workers, NEW c \in Builds, LaunchBake(w, c) \/ LaunchFails(w, c)
  PROVE  Undisturbed(b)'
PROOF
<1>1. /\ worker \in [Workers -> WorkerType] /\ worker[w] \in WorkerType
      /\ worker[w].pc = "take" /\ Holds(w, c) /\ worker[w].list[c].status = "queued"
      /\ worker[w].list[c] \in Row /\ GoodRow(c, worker[w].list[c])
      /\ builds' = builds /\ images' = images
  BY TypeParts, OnTheList DEF LaunchBake, LaunchFails, IsNext, Holds, store
<1>2. worker[w].list[c].image = NoImage
  BY <1>1 DEF GoodRow
<1>3. /\ worker'[w].list = worker[w].list /\ worker'[w].at = c
      /\ worker'[w].pc \in {"save", "fail"} /\ Others(w)
      /\ worker'[w].pc = "save" => LaunchBake(w, c)
  <2>1. ASSUME NEW cur, worker' = [worker EXCEPT ![w].pc = "save", ![w].at = c, ![w].cur = cur]
        PROVE  /\ worker'[w].list = worker[w].list /\ worker'[w].at = c
               /\ worker'[w].pc = "save" /\ Others(w)
    BY <1>1, <2>1 DEF Others, WorkerType
  <2>2. CASE LaunchBake(w, c)
    BY <2>1, <2>2 DEF LaunchBake
  <2>3. CASE LaunchFails(w, c)
    <3>1. worker' = [worker EXCEPT ![w].pc = "fail", ![w].at = c]
      BY <2>3 DEF LaunchFails
    <3> QED
      BY <1>1, <3>1 DEF Others, WorkerType
  <2> QED
    BY <2>2, <2>3
<1>4. ~Busy(worker[w], b)
  BY <1>1 DEF Busy
<1>5. CASE machines' = machines
  <2>1. SameOCI(b) /\ worker'[w].pc = "fail"
    <3>1. ~LaunchBake(w, c)
      <4>1. ASSUME NEW m \in Machines, NewMachine(m), Launched(m, c) PROVE FALSE
        <5>1. machines'[m].power = "running" /\ machines[m].power = "unused"
          BY <4>1, TypeParts DEF NewMachine, Launched
        <5> QED
          BY <1>5, <5>1
      <4> QED
        BY <4>1 DEF LaunchBake
    <3> QED
      BY <1>1, <1>3, <1>5, <3>1, SameCloud
  <2> QED
    BY <1>1, <1>3, <2>1, Takes
<1>6. CASE \E m \in Machines : NewMachine(m) /\ Launched(m, c)
  <2>1. PICK m \in Machines : NewMachine(m) /\ Launched(m, c)
    BY <1>6
  <2>2. CASE b # c
    <3>1. SameOCI(b) /\ ~Busy(worker[w], b)'
      BY <1>1, <1>3, <2>1, <2>2, LaunchedFor DEF Busy
    <3> QED
      BY <1>1, <1>3, <1>4, <3>1, Aside
  <2>3. CASE b = c
    <3>1. NoMachineFor(b) /\ NoImageFor(b)
      BY <1>1, <1>2, <1>4, <2>3 DEF Undisturbed, HeldFresh, Holds
    <3>2. /\ \A k \in Machines : MachineOf(k, b)' <=> MachineOf(k, b) \/ k = m
          /\ \A i \in Images : ImageOf(i, b)' <=> ImageOf(i, b)
      BY <1>1, <2>1, <2>3, LaunchedFor
    <3>3. Single(b)' /\ NoImageFor(b)'
      BY <3>1, <3>2 DEF Single, NoMachineFor, NoImageFor
    <3>4. Busy(worker[w], b)'
      BY <1>3, <2>3 DEF Busy
    <3> QED
      BY <1>1, <1>3, <2>3, <3>3, <3>4, GetsBusy
  <2> QED
    BY <2>2, <2>3
<1> QED
  BY <1>5, <1>6 DEF LaunchBake, LaunchFails

\* A capture meets a build that has no image.
LEMMA CaptureUndisturbed ==
  ASSUME TypeOK, IInv, NEW b \in Builds, Undisturbed(b),
         NEW w \in Workers, CreateImage(w) \/ CreateImageFails(w)
  PROVE  Undisturbed(b)'
PROOF
<1>1. /\ worker \in [Workers -> WorkerType] /\ worker[w] \in WorkerType
      /\ worker[w].pc = "judge" /\ worker[w].cur.image = NoImage
      /\ worker[w].at \in Builds /\ worker[w].list[worker[w].at].status \in Pending
      /\ CurOK(worker[w]) /\ worker[w].cur.instance \in Machines
      /\ builds' = builds /\ machines' = machines
  BY TypeParts, WorkingOn DEF CreateImage, CreateImageFails, MayCapture, Judging, AtWork,
    WorkerOK, store
<1>2. /\ worker'[w].list = worker[w].list /\ worker'[w].at = worker[w].at
      /\ worker'[w].pc \in {"save", "fail"} /\ Others(w)
      /\ worker'[w].pc = "save" => worker'[w].cur.image # NoImage
  <2>1. CASE CreateImage(w)
    <3>1. PICK i \in Images : worker' = [worker EXCEPT ![w].pc = "save", ![w].cur.image = i,
                                           ![w].cur.status = "creating_image"]
      BY <2>1 DEF CreateImage
    <3>2. worker[w].cur \in Row
      BY <1>1 DEF WorkerType
    <3>3. worker'[w].cur.image = i
      BY <1>1, <3>1, <3>2 DEF WorkerType, Row
    <3>4. /\ worker'[w].list = worker[w].list /\ worker'[w].at = worker[w].at
          /\ worker'[w].pc = "save" /\ Others(w)
      BY <1>1, <3>1 DEF WorkerType, Others
    <3> QED
      BY <3>3, <3>4, Nothing
  <2>2. CASE CreateImageFails(w)
    BY <2>2, GotoFields DEF CreateImageFails
  <2> QED
    BY <2>1, <2>2
<1>3. /\ MachineOf(worker[w].cur.instance, worker[w].at)
      /\ worker[w].list[worker[w].at].image = NoImage
  BY <1>1 DEF CurOK, GoodRow
<1>4. CASE images' = images
  BY <1>1, <1>2, <1>4, SameCloud, MovesOn DEF AtWork
<1>5. CASE \E i \in Images : NewImage(i) /\ Captured(i, worker[w].cur.instance)
  <2>1. PICK i \in Images : NewImage(i) /\ Captured(i, worker[w].cur.instance)
    BY <1>5
  <2>2. CASE b # worker[w].at
    <3>1. machines[worker[w].cur.instance].build # b
      BY <1>3, <2>2 DEF MachineOf
    <3>2. SameOCI(b)
      BY <1>1, <2>1, <3>1, CapturedFor
    <3> QED
      BY <1>1, <1>2, <3>2, MovesOn DEF AtWork
  <2>3. CASE b = worker[w].at
    <3>1. NoImageFor(b) /\ Holds(w, b)
      BY <1>1, <1>3, <2>3 DEF Undisturbed, HeldFresh, Busy, Holds
    <3>2. /\ \A k \in Machines : MachineOf(k, b)' <=> MachineOf(k, b)
          /\ \A j \in Images : ImageOf(j, b)' => ImageOf(j, b) \/ j = i
      BY <1>1, <2>1, CapturedFor
    <3>3. Single(b)'
      BY <3>1, <3>2 DEF Undisturbed, Single, NoImageFor
    <3>4. Busy(worker[w], b)'
      BY <1>2, <2>3 DEF Busy
    <3> QED
      BY <1>2, <3>1, <3>3, <3>4, GetsBusy
  <2> QED
    BY <2>2, <2>3
<1> QED
  BY <1>4, <1>5 DEF CreateImage, CreateImageFails

\* The pass goes on to a verdict, or fails.
LEMMA VerdictUndisturbed ==
  ASSUME TypeOK, TypeOK', IInv, NEW b \in Builds, Undisturbed(b), NEW w \in Workers,
         \/ CaptureConsoleOutput(w) \/ BakeFailed(w) \/ GetImageReady(w) \/ GetImageCapturing(w)
         \/ GetImageFails(w) \/ StoppedEarly(w)
  PROVE  Undisturbed(b)'
PROOF
<1>1. worker \in [Workers -> WorkerType] /\ worker[w] \in WorkerType
  BY TypeParts
<1>2. SameOCI(b) /\ builds'[b] = builds[b]
  BY SameCloud DEF CaptureConsoleOutput, BakeFailed, GetImageReady, GetImageCapturing,
    GetImageFails, StoppedEarly, oci, store
<1>3. worker[w].pc \in {"console", "judge"}
  BY DEF CaptureConsoleOutput, BakeFailed, GetImageReady, GetImageCapturing, GetImageFails,
    StoppedEarly, HasImage, NoResult, Judging
<1>4. /\ worker'[w].list = worker[w].list /\ worker'[w].at = worker[w].at /\ Others(w)
      /\ \/ worker'[w].pc # "save" \/ worker'[w].cur.image # NoImage
         \/ worker'[w].cur.status \notin Pending
  <2>1. ASSUME NEW l, NEW status, worker' = [worker EXCEPT ![w].pc = l, ![w].cur.status = status]
        PROVE  /\ worker'[w].list = worker[w].list /\ worker'[w].at = worker[w].at /\ Others(w)
               /\ worker'[w].pc = l /\ worker'[w].cur.status = status
               /\ worker'[w].cur.image = worker[w].cur.image
    BY <1>1, <2>1 DEF WorkerType, Row, Others
  <2>2. CASE CaptureConsoleOutput(w)
    <3>1. PICK seen, l : /\ worker' = [worker EXCEPT ![w].log = seen, ![w].pc = l]
                         /\ l \in {"judge", "phase"}
      BY <2>2 DEF CaptureConsoleOutput
    <3> QED
      BY <1>1, <3>1 DEF WorkerType, Others
  <2>3. CASE BakeFailed(w)
    <3>1. worker' = [worker EXCEPT ![w].pc = "terminate", ![w].cur.status = "failed"]
      BY <2>3 DEF BakeFailed
    <3>2. worker'[w].pc = "terminate" /\ worker'[w].list = worker[w].list
          /\ worker'[w].at = worker[w].at /\ Others(w)
      BY <1>1, <3>1 DEF WorkerType, Others
    <3> QED
      BY <3>2
  <2>4. CASE GetImageReady(w)
    BY <2>1, <2>4 DEF GetImageReady
  <2>5. CASE GetImageCapturing(w)
    BY <2>1, <2>5 DEF GetImageCapturing, HasImage
  <2>6. CASE GetImageFails(w)
    BY <2>6, GotoFields DEF GetImageFails
  <2>7. CASE StoppedEarly(w)
    <3>1. worker' = [worker EXCEPT ![w].pc = "save", ![w].cur.status = "failed"]
      BY <2>7 DEF StoppedEarly
    <3>2. worker'[w].cur.status = "failed"
      BY <2>1, <3>1
    <3> QED
      BY <2>1, <3>1, <3>2 DEF Pending
  <2> QED
    BY <2>2, <2>3, <2>4, <2>5, <2>6, <2>7
<1> QED
  BY <1>2, <1>3, <1>4, MovesOn DEF AtWork

\* A termination does not free the machine for another build.
LEMMA TerminateUndisturbed ==
  ASSUME TypeOK, IInv, NEW b \in Builds, Undisturbed(b), NEW w \in Workers,
         TerminateInstance(w)
  PROVE  Undisturbed(b)'
PROOF
<1>1. /\ worker[w].pc = "terminate" /\ CurOK(worker[w]) /\ worker[w].cur.instance \in Machines
      /\ machines \in [Machines -> MachineType] /\ images' = images /\ builds' = builds
  BY TypeParts, WorkingOn DEF TerminateInstance, AtWork, store
<1>2. /\ worker[w].cur.status \notin Pending
      /\ machines[worker[w].cur.instance].power # "unused"
  BY <1>1 DEF CurOK, GoodRow, MachineOf
<1>3. \A k \in Machines : /\ machines'[k].power # "unused" <=> machines[k].power # "unused"
                          /\ machines'[k].build = machines[k].build
  BY <1>1, <1>2 DEF TerminateInstance, MachineType
<1>4. SameOCI(b)
  BY <1>1, <1>3, SameUse
<1>5. /\ worker'[w].list = worker[w].list /\ worker'[w].at = worker[w].at /\ Others(w)
      /\ worker'[w].cur.status \notin Pending
  BY <1>2, GotoFields DEF TerminateInstance
<1> QED
  BY <1>1, <1>4, <1>5, MovesOn DEF AtWork

\* The writes of a pass tell what OCI has.
LEMMA WriteUndisturbed ==
  ASSUME TypeOK, IInv, NEW b \in Builds, Undisturbed(b), NEW w \in Workers,
         SavePhase(w) \/ SaveBuild(w) \/ FailBuild(w)
  PROVE  Undisturbed(b)'
PROOF
<1>1. PICK s : s = worker[w]
  OBVIOUS
<1>2. /\ worker \in [Workers -> WorkerType] /\ s \in WorkerType /\ builds \in [Builds -> Row]
      /\ s.at \in Builds /\ s.list[s.at] \in Row /\ s.list[s.at].status \in Pending
      /\ s.pc \in AtWork => CurOK(s)
      /\ SameOCI(b)
  BY <1>1, TypeParts, WorkingOn, SameCloud DEF SavePhase, SaveBuild, FailBuild, AtWork,
    WorkerOK, oci
<1>3. (NoMachineFor(b)' <=> NoMachineFor(b)) /\ (NoImageFor(b)' <=> NoImageFor(b))
  BY <1>2, SingleStays
\* What is written is neither queued nor, when it is pending without an image, out of date.
<1>4. ASSUME NEW row, UpdateRunnerImageBuild(s.at, row), row.status # "queued",
             row.status \in Pending /\ row.image = NoImage => NoImageFor(s.at)
      PROVE  /\ b # s.at => builds'[b] = builds[b]
             /\ b = s.at => RowFresh(b)'
  <2>1. builds' = [builds EXCEPT ![s.at] = IF Exists(s.at) THEN row ELSE @]
    BY <1>4 DEF UpdateRunnerImageBuild
  <2>2. b = s.at => builds'[b] = row \/ builds'[b].status \notin Pending
    BY <1>2, <2>1 DEF Exists, Pending
  <2> QED
    BY <1>2, <1>3, <1>4, <2>1, <2>2 DEF RowFresh, Pending
<1>5. CASE SavePhase(w)
  <2>1. PICK row : row = [s.cur EXCEPT !.status = ParseBakePhase(s.log)]
    OBVIOUS
  <2>2. /\ row.status \in {"provisioning", "verifying"} /\ row.image = s.cur.image
        /\ s.cur.image = s.list[s.at].image
    BY <1>1, <1>2, <1>5, <2>1, PhaseIsGood DEF SavePhase, AtWork, CurOK
  <2>3. s.pc = "phase" /\ UpdateRunnerImageBuild(s.at, row)
    BY <1>1, <1>5, <2>1 DEF SavePhase
  <2>4. b = s.at => (row.image = NoImage => NoImageFor(s.at))
    BY <1>1, <1>2, <2>2, <2>3 DEF Undisturbed, HeldFresh, Busy
  <2>5. /\ worker'[w].list = s.list /\ worker'[w].at = s.at /\ worker'[w].pc = "judge"
        /\ Others(w)
    BY <1>1, <1>2, <1>5 DEF SavePhase, WorkerType, Others
  <2>6. CASE b # s.at
    <3>1. builds'[b] = builds[b]
      BY <1>2, <2>3, <2>6 DEF UpdateRunnerImageBuild
    <3> QED
      BY <1>1, <1>2, <2>3, <2>5, <3>1, MovesOn DEF AtWork
  <2>7. CASE b = s.at
    <3>1. RowFresh(b)'
      BY <1>4, <2>2, <2>3, <2>4, <2>7
    <3>2. Holds(w, b) /\ ~Busy(worker[w], b) /\ ~Busy(worker[w], b)'
      BY <1>1, <1>2, <2>3, <2>5, <2>7 DEF Holds, Busy
    <3> QED
      BY <1>1, <1>2, <2>5, <3>1, <3>2, HasWritten
  <2> QED
    BY <2>6, <2>7
<1>6. CASE SaveBuild(w)
  <2>1. s.pc = "save" /\ UpdateRunnerImageBuild(s.at, s.cur) /\ NextBuild(w)
    BY <1>1, <1>6 DEF SaveBuild
  <2>2. s.cur.status # "queued"
    BY <1>2, <2>1 DEF AtWork, CurOK
  <2>3. b = s.at => (s.cur.status \in Pending /\ s.cur.image = NoImage => NoImageFor(s.at))
    BY <1>1, <1>2, <2>1 DEF Undisturbed, HeldFresh, Busy
  <2>4. b # s.at => builds'[b] = builds[b]
    BY <1>2, <2>1 DEF UpdateRunnerImageBuild
  <2>5. b = s.at => RowFresh(b)'
    BY <1>4, <2>1, <2>2, <2>3
  <2> QED
    BY <1>1, <1>2, <2>1, <2>4, <2>5, LetsGo DEF AtWork
<1>7. CASE FailBuild(w)
  <2>1. PICK row : row = [s.list[s.at] EXCEPT !.status = "failed"]
    OBVIOUS
  <2>2. row.status = "failed"
    BY <1>2, <2>1 DEF Row
  <2>3. s.pc = "fail" /\ UpdateRunnerImageBuild(s.at, row) /\ NextBuild(w)
    BY <1>1, <1>7, <2>1 DEF FailBuild
  <2>4. /\ b # s.at => builds'[b] = builds[b]
        /\ b = s.at => RowFresh(b)'
    BY <1>4, <2>2, <2>3 DEF Pending
  <2> QED
    BY <1>1, <1>2, <2>3, <2>4, LetsGo
<1> QED
  BY <1>5, <1>6, <1>7

\* Every step of a pass.
LEMMA PassUndisturbed ==
  ASSUME TypeOK, TypeOK', IInv, NEW b \in Builds \ disturbed', Undisturbed(b), NEW w \in Workers,
         PassStep(w)
  PROVE  Undisturbed(b)'
PROOF
<1>0. b \in Builds
  OBVIOUS
<1>1. ASSUME NEW c \in Builds, LaunchBake(w, c) \/ LaunchFails(w, c) PROVE Undisturbed(b)'
  BY <1>1, LaunchUndisturbed
<1>2. ASSUME NEW c \in Builds, GetInstance(w, c) \/ GetInstanceFails(w, c) PROVE Undisturbed(b)'
  <2>1. SameOCI(b) /\ builds'[b] = builds[b] /\ worker[w].pc = "take" /\ Holds(w, c)
    BY <1>2, SameCloud DEF GetInstance, GetInstanceFails, IsNext, oci, store
  <2>2. /\ worker'[w].list = worker[w].list /\ worker'[w].at = c
        /\ worker'[w].pc \in {"console", "fail"} /\ Others(w)
    <3>1. CASE GetInstance(w, c)
      BY <3>1, TypeParts DEF GetInstance, WorkerType, Others
    <3>2. CASE GetInstanceFails(w, c)
      BY <3>2, TypeParts DEF GetInstanceFails, WorkerType, Others
    <3> QED
      BY <1>2, <3>1, <3>2
  <2> QED
    BY <2>1, <2>2, Takes
<1>3. CASE \/ CaptureConsoleOutput(w) \/ BakeFailed(w) \/ GetImageReady(w)
           \/ GetImageCapturing(w) \/ GetImageFails(w) \/ StoppedEarly(w)
  BY <1>3, VerdictUndisturbed
<1>4. CASE CreateImage(w) \/ CreateImageFails(w)
  BY <1>4, CaptureUndisturbed
<1>5. CASE TerminateInstance(w)
  BY <1>5, TerminateUndisturbed
<1>6. CASE SavePhase(w) \/ SaveBuild(w) \/ FailBuild(w)
  BY <1>6, WriteUndisturbed
<1>7. CASE StillBaking(w)
  <2>1. /\ worker[w].pc = "judge" /\ NextBuild(w) /\ SameOCI(b) /\ builds' = builds
    BY <1>7, SameCloud DEF StillBaking, NoResult, Judging, oci, store
  <2>2. b = worker[w].at => RowFresh(b)'
    <3>1. \A v \in Workers : v # w => worker'[v] = worker[v]
      BY <2>1, NextBuildFields DEF Others
    <3>2. \A v \in Workers : Busy(worker[v], b) => Busy(worker[v], b)'
      BY <2>1, <3>1 DEF Busy
    <3>3. (NoMachineFor(b)' <=> NoMachineFor(b)) /\ (NoImageFor(b)' <=> NoImageFor(b))
      BY <2>1, SingleStays
    <3> QED
      BY <2>1, <3>2, <3>3 DEF Undisturbed, RowFresh
  <2> QED
    BY <2>1, <2>2, LetsGo DEF AtWork
<1>8. CASE SaveFails(w)
  <2>1. /\ SameOCI(b) /\ builds'[b] = builds[b] /\ worker[w].pc \in {"phase", "save"}
        /\ worker'[w].pc = "fail" /\ Others(w) /\ worker'[w].list = worker[w].list
        /\ worker'[w].at = worker[w].at
    BY <1>8, SameCloud, GotoFields DEF SaveFails, oci, store
  <2>2. CASE b = worker[w].at
    <3>1. Busy(worker[w], b)' /\ Holds(w, b) /\ Single(b)'
      BY <2>1, <2>2, WorkingOn, SingleStays DEF Busy, Holds, AtWork, WorkerOK, Undisturbed
    <3> QED
      BY <2>1, <3>1, GetsBusy
  <2>3. CASE b # worker[w].at
    <3>1. ~Busy(worker[w], b) /\ ~Busy(worker[w], b)'
      BY <2>1, <2>3 DEF Busy
    <3> QED
      BY <2>1, <3>1, Aside
  <2> QED
    BY <2>2, <2>3
<1>9. CASE FailBuildLost(w)
  <2>1. /\ SameOCI(b) /\ builds' = builds /\ worker[w].pc = "fail" /\ NextBuild(w)
        /\ b # worker[w].at
    BY <1>9, SameCloud DEF FailBuildLost, oci, store
  <2> QED
    BY <2>1, LetsGo
<1>10. CASE PassEnds(w)
  <2>1. /\ SameOCI(b) /\ builds'[b] = builds[b] /\ worker[w].pc \in {"take", "list"}
        /\ worker'[w].pc = "idle" /\ Others(w) /\ worker'[w].list = worker[w].list
    BY <1>10, SameCloud, GotoFields DEF PassEnds, oci, store
  <2>2. ~Busy(worker[w], b) /\ ~Busy(worker[w], b)'
    BY <2>1 DEF Busy
  <2> QED
    BY <2>1, <2>2, Aside
<1> QED
  BY <1>1, <1>2, <1>3, <1>4, <1>5, <1>6, <1>7, <1>8, <1>9, <1>10, Zenon DEF PassStep

\* A pass that lists the pending builds takes rows that no other pass has, or disturbs them.
LEMMA ListUndisturbed ==
  ASSUME TypeOK, IInv, NEW b \in Builds \ disturbed', Undisturbed(b), NEW w \in Workers,
         ListPending(w)
  PROVE  Undisturbed(b)'
PROOF
<1>0. b \in Builds
  OBVIOUS
<1>1. PICK list : /\ list = [c \in Builds |-> IF builds[c].status \in Pending
                                              THEN builds[c] ELSE Blank]
                  /\ worker' = [worker EXCEPT ![w].pc = "take", ![w].list = list]
  BY DEF ListPending
<1>2. /\ worker \in [Workers -> WorkerType] /\ worker[w].pc \in {"idle", "list"}
      /\ WorkerOK(worker[w]) /\ SameOCI(b) /\ builds' = builds
  BY <1>0, TypeParts, SameCloud DEF ListPending, oci, store, IInv, WorkersOK
<1>3. worker'[w].pc = "take" /\ worker'[w].list = list /\ Others(w)
  BY <1>1, <1>2 DEF WorkerType, Others
<1>4. ~Holds(w, b) /\ ~Busy(worker[w], b) /\ ~Busy(worker[w], b)'
  BY <1>0, <1>2, <1>3 DEF WorkerOK, Holds, Busy, Pending
<1>5. \A v \in Workers : Busy(worker[v], b)' <=> Busy(worker[v], b)
  BY <1>3, <1>4 DEF Others, Busy
<1>6. /\ NoMachineFor(b)' <=> NoMachineFor(b)
      /\ NoImageFor(b)' <=> NoImageFor(b)
      /\ Single(b)'
  BY <1>0, <1>2, SingleStays DEF Undisturbed
<1>7. RowFresh(b)'
  BY <1>2, <1>5, <1>6 DEF Undisturbed, RowFresh
<1>8. \A v \in Workers : v # w => HeldFresh(worker[v], b)' /\ (Holds(v, b)' <=> Holds(v, b))
  BY <1>0, <1>2, <1>3, OthersHold DEF Undisturbed
<1>9. builds[b].status \in Pending => \A v \in Workers : ~Holds(v, b)
  BY <1>0, <1>4 DEF ListPending
<1>10. \A v \in Workers : Busy(worker[v], b) => Holds(v, b)
  BY WorkingOn DEF Busy, Holds, AtWork, WorkerOK
<1>11. CASE builds[b].status \in Pending
  <2>1. worker'[w].list[b] = builds[b]
    BY <1>0, <1>1, <1>3, <1>11
  <2>2. /\ builds[b].status = "queued" => NoMachineFor(b)
        /\ builds[b].image = NoImage => NoImageFor(b)
    BY <1>9, <1>10, <1>11 DEF Undisturbed, RowFresh
  <2>3. HeldFresh(worker[w], b)'
    BY <1>4, <1>6, <2>1, <2>2 DEF HeldFresh
  <2>4. \A v \in Workers : v # w => ~Holds(v, b)'
    BY <1>8, <1>9, <1>11
  <2> QED
    BY <1>6, <1>7, <1>8, <2>3, <2>4 DEF Undisturbed
<1>12. CASE builds[b].status \notin Pending
  <2>1. worker'[w].list[b].status \notin Pending
    BY <1>0, <1>1, <1>3, <1>12 DEF Blank, Pending
  <2>2. HeldFresh(worker[w], b)' /\ ~Holds(w, b)'
    BY <2>1 DEF HeldFresh, Holds
  <2> QED
    BY <1>6, <1>7, <1>8, <2>2 DEF Undisturbed
<1> QED
  BY <1>11, <1>12

\* A new build is one that OCI has nothing for and that no pass can hold.
LEMMA CreateUndisturbed ==
  ASSUME TypeOK, IInv, NEW b \in Builds, Undisturbed(b), NEW w \in Workers,
         CreateRunnerImageBuild(w)
  PROVE  Undisturbed(b)'
PROOF
<1>1. PICK c \in Builds :
        /\ builds[c].status = "unused"
        /\ builds' = [builds EXCEPT
             ![c] = [Blank EXCEPT !.recipe = worker[w].recipe, !.status = "queued"]]
  BY DEF CreateRunnerImageBuild
<1>2. /\ worker \in [Workers -> WorkerType] /\ builds \in [Builds -> Row]
      /\ worker[w].pc = "insert" /\ SameOCI(b)
  BY TypeParts, SameCloud DEF CreateRunnerImageBuild, oci
<1>3. worker'[w].pc = "list" /\ worker'[w].list = worker[w].list /\ Others(w)
  BY <1>2 DEF CreateRunnerImageBuild, WorkerType, Others
<1>4. ~Busy(worker[w], b) /\ ~Busy(worker[w], b)'
  BY <1>2, <1>3 DEF Busy
<1>5. CASE b # c
  <2>1. builds'[b] = builds[b]
    BY <1>1, <1>2, <1>5
  <2> QED
    BY <1>2, <1>3, <1>4, <2>1, Aside
<1>6. CASE b = c
  <2>1. \A v \in Workers : ~Holds(v, b)
    BY <1>1, <1>6 DEF IInv, WorkersOK, WorkerOK, ListOK, Known, Holds, Pending
  <2>2. NoMachineFor(b)
    BY <1>1, <1>6 DEF IInv, CloudOK, MachinesOK, NoMachineFor, MachineOf
  <2>3. NoImageFor(b)
    BY <2>2, UsedMachine DEF NoImageFor, NoMachineFor, ImageOf, MachineOf
  <2>4. NoMachineFor(b)' /\ NoImageFor(b)' /\ Single(b)'
    BY <1>2, <2>2, <2>3, SingleStays DEF Undisturbed
  <2>5. \A v \in Workers : HeldFresh(worker[v], b)' /\ ~Holds(v, b)'
    BY <1>3, <2>1 DEF Others, Holds, HeldFresh
  <2> QED
    BY <2>4, <2>5 DEF Undisturbed, RowFresh
<1> QED
  BY <1>5, <1>6

\* Every step of a worker.
LEMMA WorkerUndisturbed ==
  ASSUME TypeOK, TypeOK', IInv, NEW b \in Builds \ disturbed', Undisturbed(b), NEW w \in Workers,
         WorkerStep(w)
  PROVE  Undisturbed(b)'
PROOF
<1>0. b \in Builds
  OBVIOUS
<1>1. worker \in [Workers -> WorkerType]
  BY TypeParts
<1>2. ASSUME NEW r \in Recipes, FindRecipe(w, r) PROVE Undisturbed(b)'
  <2>1. SameOCI(b) /\ builds'[b] = builds[b] /\ worker[w].pc = "idle"
    BY <1>0, <1>2, SameCloud DEF FindRecipe, oci, store
  <2>2. worker'[w].pc = "insert" /\ worker'[w].list = worker[w].list /\ Others(w)
    BY <1>1, <1>2 DEF FindRecipe, WorkerType, Others
  <2>3. ~Busy(worker[w], b) /\ ~Busy(worker[w], b)'
    BY <2>1, <2>2 DEF Busy
  <2> QED
    BY <1>0, <2>1, <2>2, <2>3, Aside
\* A worker that gives up the build it was busy with has disturbed it.
<1>3. CASE CreateBuildFails(w) \/ Abort(w)
  <2>1. SameOCI(b) /\ builds'[b] = builds[b] /\ ~Busy(worker[w], b)
    BY <1>0, <1>3, SameCloud DEF CreateBuildFails, Abort, oci, store, Busy
  <2>2. worker'[w] = IdleWorker /\ Others(w)
    BY <1>1, <1>3 DEF CreateBuildFails, Abort, Others
  <2>3. ~Busy(worker[w], b)' /\ worker'[w].list[b].status \notin Pending
    BY <1>0, <2>2 DEF Busy, IdleWorker, Blank, Pending
  <2> QED
    BY <1>0, <2>1, <2>2, <2>3, Aside
<1> QED
  BY <1>0, <1>2, <1>3, CreateUndisturbed, ListUndisturbed, PassUndisturbed, Zenon
    DEF WorkerStep

\* Promotions, edits, deletions and OCI leave the passes alone.
LEMMA ElsewhereUndisturbed ==
  ASSUME TypeOK, IInv, NEW b \in Builds, Undisturbed(b),
         \/ \E p \in Promoters : PromoterStep(p)
         \/ \E e \in Editors : EditorStep(e)
         \/ Environment
  PROVE  Undisturbed(b)'
PROOF
<1>1. ASSUME worker' = worker, UNCHANGED oci,
             builds'[b] = builds[b] \/ builds'[b].status \notin Pending
      PROVE  Undisturbed(b)'
  BY <1>1, SameCloud, Bystanding DEF oci
<1>2. ASSUME NEW p \in Promoters, PromoterStep(p) PROVE Undisturbed(b)'
  <2>1. ASSUME MarkBuildPromoted(p)
        PROVE  builds'[b] = builds[b] \/ builds'[b].status \notin Pending
    <3>1. PICK row : /\ row = [promoter[p].row EXCEPT !.status = "promoted"]
                     /\ UpdateRunnerImageBuild(promoter[p].at, row)
      BY <2>1 DEF MarkBuildPromoted
    <3>2. row.status = "promoted"
      BY <3>1, TypeParts DEF PromoterType, Row
    <3> QED
      BY <3>1, <3>2, TypeParts DEF UpdateRunnerImageBuild, Pending
  <2>2. worker' = worker /\ UNCHANGED oci
    BY <1>2 DEF PromoterStep, FindBuild, CurrentStatus, SaveSettings, MarkBuildPromoted,
      MarkRunnerImageRecipePromoted, PromotionFails
  <2>3. MarkBuildPromoted(p) \/ builds' = builds
    BY <1>2 DEF PromoterStep, FindBuild, CurrentStatus, SaveSettings,
      MarkRunnerImageRecipePromoted, PromotionFails, store
  <2> QED
    BY <1>1, <2>1, <2>2, <2>3
<1>3. ASSUME NEW e \in Editors, EditorStep(e) PROVE Undisturbed(b)'
  <2>1. ASSUME NEW r \in Recipes, DeleteBuilds(e, r)
        PROVE  builds'[b] = builds[b] \/ builds'[b].status \notin Pending
    BY <2>1 DEF DeleteBuilds, Blank, Pending
  <2>2. worker' = worker /\ UNCHANGED oci
    BY <1>3 DEF EditorStep, CreateRecipe, EditRecipe, DeleteBuilds, UpdateRunnerImageRecipe,
      DeleteRecipe, EditFails, SettingsPage
  <2>3. (\E r \in Recipes : DeleteBuilds(e, r)) \/ builds' = builds
    BY <1>3 DEF EditorStep, CreateRecipe, EditRecipe, UpdateRunnerImageRecipe,
      DeleteRecipe, EditFails, SettingsPage, store
  <2> QED
    BY <1>1, <2>1, <2>2, <2>3
<1>4. CASE Environment
  <2>1. machines \in [Machines -> MachineType] /\ images \in [Images -> ImageType]
    BY TypeParts
  <2>2. worker' = worker /\ builds' = builds
    BY <1>4 DEF Environment, ScriptPrints, MachineStops, ImageCompletes, store
  <2> DEFINE Steady ==
        /\ \A k \in Machines : /\ machines'[k].power # "unused" <=> machines[k].power # "unused"
                               /\ machines'[k].build = machines[k].build
        /\ \A i \in Images : /\ images'[i].state # "unused" <=> images[i].state # "unused"
                             /\ images'[i].machine = images[i].machine
  <2>3. Steady
    <3>1. ASSUME NEW m \in Machines, ScriptPrints(m) PROVE Steady
      BY <2>1, <3>1 DEF ScriptPrints, MachineType
    <3>2. ASSUME NEW m \in Machines, MachineStops(m) PROVE Steady
      BY <2>1, <3>2 DEF MachineStops, MachineType
    <3>3. ASSUME NEW i \in Images, ImageCompletes(i) PROVE Steady
      BY <2>1, <3>3 DEF ImageCompletes, ImageType
    <3> QED
      BY <1>4, <3>1, <3>2, <3>3 DEF Environment
  <2> QED
    BY <2>2, <2>3, SameUse, Bystanding
<1> QED
  BY <1>2, <1>3, <1>4

\* A build that has been disturbed stays so.
LEMMA DisturbedGrows == [Next]_vars => disturbed \subseteq disturbed'
PROOF
<1> SUFFICES ASSUME [Next]_vars PROVE disturbed \subseteq disturbed'
  OBVIOUS
<1>1. CASE UNCHANGED vars
  BY <1>1 DEF vars, aux
<1>2. ASSUME NEW w \in Workers, WorkerStep(w) PROVE disturbed \subseteq disturbed'
  <2>1. CASE PassStep(w)
    BY <2>1 DEF PassStep, LaunchBake, LaunchFails, GetInstance, GetInstanceFails,
      CaptureConsoleOutput, SavePhase, BakeFailed, CreateImage, CreateImageFails,
      GetImageReady, GetImageCapturing, GetImageFails, StoppedEarly, StillBaking,
      TerminateInstance, SaveBuild, SaveFails, FailBuild, FailBuildLost, PassEnds, aux
  <2> QED
    BY <1>2, <2>1 DEF WorkerStep, FindRecipe, CreateRunnerImageBuild, CreateBuildFails,
      ListPending, Abort, aux
<1>3. ASSUME NEW p \in Promoters, PromoterStep(p) PROVE disturbed \subseteq disturbed'
  BY <1>3 DEF PromoterStep, FindBuild, CurrentStatus, SaveSettings, MarkBuildPromoted,
    MarkRunnerImageRecipePromoted, PromotionFails, aux
<1>4. ASSUME NEW e \in Editors, EditorStep(e) PROVE disturbed \subseteq disturbed'
  BY <1>4 DEF EditorStep, CreateRecipe, EditRecipe, DeleteBuilds, UpdateRunnerImageRecipe,
    DeleteRecipe, EditFails, SettingsPage, aux
<1>5. CASE Environment
  BY <1>5 DEF Environment, ScriptPrints, MachineStops, ImageCompletes, aux
<1> QED
  BY <1>1, <1>2, <1>3, <1>4, <1>5 DEF Next

\* The bake starts with nothing in OCI,
LEMMA UndisturbedInit == Init => UInv
PROOF
<1> SUFFICES ASSUME Init, NEW b \in Builds PROVE Undisturbed(b)
  BY DEF UInv
<1>1. \A m \in Machines : ~MachineOf(m, b)
  BY DEF Init, MachineOf
<1>2. \A i \in Images : ~ImageOf(i, b)
  BY DEF Init, ImageOf
<1>3. \A w \in Workers : worker[w].list[b] = Blank
  BY DEF Init, IdleWorker
<1>4. \A w \in Workers : ~Holds(w, b) /\ HeldFresh(worker[w], b)
  BY <1>3 DEF Holds, HeldFresh, Blank, Pending
<1> QED
  BY <1>1, <1>2, <1>4 DEF Undisturbed, Single, RowFresh, NoMachineFor, NoImageFor

\* and every step keeps the undisturbed builds in order.
LEMMA UndisturbedStep == TypeOK /\ TypeOK' /\ IInv /\ UInv /\ [Next]_vars => UInv'
PROOF
<1> SUFFICES ASSUME TypeOK, TypeOK', IInv, UInv, [Next]_vars, NEW b \in Builds \ disturbed'
             PROVE  Undisturbed(b)'
  BY DEF UInv
<1>1. b \in Builds /\ Undisturbed(b)
  BY DisturbedGrows DEF UInv
<1>2. CASE UNCHANGED vars
  BY <1>1, <1>2, SameCloud, Bystanding DEF vars, store, oci
<1>3. ASSUME NEW w \in Workers, WorkerStep(w) PROVE Undisturbed(b)'
  BY <1>1, <1>3, WorkerUndisturbed
<1> QED
  BY <1>1, <1>2, <1>3, ElsewhereUndisturbed, Zenon DEF Next

\* Without a second pass on the same build, and without a pass cut short between OCI's
\* answer and the write of the row, a build launches one machine and captures one image.
THEOREM OneEach == Spec => []OneMachineOneImage
PROOF
<1>1. UInv => OneMachineOneImage
  BY DEF UInv, Undisturbed, Single, OneMachineOneImage
<1> QED
  BY <1>1, UndisturbedInit, UndisturbedStep, BakeInvariance, PTL DEF Spec
=============================================================================
