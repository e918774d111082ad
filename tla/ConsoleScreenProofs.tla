-------------------------- MODULE ConsoleScreenProofs --------------------------
(***************************************************************************)
(* The screen and the service: with handlers that run one at a time, what  *)
(* the console shows is what the service holds, but for what the handler   *)
(* in flight has still to read.                                            *)
(***************************************************************************)
EXTENDS ConsoleProofs

\* What the screen shows of the service, one part for each of the reads.
Parts ==
  {"session", "setup", "config", "draft", "credential", "runtime", "images", "policies"}

SessionShown ==
  ui.session = srv.session /\ (ui.session # "full" => ui.setup = BlankSetup)
SetupShown == ui.session = "full" => ui.setup = SetupOf(srv)
ConfigShown == ui.session = "full" => gh.staged = srv.staged /\ gh.live = srv.live
DraftShown == ui.session = "full" => gh.draft = srv.draft
CredentialShown == ui.session = "full" => oci.credential = srv.credential
RuntimeShown == ui.session = "full" => oci.runtime = srv.runtime
ImagesShown ==
  ui.session = "full" /\ Ready(srv) =>
    pages.recipes = srv.recipes /\ pages.builds = srv.builds
PoliciesShown ==
  ui.session = "full" /\ Ready(srv) => pages.loaded /\ pages.policies = srv.policies

EditorLive == pages.recipe \in srv.recipes \union {Nobody}
BlankShown ==
  ui.session = "none" =>
    gh = BlankGitHub /\ oci = BlankOci /\ pages = WithoutData(pages)

\* The screen is right, but for the parts of S.
ShownBut(S) ==
  /\ "session" \in S \/ SessionShown
  /\ "setup" \in S \/ SetupShown
  /\ "config" \in S \/ ConfigShown
  /\ "draft" \in S \/ DraftShown
  /\ "credential" \in S \/ CredentialShown
  /\ "runtime" \in S \/ RuntimeShown
  /\ "images" \in S \/ ImagesShown
  /\ "policies" \in S \/ PoliciesShown
  /\ EditorLive /\ BlankShown

\* The parts that the handler at the call c has still to read again.
Stale(c) ==
  CASE c.at = "session" -> Parts
    [] c.at = "setup" -> Parts \ {"session"}
    [] c.at = "wizard" -> c.left \union {"draft"}
    [] c.at = "batch" -> c.left \union {"draft", "policies"}
    [] c.at = "pending" -> {"draft"}
    [] c.at \in {"dropDraft", "promote"} -> IF c.do = "save" THEN {"config"} ELSE {}
    [] c.at = "reload" ->
         c.left \union IF "setup" \in c.left \/ c.done THEN {"images", "policies"} ELSE {}
    [] c.at \in {"settle", "denied"} -> c.left
    [] OTHER -> {}

\* What its closure holds is still so: nobody else has changed the service.
Fresh(c) ==
  /\ c.at # "gate"
  /\ c.left # {} \/ c.at \in {"session", "setup", "batch", "pending"} => c.sent = srv
  /\ c.at = "batch" => srv.session = "full" /\ Ready(srv)
  /\ c.at = "buildPromote" /\ srv.session = "full" => Ready(srv)
  /\ c.at = "dropRecipe" => c.held = (pages.recipe = c.arg)
  /\ ui.session = "none" => c.at \in {"idle", "login", "session"}

Alone(j) == \A k \in Slots \ {j} : work[k] = Idle

CleanInv ==
  clean => \E j \in Slots : Alone(j) /\ Fresh(work[j]) /\ ShownBut(Stale(work[j]))

-----------------------------------------------------------------------------
(* What a handler shows                                                     *)

\* The handler of slot j is at d next, and the screen is right but for what d reads.
Lands(j, d) == MovedTo(j, d) /\ Fresh(d)' /\ ShownBut(Stale(d))'

\* The handler of slot j, at c before, awaits at next, and the loads left.
Awaits(j, c, d, at, left) ==
  /\ MovedTo(j, d) /\ Fresh(d)'
  /\ d.at = at /\ d.left = left /\ d.do = c.do /\ d.done = FALSE

\* No part of the service is shown otherwise than before.
SameScreen ==
  /\ ui'.session = ui.session /\ ui'.setup = ui.setup
  /\ gh'.staged = gh.staged /\ gh'.live = gh.live /\ gh'.draft = gh.draft
  /\ oci'.credential = oci.credential /\ oci'.runtime = oci.runtime
  /\ pages'.loaded = pages.loaded /\ pages'.policies = pages.policies
  /\ pages'.recipes = pages.recipes /\ pages'.builds = pages.builds

\* A step that changes neither the service nor what is shown of it.
LEMMA SameShown ==
  ASSUME NEW S, NEW T, S \intersect Parts \subseteq T, ShownBut(S), SameScreen, srv' = srv,
         EditorLive', BlankShown'
  PROVE  ShownBut(T)'
<1> USE DEF ShownBut, SameScreen, Parts
<1>1. ("session" \in T \/ SessionShown') /\ ("setup" \in T \/ SetupShown')
  BY DEF SessionShown, SetupShown
<1>2. ("config" \in T \/ ConfigShown') /\ ("draft" \in T \/ DraftShown')
  BY DEF ConfigShown, DraftShown
<1>3. ("credential" \in T \/ CredentialShown') /\ ("runtime" \in T \/ RuntimeShown')
  BY DEF CredentialShown, RuntimeShown
<1>4. ("images" \in T \/ ImagesShown') /\ ("policies" \in T \/ PoliciesShown')
  BY DEF ImagesShown, PoliciesShown
<1> QED
  BY <1>1, <1>2, <1>3, <1>4

\* A free slot reads nothing, and a handler that returns leaves one.
LEMMA FreeSlot ==
  /\ Stale(Idle) = {} /\ Fresh(Idle) /\ Fresh(Idle)'
  /\ \A c \in Calls : c.left = {} => Rest(c) = Idle
BY IdleCall DEF Stale, Fresh, Rest, Writes

\* A write leaves unread what its handler does not read again.
LEMMA WritesShow ==
  ASSUME NEW c \in Calls,
         c.at \in Writes \ {"login", "logout", "password", "dropDraft", "putPolicy",
                            "dropPolicy", "runtimeClear"},
         srv \in Services, srv' \in Effects(c, srv), Fresh(c),
         NEW S, NEW T, S \intersect Parts \subseteq T, ShownBut(S), SameScreen,
         EditorLive', BlankShown', "session" \notin S,
         c.at \in {"stage", "unstage", "promote"} => "config" \in T,
         c.at = "promote" => {"setup", "images", "policies"} \subseteq T,
         c.at \in {"credentialSave", "credentialClear"} => {"credential", "setup"} \subseteq T,
         c.at = "runtimeSave" => {"runtime", "setup", "images", "policies"} \subseteq T,
         c.at = "buildPromote" => {"runtime", "setup", "images"} \subseteq T,
         c.at \in {"putRecipe", "dropRecipe", "buildCreate", "reconcile"} => "images" \in T
  PROVE  ShownBut(T)'
<1> USE DEF ShownBut, SameScreen, Parts
<1>1. /\ srv.session = "full" /\ srv'.session = "full"
      /\ c.at \notin {"stage", "unstage", "promote"} =>
           srv'.staged = srv.staged /\ srv'.live = srv.live
      /\ srv'.draft = srv.draft
      /\ c.at \notin {"credentialSave", "credentialClear"} => srv'.credential = srv.credential
      /\ c.at \notin {"runtimeSave", "buildPromote"} => srv'.runtime = srv.runtime
      /\ srv'.policies = srv.policies
      /\ c.at \notin {"putRecipe", "dropRecipe"} => srv'.recipes = srv.recipes
      /\ c.at \notin {"dropRecipe", "buildCreate", "buildPromote", "reconcile"} =>
           srv'.builds = srv.builds
  BY EffectFields DEF Writes
<1>2. c.at \in {"stage", "unstage"} => srv'.live = srv.live
  <2>1. c.at = "stage" => \E r : srv' = [srv EXCEPT !.staged = r]
    BY <1>1, RouteEffects
  <2>2. c.at = "unstage" => srv' = [srv EXCEPT !.staged = NoRoute]
    BY <1>1, RouteEffects
  <2> QED
    BY <2>1, <2>2 DEF Services
<1>3. c.at = "buildPromote" => Ready(srv)
  BY <1>1 DEF Fresh
<1> HIDE DEF SameScreen
<1>4. "session" \in T \/ SessionShown'
  BY <1>1 DEF SessionShown, SameScreen
<1>5. "setup" \in T \/ SetupShown'
  BY <1>1, <1>2 DEF SetupShown, SameScreen, SetupOf, Ready
<1>6. "config" \in T \/ ConfigShown'
  BY <1>1 DEF ConfigShown, SameScreen
<1>7. "draft" \in T \/ DraftShown'
  BY <1>1 DEF DraftShown, SameScreen
<1>8. "credential" \in T \/ CredentialShown'
  BY <1>1 DEF CredentialShown, SameScreen
<1>9. "runtime" \in T \/ RuntimeShown'
  BY <1>1 DEF RuntimeShown, SameScreen
<1>10. "images" \in T \/ ImagesShown'
  BY <1>1, <1>2 DEF ImagesShown, SameScreen, Ready
<1>11. "policies" \in T \/ PoliciesShown'
  BY <1>1, <1>2, <1>3 DEF PoliciesShown, SameScreen, Ready
<1> QED
  BY <1>4, <1>5, <1>6, <1>7, <1>8, <1>9, <1>10, <1>11

\* A write is accepted, and its handler goes on.
LEMMA AcceptedLands ==
  ASSUME TypeOK, NEW j \in Slots, NEW c \in Calls, work[j] = c, c.at \in Writes, Fresh(c),
         NEW at \in {"session", "settle", "reload", "dropDraft", "promote"},
         NEW left \in SUBSET Loads, Accepted(j, at, left), at \in Writes => left = {},
         ui'.session = ui.session, c.at = "login" => at = "session"
  PROVE  /\ \E d \in Calls : Awaits(j, c, d, at, left)
         /\ srv' \in Effects(c, srv) /\ srv' \in Services
<1>1. at \in Writes \union Reads
  BY DEF Writes, Reads
<1>2. PICK d \in Calls : SentOn(j, d, at, left, IF at \in Writes THEN NoService ELSE srv')
  BY <1>1, AcceptedMoves
<1>3. srv' \in Effects(c, srv) /\ srv' \in Services
  BY <1>1, AcceptedMoves
<1>4. /\ MovedTo(j, d) /\ d.at = at /\ d.left = left /\ d.do = c.do /\ d.done = FALSE
      /\ d.sent = IF at \in Writes THEN NoService ELSE srv'
  BY <1>2 DEF SentOn
<1>5. ui.session # "none" \/ at = "session"
  BY DEF Fresh, Writes
<1>6. at \in {"session", "settle", "reload"} => at \notin Writes
  BY DEF Writes
<1>7. Fresh(d)'
  BY <1>4, <1>5, <1>6 DEF Fresh
<1> QED
  BY <1>3, <1>4, <1>7 DEF Awaits

-----------------------------------------------------------------------------
(* The handlers of the buttons                                              *)

\* A write whose handler then reads what it has changed.
LEMMA SettlesLand ==
  ASSUME TypeOK, NEW j \in Slots, NEW c \in Calls, work[j] = c,
         c.at \in Writes \ {"login", "logout", "password", "dropDraft", "putPolicy",
                            "dropPolicy", "runtimeClear", "runtimeSave", "credentialClear"},
         Fresh(c), ShownBut(Stale(c)), NEW left \in SUBSET Loads,
         NEW at \in {"settle", "reload"}, Accepted(j, at, left), SameScreen,
         at = "reload" => "setup" \in left,
         pages'.recipe \in (srv'.recipes \intersect {pages.recipe}) \union {Nobody},
         c.at \in {"stage", "unstage", "promote"} => "config" \in left,
         c.do = "save" => "config" \in left,
         c.at = "promote" => "setup" \in left /\ at = "reload",
         c.at = "credentialSave" => {"credential", "setup"} \subseteq left,
         c.at = "buildPromote" => {"runtime", "setup", "images"} \subseteq left,
         c.at \in {"putRecipe", "dropRecipe", "buildCreate", "reconcile"} => "images" \in left
  PROVE  \E d \in Calls : Lands(j, d)
<1>0. /\ ui'.session = ui.session /\ at \notin Writes /\ c.at \in Writes /\ c.at # "login"
      /\ at \in {"session", "settle", "reload", "dropDraft", "promote"} /\ srv \in Services
  BY DEF SameScreen, Writes, TypeOK
<1>1. PICK d \in Calls : Awaits(j, c, d, at, left)
  BY <1>0, AcceptedLands
<1>2. srv' \in Effects(c, srv) /\ srv \in Services
  BY <1>0, AcceptedLands
<1> DEFINE S == Stale(c)
           T == Stale(d)
<1>3. /\ left \subseteq T /\ (at = "reload" => {"images", "policies"} \subseteq T)
      /\ S \subseteq {"config"} /\ (c.do # "save" => S = {})
  BY <1>1 DEF Awaits, Stale, Writes
<1>4. S \intersect Parts \subseteq T /\ "session" \notin S
  BY <1>3
<1>5. EditorLive' /\ BlankShown'
  BY DEF EditorLive, BlankShown, SameScreen, Fresh, Writes
<1> HIDE DEF S, T
<1>6. ShownBut(S)
  BY DEF S
<1>7. ShownBut(T)'
  BY <1>2, <1>3, <1>4, <1>5, <1>6, WritesShow
<1>8. ShownBut(Stale(d))'
  BY <1>7 DEF T
<1> QED
  BY <1>1, <1>8 DEF Awaits, Lands


\* The recipe in the editor stays, unless it is deleted.
LEMMA EditorKept ==
  ASSUME NEW c \in Calls, c.at \in Writes \ {"putRecipe"}, srv \in Services,
         srv' \in Effects(c, srv), EditorLive,
         pages'.recipe \in {pages.recipe, Nobody},
         c.at = "dropRecipe" => pages'.recipe # c.arg
  PROVE  pages'.recipe \in (srv'.recipes \intersect {pages.recipe}) \union {Nobody}
<1>1. CASE c.at = "dropRecipe"
  <2>1. srv.session = "full"
    BY <1>1, EffectFields DEF Writes
  <2>2. Effects(c, srv) = {[srv EXCEPT !.recipes = @ \ {c.arg}, !.builds[c.arg] = "none"]}
    BY <1>1, <2>1, RecipeEffects, Zenon
  <2>3. srv'.recipes = srv.recipes \ {c.arg}
    BY <2>2 DEF Services
  <2> QED
    BY <1>1, <2>3 DEF EditorLive
<1>2. CASE c.at # "dropRecipe"
  <2>1. srv'.recipes = srv.recipes
    BY <1>2, EffectFields
  <2> QED
    BY <2>1 DEF EditorLive
<1> QED
  BY <1>1, <1>2

\* The answers of writes after which nothing is shown at once.
LEMMA AnswersLand ==
  ASSUME CInv, NEW j \in Slots, NEW c \in Calls, work[j] = c, Fresh(c), ShownBut(Stale(c)),
         \/ VerifyAnswered(j) \/ RoutePromoted(j) \/ Unstaged(j)
         \/ CredentialTested(j) \/ CredentialSaved(j) \/ RecipeSaved(j) \/ RecipeDropped(j)
         \/ BuildPromoted(j) \/ BuildsChanged(j)
  PROVE  \E d \in Calls : Lands(j, d)
<1>1. /\ gh \in GitHubStates /\ oci \in OciStates /\ pages \in PageStates /\ srv \in Services
      /\ CallOK(c) /\ TypeOK /\ EditorLive
  BY ScreenTypes DEF CInv, WorkInv, ShownBut
<1>2. PICK at \in {"settle", "reload"}, left \in SUBSET Loads : Accepted(j, at, left)
                     /\ \/ /\ c.at \in {"verify"} /\ at = "settle" /\ left = {"setup"}
                        \/ /\ c.at = "promote" /\ at = "reload" /\ left = {"config", "setup"}
                        \/ /\ c.at = "unstage" /\ at = "settle" /\ left = {"config", "setup"}
                        \/ /\ c.at = "credentialTest" /\ at = "settle"
                           /\ left = {"credential", "setup"}
                        \/ /\ c.at = "credentialSave" /\ at = "reload"
                           /\ left = {"credential", "setup"}
                        \/ /\ c.at \in {"putRecipe", "dropRecipe", "buildCreate", "reconcile"}
                           /\ at = "settle" /\ left = {"images"}
                        \/ /\ c.at = "buildPromote" /\ at = "settle"
                           /\ left = {"images", "credential", "runtime", "setup"}
  BY DEF VerifyAnswered, RoutePromoted, Unstaged, CredentialTested, CredentialSaved,
         RecipeSaved, RecipeDropped, BuildPromoted, BuildsChanged, After, Loads
<1>3. /\ c.at \in Writes \ {"login", "logout", "password", "dropDraft", "putPolicy",
                            "dropPolicy", "runtimeClear", "runtimeSave", "credentialClear"}
      /\ c.at \in Writes
  BY <1>2 DEF Writes
<1>4. c.do = "save" => "config" \in left
  BY <1>1, <1>2 DEF CallOK, Writes, Doers
<1>5. SameScreen
  <2>1. ui' = ui
    BY DEF VerifyAnswered, RoutePromoted, Unstaged, CredentialTested, CredentialSaved,
           RecipeSaved, RecipeDropped, BuildPromoted, BuildsChanged, screen
  <2>2. gh'.staged = gh.staged /\ gh'.live = gh.live /\ gh'.draft = gh.draft
    BY <1>1
       DEF VerifyAnswered, RoutePromoted, Unstaged, CredentialTested, CredentialSaved,
           RecipeSaved, RecipeDropped, BuildPromoted, BuildsChanged, screen, GitHubStates
  <2>3. oci'.credential = oci.credential /\ oci'.runtime = oci.runtime
    BY <1>1
       DEF VerifyAnswered, RoutePromoted, Unstaged, CredentialTested, CredentialSaved,
           RecipeSaved, RecipeDropped, BuildPromoted, BuildsChanged, screen, OciStates
  <2>4. /\ pages'.loaded = pages.loaded /\ pages'.policies = pages.policies
        /\ pages'.recipes = pages.recipes /\ pages'.builds = pages.builds
    BY <1>1
       DEF VerifyAnswered, RoutePromoted, Unstaged, CredentialTested, CredentialSaved,
           RecipeSaved, RecipeDropped, BuildPromoted, BuildsChanged, screen, PageStates
  <2> QED
    BY <2>1, <2>2, <2>3, <2>4 DEF SameScreen
<1>6. pages'.recipe \in (srv'.recipes \intersect {pages.recipe}) \union {Nobody}
  <2>1. srv' \in Effects(c, srv)
    <3>1. \E d \in Effects(c, srv) : srv' = d
      BY <1>2 DEF Accepted
    <3> QED
      BY <3>1
  <2>2. CASE RecipeSaved(j)
    BY <1>1, <2>2 DEF RecipeSaved, PageStates
  <2>3. CASE RecipeDropped(j)
    <3>1. c.at = "dropRecipe"
      BY <2>3 DEF RecipeDropped, After
    <3>2. pages'.recipe = IF c.held THEN Nobody ELSE pages.recipe
      BY <1>1, <2>3 DEF RecipeDropped, PageStates
    <3>3. c.held <=> pages.recipe = c.arg
      BY <3>1 DEF Fresh, Calls
    <3>4. pages'.recipe # c.arg \/ pages'.recipe = Nobody
      BY <3>2, <3>3
    <3> QED
      BY <1>1, <1>3, <2>1, <3>1, <3>2, <3>4, EditorKept
  <2>4. CASE ~RecipeSaved(j) /\ ~RecipeDropped(j)
    <3>1. pages' = pages
      BY <2>4
         DEF VerifyAnswered, RoutePromoted, Unstaged, CredentialTested, CredentialSaved,
             BuildPromoted, BuildsChanged, screen
    <3>2. c.at \notin {"putRecipe", "dropRecipe"}
      BY <2>4
         DEF VerifyAnswered, RoutePromoted, Unstaged, CredentialTested, CredentialSaved,
             BuildPromoted, BuildsChanged, After
    <3> QED
      BY <1>1, <1>3, <2>1, <3>1, <3>2, EditorKept
  <2> QED
    BY <2>2, <2>3, <2>4
<1>7. /\ at = "reload" => "setup" \in left
      /\ c.at \in {"stage", "unstage", "promote"} => "config" \in left
      /\ c.at = "promote" => "setup" \in left /\ at = "reload"
      /\ c.at = "credentialSave" => {"credential", "setup"} \subseteq left
      /\ c.at = "buildPromote" => {"runtime", "setup", "images"} \subseteq left
      /\ c.at \in {"putRecipe", "dropRecipe", "buildCreate", "reconcile"} => "images" \in left
  BY <1>2
<1> QED
  BY <1>1, <1>2, <1>3, <1>4, <1>5, <1>6, <1>7, SettlesLand


\* The answers that show at once what the service has done: of the launch target and the
\* credential.
LEMMA StatusesLand ==
  ASSUME CInv, NEW j \in Slots, NEW c \in Calls, work[j] = c, Fresh(c), ShownBut(Stale(c)),
         RuntimeSaved(j) \/ RuntimeCleared(j) \/ CredentialCleared(j)
  PROVE  \E d \in Calls : Lands(j, d)
<1>1. /\ oci \in OciStates /\ srv \in Services /\ TypeOK
  BY ScreenTypes DEF CInv
<1>2. PICK at \in {"settle", "reload"}, left \in SUBSET Loads :
        /\ Accepted(j, at, left)
        /\ \/ /\ RuntimeSaved(j) /\ c.at = "runtimeSave" /\ at = "reload"
              /\ left = {"credential", "setup"}
           \/ /\ RuntimeCleared(j) /\ c.at = "runtimeClear" /\ at = "settle"
              /\ left = {"credential", "setup"}
           \/ /\ CredentialCleared(j) /\ c.at = "credentialClear" /\ at = "settle"
              /\ left = {"setup", "runtime"}
  BY DEF RuntimeSaved, RuntimeCleared, CredentialCleared, After, Loads
<1>3. ui' = ui /\ gh' = gh /\ pages' = pages
  BY DEF RuntimeSaved, RuntimeCleared, CredentialCleared
<1>4. /\ c.at \in Writes /\ at \notin Writes /\ c.at # "login" /\ ui'.session = ui.session
      /\ at \in {"session", "settle", "reload", "dropDraft", "promote"}
  BY <1>2, <1>3 DEF Writes
<1>5. PICK d \in Calls : Awaits(j, c, d, at, left)
  BY <1>1, <1>2, <1>4, AcceptedLands
<1>6. srv' \in Effects(c, srv)
  BY <1>1, <1>2, <1>4, AcceptedLands
<1>7. srv.session = "full"
  BY <1>2, <1>6, SessionEffects
<1>8. /\ Stale(c) = {} /\ left \subseteq Stale(d)
      /\ at = "reload" => {"images", "policies"} \subseteq Stale(d)
  BY <1>2, <1>5 DEF Awaits, Stale
<1>9. ShownBut({})
  BY <1>8
<1>10. BlankShown'
  BY <1>2, <1>3 DEF BlankShown, Fresh
<1> USE DEF ShownBut, SessionShown, SetupShown, ConfigShown, DraftShown, CredentialShown,
            RuntimeShown, ImagesShown, PoliciesShown, EditorLive, Ready
<1>11. CASE RuntimeSaved(j)
  <2>1. srv' = [srv EXCEPT !.runtime = TRUE] /\ oci' = [oci EXCEPT !.runtime = TRUE]
    BY <1>2, <1>6, <1>7, <1>11, OciEffects DEF RuntimeSaved, After
  <2>2. ShownBut({"credential", "setup", "images", "policies"})'
    BY <1>1, <1>3, <1>9, <1>10, <2>1 DEF Services, OciStates
  <2>3. {"credential", "setup", "images", "policies"} \subseteq Stale(d)
    BY <1>2, <1>8, <1>11 DEF RuntimeSaved, After
  <2> QED
    BY <1>5, <2>2, <2>3 DEF Lands, Awaits
<1>12. CASE RuntimeCleared(j)
  <2>1. srv' = [srv EXCEPT !.runtime = FALSE] /\ oci' = [oci EXCEPT !.runtime = FALSE]
    BY <1>2, <1>6, <1>7, <1>12, OciEffects DEF RuntimeCleared, After
  <2>2. ShownBut({"credential", "setup"})'
    BY <1>1, <1>3, <1>9, <1>10, <2>1 DEF Services, OciStates
  <2>3. {"credential", "setup"} \subseteq Stale(d)
    BY <1>2, <1>8, <1>12 DEF RuntimeCleared, After
  <2> QED
    BY <1>5, <2>2, <2>3 DEF Lands, Awaits
<1>13. CASE CredentialCleared(j)
  <2>1. /\ srv' = [srv EXCEPT !.credential = FALSE]
        /\ oci' = [oci EXCEPT !.config = FALSE, !.key = FALSE, !.credential = FALSE]
    BY <1>2, <1>6, <1>7, <1>13, OciEffects DEF CredentialCleared, After
  <2>2. ShownBut({"setup", "runtime"})'
    BY <1>1, <1>3, <1>9, <1>10, <2>1 DEF Services, OciStates
  <2>3. {"setup", "runtime"} \subseteq Stale(d)
    BY <1>2, <1>8, <1>13 DEF CredentialCleared, After
  <2> QED
    BY <1>5, <2>2, <2>3 DEF Lands, Awaits
<1> QED
  BY <1>11, <1>12, <1>13

\* A write that is followed by refreshAll: everything is read again.
LEMMA RefreshingLands ==
  ASSUME CInv, NEW j \in Slots, NEW c \in Calls, work[j] = c, Fresh(c), ShownBut(Stale(c)),
         RefreshingAnswered(j)
  PROVE  \E d \in Calls : Lands(j, d)
<1>1. /\ ui \in UiStates /\ pages \in PageStates /\ srv \in Services /\ TypeOK
  BY ScreenTypes DEF CInv
<1>2. /\ c.at \in Refreshing /\ Accepted(j, "session", {})
      /\ ui' = [ui EXCEPT !.refreshing = TRUE] /\ gh' = gh /\ oci' = oci
      /\ pages' = IF c.at = "putPolicy" THEN [pages EXCEPT !.policy = Nobody] ELSE pages
  BY DEF RefreshingAnswered
<1>3. /\ c.at \in Writes \ {"putRecipe", "dropRecipe"} /\ c.at \in Writes
      /\ "session" \notin Writes /\ ui'.session = ui.session
      /\ {} \in SUBSET Loads
  BY <1>1, <1>2 DEF Writes, Refreshing, UiStates
<1>4. PICK d \in Calls : Awaits(j, c, d, "session", {})
  BY <1>1, <1>2, <1>3, AcceptedLands
<1>5. srv' \in Effects(c, srv)
  BY <1>1, <1>2, <1>3, AcceptedLands
<1>6. srv'.recipes = srv.recipes
  BY <1>1, <1>3, <1>5, EffectFields
<1>7. pages'.recipe = pages.recipe
  BY <1>1, <1>2 DEF PageStates
<1>8. EditorLive'
  BY <1>6, <1>7 DEF ShownBut, EditorLive
<1>9. BlankShown'
  <2>1. CASE c.at = "login"
    BY <1>2, <1>3, <2>1 DEF ShownBut, BlankShown
  <2>2. CASE c.at # "login"
    BY <1>2, <1>3, <2>2 DEF Fresh, BlankShown, Refreshing
  <2> QED
    BY <2>1, <2>2
<1>10. Stale(d) = Parts
  BY <1>4 DEF Awaits, Stale
<1>11. ShownBut(Parts)'
  BY <1>8, <1>9 DEF ShownBut, Parts
<1>12. ShownBut(Stale(d))'
  BY <1>10, <1>11
<1> QED
  BY <1>4, <1>12 DEF Lands, Awaits


\* A handler goes on with reads of the service as it is.
LEMMA GoesOnLands ==
  ASSUME TypeOK, NEW j \in Slots, NEW c \in Calls, work[j] = c,
         NEW at \in {"session", "setup", "wizard", "batch", "pending", "discover", "promote",
                     "reload", "denied"},
         NEW left \in SUBSET Loads, NEW s \in Services, GoOn(j, at, left, s),
         left # {} \/ at \in {"session", "setup", "batch", "pending"} => s = srv',
         at = "batch" => srv'.session = "full" /\ Ready(srv'),
         ui'.session # "none" \/ at = "session"
  PROVE  \E d \in Calls : Awaits(j, c, d, at, left)
<1>1. at \in Writes \union Reads
  BY DEF Writes, Reads
<1>2. PICK d \in Calls : SentOn(j, d, at, left, s)
  BY <1>1, GoOnMoves
<1>3. /\ MovedTo(j, d) /\ d.at = at /\ d.left = left /\ d.do = c.do /\ d.done = FALSE
      /\ d.sent = s
  BY <1>2 DEF SentOn
<1>4. Fresh(d)'
  BY <1>3 DEF Fresh
<1> QED
  BY <1>3, <1>4 DEF Awaits

\* A route is staged: its draft is dropped, or it is activated, or the page reads it again.
LEMMA StagedLands ==
  ASSUME CInv, NEW j \in Slots, NEW c \in Calls, work[j] = c, Fresh(c), ShownBut(Stale(c)),
         Staged(j)
  PROVE  \E d \in Calls : Lands(j, d)
<1>1. /\ gh \in GitHubStates /\ srv \in Services /\ TypeOK /\ CallOK(c)
  BY ScreenTypes DEF CInv, WorkInv
<1>2. /\ c.at = "stage" /\ ui' = ui /\ oci' = oci /\ pages' = pages
      /\ c.do = "save"
  BY <1>1 DEF Staged, After, CallOK, Writes, Doers
<1>3. PICK at \in {"dropDraft", "promote", "reload"}, left \in SUBSET Loads :
        /\ Accepted(j, at, left)
        /\ at = "reload" => left = {"config", "setup"}
        /\ at # "reload" => left = {}
  <2>1. CASE c.held
    BY <2>1 DEF Staged
  <2>2. CASE ~c.held /\ c.auto
    BY <2>2 DEF Staged, NextOfStage, LoadsOfStage
  <2>3. CASE ~c.held /\ ~c.auto
    BY <2>3 DEF Staged, NextOfStage, LoadsOfStage, Loads
  <2> QED
    BY <2>1, <2>2, <2>3
<1>4. /\ c.at \in Writes /\ "stage" \in Writes /\ "reload" \notin Writes /\ c.at # "login"
      /\ ui'.session = ui.session /\ at \in {"session", "settle", "reload", "dropDraft", "promote"}
  BY <1>2 DEF Writes
<1>5. PICK d \in Calls : Awaits(j, c, d, at, left)
  BY <1>1, <1>3, <1>4, AcceptedLands
<1>6. srv' \in Effects(c, srv)
  BY <1>1, <1>3, <1>4, AcceptedLands
<1>7. SameScreen
  BY <1>1, <1>2 DEF Staged, GitHubStates, SameScreen
<1>8. pages'.recipe \in (srv'.recipes \intersect {pages.recipe}) \union {Nobody}
  BY <1>1, <1>2, <1>4, <1>6, EditorKept DEF ShownBut
<1>9. EditorLive' /\ BlankShown'
  BY <1>2, <1>8 DEF EditorLive, BlankShown, Fresh
<1> DEFINE T == Stale(d)
<1>10. "config" \in T
  BY <1>2, <1>3, <1>5 DEF Awaits, Stale
<1>11. ShownBut({})
  BY <1>2 DEF Stale
<1> HIDE DEF T
<1>12. ShownBut(T)'
  BY <1>1, <1>2, <1>4, <1>6, <1>7, <1>9, <1>10, <1>11, WritesShow
<1>13. ShownBut(Stale(d))'
  BY <1>12 DEF T
<1> QED
  BY <1>5, <1>13 DEF Lands, Awaits

\* A save has dropped the App draft, or has failed to, and goes on.
LEMMA DroppedLands ==
  ASSUME CInv, NEW j \in Slots, NEW c \in Calls, work[j] = c, Fresh(c), ShownBut(Stale(c)),
         DraftDropped(j), clean'
  PROVE  \E d \in Calls : Lands(j, d)
<1> DEFINE at == NextOfStage(c)
           left == LoadsOfStage(c)
<1>1. /\ gh \in GitHubStates /\ srv \in Services /\ TypeOK
  BY ScreenTypes DEF CInv
<1>2. /\ c.at = "dropDraft" /\ c.do = "save" /\ ui' = ui /\ oci' = oci /\ pages' = pages
      /\ c.at \in Writes
  BY DEF DraftDropped, After, Writes
<1>3. /\ at \in {"promote", "reload"} /\ left \in SUBSET Loads
      /\ at = "promote" => left = {}
      /\ at = "reload" => left = {"config", "setup"}
      /\ left # {} => ~c.auto
  BY DEF NextOfStage, LoadsOfStage, Loads
<1>4. /\ \A d \in Calls : Awaits(j, c, d, at, left) => "config" \in Stale(d)
  BY <1>2, <1>3 DEF Awaits, Stale
<1>5. ShownBut({"config"})
  BY <1>2 DEF Stale
<1>6. ui.session # "none" /\ BlankShown'
  BY <1>2 DEF Fresh, BlankShown
<1> HIDE DEF at, left
<1>7. CASE Accepted(j, at, left) /\ gh'.draft = "none"
  <2>1. /\ "promote" \in Writes /\ "reload" \notin Writes /\ c.at # "login"
        /\ ui'.session = ui.session
    BY <1>2 DEF Writes
  <2>2. /\ at \in {"session", "settle", "reload", "dropDraft", "promote"}
        /\ at \in Writes => left = {}
    BY <1>3, <2>1
  <2>3. PICK d \in Calls : Awaits(j, c, d, at, left)
    BY <1>1, <1>2, <1>3, <1>7, <2>1, <2>2, AcceptedLands
  <2>4. srv' \in Effects(c, srv)
    BY <1>1, <1>2, <1>3, <1>7, <2>1, <2>2, AcceptedLands
  <2>5. srv.session = "full"
    BY <1>2, <2>4, SessionEffects
  <2>6. srv' = [srv EXCEPT !.draft = "none"]
    BY <1>2, <2>4, <2>5, RouteEffects
  <2>7. ShownBut({"config"})'
    BY <1>1, <1>2, <1>5, <1>6, <1>7, <2>6
       DEF ShownBut, SessionShown, SetupShown, ConfigShown, DraftShown, CredentialShown,
           RuntimeShown, ImagesShown, PoliciesShown, EditorLive, Ready, SetupOf, Services
  <2>8. "config" \in Stale(d)
    BY <1>4, <2>3
  <2>9. ShownBut(Stale(d))'
    BY <2>7, <2>8 DEF ShownBut
  <2> QED
    BY <2>3, <2>9 DEF Lands, Awaits
<1>8. CASE /\ NotDone(j) /\ gh'.draft = gh.draft /\ gh'.staged = gh.staged
           /\ gh'.live = gh.live
           /\ GoOn(j, at, left, IF c.auto THEN NoService ELSE srv')
  <2>1. srv' = srv
    BY <1>1, <1>8, FailureMoves
  <2>2. (IF c.auto THEN NoService ELSE srv') \in Services
    BY <1>1, <2>1, ServiceTypes
  <2>3. /\ left # {} => (IF c.auto THEN NoService ELSE srv') = srv'
        /\ at \notin {"session", "setup", "batch", "pending"} /\ ui'.session # "none"
        /\ at \in {"session", "setup", "wizard", "batch", "pending", "discover", "promote",
                     "reload", "denied"}
    BY <1>2, <1>3, <1>6
  <2>4. PICK s \in Services : s = IF c.auto THEN NoService ELSE srv'
    BY <2>2
  <2>5. PICK d \in Calls : Awaits(j, c, d, at, left)
    BY <1>1, <1>3, <1>8, <2>3, <2>4, GoesOnLands
  <2>6. SameScreen
    BY <1>2, <1>8 DEF SameScreen
  <2>7. EditorLive'
    BY <1>2, <1>5, <2>1 DEF ShownBut, EditorLive
  <2>8. ShownBut({"config"})'
    BY <1>5, <1>6, <2>1, <2>6, <2>7, SameShown
  <2>9. "config" \in Stale(d)
    BY <1>4, <2>5
  <2>10. ShownBut(Stale(d))'
    BY <2>8, <2>9 DEF ShownBut
  <2> QED
    BY <2>5, <2>10 DEF Lands, Awaits
<1> QED
  BY <1>1, <1>7, <1>8 DEF DraftDropped, at, left, GitHubStates

\* An activation fails, and its handler reads the routes again.
LEMMA PromoteLands ==
  ASSUME CInv, NEW j \in Slots, NEW c \in Calls, work[j] = c, Fresh(c), ShownBut(Stale(c)),
         PromoteFailed(j), clean'
  PROVE  \E d \in Calls : Lands(j, d)
<1>1. srv \in Services /\ TypeOK
  BY DEF CInv, TypeOK
<1>2. /\ c.at = "promote" /\ NotDone(j) /\ GoOn(j, "denied", {"config", "setup"}, srv')
      /\ ui' = ui /\ gh' = gh /\ oci' = oci /\ pages' = pages
  BY DEF PromoteFailed, After, screen
<1>3. srv' = srv /\ ui.session # "none" /\ {"config", "setup"} \in SUBSET Loads
  BY <1>1, <1>2, FailureMoves DEF Fresh, Loads
<1>4. PICK d \in Calls : Awaits(j, c, d, "denied", {"config", "setup"})
  BY <1>1, <1>2, <1>3, GoesOnLands
<1>5. /\ Stale(d) = {"config", "setup"}
      /\ Stale(c) \subseteq {"config"}
  BY <1>2, <1>4 DEF Awaits, Stale
<1>6. SameScreen /\ EditorLive' /\ BlankShown'
  BY <1>2, <1>3 DEF SameScreen, ShownBut, EditorLive, BlankShown
<1>7. ShownBut({"config"})
  BY <1>5 DEF ShownBut
<1>8. ShownBut({"config", "setup"})'
  BY <1>3, <1>6, <1>7, SameShown
<1>9. ShownBut(Stale(d))'
  BY <1>5, <1>8
<1> QED
  BY <1>4, <1>9 DEF Lands, Awaits


\* A handler returns, and shows nothing but what is still so.
LEMMA ReturnLands ==
  ASSUME TypeOK, NEW j \in Slots, NEW c \in Calls, work[j] = c, Returned(j), c.left = {},
         ShownBut({}), SameScreen, srv' = srv, EditorLive', BlankShown'
  PROVE  Lands(j, Idle)
<1>1. MovedTo(j, Idle)
  BY ReturnedMoves, FreeSlot
<1>2. ShownBut({})'
  BY SameShown
<1> QED
  BY <1>1, <1>2, FreeSlot DEF Lands

\* The calls that end a handler of a button.
LEMMA EndsLand ==
  ASSUME CInv, NEW j \in Slots, NEW c \in Calls, work[j] = c, Fresh(c), ShownBut(Stale(c)),
         \/ Denied(j) \/ DiscardFailed(j) \/ Inspected(j) \/ LookupAnswered(j)
         \/ WriteFailed(j),
         clean'
  PROVE  Lands(j, Idle)
<1>1. /\ gh \in GitHubStates /\ oci \in OciStates /\ pages \in PageStates /\ srv \in Services
      /\ TypeOK /\ CallOK(c)
  BY ScreenTypes DEF CInv, WorkInv
<1>2. /\ ui' = ui /\ Returned(j)
  BY DEF Denied, DiscardFailed, Inspected, LookupAnswered, WriteFailed
<1>3. /\ c.left = {} /\ Stale(c) = {}
      /\ c.at \in (Writes \ {"dropDraft", "promote"}) \union {"denied", "dropDraft"}
      /\ c.at = "dropDraft" => c.do # "save"
  <2>1. CASE Denied(j)
    BY <2>1 DEF Denied, After, Stale
  <2>2. CASE DiscardFailed(j)
    BY <1>1, <2>2 DEF DiscardFailed, After, Stale, CallOK, Writes
  <2>3. CASE Inspected(j)
    BY <1>1, <2>3 DEF Inspected, After, Stale, CallOK, Writes
  <2>4. CASE LookupAnswered(j)
    BY <1>1, <2>4 DEF LookupAnswered, After, Stale, CallOK, Writes
  <2>5. CASE WriteFailed(j)
    BY <1>1, <2>5 DEF WriteFailed, After, Stale, CallOK, Writes
  <2> QED
    BY <2>1, <2>2, <2>3, <2>4, <2>5
<1>4. srv' = srv
  <2>1. CASE Denied(j) \/ LookupAnswered(j)
    BY <2>1 DEF Denied, LookupAnswered
  <2>2. CASE DiscardFailed(j) \/ WriteFailed(j)
    BY <1>1, <2>2, FailureMoves DEF DiscardFailed, WriteFailed
  <2>3. CASE Inspected(j)
    <3>1. CASE srv' \in Effects(c, srv)
      <4>1. c.at = "inspect"
        BY <2>3 DEF Inspected, After
      <4>2. srv.session = "full"
        BY <3>1, <4>1, SessionEffects
      <4> QED
        BY <3>1, <4>1, <4>2, NoEffects
    <3> QED
      BY <1>1, <2>3, <3>1, FailureMoves DEF Inspected
  <2> QED
    BY <2>1, <2>2, <2>3
<1>5. gh'.staged = gh.staged /\ gh'.live = gh.live /\ gh'.draft = gh.draft
  BY <1>1 DEF Denied, DiscardFailed, Inspected, LookupAnswered, WriteFailed, GitHubStates
<1>6. oci'.credential = oci.credential /\ oci'.runtime = oci.runtime
  BY <1>1 DEF Denied, DiscardFailed, Inspected, LookupAnswered, WriteFailed, OciStates
<1>7. /\ pages'.loaded = pages.loaded /\ pages'.policies = pages.policies
      /\ pages'.recipes = pages.recipes /\ pages'.builds = pages.builds
      /\ pages'.recipe = pages.recipe
  <2>1. CASE WriteFailed(j)
    BY <1>1, <2>1 DEF WriteFailed, LookupFailed, RowReleased, PageStates
  <2>2. CASE ~WriteFailed(j)
    BY <1>1, <2>2 DEF Denied, DiscardFailed, Inspected, LookupAnswered, PageStates
  <2> QED
    BY <2>1, <2>2
<1>8. SameScreen
  BY <1>2, <1>5, <1>6, <1>7 DEF SameScreen
<1>9. EditorLive'
  BY <1>4, <1>7 DEF ShownBut, EditorLive
<1>10. BlankShown'
  <2>1. CASE ui.session # "none"
    BY <1>2, <2>1 DEF BlankShown
  <2>2. CASE ui.session = "none"
    <3>1. c.at = "login"
      BY <1>3, <2>2 DEF Fresh, Writes
    <3>2. c.do = "login"
      BY <1>1, <3>1 DEF CallOK, Doers, Writes
    <3>3. WriteFailed(j)
      BY <3>1 DEF Denied, DiscardFailed, Inspected, LookupAnswered, After
    <3>4. pages' = pages
      BY <1>1, <3>2, <3>3 DEF WriteFailed, LookupFailed, RowReleased, PageStates
    <3>5. gh' = gh /\ oci' = oci
      BY <3>3 DEF WriteFailed
    <3> QED
      BY <2>2, <3>4, <3>5 DEF ShownBut, BlankShown
  <2> QED
    BY <2>1, <2>2
<1>11. ShownBut({})
  BY <1>3
<1> QED
  BY <1>1, <1>2, <1>3, <1>4, <1>8, <1>9, <1>10, <1>11, ReturnLands

\* Signing out, and discarding the App draft.
LEMMA ResetsLand ==
  ASSUME CInv, NEW j \in Slots, NEW c \in Calls, work[j] = c, Fresh(c), ShownBut(Stale(c)),
         LogoutAnswered(j) \/ Discarded(j)
  PROVE  Lands(j, Idle)
<1>1. /\ ui \in UiStates /\ gh \in GitHubStates /\ pages \in PageStates /\ srv \in Services
      /\ TypeOK /\ CallOK(c)
  BY ScreenTypes DEF CInv, WorkInv
<1>2. /\ Returned(j) /\ srv' \in Effects(c, srv) /\ c.left = {} /\ Stale(c) = {}
  BY <1>1 DEF LogoutAnswered, Discarded, After, CallOK, Writes, Stale
<1>3. MovedTo(j, Idle)
  BY <1>1, <1>2, ReturnedMoves, FreeSlot
<1>4. ShownBut({})
  BY <1>2
<1>5. CASE LogoutAnswered(j)
  <2>1. /\ ui' = [ui EXCEPT !.session = "none", !.setup = BlankSetup, !.ref = NoTask]
        /\ gh' = BlankGitHub /\ oci' = BlankOci /\ pages' = WithoutData(pages)
        /\ c.at = "logout"
    BY <1>5 DEF LogoutAnswered, ResetFor, After
  <2>2. srv'.session = "none"
    BY <1>1, <1>2, <2>1, EffectFields DEF Writes
  <2>3. ui'.session = "none" /\ ui'.setup = BlankSetup
    BY <1>1, <2>1 DEF UiStates
  <2>4. pages'.recipe = Nobody /\ pages' = WithoutData(pages')
    BY <1>1, <2>1 DEF WithoutData, BlankPages
  <2>5. ShownBut({})'
    BY <2>1, <2>2, <2>3, <2>4
       DEF ShownBut, SessionShown, SetupShown, ConfigShown, DraftShown, CredentialShown,
           RuntimeShown, ImagesShown, PoliciesShown, EditorLive, BlankShown
  <2> QED
    BY <1>3, <2>5, FreeSlot DEF Lands
<1>6. CASE Discarded(j)
  <2>1. /\ ui' = ui /\ oci' = oci /\ pages' = pages /\ c.at = "dropDraft"
        /\ gh'.draft = "none" /\ gh'.staged = gh.staged /\ gh'.live = gh.live
    BY <1>1, <1>6 DEF Discarded, After, GitHubStates
  <2>2. srv.session = "full"
    BY <1>2, <2>1, SessionEffects
  <2>3. srv' = [srv EXCEPT !.draft = "none"]
    BY <1>2, <2>1, <2>2, RouteEffects
  <2>4. ui.session # "none"
    BY <2>1 DEF Fresh
  <2>5. ShownBut({})'
    BY <1>1, <1>4, <2>1, <2>3, <2>4
       DEF ShownBut, SessionShown, SetupShown, ConfigShown, DraftShown, CredentialShown,
           RuntimeShown, ImagesShown, PoliciesShown, EditorLive, BlankShown, Ready, SetupOf,
           Services
  <2> QED
    BY <1>3, <2>5, FreeSlot DEF Lands
<1> QED
  BY <1>5, <1>6

-----------------------------------------------------------------------------
(* refreshAll                                                               *)

\* The session is known: the setup status is asked for, or the page is blank.
LEMMA SessionLands ==
  ASSUME CInv, NEW j \in Slots, NEW c \in Calls, work[j] = c, Fresh(c), ShownBut(Stale(c)),
         SessionAnswered(j)
  PROVE  \E d \in Calls : Lands(j, d)
<1>1. /\ ui \in UiStates /\ pages \in PageStates /\ srv \in Services
      /\ TypeOK /\ CallOK(c)
  BY ScreenTypes DEF CInv, WorkInv
<1>2. c.at = "session" /\ c.left = {} /\ c.sent = srv /\ srv' = srv
  BY <1>1 DEF SessionAnswered, After, CallOK, Fresh
<1>3. EditorLive
  BY DEF ShownBut
<1>4. CASE srv.session = "full"
  <2>1. /\ ui' = [ui EXCEPT !.session = "full"] /\ GoOn(j, "setup", {}, srv)
        /\ pages' = pages
    BY <1>2, <1>4 DEF SessionAnswered
  <2>2. ui'.session = "full" /\ {} \in SUBSET Loads
    BY <1>1, <2>1 DEF UiStates
  <2>3. PICK d \in Calls : Awaits(j, c, d, "setup", {})
    BY <1>1, <1>2, <2>1, <2>2, GoesOnLands
  <2>4. Stale(d) = Parts \ {"session"}
    BY <2>3 DEF Awaits, Stale
  <2>5. ShownBut(Parts \ {"session"})'
    BY <1>2, <1>3, <1>4, <2>1, <2>2
       DEF ShownBut, Parts, SessionShown, EditorLive, BlankShown
  <2>6. ShownBut(Stale(d))'
    BY <2>4, <2>5
  <2> QED
    BY <2>3, <2>6 DEF Lands, Awaits
<1>5. CASE srv.session # "full"
  <2>1. RefreshGated(j, srv.session)
    BY <1>2, <1>5 DEF SessionAnswered
  <2>2. MovedTo(j, Idle)
    BY <1>1, <1>2, <2>1, ReturnedMoves, FreeSlot DEF RefreshGated
  <2>3. /\ ui'.session = srv.session /\ ui'.setup = BlankSetup /\ gh' = BlankGitHub
        /\ oci' = BlankOci /\ pages' = WithoutData(pages)
    BY <1>1, <2>1 DEF RefreshGated, UiStates
  <2>4. pages'.recipe = Nobody /\ pages' = WithoutData(pages')
    BY <1>1, <2>3 DEF WithoutData, BlankPages
  <2>5. ShownBut({})'
    BY <1>2, <1>5, <2>3, <2>4
       DEF ShownBut, SessionShown, SetupShown, ConfigShown, DraftShown, CredentialShown,
           RuntimeShown, ImagesShown, PoliciesShown, EditorLive, BlankShown
  <2> QED
    BY <2>2, <2>5, FreeSlot, IdleCall DEF Lands
<1> QED
  BY <1>4, <1>5

\* What a read brings, with nobody else at work.
LEMMA FreshAnswer ==
  ASSUME TypeOK, NEW j \in Slots, NEW c \in Calls, work[j] = c, c.sent = srv,
         NEW s \in {Got(c.sent), Got(srv), NoService}, Answer(j, s), clean'
  PROVE  s = Got(srv)
BY AnswerMoves

\* The setup status is known: the wizard's loads leave, or the workspace's.
LEMMA SetupLands ==
  ASSUME CInv, NEW j \in Slots, NEW c \in Calls, work[j] = c, Fresh(c), ShownBut(Stale(c)),
         SetupAnswered(j), clean'
  PROVE  \E d \in Calls : Lands(j, d)
<1>1. /\ ui \in UiStates /\ pages \in PageStates /\ srv \in Services /\ TypeOK
  BY ScreenTypes DEF CInv
<1>2. c.at = "setup" /\ c.sent = srv /\ srv' = srv /\ gh' = gh /\ oci' = oci
  BY DEF SetupAnswered, After, Fresh
<1>3. SessionShown /\ EditorLive /\ ui.session # "none"
  BY <1>2 DEF ShownBut, Stale, Parts, Fresh
<1> DEFINE s == Got(srv)
<1>4. /\ ui' = [ui EXCEPT !.setup = SetupOf(s)]
      /\ IF Ready(s)
         THEN /\ GoOn(j, "batch", {"config", "credential", "runtime", "images", "reports"}, srv)
              /\ pages' = [pages EXCEPT !.reports = "loading"]
         ELSE /\ GoOn(j, "wizard", {"config", "credential", "runtime"}, srv)
              /\ pages' = WithoutData(pages)
  <2>1. PICK t \in {Got(c.sent), Got(srv), NoService} :
          /\ Answer(j, t)
          /\ ui' = [ui EXCEPT !.setup = SetupOf(t)]
          /\ IF Ready(t)
             THEN /\ GoOn(j, "batch", {"config", "credential", "runtime", "images", "reports"}, srv)
                  /\ pages' = [pages EXCEPT !.reports = "loading"]
             ELSE /\ GoOn(j, "wizard", {"config", "credential", "runtime"}, srv)
                  /\ pages' = WithoutData(pages)
    BY DEF SetupAnswered
  <2>2. t = s
    BY <1>1, <1>2, <2>1, FreshAnswer
  <2> QED
    BY <2>1, <2>2
<1>5. srv.session = "full" => s = srv
  BY DEF Got
<1>6. srv.session # "full" => SetupOf(s) = BlankSetup /\ ~Ready(s)
  <2>1. srv.session # "full" => s = NoService
    BY DEF Got
  <2>2. SetupOf(NoService) = BlankSetup /\ ~Ready(NoService)
    BY DEF SetupOf, Ready, BlankSetup, NoService
  <2> QED
    BY <2>1, <2>2
<1> HIDE DEF s
<1>7. ui'.session = ui.session /\ ui'.setup = SetupOf(s)
  BY <1>1, <1>4 DEF UiStates
<1>8. SessionShown' /\ SetupShown'
  BY <1>2, <1>3, <1>5, <1>6, <1>7 DEF SessionShown, SetupShown
<1>9. BlankShown'
  BY <1>3, <1>7 DEF BlankShown
<1>10. CASE Ready(s)
  <2>1. /\ GoOn(j, "batch", {"config", "credential", "runtime", "images", "reports"}, srv)
        /\ pages' = [pages EXCEPT !.reports = "loading"]
        /\ srv'.session = "full" /\ Ready(srv')
    BY <1>2, <1>4, <1>5, <1>6, <1>10
  <2>2. {"config", "credential", "runtime", "images", "reports"} \in SUBSET Loads
    BY DEF Loads
  <2>3. PICK d \in Calls :
          Awaits(j, c, d, "batch", {"config", "credential", "runtime", "images", "reports"})
    BY <1>1, <1>2, <1>3, <1>7, <2>1, <2>2, GoesOnLands
  <2>4. /\ {"config", "credential", "runtime", "images", "draft", "policies"} \subseteq Stale(d)
    BY <2>3 DEF Awaits, Stale
  <2>5. EditorLive'
    BY <1>1, <1>2, <1>3, <2>1 DEF EditorLive, PageStates
  <2>6. ShownBut(Stale(d))'
    BY <1>8, <1>9, <2>4, <2>5 DEF ShownBut
  <2> QED
    BY <2>3, <2>6 DEF Lands, Awaits
<1>11. CASE ~Ready(s)
  <2>1. /\ GoOn(j, "wizard", {"config", "credential", "runtime"}, srv)
        /\ pages' = WithoutData(pages)
    BY <1>4, <1>11
  <2>2. {"config", "credential", "runtime"} \in SUBSET Loads
    BY DEF Loads
  <2>3. PICK d \in Calls : Awaits(j, c, d, "wizard", {"config", "credential", "runtime"})
    BY <1>1, <1>2, <1>3, <1>7, <2>1, <2>2, GoesOnLands
  <2>4. {"config", "credential", "runtime", "draft"} \subseteq Stale(d)
    BY <2>3 DEF Awaits, Stale
  <2>5. ImagesShown' /\ PoliciesShown'
    BY <1>2, <1>3, <1>5, <1>7, <1>11 DEF SessionShown, ImagesShown, PoliciesShown
  <2>6. EditorLive'
    BY <2>1 DEF EditorLive, WithoutData, BlankPages
  <2>7. ShownBut(Stale(d))'
    BY <1>8, <1>9, <2>4, <2>5, <2>6 DEF ShownBut
  <2> QED
    BY <2>3, <2>7 DEF Lands, Awaits
<1> QED
  BY <1>10, <1>11


\* What a load brings is shown, and the rest stays as it was.
LEMMA LoadShows ==
  ASSUME ui \in UiStates, gh \in GitHubStates, oci \in OciStates, pages \in PageStates,
         srv \in Services, srv' = srv, ui.session = srv.session, NEW l \in Loads,
         ShowLoad(l, Got(srv)), NEW S, NEW T, ShownBut(S), "session" \notin S,
         S \intersect Parts \subseteq
           T \union {l} \union IF Ready(Got(srv)) THEN {} ELSE {"images", "policies"}
  PROVE  /\ SessionShown'
         /\ "setup" \in T \/ SetupShown'
         /\ "config" \in T \/ ConfigShown'
         /\ "draft" \in T \/ DraftShown'
         /\ "credential" \in T \/ CredentialShown'
         /\ "runtime" \in T \/ RuntimeShown'
         /\ "images" \in T \/ ImagesShown'
         /\ "policies" \in T \/ PoliciesShown'
         /\ ui'.session = ui.session /\ pages'.recipe = pages.recipe
<1> DEFINE s == Got(srv)
<1>1. srv.session = "full" => s = srv /\ s # NoService
  BY ServiceTypes DEF Got
<1>2. srv.session # "full" => SetupOf(s) = BlankSetup
  <2>1. srv.session # "full" => s = NoService
    BY DEF Got
  <2>2. SetupOf(NoService) = BlankSetup
    BY DEF SetupOf, Ready, BlankSetup, NoService
  <2> QED
    BY <2>1, <2>2
<1>3. /\ ui'.session = ui.session
      /\ ui'.setup = IF l = "setup" THEN SetupOf(s) ELSE ui.setup
  BY DEF ShowLoad, UiStates
<1>4. /\ gh'.staged = IF l = "config" THEN s.staged ELSE gh.staged
      /\ gh'.live = IF l = "config" THEN s.live ELSE gh.live
      /\ gh'.draft = gh.draft
  BY DEF ShowLoad, ShowConfig, GitHubStates
<1>5. /\ oci'.credential = IF l = "credential" THEN s.credential ELSE oci.credential
      /\ oci'.runtime = IF l = "runtime" THEN s.runtime ELSE oci.runtime
  BY DEF ShowLoad, OciStates
<1>6. /\ pages'.recipes = IF l = "images" /\ s # NoService THEN s.recipes ELSE pages.recipes
      /\ pages'.builds = IF l = "images" /\ s # NoService THEN s.builds ELSE pages.builds
      /\ pages'.loaded = pages.loaded /\ pages'.policies = pages.policies
      /\ pages'.recipe = pages.recipe
  BY DEF ShowLoad, ShowImages, PageStates
<1>7. ui.session = "full" /\ Ready(srv) => Ready(Got(srv))
  BY DEF Got
<1> HIDE DEF s
<1>8. SessionShown'
  BY <1>2, <1>3 DEF ShownBut, SessionShown
<1>9. "setup" \in T \/ SetupShown'
  BY <1>1, <1>3 DEF ShownBut, SetupShown, Parts
<1>10. "config" \in T \/ ConfigShown'
  BY <1>1, <1>3, <1>4 DEF ShownBut, ConfigShown, Parts
<1>11. "draft" \in T \/ DraftShown'
  BY <1>3, <1>4 DEF ShownBut, DraftShown, Parts, Loads
<1>12. "credential" \in T \/ CredentialShown'
  BY <1>1, <1>3, <1>5 DEF ShownBut, CredentialShown, Parts
<1>13. "runtime" \in T \/ RuntimeShown'
  BY <1>1, <1>3, <1>5 DEF ShownBut, RuntimeShown, Parts
<1>14. "images" \in T \/ ImagesShown'
  BY <1>1, <1>3, <1>7, <1>6 DEF ShownBut, ImagesShown, Parts
<1>15. "policies" \in T \/ PoliciesShown'
  BY <1>1, <1>3, <1>7, <1>6 DEF ShownBut, PoliciesShown, Parts, Loads
<1> QED
  BY <1>3, <1>6, <1>8, <1>9, <1>10, <1>11, <1>12, <1>13, <1>14, <1>15

\* One of the loads of a Promise.all returns.
LEMMA LoadLands ==
  ASSUME CInv, NEW j \in Slots, NEW c \in Calls, work[j] = c, Fresh(c), ShownBut(Stale(c)),
         LoadAnswered(j), clean'
  PROVE  \E d \in Calls : Lands(j, d)
<1>1. /\ ui \in UiStates /\ gh \in GitHubStates /\ oci \in OciStates /\ pages \in PageStates
      /\ srv \in Services /\ TypeOK /\ CallOK(c)
  BY ScreenTypes DEF CInv, WorkInv
<1>2. /\ c.left # {} /\ srv' = srv /\ c.left \subseteq Loads
  BY DEF LoadAnswered, Calls
<1>3. /\ c.at \in {"wizard", "batch", "reload", "settle", "denied"} /\ c.sent = srv
      /\ ui.session # "none"
  <2>1. c.at \in Writes \union Reads \union {"idle"}
    BY DEF Calls
  <2>2. c.at # "idle"
    BY <1>1, <1>2, IdleCall DEF CallOK
  <2> QED
    BY <1>1, <1>2, <2>1, <2>2 DEF CallOK, Fresh, Reads
<1>4. PICK l \in c.left, s \in {Got(c.sent), Got(srv), NoService} :
        /\ Answer(j, s)
        /\ ShowLoad(l, s)
        /\ work' = [work EXCEPT ![j].left = @ \ {l},
                                ![j].done = IF l = "setup" THEN Ready(s) ELSE @,
                                ![j].sent = IF work[j].left = {l} /\ work[j].at # "batch"
                                            THEN NoService ELSE @]
  BY DEF LoadAnswered
<1>5. s = Got(srv) /\ s \in Services
  BY <1>1, <1>3, <1>4, FreshAnswer, ServiceTypes
<1> DEFINE done == IF l = "setup" THEN Ready(s) ELSE c.done
           sent == IF c.left = {l} /\ c.at # "batch" THEN NoService ELSE c.sent
           d == [c EXCEPT !.left = @ \ {l}, !.done = done, !.sent = sent]
<1>6. done \in BOOLEAN /\ sent \in Services
  BY <1>1, <1>5, ServiceTypes DEF Calls, Ready, Services
<1>7. work' = [work EXCEPT ![j] = d]
  BY <1>4 DEF TypeOK
<1>8. (l = "setup" => done = Ready(s)) /\ (l # "setup" => done = c.done)
  OBVIOUS
<1>9. c.left # {l} \/ c.at = "batch" => sent = srv
  BY <1>3
<1> HIDE DEF done, sent
<1>10. /\ d \in Calls /\ d.at = c.at /\ d.do = c.do /\ d.left = c.left \ {l}
       /\ d.done = done /\ d.sent = sent
  BY <1>6 DEF Calls
<1> HIDE DEF d
<1> DEFINE S == Stale(c)
           T == Stale(d)
<1>11. S = CASE c.at = "wizard" -> c.left \union {"draft"}
             [] c.at = "batch" -> c.left \union {"draft", "policies"}
             [] c.at = "reload" ->
                  c.left \union IF "setup" \in c.left \/ c.done THEN {"images", "policies"} ELSE {}
             [] c.at \in {"settle", "denied"} -> c.left
  BY <1>3 DEF Stale
<1>12. T = CASE c.at = "wizard" -> d.left \union {"draft"}
             [] c.at = "batch" -> d.left \union {"draft", "policies"}
             [] c.at = "reload" ->
                  d.left \union IF "setup" \in d.left \/ d.done THEN {"images", "policies"} ELSE {}
             [] c.at \in {"settle", "denied"} -> d.left
  BY <1>3, <1>10 DEF Stale
<1>13. "session" \notin S
  BY <1>2, <1>3, <1>11 DEF Loads
<1>14. ShownBut(S)
  OBVIOUS
<1> HIDE DEF S, T
<1>15. SessionShown /\ EditorLive
  BY <1>13, <1>14 DEF ShownBut
<1>16. S \intersect Parts \subseteq
          T \union {l} \union IF Ready(Got(srv)) THEN {} ELSE {"images", "policies"}
  BY <1>3, <1>5, <1>8, <1>10, <1>11, <1>12
<1>17. /\ SessionShown' /\ ui'.session = ui.session /\ pages'.recipe = pages.recipe
       /\ "setup" \in T \/ SetupShown'
       /\ "config" \in T \/ ConfigShown'
       /\ "draft" \in T \/ DraftShown'
       /\ "credential" \in T \/ CredentialShown'
       /\ "runtime" \in T \/ RuntimeShown'
       /\ "images" \in T \/ ImagesShown'
       /\ "policies" \in T \/ PoliciesShown'
  <2>1. l \in Loads /\ ShowLoad(l, Got(srv)) /\ ui.session = srv.session
    BY <1>2, <1>4, <1>5, <1>15 DEF SessionShown
  <2> QED
    BY <1>1, <1>2, <1>13, <1>14, <1>16, <2>1, LoadShows
<1>18. EditorLive' /\ BlankShown'
  BY <1>2, <1>3, <1>15, <1>17 DEF EditorLive, BlankShown
<1>19. ShownBut(T)'
  BY <1>17, <1>18 DEF ShownBut
<1>20. ShownBut(Stale(d))'
  BY <1>19 DEF T
<1>21. Fresh(d)'
  BY <1>2, <1>3, <1>9, <1>10, <1>17 DEF Fresh
<1> QED
  BY <1>7, <1>10, <1>20, <1>21 DEF Lands, MovedTo

\* All loads have returned, and the App draft is asked for.
LEMMA DraftAsked ==
  ASSUME CInv, NEW j \in Slots, NEW c \in Calls, work[j] = c, Fresh(c), ShownBut(Stale(c)),
         WizardLoaded(j) \/ BatchLoaded(j)
  PROVE  \E d \in Calls : Lands(j, d)
<1>1. /\ ui \in UiStates /\ pages \in PageStates /\ srv \in Services /\ TypeOK
  BY ScreenTypes DEF CInv
<1>2. /\ c.left = {} /\ c.at \in {"wizard", "batch"}
      /\ srv' = srv /\ ui' = ui /\ gh' = gh /\ oci' = oci
      /\ GoOn(j, "pending", {}, srv)
  BY DEF WizardLoaded, BatchLoaded, AskDraft, After
<1>3. ui'.session # "none" /\ {} \in SUBSET Loads
  BY <1>2 DEF Fresh
<1>4. PICK d \in Calls : Awaits(j, c, d, "pending", {})
  BY <1>1, <1>2, <1>3, GoesOnLands
<1>5. Stale(d) = {"draft"}
  BY <1>4 DEF Awaits, Stale
<1>6. BlankShown'
  BY <1>3 DEF BlankShown
<1>7. CASE WizardLoaded(j)
  <2>1. pages' = pages /\ ShownBut({"draft"})
    BY <1>2, <1>7 DEF WizardLoaded, After, Stale
  <2>2. SameScreen /\ EditorLive'
    BY <1>2, <2>1 DEF SameScreen, ShownBut, EditorLive
  <2>3. ShownBut({"draft"})'
    BY <1>2, <1>6, <2>1, <2>2, SameShown
  <2>4. ShownBut(Stale(d))'
    BY <1>5, <2>3
  <2> QED
    BY <1>4, <2>4 DEF Lands, Awaits
<1>8. CASE BatchLoaded(j)
  <2>1. c.at = "batch" /\ c.sent = srv /\ ShownBut({"draft", "policies"})
    BY <1>2, <1>8 DEF BatchLoaded, After, Stale, Fresh
  <2>2. pages' = [pages EXCEPT !.loaded = TRUE, !.policies = srv.policies]
    BY <1>8, <2>1 DEF BatchLoaded, ShowWorkspace
  <2>3. /\ pages'.loaded /\ pages'.policies = srv.policies /\ pages'.recipe = pages.recipe
        /\ pages'.recipes = pages.recipes /\ pages'.builds = pages.builds
    BY <1>1, <2>2 DEF PageStates
  <2>4. PoliciesShown' /\ EditorLive'
    BY <1>2, <2>1, <2>3 DEF PoliciesShown, ShownBut, EditorLive
  <2>5. SessionShown' /\ SetupShown' /\ ConfigShown'
    BY <1>2, <2>1 DEF ShownBut, SessionShown, SetupShown, ConfigShown
  <2>6. CredentialShown' /\ RuntimeShown' /\ ImagesShown'
    BY <1>2, <2>1, <2>3 DEF ShownBut, CredentialShown, RuntimeShown, ImagesShown
  <2>7. ShownBut({"draft"})'
    BY <1>6, <2>4, <2>5, <2>6 DEF ShownBut
  <2>8. ShownBut(Stale(d))'
    BY <1>5, <2>7
  <2> QED
    BY <1>4, <2>8 DEF Lands, Awaits
<1> QED
  BY <1>7, <1>8

\* The App draft arrives: refreshAll ends, or looks for its installation.
LEMMA DraftLands ==
  ASSUME CInv, NEW j \in Slots, NEW c \in Calls, work[j] = c, Fresh(c), ShownBut(Stale(c)),
         DraftAnswered(j), clean'
  PROVE  \E d \in Calls : Lands(j, d)
<1>1. /\ ui \in UiStates /\ gh \in GitHubStates /\ srv \in Services /\ TypeOK /\ CallOK(c)
  BY ScreenTypes DEF CInv, WorkInv
<1>2. /\ c.at = "pending" /\ c.sent = srv /\ c.left = {}
      /\ srv' = srv /\ oci' = oci /\ pages' = pages /\ ui.session # "none"
  BY <1>1 DEF DraftAnswered, After, Fresh, CallOK
<1>3. ShownBut({"draft"})
  BY <1>2 DEF Stale
<1>4. PICK s \in {Got(c.sent), Got(srv), NoService} :
        /\ Answer(j, s)
        /\ gh'.draft = s.draft /\ gh'.staged = gh.staged /\ gh'.live = gh.live
        /\ \/ GoOn(j, "discover", {}, NoService) /\ ui' = ui
           \/ EndRefresh(j, [ui EXCEPT !.marker = "none"])
  BY <1>1 DEF DraftAnswered, GitHubStates
<1>5. srv.session = "full" => s = srv
  BY <1>1, <1>2, <1>4, FreshAnswer DEF Got
<1>6. ui'.session = ui.session /\ ui'.setup = ui.setup
  BY <1>1, <1>4 DEF EndRefresh, UiStates
<1>7. DraftShown' /\ SessionShown' /\ SetupShown' /\ ConfigShown'
  BY <1>2, <1>3, <1>4, <1>5, <1>6
     DEF ShownBut, DraftShown, SessionShown, SetupShown, ConfigShown
<1>8. CredentialShown' /\ RuntimeShown' /\ ImagesShown' /\ PoliciesShown'
  BY <1>2, <1>3, <1>6
     DEF ShownBut, CredentialShown, RuntimeShown, ImagesShown, PoliciesShown
<1>9. ShownBut({})'
  BY <1>2, <1>3, <1>6, <1>7, <1>8 DEF ShownBut, EditorLive, BlankShown
<1>10. CASE GoOn(j, "discover", {}, NoService)
  <2>1. ui'.session # "none" /\ {} \in SUBSET Loads
    BY <1>2, <1>6
  <2>2. PICK d \in Calls : Awaits(j, c, d, "discover", {})
    BY <1>1, <1>10, <2>1, ServiceTypes, GoesOnLands
  <2>3. Stale(d) = {}
    BY <2>2 DEF Awaits, Stale
  <2>4. ShownBut(Stale(d))'
    BY <1>9, <2>3
  <2> QED
    BY <2>2, <2>4 DEF Lands, Awaits
<1>11. CASE Returned(j)
  <2>1. MovedTo(j, Idle)
    BY <1>1, <1>2, <1>11, ReturnedMoves, FreeSlot
  <2> QED
    BY <1>9, <2>1, FreeSlot, IdleCall DEF Lands
<1> QED
  BY <1>4, <1>10, <1>11 DEF EndRefresh

\* The installations of an App are known, or cannot be listed.
LEMMA DiscoverLands ==
  ASSUME CInv, NEW j \in Slots, NEW c \in Calls, work[j] = c, Fresh(c), ShownBut(Stale(c)),
         DiscoverAnswered(j) \/ DiscoverFailed(j), clean'
  PROVE  Lands(j, Idle)
<1>1. /\ ui \in UiStates /\ gh \in GitHubStates /\ srv \in Services /\ TypeOK /\ CallOK(c)
  BY ScreenTypes DEF CInv, WorkInv
<1>2. /\ c.at = "discover" /\ Discovered(j)
  BY DEF DiscoverAnswered, DiscoverFailed, After
<1>3. c.left = {} /\ Stale(c) = {} /\ ui.session # "none"
  BY <1>1, <1>2 DEF CallOK, Writes, Stale, Fresh
<1>4. srv' = srv
  BY <1>1, FailureMoves DEF DiscoverAnswered, DiscoverFailed
<1>5. gh'.staged = gh.staged /\ gh'.live = gh.live /\ gh'.draft = gh.draft
  BY <1>1 DEF DiscoverAnswered, DiscoverFailed, GitHubStates
<1>6. /\ ui'.session = ui.session /\ ui'.setup = ui.setup /\ Returned(j)
      /\ oci' = oci /\ pages' = pages
  BY <1>1, <1>2 DEF Discovered, EndRefresh, UiStates
<1>7. SameScreen /\ ShownBut({})
  BY <1>3, <1>5, <1>6 DEF SameScreen
<1>8. EditorLive' /\ BlankShown'
  BY <1>3, <1>4, <1>6, <1>7 DEF ShownBut, EditorLive, BlankShown
<1> QED
  BY <1>1, <1>3, <1>4, <1>6, <1>7, <1>8, ReturnLands

\* A handler that has read what it changed ends, or refreshes the workspace.
LEMMA EndsOfLoadsLand ==
  ASSUME CInv, NEW j \in Slots, NEW c \in Calls, work[j] = c, Fresh(c), ShownBut(Stale(c)),
         Settled(j) \/ Reloaded(j)
  PROVE  \E d \in Calls : Lands(j, d)
<1>1. /\ ui \in UiStates /\ pages \in PageStates /\ srv \in Services /\ TypeOK
  BY ScreenTypes DEF CInv
<1>2. /\ c.left = {} /\ c.at \in {"settle", "reload"} /\ ui.session # "none"
  BY DEF Settled, Reloaded, After, Fresh
<1>3. CASE Finish(j) /\ ~(c.at = "reload" /\ c.done)
  <2>1. /\ Returned(j) /\ srv' = srv /\ ui' = ui /\ gh' = gh /\ oci' = oci
        /\ pages' = RowReleased(c.do)
    BY <1>3 DEF Finish
  <2>2. /\ pages'.loaded = pages.loaded /\ pages'.policies = pages.policies
        /\ pages'.recipes = pages.recipes /\ pages'.builds = pages.builds
        /\ pages'.recipe = pages.recipe
    BY <1>1, <2>1 DEF RowReleased, PageStates
  <2>3. ShownBut({})
    <3>1. Stale(c) = {}
      BY <1>2, <1>3 DEF Stale
    <3> QED
      BY <3>1
  <2>4. SameScreen
    BY <2>1, <2>2 DEF SameScreen
  <2>5. EditorLive' /\ BlankShown'
    BY <1>2, <2>1, <2>2, <2>3 DEF ShownBut, EditorLive, BlankShown
  <2> QED
    BY <1>1, <1>2, <2>1, <2>3, <2>4, <2>5, ReturnLands, IdleCall
<1>4. CASE /\ StartRefresh(j, srv) /\ srv' = srv /\ pages' = pages
  <2>1. GoOn(j, "session", {}, srv) /\ ui'.session = ui.session /\ {} \in SUBSET Loads
    BY <1>1, <1>4 DEF StartRefresh, UiStates
  <2>2. PICK d \in Calls : Awaits(j, c, d, "session", {})
    BY <1>1, <1>4, <2>1, GoesOnLands
  <2>3. Stale(d) = Parts
    BY <2>2 DEF Awaits, Stale
  <2>4. EditorLive' /\ BlankShown'
    BY <1>2, <1>4, <2>1 DEF ShownBut, EditorLive, BlankShown
  <2>5. ShownBut(Parts)'
    BY <2>4 DEF ShownBut, Parts
  <2>6. ShownBut(Stale(d))'
    BY <2>3, <2>5
  <2> QED
    BY <2>2, <2>6 DEF Lands, Awaits
<1> QED
  BY <1>3, <1>4 DEF Settled, Reloaded, After
-----------------------------------------------------------------------------
(* The handlers together                                                    *)

\* A handler in flight is not idle, and a mishap is not undone.
LEMMA StepsOfWork ==
  ASSUME CInv, NEW j \in Slots, HandlerStep(j)
  PROVE  work[j] # Idle /\ (clean' /\ ~AppCreated(j) => clean)
<1>1. TypeOK
  BY DEF CInv
<1>2. CASE RefreshSteps(j)
  <2>1. work[j].at # "idle" \/ work[j].left # {}
    BY <1>2
       DEF RefreshSteps, SessionAnswered, SessionLost, SetupAnswered, WizardLoaded,
           BatchLoaded, BatchRefused, BatchLost, GateAnswered, DraftAnswered,
           DiscoverAnswered, DiscoverFailed, LoadAnswered, Settled, Reloaded, After
  <2>2. clean' => clean
    <3>1. CASE \/ SessionAnswered(j) \/ SessionLost(j) \/ WizardLoaded(j) \/ BatchLoaded(j)
               \/ BatchRefused(j) \/ BatchLost(j) \/ GateAnswered(j) \/ DiscoverAnswered(j)
               \/ Settled(j) \/ Reloaded(j)
      BY <3>1
         DEF SessionAnswered, SessionLost, WizardLoaded, BatchLoaded, BatchRefused,
             BatchLost, GateAnswered, DiscoverAnswered, Settled, Reloaded, Finish
    <3>2. CASE SetupAnswered(j) \/ DraftAnswered(j) \/ LoadAnswered(j)
      BY <3>2 DEF SetupAnswered, DraftAnswered, LoadAnswered, Answer
    <3>3. CASE DiscoverFailed(j)
      BY <1>1, <3>3, FailureMoves DEF DiscoverFailed
    <3> QED
      BY <1>2, <3>1, <3>2, <3>3 DEF RefreshSteps
  <2> QED
    BY <2>1, <2>2, IdleCall
<1>3. CASE \/ RefreshingAnswered(j) \/ LogoutAnswered(j) \/ VerifyAnswered(j) \/ Staged(j)
           \/ RoutePromoted(j) \/ Denied(j) \/ Unstaged(j) \/ Discarded(j)
           \/ CredentialTested(j) \/ CredentialSaved(j) \/ CredentialCleared(j)
           \/ RuntimeSaved(j) \/ RuntimeCleared(j) \/ RecipeSaved(j) \/ RecipeDropped(j)
           \/ BuildPromoted(j) \/ BuildsChanged(j) \/ LookupAnswered(j)
  <2>1. work[j].at # "idle"
    BY <1>3
       DEF RefreshingAnswered, Refreshing, LogoutAnswered, VerifyAnswered, Staged,
           RoutePromoted, Denied, Unstaged, Discarded, CredentialTested, CredentialSaved,
           CredentialCleared, RuntimeSaved, RuntimeCleared, RecipeSaved, RecipeDropped,
           BuildPromoted, BuildsChanged, LookupAnswered, After
  <2>2. clean' = clean
    BY <1>3
       DEF RefreshingAnswered, LogoutAnswered, VerifyAnswered, Staged, RoutePromoted, Denied,
           Unstaged, Discarded, CredentialTested, CredentialSaved, CredentialCleared,
           RuntimeSaved, RuntimeCleared, RecipeSaved, RecipeDropped, BuildPromoted,
           BuildsChanged, LookupAnswered, Accepted
  <2> QED
    BY <2>1, <2>2, IdleCall
<1>4. CASE \/ DraftDropped(j) \/ PromoteFailed(j) \/ DiscardFailed(j) \/ Inspected(j)
           \/ WriteFailed(j)
  <2>1. work[j].at # "idle"
    BY <1>4
       DEF DraftDropped, PromoteFailed, DiscardFailed, Inspected, WriteFailed, After, Writes
  <2>2. clean' => clean
    BY <1>1, <1>4, FailureMoves
       DEF DraftDropped, PromoteFailed, DiscardFailed, Inspected, WriteFailed, Accepted
  <2> QED
    BY <2>1, <2>2, IdleCall
<1>5. CASE AppCreated(j)
  BY <1>5, IdleCall DEF AppCreated, After
<1> QED
  BY <1>2, <1>3, <1>4, <1>5 DEF HandlerStep

\* A handler that runs alone has on the screen what it will not read again.
LEMMA HandlersLand ==
  ASSUME CInv, NEW j \in Slots, NEW c \in Calls, work[j] = c, Fresh(c), ShownBut(Stale(c)),
         HandlerStep(j), ~AppCreated(j), clean'
  PROVE  \E d \in Calls : Lands(j, d)
<1>1. CASE RefreshSteps(j)
  <2>1. ~SessionLost(j) /\ ~BatchLost(j)
    BY DEF SessionLost, BatchLost
  <2>2. ~BatchRefused(j) /\ ~GateAnswered(j)
    BY DEF BatchRefused, GateAnswered, After, Fresh
  <2>3. CASE SessionAnswered(j)
    BY <2>3, SessionLands
  <2>4. CASE SetupAnswered(j)
    BY <2>4, SetupLands
  <2>5. CASE WizardLoaded(j) \/ BatchLoaded(j)
    BY <2>5, DraftAsked
  <2>6. CASE DraftAnswered(j)
    BY <2>6, DraftLands
  <2>7. CASE DiscoverAnswered(j) \/ DiscoverFailed(j)
    BY <2>7, DiscoverLands, IdleCall
  <2>8. CASE LoadAnswered(j)
    BY <2>8, LoadLands
  <2>9. CASE Settled(j) \/ Reloaded(j)
    BY <2>9, EndsOfLoadsLand
  <2> QED
    BY <1>1, <2>1, <2>2, <2>3, <2>4, <2>5, <2>6, <2>7, <2>8, <2>9 DEF RefreshSteps
<1>2. CASE RefreshingAnswered(j)
  BY <1>2, RefreshingLands
<1>3. CASE LogoutAnswered(j) \/ Discarded(j)
  BY <1>3, ResetsLand, IdleCall
<1>4. CASE \/ VerifyAnswered(j) \/ RoutePromoted(j) \/ Unstaged(j)
           \/ CredentialTested(j) \/ CredentialSaved(j) \/ RecipeSaved(j) \/ RecipeDropped(j)
           \/ BuildPromoted(j) \/ BuildsChanged(j)
  BY <1>4, AnswersLand
<1>5. CASE Staged(j)
  BY <1>5, StagedLands
<1>6. CASE DraftDropped(j)
  BY <1>6, DroppedLands
<1>7. CASE PromoteFailed(j)
  BY <1>7, PromoteLands
<1>8. CASE \/ Denied(j) \/ DiscardFailed(j) \/ Inspected(j) \/ LookupAnswered(j)
           \/ WriteFailed(j)
  BY <1>8, EndsLand, IdleCall
<1>9. CASE RuntimeSaved(j) \/ RuntimeCleared(j) \/ CredentialCleared(j)
  BY <1>9, StatusesLand
<1> QED
  BY <1>1, <1>2, <1>3, <1>4, <1>5, <1>6, <1>7, <1>8, <1>9 DEF HandlerStep

\* The screen stays right behind the handlers.
LEMMA HandlersShow ==
  ASSUME CInv, CleanInv, NEW j \in Slots, HandlerStep(j), ~AppCreated(j)
  PROVE  CleanInv'
<1> SUFFICES ASSUME clean' PROVE CleanInv'
  BY DEF CleanInv
<1>1. clean /\ work[j] # Idle
  BY StepsOfWork
<1>2. PICK k \in Slots : Alone(k) /\ Fresh(work[k]) /\ ShownBut(Stale(work[k]))
  BY <1>1 DEF CleanInv
<1>3. k = j
  BY <1>1, <1>2 DEF Alone
<1>4. PICK c \in Calls : work[j] = c
  BY DEF CInv, TypeOK
<1>5. Fresh(c) /\ ShownBut(Stale(c)) /\ Alone(j)
  BY <1>2, <1>3, <1>4
<1>6. PICK d \in Calls : Lands(j, d)
  BY <1>4, <1>5, HandlersLand
<1>7. work \in [Slots -> Calls] /\ work' = [work EXCEPT ![j] = d]
  BY <1>6 DEF CInv, TypeOK, Lands, MovedTo
<1>8. work'[j] = d /\ Alone(j)'
  BY <1>5, <1>7 DEF Alone
<1>9. Fresh(d)' /\ ShownBut(Stale(d))'
  BY <1>6 DEF Lands
<1>10. Fresh(work[j])' /\ ShownBut(Stale(work[j]))'
  BY <1>8, <1>9
<1> QED
  BY <1>8, <1>10 DEF CleanInv
-----------------------------------------------------------------------------
(* The commands                                                             *)

\* A page that loads is blank, and asks for everything.
LEMMA LoadsShow ==
  ASSUME NEW s \in Services, NEW m, PageLoads(s, m)
  PROVE  CleanInv'
<1>1. 1 \in Slots
  BY ConsoleBounds DEF Slots
<1> DEFINE c == RefreshCall(s)
<1>2. c.at = "session" /\ c.left = {} /\ c.sent = s
  BY DEF RefreshCall, Idle
<1>3. /\ srv' = s /\ gh' = BlankGitHub /\ oci' = BlankOci /\ pages' = BlankPages
      /\ work' = [j \in Slots |-> IF j = 1 THEN c ELSE Idle]
  BY DEF PageLoads
<1> HIDE DEF c
<1>4. work'[1] = c /\ Alone(1)'
  BY <1>1, <1>3 DEF Alone
<1>5. Fresh(c)'
  BY <1>2, <1>3 DEF Fresh
<1>6. Stale(c) = Parts
  BY <1>2 DEF Stale
<1>7. EditorLive' /\ BlankShown'
  BY <1>3 DEF EditorLive, BlankShown, BlankPages, WithoutData
<1>8. ShownBut(Parts)'
  BY <1>7 DEF ShownBut, Parts
<1>9. Fresh(work[1])' /\ ShownBut(Stale(work[1]))'
  BY <1>4, <1>5, <1>6, <1>8
<1> QED
  BY <1>1, <1>4, <1>9 DEF CleanInv

\* With no handler in flight, all of the screen is right.
LEMMA QuietShows ==
  ASSUME CleanInv, Quiet, clean
  PROVE  ShownBut({})
<1>1. PICK j \in Slots : ShownBut(Stale(work[j]))
  BY DEF CleanInv
<1>2. Stale(work[j]) = {}
  BY FreeSlot DEF Quiet
<1> QED
  BY <1>1, <1>2

\* The workspace is shown to an operator who may see it.
LEMMA WorkspaceReady ==
  ASSUME ShownBut({}), Workspace
  PROVE  ui.session = "full" /\ srv.session = "full" /\ Ready(srv) /\ pages.recipes = srv.recipes
<1>1. ui.session = "full" /\ srv.session = "full"
  BY DEF ShownBut, SessionShown, Workspace, BlankSetup
<1>2. Ready(srv)
  BY <1>1 DEF ShownBut, SetupShown, Workspace, SetupOf
<1> QED
  BY <1>1, <1>2 DEF ShownBut, ImagesShown

\* A button sends a write, and shows nothing of the service otherwise than before.
LEMMA LaunchShows ==
  ASSUME CInv, CleanInv, NEW c, Launch(c), c.at \in Writes, c.left = {}, c.do # "refresh",
         c.at \in {"dropDraft", "promote"} => c.do # "save",
         c.at = "dropRecipe" => c.held = (pages.recipe = c.arg),
         c.at = "buildPromote" => Workspace,
         ui.session # "none" \/ (c.at = "login" /\ UNCHANGED screen),
         SameScreen, pages'.recipe = pages.recipe
  PROVE  CleanInv'
<1> SUFFICES ASSUME clean' PROVE CleanInv'
  BY DEF CleanInv
<1>1. Quiet /\ clean /\ srv' = srv
  BY DEF Launch
<1>2. ShownBut({})
  BY <1>1, QuietShows
<1>3. PICK j \in Slots : work' = [work EXCEPT ![j] = c]
  BY DEF Launch
<1>4. work'[j] = c /\ Alone(j)'
  BY <1>1, <1>3 DEF CInv, TypeOK, Alone, Quiet
<1>5. Stale(c) = {}
  BY DEF Stale, Writes
<1>6. Fresh(c)'
  <2>1. c.at = "buildPromote" => Ready(srv)
    BY <1>2, WorkspaceReady
  <2>2. ui'.session = "none" => c.at = "login"
    BY DEF SameScreen
  <2> QED
    BY <1>1, <2>1, <2>2 DEF Fresh, Writes
<1>7. EditorLive' /\ BlankShown'
  BY <1>1, <1>2 DEF ShownBut, EditorLive, BlankShown, SameScreen, screen
<1>8. ShownBut({})'
  BY <1>1, <1>2, <1>7, SameShown
<1>9. Fresh(work[j])' /\ ShownBut(Stale(work[j]))'
  BY <1>4, <1>5, <1>6, <1>8
<1> QED
  BY <1>4, <1>9 DEF CleanInv

\* The call of a button that is no row's.
Sends(c) ==
  /\ Launch(c) /\ c.left = {} /\ c.do # "refresh"
  /\ c.at \in Writes \ {"dropRecipe", "buildPromote"}
  /\ c.at \in {"dropDraft", "promote"} => c.do # "save"

\* The buttons of the session, the GitHub page and the OCI page.
LEMMA PageButtonsShow ==
  ASSUME CInv, CleanInv,
         \/ Login \/ Logout \/ ChangePassword \/ Cleanup \/ TerminateRunner
         \/ Verify \/ Save \/ Promote \/ ClearStaged \/ CreateApp \/ FindInstallation
         \/ DiscardDraft \/ UploadConfig \/ TestCredential \/ SaveCredential
         \/ ClearCredential \/ SaveRuntime \/ ClearRuntime
  PROVE  CleanInv'
<1>1. gh \in GitHubStates
  BY ScreenTypes DEF CInv
<1>2. ui' = ui /\ oci' = oci /\ pages' = pages
  BY DEF Login, Logout, ChangePassword, Cleanup, TerminateRunner, Verify, Save, Promote,
         ClearStaged, CreateApp, FindInstallation, DiscardDraft, UploadConfig, TestCredential,
         SaveCredential, ClearCredential, SaveRuntime, ClearRuntime, CredentialCall,
         RuntimeCall, screen
<1>3. gh'.staged = gh.staged /\ gh'.live = gh.live /\ gh'.draft = gh.draft
  BY <1>1
     DEF Login, Logout, ChangePassword, Cleanup, TerminateRunner, Verify, Save, Promote,
         ClearStaged, CreateApp, FindInstallation, DiscardDraft, UploadConfig, TestCredential,
         SaveCredential, ClearCredential, SaveRuntime, ClearRuntime, CredentialCall,
         RuntimeCall, screen, GitHubStates
<1>4. SameScreen
  BY <1>2, <1>3 DEF SameScreen
<1>5. ui.session # "none" \/ (Login /\ UNCHANGED screen)
  <2>1. CASE Login
    BY <2>1 DEF Login
  <2>2. CASE ~Login
    BY <2>2
       DEF Logout, SignedIn, ChangePassword, OnTask, Wizard, NeedsSetup, Cleanup, Workspace,
           TerminateRunner, Verify, VerifyShown, Credentials, Connect, Settings, Save,
           SaveEnabled, Repositories, Promote, SetupMode, ClearStaged, CreateApp,
           FindInstallation, DiscardDraft, UploadConfig, OnCredential, TestCredential,
           SaveCredential, ClearCredential, SaveRuntime, OnRuntime, ClearRuntime
  <2> QED
    BY <2>1, <2>2
<1>6. PICK c : Sends(c) /\ (Login => c.at = "login")
  <2>1. \A do, at : /\ Call(do, at).do = do /\ Call(do, at).at = at
                    /\ Call(do, at).left = {}
    BY DEF Call, Idle
  <2>2. ASSUME NEW at \in {"login", "logout", "password", "cleanup", "terminate", "inspect",
                           "runtimeSave", "runtimeClear"},
               Launch(Call(at, at))
        PROVE  Sends(Call(at, at)) /\ Call(at, at).at = at
    BY <2>1, <2>2 DEF Sends, Writes
  <2>3. CASE Login
    BY <2>2, <2>3 DEF Login
  <2>4. CASE ~Login /\ (Logout \/ ChangePassword \/ Cleanup \/ TerminateRunner \/ UploadConfig)
    BY <2>2, <2>4 DEF Logout, ChangePassword, Cleanup, TerminateRunner, UploadConfig
  <2>5. CASE ~Login /\ (SaveRuntime \/ ClearRuntime)
    BY <2>2, <2>5 DEF SaveRuntime, ClearRuntime, RuntimeCall
  <2>6. CASE ~Login /\ (TestCredential \/ SaveCredential \/ ClearCredential)
    <3>1. PICK do \in {"credentialTest", "credentialSave", "credentialClear"} :
            Launch([Call(do, do) EXCEPT !.held = oci.config /\ oci.key])
      BY <2>6 DEF TestCredential, SaveCredential, ClearCredential, CredentialCall
    <3> DEFINE c == [Call(do, do) EXCEPT !.held = oci.config /\ oci.key]
    <3>2. c.do = do /\ c.at = do /\ c.left = {}
      BY DEF Call, Idle
    <3> HIDE DEF c
    <3>3. Sends(c)
      BY <3>1, <3>2 DEF Sends, Writes, c
    <3> QED
      BY <2>6, <3>3
  <2>7. CASE ~Login /\ Verify
    <3> DEFINE c == [Call("verify", "verify") EXCEPT !.form = gh.form]
    <3>1. c.do = "verify" /\ c.at = "verify" /\ c.left = {} /\ Launch(c)
      BY <2>7 DEF Call, Idle, Verify
    <3> HIDE DEF c
    <3> QED
      BY <2>7, <3>1 DEF Sends, Writes
  <2>8. CASE ~Login /\ Save
    <3> DEFINE c == [Call("save", "stage") EXCEPT
                       !.form = gh.form, !.held = gh.draft # "none", !.auto = SetupMode]
    <3>1. c.do = "save" /\ c.at = "stage" /\ c.left = {} /\ Launch(c)
      BY <2>8 DEF Call, Idle, Save
    <3> HIDE DEF c
    <3> QED
      BY <2>8, <3>1 DEF Sends, Writes
  <2>9. CASE ~Login /\ Promote
    <3> DEFINE c == [Call("promote", "promote") EXCEPT !.auto = SetupMode]
    <3>1. c.do = "promote" /\ c.at = "promote" /\ c.left = {} /\ Launch(c)
      BY <2>9 DEF Call, Idle, Promote
    <3> HIDE DEF c
    <3> QED
      BY <2>9, <3>1 DEF Sends, Writes
  <2>10. CASE ~Login /\ (ClearStaged \/ CreateApp \/ FindInstallation \/ DiscardDraft)
    <3>1. PICK do \in {"clear", "create", "discover", "discard"},
               at \in {"unstage", "startManifest", "discover", "dropDraft"} : Launch(Call(do, at))
      BY <2>10 DEF ClearStaged, CreateApp, FindInstallation, DiscardDraft
    <3>2. Sends(Call(do, at))
      BY <2>1, <3>1 DEF Sends, Writes
    <3> QED
      BY <2>10, <3>2
  <2> QED
    BY <2>3, <2>4, <2>5, <2>6, <2>7, <2>8, <2>9, <2>10
<1>7. /\ Launch(c) /\ c.left = {} /\ c.do # "refresh"
      /\ c.at \in Writes \ {"dropRecipe", "buildPromote"}
      /\ c.at \in {"dropDraft", "promote"} => c.do # "save"
  BY <1>6 DEF Sends
<1>8. ui.session # "none" \/ (c.at = "login" /\ UNCHANGED screen)
  BY <1>5, <1>6
<1> QED
  BY <1>2, <1>4, <1>7, <1>8, LaunchShows

\* The buttons of the lists.
LEMMA RowButtonsShow ==
  ASSUME CInv, CleanInv,
         \/ SavePolicy \/ DeletePolicy \/ SaveRecipe \/ DeleteRecipe \/ CreateBuild
         \/ PromoteBuild \/ Reconcile \/ CheckCompatibility \/ Diagnose
  PROVE  CleanInv'
<1>1. pages \in PageStates
  BY ScreenTypes DEF CInv
<1>2. ui' = ui /\ gh' = gh /\ oci' = oci /\ Workspace
  BY DEF SavePolicy, DeletePolicy, SaveRecipe, DeleteRecipe, CreateBuild, PromoteBuild,
         Reconcile, CheckCompatibility, Diagnose, screen
<1>3. /\ pages'.loaded = pages.loaded /\ pages'.policies = pages.policies
      /\ pages'.recipes = pages.recipes /\ pages'.builds = pages.builds
      /\ pages'.recipe = pages.recipe
  BY <1>1
     DEF SavePolicy, DeletePolicy, SaveRecipe, DeleteRecipe, CreateBuild, PromoteBuild,
         Reconcile, CheckCompatibility, Diagnose, screen, PageStates
<1>4. SameScreen /\ ui.session # "none"
  BY <1>2, <1>3 DEF SameScreen, Workspace
<1>5. PICK c : /\ Launch(c) /\ c.at \in Writes \ {"dropDraft", "promote", "login"}
               /\ c.left = {} /\ c.do # "refresh"
               /\ c.at = "dropRecipe" => c.held = (pages.recipe = c.arg)
  <2>1. CASE SavePolicy \/ SaveRecipe
    <3>1. PICK do \in {"policySave", "recipeSave"}, at \in {"putPolicy", "putRecipe"},
               a \in {pages.policy, pages.recipe} : Launch([Call(do, at) EXCEPT !.arg = a])
      BY <2>1 DEF SavePolicy, SaveRecipe
    <3> DEFINE c == [Call(do, at) EXCEPT !.arg = a]
    <3>2. c.do = do /\ c.at = at /\ c.left = {} /\ Launch(c)
      BY <3>1 DEF Call, Idle
    <3> HIDE DEF c
    <3> QED
      BY <3>1, <3>2 DEF Writes
  <2>2. CASE DeletePolicy
    <3>1. PICK p \in pages.policies : Launch([Call("policyDelete", "dropPolicy") EXCEPT !.arg = p])
      BY <2>2 DEF DeletePolicy
    <3> DEFINE c == [Call("policyDelete", "dropPolicy") EXCEPT !.arg = p]
    <3>2. c.do = "policyDelete" /\ c.at = "dropPolicy" /\ c.left = {} /\ Launch(c)
      BY <3>1 DEF Call, Idle
    <3> HIDE DEF c
    <3> QED
      BY <3>2 DEF Writes
  <2>3. CASE DeleteRecipe
    <3>1. PICK r \in pages.recipes :
            Launch([Call("recipeDelete", "dropRecipe") EXCEPT
                      !.arg = r, !.held = pages.recipe = r])
      BY <2>3 DEF DeleteRecipe
    <3> DEFINE c == [Call("recipeDelete", "dropRecipe") EXCEPT
                       !.arg = r, !.held = pages.recipe = r]
    <3>2. /\ c.do = "recipeDelete" /\ c.at = "dropRecipe" /\ c.left = {} /\ Launch(c)
          /\ c.arg = r /\ c.held = (pages.recipe = r)
      BY <3>1 DEF Call, Idle
    <3> HIDE DEF c
    <3> QED
      BY <3>2 DEF Writes
  <2>4. CASE CreateBuild \/ PromoteBuild
    <3>1. PICK do \in {"buildCreate", "buildPromote"}, r \in pages.recipes \union Recipes :
            Launch([Call(do, do) EXCEPT !.arg = r])
      BY <2>4 DEF CreateBuild, PromoteBuild
    <3> DEFINE c == [Call(do, do) EXCEPT !.arg = r]
    <3>2. c.do = do /\ c.at = do /\ c.left = {} /\ Launch(c)
      BY <3>1 DEF Call, Idle
    <3> HIDE DEF c
    <3> QED
      BY <3>1, <3>2 DEF Writes
  <2>5. CASE Reconcile \/ CheckCompatibility \/ Diagnose
    <3>1. PICK do \in {"reconcile", "compat", "diagnose"} : Launch(Call(do, do))
      BY <2>5 DEF Reconcile, CheckCompatibility, Diagnose
    <3>2. Call(do, do).do = do /\ Call(do, do).at = do /\ Call(do, do).left = {}
      BY DEF Call, Idle
    <3> QED
      BY <3>1, <3>2 DEF Writes
  <2> QED
    BY <2>1, <2>2, <2>3, <2>4, <2>5
<1> QED
  BY <1>2, <1>3, <1>4, <1>5, LaunchShows

\* The refreshes: the one of everything makes the screen right again, however it was.
LEMMA RefreshesShow ==
  ASSUME CInv, CleanInv, Refresh \/ RefreshImages
  PROVE  CleanInv'
<1> SUFFICES ASSUME clean' PROVE CleanInv'
  BY DEF CleanInv
<1>1. ui \in UiStates /\ work \in [Slots -> Calls]
  BY ScreenTypes DEF CInv
<1>2. gh' = gh /\ oci' = oci /\ pages' = pages /\ ui'.session = ui.session /\ ui.session # "none"
  BY <1>1 DEF Refresh, RefreshImages, screen, UiStates, SignedIn, Workspace
<1>3. BlankShown'
  BY <1>2 DEF BlankShown
<1>4. CASE Refresh
  <2>0. PICK c : c = RefreshCall(srv)
    OBVIOUS
  <2>1. c.do = "refresh" /\ c.at = "session" /\ c.left = {} /\ c.sent = srv
    BY <2>0 DEF RefreshCall, Idle
  <2>2. Launch(c)
    BY <1>4, <2>0 DEF Refresh
  <2>3. Quiet /\ srv' = srv /\ (clean \/ pages.recipe = Nobody)
    BY <2>2 DEF Launch
  <2>4. PICK j \in Slots : work' = [work EXCEPT ![j] = c]
    BY <2>2 DEF Launch
  <2>5. work'[j] = c /\ Alone(j)'
    BY <1>1, <2>3, <2>4 DEF Alone, Quiet
  <2>6. EditorLive'
    <3>1. CASE clean
      BY <1>2, <2>3, <3>1, QuietShows DEF ShownBut, EditorLive
    <3>2. CASE pages.recipe = Nobody
      BY <1>2, <3>2 DEF EditorLive
    <3> QED
      BY <2>3, <3>1, <3>2
  <2>7. Stale(c) = Parts /\ ShownBut(Parts)'
    BY <1>3, <2>1, <2>6 DEF Stale, ShownBut, Parts
  <2>8. Fresh(c)'
    BY <2>1, <2>3 DEF Fresh
  <2>9. Fresh(work[j])' /\ ShownBut(Stale(work[j]))'
    BY <2>5, <2>7, <2>8
  <2> QED
    BY <2>5, <2>9 DEF CleanInv
<1>5. CASE RefreshImages
  <2>0. PICK c : c = Reading("imagesRefresh", "settle", {"images"})
    OBVIOUS
  <2>1. c.do = "imagesRefresh" /\ c.at = "settle" /\ c.left = {"images"} /\ c.sent = srv
    BY <2>0 DEF Reading, Call, Idle
  <2>2. Launch(c)
    BY <1>5, <2>0 DEF RefreshImages
  <2>3. Quiet /\ clean /\ srv' = srv
    BY <2>1, <2>2 DEF Launch
  <2>4. PICK j \in Slots : work' = [work EXCEPT ![j] = c]
    BY <2>2 DEF Launch
  <2>5. work'[j] = c /\ Alone(j)'
    BY <1>1, <2>3, <2>4 DEF Alone, Quiet
  <2>6. ui' = ui /\ ShownBut({})
    BY <1>5, <2>3, QuietShows DEF RefreshImages, screen
  <2>7. EditorLive' /\ SameScreen
    BY <1>2, <2>3, <2>6 DEF ShownBut, EditorLive, SameScreen
  <2>8. ShownBut({"images"})'
    BY <1>3, <2>3, <2>6, <2>7, SameShown
  <2>9. Stale(c) = {"images"} /\ Fresh(c)'
    BY <1>2, <2>1, <2>3 DEF Stale, Fresh
  <2>10. Fresh(work[j])' /\ ShownBut(Stale(work[j]))'
    BY <2>5, <2>8, <2>9
  <2> QED
    BY <2>5, <2>10 DEF CleanInv
<1> QED
  BY <1>4, <1>5

\* The edits: a recipe that is opened is one the service has.
LEMMA EditsShow ==
  ASSUME CInv, CleanInv,
         \/ SelectTask \/ ChangeMode \/ TypeRoute \/ ChooseInstallation \/ ToggleRepositories
         \/ FillCredential \/ EditPolicy \/ EditRecipe \/ CheckIncomplete
  PROVE  CleanInv'
<1> SUFFICES ASSUME clean' PROVE CleanInv'
  BY DEF CleanInv
<1>1. ui \in UiStates /\ gh \in GitHubStates /\ oci \in OciStates /\ pages \in PageStates
  BY ScreenTypes DEF CInv
<1>2. Edit
  BY DEF SelectTask, ChangeMode, TypeRoute, ChooseInstallation, ToggleRepositories,
         FillCredential, EditPolicy, EditRecipe, CheckIncomplete
<1>3. srv' = srv /\ work' = work /\ clean /\ Quiet
  BY <1>2 DEF Edit
<1>4. ShownBut({})
  BY <1>3, QuietShows
<1>5. ui'.session = ui.session /\ ui'.setup = ui.setup
  <2>1. CASE SelectTask
    <3>1. PICK t : ui' = [ui EXCEPT !.task = t]
      BY <2>1 DEF SelectTask
    <3> QED
      BY <1>1, <3>1 DEF UiStates
  <2>2. CASE ui' = ui
    BY <2>2
  <2> QED
    BY <2>1, <2>2
       DEF ChangeMode, TypeRoute, ChooseInstallation, ToggleRepositories, FillCredential,
           EditPolicy, EditRecipe, CheckIncomplete
<1>6. gh'.staged = gh.staged /\ gh'.live = gh.live /\ gh'.draft = gh.draft
  <2>1. CASE gh' = gh
    BY <2>1
  <2>2. CASE ChangeMode
    BY <1>1, <2>2 DEF ChangeMode, GitHubStates
  <2>3. CASE TypeRoute
    BY <1>1, <2>3 DEF TypeRoute, GitHubStates
  <2>4. CASE ChooseInstallation \/ ToggleRepositories
    BY <1>1, <2>4 DEF ChooseInstallation, ToggleRepositories, GitHubStates
  <2> QED
    BY <2>1, <2>2, <2>3, <2>4
       DEF SelectTask, FillCredential, EditPolicy, EditRecipe, CheckIncomplete
<1>7. oci'.credential = oci.credential /\ oci'.runtime = oci.runtime
  <2>1. CASE FillCredential
    BY <1>1, <2>1 DEF FillCredential, OciStates
  <2>2. CASE oci' = oci
    BY <2>2
  <2> QED
    BY <2>1, <2>2
       DEF SelectTask, ChangeMode, TypeRoute, ChooseInstallation, ToggleRepositories,
           EditPolicy, EditRecipe, CheckIncomplete
<1>8. /\ pages'.loaded = pages.loaded /\ pages'.policies = pages.policies
      /\ pages'.recipes = pages.recipes /\ pages'.builds = pages.builds
      /\ pages'.recipe \in srv.recipes \union {Nobody}
  <2>1. CASE pages' = pages
    BY <1>4, <2>1 DEF ShownBut, EditorLive
  <2>2. CASE EditPolicy
    BY <1>1, <1>4, <2>2 DEF EditPolicy, PageStates, ShownBut, EditorLive
  <2>3. CASE EditRecipe
    <3>1. Workspace
      BY <2>3 DEF EditRecipe
    <3>2. pages.recipes = srv.recipes
      BY <1>4, <3>1, WorkspaceReady
    <3> QED
      BY <1>1, <2>3, <3>2 DEF EditRecipe, PageStates
  <2>4. CASE CheckIncomplete
    BY <1>1, <1>4, <2>4 DEF CheckIncomplete, PageStates, ShownBut, EditorLive
  <2> QED
    BY <2>1, <2>2, <2>3, <2>4
       DEF SelectTask, ChangeMode, TypeRoute, ChooseInstallation, ToggleRepositories,
           FillCredential
<1>9. ui.session # "none"
  BY DEF SelectTask, ChangeMode, TypeRoute, ChooseInstallation, ToggleRepositories,
         FillCredential, EditPolicy, EditRecipe, CheckIncomplete, Wizard, NeedsSetup,
         Workspace, Credentials, Connect, Settings, OnTask, ChoicesShown, Repositories,
         OnCredential
<1>10. SameScreen /\ EditorLive' /\ BlankShown'
  BY <1>3, <1>5, <1>6, <1>7, <1>8, <1>9 DEF SameScreen, EditorLive, BlankShown
<1>11. ShownBut({})'
  BY <1>3, <1>4, <1>10, SameShown
<1>12. 1 \in Slots /\ work'[1] = Idle
  BY <1>3, ConsoleBounds DEF Slots, Quiet
<1>13. Fresh(work[1])' /\ ShownBut(Stale(work[1]))' /\ Alone(1)'
  BY <1>3, <1>11, <1>12, FreeSlot DEF Alone, Quiet
<1> QED
  BY <1>12, <1>13 DEF CleanInv
-----------------------------------------------------------------------------
(* The screen                                                               *)

\* The page is open for the first time.
LEMMA FirstScreen ==
  ASSUME Init
  PROVE  CleanInv
<1>1. 1 \in Slots
  BY ConsoleBounds DEF Slots
<1> DEFINE c == RefreshCall(srv)
<1>2. c.at = "session" /\ c.left = {} /\ c.sent = srv
  BY DEF RefreshCall, Idle
<1>3. /\ gh = BlankGitHub /\ oci = BlankOci /\ pages = BlankPages
      /\ work = [j \in Slots |-> IF j = 1 THEN c ELSE Idle]
  BY DEF Init, FirstLoad
<1> HIDE DEF c
<1>4. work[1] = c /\ Alone(1)
  BY <1>1, <1>3 DEF Alone
<1>5. Fresh(c)
  BY <1>2 DEF Fresh
<1>6. Stale(c) = Parts
  BY <1>2 DEF Stale
<1>7. EditorLive /\ BlankShown
  BY <1>3 DEF EditorLive, BlankShown, BlankPages, WithoutData
<1>8. ShownBut(Parts)
  BY <1>7 DEF ShownBut, Parts
<1> QED
  BY <1>1, <1>4, <1>5, <1>6, <1>8 DEF CleanInv

\* The task follows the setup, the session or the draft ends, or the page is loaded again.
LEMMA OthersShow ==
  ASSUME CInv, CleanInv, \/ SyncTask \/ SessionExpires \/ DraftExpires \/ UNCHANGED vars \/ OpenPage
                         \/ \E j \in Slots : AppCreated(j)
  PROVE  CleanInv'
<1>1. /\ ui \in UiStates /\ srv \in Services /\ work \in [Slots -> Calls]
  BY ScreenTypes DEF CInv
<1>2. CASE SyncTask \/ UNCHANGED vars
  <2>1. /\ srv' = srv /\ gh' = gh /\ oci' = oci /\ pages' = pages /\ work' = work
        /\ clean' = clean
    BY <1>2 DEF SyncTask, vars
  <2>2. ui'.session = ui.session /\ ui'.setup = ui.setup
    <3>1. CASE SyncTask
      <4> DEFINE first == CurrentOrFirst(SetupFacts)
      <4> HIDE DEF first
      <4>1. SyncedUi = CASE ~NeedsSetup -> [ui EXCEPT !.ref = NoTask, !.task = TaskOrder[1]]
                       [] NeedsSetup /\ ui.ref # first -> [ui EXCEPT !.ref = first, !.task = first]
                       [] NeedsSetup /\ ui.ref = first /\ ui.task \notin EditableTasks(SetupFacts) ->
                            [ui EXCEPT !.task = first]
                       [] OTHER -> ui
        BY DEF SyncedUi, first
      <4>2. \/ SyncedUi = [ui EXCEPT !.ref = NoTask, !.task = TaskOrder[1]]
            \/ SyncedUi = [ui EXCEPT !.ref = first, !.task = first]
            \/ SyncedUi = [ui EXCEPT !.task = first]
            \/ SyncedUi = ui
        BY <4>1
      <4>3. SyncedUi.session = ui.session /\ SyncedUi.setup = ui.setup
        BY <1>1, <4>2 DEF UiStates
      <4> QED
        BY <3>1, <4>3 DEF SyncTask
    <3>2. CASE UNCHANGED vars
      BY <3>2 DEF vars
    <3> QED
      BY <1>2, <3>1, <3>2
  <2> SUFFICES ASSUME clean' PROVE CleanInv'
    BY DEF CleanInv
  <2>3. PICK j \in Slots : Alone(j) /\ Fresh(work[j]) /\ ShownBut(Stale(work[j]))
    BY <2>1 DEF CleanInv
  <2>4. PICK c : c = work[j]
    OBVIOUS
  <2>5. Fresh(c)'
    BY <2>1, <2>2, <2>3, <2>4 DEF Fresh
  <2>6. SameScreen /\ EditorLive' /\ BlankShown'
    BY <2>1, <2>2, <2>3 DEF SameScreen, ShownBut, EditorLive, BlankShown
  <2>7. PICK S : S = Stale(c)
    OBVIOUS
  <2>8. ShownBut(S)'
    BY <2>1, <2>3, <2>4, <2>6, <2>7, SameShown
  <2>9. Stale(c)' = Stale(c) /\ work'[j] = c /\ Alone(j)'
    BY <2>1, <2>3, <2>4 DEF Alone, Stale
  <2>10. Fresh(work[j])' /\ ShownBut(Stale(work[j]))'
    BY <2>5, <2>7, <2>8, <2>9
  <2> QED
    BY <2>9, <2>10 DEF CleanInv
<1>3. CASE SessionExpires \/ DraftExpires
  BY <1>3 DEF SessionExpires, DraftExpires, CleanInv
<1>4. CASE OpenPage
  <2>1. PICK s \in {srv} \union UNION {Effects(work[j], srv) : j \in WritesInFlight},
             m \in {"none", "installed"} : PageLoads(s, m)
    BY <1>4 DEF OpenPage
  <2>2. s \in Services
    BY <1>1, EffectTypes DEF WritesInFlight
  <2> QED
    BY <2>1, <2>2, LoadsShow
<1>5. ASSUME NEW j \in Slots, AppCreated(j) PROVE CleanInv'
  <2>1. [srv EXCEPT !.draft = "personal"] \in Services
        /\ [srv EXCEPT !.draft = "organization"] \in Services
    BY <1>1 DEF Services, Drafts
  <2>2. PICK s \in Services, m \in {"none", "created"} : PageLoads(s, m)
    BY <1>1, <1>5, <2>1 DEF AppCreated
  <2> QED
    BY <2>2, LoadsShow
<1> QED
  BY <1>2, <1>3, <1>4, <1>5

\* With no handler in flight and no mishap, the whole screen is right.
LEMMA WhatIsShown ==
  ASSUME CInv, CleanInv
  PROVE  ScreenMatchesService /\ SignedOutIsEmpty /\ RecipeEditorIsLive
<1> SUFFICES ASSUME Quiet, clean
             PROVE  ScreenMatchesService /\ SignedOutIsEmpty /\ RecipeEditorIsLive
  BY DEF ScreenMatchesService, SignedOutIsEmpty, RecipeEditorIsLive
<1>1. ShownBut({})
  BY QuietShows
<1>2. ui.session = "full" /\ ui.setup.completed => Ready(srv)
  BY <1>1 DEF ShownBut, SetupShown, SetupOf
<1>3. ScreenMatchesService
  BY <1>1, <1>2
     DEF ScreenMatchesService, ShownBut, SessionShown, SetupShown, ConfigShown, DraftShown,
         CredentialShown, RuntimeShown, ImagesShown, PoliciesShown
<1> QED
  BY <1>1, <1>3
     DEF ShownBut, SignedOutIsEmpty, RecipeEditorIsLive, EditorLive, BlankShown

(* While nothing has gone wrong and no two handlers have run at once, at most one handler is
   in flight, and the screen shows what the service holds but for what that handler has
   still to read: every handler of use-workspace-app.js asks again for all that its write
   has changed. *)
THEOREM ScreenInvariance == Spec => [](CInv /\ CleanInv)
<1>1. Init => CInv /\ CleanInv
  BY FirstInv, FirstScreen
<1>2. CInv /\ CleanInv /\ [Next]_vars => CInv' /\ CleanInv'
  <2> SUFFICES ASSUME CInv, CleanInv, [Next]_vars PROVE CInv' /\ CleanInv'
    OBVIOUS
  <2>1. CInv'
    BY StepsKeep
  <2>2. CASE \E j \in Slots : HandlerStep(j)
    BY <2>1, <2>2, HandlersShow, OthersShow
  <2>3. CASE Commands
    BY <2>1, <2>3, PageButtonsShow, RowButtonsShow, RefreshesShow, EditsShow, OthersShow
    DEF Commands
  <2>4. CASE SyncTask \/ SessionExpires \/ DraftExpires \/ UNCHANGED vars
    BY <2>1, <2>4, OthersShow
  <2> QED
    BY <2>1, <2>2, <2>3, <2>4 DEF Next
<1> QED
  BY <1>1, <1>2, PTL DEF Spec

(* When the last handler has returned the screen is the service: session, setup status,
   GitHub routes and draft, OCI statuses, policies, recipes and builds. *)
THEOREM ScreenIsRight == Spec => []ScreenMatchesService
<1>1. CInv /\ CleanInv => ScreenMatchesService
  BY WhatIsShown
<1> QED
  BY <1>1, ScreenInvariance, PTL

(* Signed out, the pages hold nothing of the session: resetProtectedState blanks what the
   handlers have loaded, and no late load fills it again. *)
THEOREM NothingIsLeftBehind == Spec => []SignedOutIsEmpty
<1>1. CInv /\ CleanInv => SignedOutIsEmpty
  BY WhatIsShown
<1> QED
  BY <1>1, ScreenInvariance, PTL

(* The recipe editor is never left open on a recipe that has been deleted. *)
THEOREM EditorsAreLive == Spec => []RecipeEditorIsLive
<1>1. CInv /\ CleanInv => RecipeEditorIsLive
  BY WhatIsShown
<1> QED
  BY <1>1, ScreenInvariance, PTL
===============================================================================
