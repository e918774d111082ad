----------------------------- MODULE ConsoleService -----------------------------
(***************************************************************************)
(* The service behind the console, as far as the console's calls change or *)
(* read it.                                                                *)
(***************************************************************************)
EXTENDS GitHubForms

CONSTANTS
  Policies, Recipes,
  Nobody            \* no policy, no recipe

ASSUME NobodyIsNone == Nobody \notin Policies \union Recipes

Sessions == {"none", "password", "full"}

(* The newest image build of a recipe: closed once it has failed or is promoted. *)
Builds == {"none", "running", "available", "closed"}
Services ==
  [session : Sessions, changed : BOOLEAN, staged : Routes \union {NoRoute},
   live : SUBSET Apps, draft : Drafts, credential : BOOLEAN, runtime : BOOLEAN,
   policies : SUBSET Policies, recipes : SUBSET Recipes, builds : [Recipes -> Builds]]

(* GET /api/v1/setup/status: a live GitHub route and a ready launch target. *)
Ready(s) == s.live # {} /\ s.runtime

(* normalizeSetupStatus of that answer, and createBlankSetupStatus. *)
SetupStatuses == [completed : BOOLEAN, runtime : BOOLEAN, bootstrap : BOOLEAN]
BlankSetup == [completed |-> FALSE, runtime |-> FALSE, bootstrap |-> FALSE]
SetupOf(s) ==
  [completed |-> Ready(s), runtime |-> s.runtime, bootstrap |-> s.runtime \/ s.credential]

(* POST staged/promote: the staged route needs its repositories; it joins the live
   routes and is staged no more. *)
Promoted(s) ==
  [s EXCEPT !.live = @ \union {s.staged.app}, !.staged = NoRoute]

(* A record with a new id, if the instance has one left. *)
Added(records, all) ==
  IF records = all THEN {} ELSE {records \union {CHOOSE x \in all \ records : TRUE}}

(* RunOnce: a build that is running goes on, becomes available or fails. *)
Advances(build) ==
  IF build = "running" THEN {"running", "available", "closed"} ELSE {build}
Reconciled(s) ==
  {[s EXCEPT !.builds = b] :
     b \in {f \in [Recipes -> Builds] : \A r \in Recipes : f[r] \in Advances(s.builds[r])}}

(* CreateBuild ends with a RunOnce, which starts the new build or fails it. *)
Built(s, r) ==
  {[t EXCEPT !.builds[r] = b] : t \in Reconciled(s), b \in {"running", "closed"}}

(* A session ends; the App draft is kept for the session that created it, and for an hour
   at most (DraftExpires in ConsoleApp). *)
Ended(s) == [s EXCEPT !.session = "none", !.draft = "none"]

(* The state the service can be in after a call, or {} when it refuses the call.
   A call is a record with at (which call), form, arg (a policy or a recipe) and
   held (an OCI credential is complete). *)
Effects(call, s) ==
  CASE call.at = "login" ->
         {[s EXCEPT !.session = IF s.changed THEN "full" ELSE "password"]}
    [] call.at = "logout" -> {Ended(s)}
    [] call.at = "password" ->
         IF s.session = "none" THEN {}
         ELSE {[s EXCEPT !.session = "full", !.changed = TRUE]}
    [] call.at \notin {"login", "logout", "password"} /\ s.session # "full" -> {}
    [] s.session = "full" /\ call.at = "verify" ->
         IF Usable(call.form) THEN {s} ELSE {}
    [] s.session = "full" /\ call.at = "stage" ->
         IF Usable(call.form)
         THEN {[s EXCEPT !.staged = [app |-> call.form.app, repos |-> call.form.repos]]}
         ELSE {}
    [] s.session = "full" /\ call.at = "promote" ->
         IF s.staged.repos THEN {Promoted(s)} ELSE {}
    [] s.session = "full" /\ call.at = "unstage" -> {[s EXCEPT !.staged = NoRoute]}
    [] s.session = "full" /\ call.at = "dropDraft" -> {[s EXCEPT !.draft = "none"]}
    [] s.session = "full" /\ call.at \in {"startManifest", "discover", "inspect"} -> {s}
    [] s.session = "full" /\ call.at = "credentialTest" -> IF call.held THEN {s} ELSE {}
    [] s.session = "full" /\ call.at = "credentialSave" ->
         IF call.held THEN {[s EXCEPT !.credential = TRUE]} ELSE {}
    [] s.session = "full" /\ call.at = "credentialClear" -> {[s EXCEPT !.credential = FALSE]}
    [] s.session = "full" /\ call.at = "runtimeSave" -> {[s EXCEPT !.runtime = TRUE]}
    [] s.session = "full" /\ call.at = "runtimeClear" -> {[s EXCEPT !.runtime = FALSE]}
    [] s.session = "full" /\ call.at \in {"cleanup", "terminate", "compat", "diagnose"} ->
         IF Ready(s) THEN {s} ELSE {}
    [] s.session = "full" /\ call.at = "putPolicy" ->
         IF ~Ready(s) THEN {}
         ELSE IF call.arg = Nobody
              THEN {[s EXCEPT !.policies = r] : r \in Added(s.policies, Policies)}
              ELSE IF call.arg \in s.policies THEN {s} ELSE {}
    [] s.session = "full" /\ call.at = "dropPolicy" ->
         IF Ready(s) THEN {[s EXCEPT !.policies = @ \ {call.arg}]} ELSE {}
    [] s.session = "full" /\ call.at = "putRecipe" ->
         IF call.arg = Nobody
         THEN {[s EXCEPT !.recipes = r] : r \in Added(s.recipes, Recipes)}
         ELSE IF call.arg \in s.recipes THEN {s} ELSE {}
    [] s.session = "full" /\ call.at = "dropRecipe" ->
         {[s EXCEPT !.recipes = @ \ {call.arg}, !.builds[call.arg] = "none"]}
    [] s.session = "full" /\ call.at = "buildCreate" ->
         IF call.arg \in s.recipes THEN Built(s, call.arg) ELSE {}
    [] s.session = "full" /\ call.at = "buildPromote" ->
         IF s.builds[call.arg] = "available"
         THEN {[s EXCEPT !.builds[call.arg] = "closed", !.runtime = TRUE]} ELSE {}
    [] s.session = "full" /\ call.at = "reconcile" -> Reconciled(s)
=============================================================================
