------------------------------ MODULE GitHubForms ------------------------------
(***************************************************************************)
(* The data of the GitHub pages: the form, the App draft that the manifest *)
(* flow leaves on the service, and the operations of workspace-forms.js    *)
(* and github-config-view.jsx on them.  A repository selection is either   *)
(* empty or not; an installation id is given or not; a private key is the  *)
(* App's it was generated for (the webhook secret goes with it).           *)
(***************************************************************************)
EXTENDS FiniteSets

CONSTANTS
  Apps,             \* GitHub Apps
  NoApp,            \* no app id, no private key
  DraftApp,         \* the App the manifest flow creates
  EnterpriseApps    \* Apps of a host other than api.github.com

ASSUME AppsAreApps == DraftApp \in Apps /\ NoApp \notin Apps /\ EnterpriseApps \subseteq Apps

Drafts == {"none", "personal", "organization"}
(* What looking for the App's installations has found. *)
Finds  == {"none", "one", "many"}
Modes  == {"create", "existing"}
Forms  == [app : Apps \union {NoApp}, key : Apps \union {NoApp},
           inst : BOOLEAN, repos : BOOLEAN]
BlankForm == [app |-> NoApp, key |-> NoApp, inst |-> FALSE, repos |-> FALSE]

(* A staged route; a live one has repositories, or it would not have been promoted. *)
Routes  == [app : Apps, repos : BOOLEAN]
NoRoute == [app |-> NoApp, repos |-> FALSE]

(* buildGitHubConfigFormFromStatus: the staged route, else the only live one,
   never a private key. *)
FormOf(staged, live) ==
  CASE staged # NoRoute ->
         [app |-> staged.app, key |-> NoApp, inst |-> TRUE, repos |-> staged.repos]
    [] staged = NoRoute /\ Cardinality(live) = 1 ->
         [app |-> CHOOSE a \in live : TRUE, key |-> NoApp, inst |-> TRUE, repos |-> TRUE]
    [] OTHER -> BlankForm

(* The manifest flow knows api.github.com only; the host goes with the App. *)
ManifestSupported(form) == form.app \notin EnterpriseApps

(* normalizeGitHubSetupMode *)
NormalMode(mode, form) ==
  IF ManifestSupported(form) /\ mode = "create" THEN "create" ELSE "existing"

(* mergeGitHubManifestIntoConfigForm: the draft's App and key; the installation is
   the one GitHub has just returned with, or none. *)
MergedDraft(form, returned) ==
  [form EXCEPT !.app = DraftApp, !.key = DraftApp, !.inst = returned]

(* applyGitHubInstallationLookup: a single installation is filled in. *)
Looked(form, found) == [form EXCEPT !.inst = form.inst \/ found = "one"]

(* handleGitHubTest: the selection is kept, or the one sent with the call comes back. *)
Tested(form, sent) == [form EXCEPT !.repos = form.repos \/ sent.repos]

(* The credentials of a discarded draft. *)
WithoutCredentials(form) == [form EXCEPT !.app = NoApp, !.key = NoApp, !.inst = FALSE]

(* What POST test and POST staged require of a form: app, installation, and the App's key. *)
Usable(form) == form.app # NoApp /\ form.inst /\ form.key = form.app
=============================================================================
