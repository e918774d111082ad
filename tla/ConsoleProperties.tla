--------------------------- MODULE ConsoleProperties ---------------------------
(***************************************************************************)
(* What the console owes its operator.                                     *)
(***************************************************************************)
EXTENDS ConsoleApp

(* Handlers that ran one at a time, none of them failing by a lost call, leave on the
   screen what the service holds: each of them loads again everything its write has
   changed (setup status, GitHub status and App draft, OCI statuses, lists). *)
ScreenMatchesService ==
  Quiet /\ clean =>
    /\ ui.session = srv.session
    /\ ui.session = "full" =>
         /\ ui.setup = SetupOf(srv)
         /\ gh.staged = srv.staged /\ gh.live = srv.live /\ gh.draft = srv.draft
         /\ oci.credential = srv.credential /\ oci.runtime = srv.runtime
         /\ ui.setup.completed =>
              /\ pages.loaded /\ pages.policies = srv.policies
              /\ pages.recipes = srv.recipes /\ pages.builds = srv.builds

(* Once signed out, nothing of the session is left on the screen: no list, no status and
   no form with a private key in it (the policy editor is not reset by the code). *)
SignedOutIsEmpty ==
  Quiet /\ clean /\ ui.session = "none" =>
    gh = BlankGitHub /\ oci = BlankOci /\ pages = WithoutData(pages)

(* The GitHub page's verification, save and removal never overlap, nor do the calls of the
   credential or those of the launch target; the flags that disable their buttons are up
   exactly while one is out, whatever signing out and in again, failures or other handlers
   do in between.  A promotion is not so guarded: its flag is never up without it, and
   keeps verification and removal out while it is up, but resetSetupState takes it down
   under a promotion that is still out, and after the next sign-in any of them, or a second
   promotion, may run beside the first. *)
OfKind(kinds) == {j \in Slots : work[j].do \in kinds}
FlagMirrors(flag, kind) == flag \in busy <=> OfKind({kind}) # {}
BusyMirrorsWork ==
  /\ FlagMirrors("verify", "verify") /\ FlagMirrors("saving", "save")
  /\ FlagMirrors("clear", "clear")
  /\ Cardinality(OfKind({"verify", "save", "clear"})) <= 1
  /\ "promoting" \in busy =>
       OfKind({"save", "promote"}) # {} /\ OfKind({"verify", "clear"}) = {}
  /\ \A k \in {"credentialTest", "credentialSave", "credentialClear", "runtimeSave",
              "runtimeClear"} : FlagMirrors(k, k)
  /\ Cardinality(OfKind({"credentialTest", "credentialSave", "credentialClear"})) <= 1
  /\ Cardinality(OfKind({"runtimeSave", "runtimeClear"})) <= 1

(* views/github-config-view.jsx:774-781: while one of the GitHub page's calls is out, every
   button that starts another is disabled.  Not so for a promotion, once a sign-out or an
   ended session has reset the page under it. *)
OneGitHubCallAtATime ==
  Cardinality({j \in Slots : work[j].at \in {"verify", "stage", "promote", "unstage"}}) <= 1

(* The editor of recipes is never open on a recipe that is gone, while handlers run one
   at a time: the delete closes it when it was open on the deleted recipe. *)
RecipeEditorIsLive ==
  Quiet /\ clean => pages.recipe \in srv.recipes \union {Nobody}

(* The App draft is the only copy of the private key GitHub hands out.  Time lets go of it:
   its hour, or the end of its session.  Of the handlers only two do: a discard, and a save
   whose route the service holds, staged, or live when a promotion has overtaken the save;
   never before the route is there, and not for a save that failed. *)
DraftOutlivesFailures ==
  [][srv.draft # "none" /\ srv'.draft = "none" =>
       \/ DraftExpires \/ srv'.session = "none"
       \/ \E j \in Slots : work[j].do = "discard" /\ work[j].at = "dropDraft"
       \/ \E j \in Slots :
            /\ work[j].do = "save" /\ work[j].at = "dropDraft"
            /\ work[j].form.app \in srv.live \union {srv.staged.app}]_vars

(* With no handler in flight nothing is left spinning: a flag that no finally will clear
   would disable its buttons for ever. *)
NothingSpinsAlone ==
  Quiet =>
    /\ busy = {} /\ ~ui.refreshing /\ ~ui.loading
    /\ pages.reports # "loading"
    /\ {pages.deleting, pages.building, pages.promoting} = {Nobody}

(* A handler in flight can always go on: no await is left without an answer, a failure or
   a reload that ends it.  The number of commands being bounded, every handler ends. *)
NoHandlerIsStuck ==
  Synced => \A j \in Slots : work[j] # Idle => ENABLED HandlerStep(j)

(* docs/setup-guide.md: saving a verified route activates it when no route is live yet.
   Nothing having failed, the wizard has no activation error to show. *)
FaultlessActivation == mishaps = 0 /\ clean => ~gh.error
=============================================================================
