------------------------------- MODULE MCConsole -------------------------------
(***************************************************************************)
(* The service an operator can find: fresh; an App draft waiting; a staged *)
(* route that has no repositories; a configured workspace, one without a   *)
(* launch target, and one without a credential as well.                    *)
(***************************************************************************)
EXTENDS ConsoleProperties

CONSTANTS a1, a2, p1, r1

Fresh == NoService
Drafted ==
  [NoService EXCEPT !.session = "full", !.changed = TRUE, !.draft = "personal"]
Unscoped ==
  [NoService EXCEPT !.session = "full", !.changed = TRUE,
                    !.staged = [app |-> a1, repos |-> FALSE]]
Configured ==
  [NoService EXCEPT !.session = "full", !.changed = TRUE, !.live = {a1},
                    !.staged = [app |-> a2, repos |-> TRUE],
                    !.credential = TRUE, !.runtime = TRUE,
                    !.policies = {p1}, !.recipes = {r1},
                    !.builds = [r \in {r1} |-> "available"]]
Unlaunched == [Configured EXCEPT !.staged = NoRoute, !.runtime = FALSE]
Uncredentialed == [Unlaunched EXCEPT !.credential = FALSE]

(* The start, the commands and the mishaps spent at it. *)
Starts ==
  ({Fresh, Drafted, Unscoped} \X {0} \X {0})
    \union {<<Configured, 2, 1>>, <<Configured, 3, 0>>, <<Unlaunched, 1, 1>>,
            <<Uncredentialed, 0, 2>>}
Opening ==
  /\ \E start \in Starts : srv = start[1] /\ commands = start[2] /\ mishaps = start[3]
  /\ FirstLoad

(* The workspace has the most pages: it is also looked at once it is loaded, which is
   where all of it can be used. *)
Opened ==
  /\ srv = Configured
  /\ ui = [FirstUi EXCEPT !.session = "full", !.setup = SetupOf(srv), !.loading = FALSE,
                          !.refreshing = FALSE]
  /\ gh = [BlankGitHub EXCEPT !.staged = srv.staged, !.live = srv.live,
                              !.form = FormOf(srv.staged, srv.live),
                              !.mode = NormalMode("create", FormOf(srv.staged, srv.live))]
  /\ oci = [BlankOci EXCEPT !.credential = TRUE, !.runtime = TRUE]
  /\ pages = [BlankPages EXCEPT !.loaded = TRUE, !.policies = srv.policies,
                                !.recipes = srv.recipes, !.builds = srv.builds,
                                !.reports = "loaded"]
  /\ busy = {}
  /\ work = [j \in Slots |-> Idle]
  /\ commands = 1 /\ mishaps = 1 /\ clean = TRUE

MCInit == Opening \/ Opened
MCSpec == MCInit /\ [][Next]_vars

(* Of all the commands, those of an operator who promotes, signs out and in, and promotes. *)
PromotedTwice ==
  SyncTask \/ Promote \/ Logout \/ Login \/ \E j \in Slots : HandlerStep(j)
=============================================================================
