------------------------------- MODULE SetupFlow -------------------------------
(***************************************************************************)
(* The guided setup of the web console (lib/setup-flow.js): five tasks in  *)
(* a fixed order, each complete or not by what the console has last been   *)
(* told.  facts is the record of that:                                     *)
(*   password    the operator's password has been changed                  *)
(*   live        a GitHub route with its credentials is live               *)
(*   scope       the live route has selected repositories                  *)
(*   credential  an OCI credential is active                               *)
(*   bootstrap   the setup status counts the OCI bootstrap as complete     *)
(*   runtime     the launch target is ready, by either status              *)
(***************************************************************************)
EXTENDS Naturals, Sequences

TaskOrder ==
  <<"password", "github-connect", "oci-credential", "github-repositories", "oci-runtime">>

Tasks == {TaskOrder[k] : k \in DOMAIN TaskOrder}

NoTask == ""

Facts == [password : BOOLEAN, live : BOOLEAN, scope : BOOLEAN,
          credential : BOOLEAN, bootstrap : BOOLEAN, runtime : BOOLEAN]

(* The tasks that are complete. *)
CompleteTasks(facts) ==
  {t \in Tasks :
     \/ t = "password" /\ facts.password
     \/ t = "github-connect" /\ facts.live
     \/ t = "oci-credential" /\ (facts.credential \/ facts.bootstrap)
     \/ t = "github-repositories" /\ facts.scope
     \/ t = "oci-runtime" /\ facts.runtime}

(* The first task of the order that is not complete, if there is one. *)
CurrentTask(facts) ==
  LET left == Tasks \ CompleteTasks(facts)
  IN  IF left = {} THEN NoTask
      ELSE TaskOrder[CHOOSE k \in DOMAIN TaskOrder :
             TaskOrder[k] \in left /\ \A m \in 1..(k - 1) : TaskOrder[m] \notin left]

(* The tasks whose button is enabled: what is complete, and the current one. *)
EditableTasks(facts) ==
  (CompleteTasks(facts) \union {CurrentTask(facts)}) \ {NoTask}

(* A mutant of CurrentOrFirst: no task when none is left. *)
CurrentOrNone(facts) == CurrentTask(facts)

(* The task the console works on when none is left: the first of the order. *)
CurrentOrFirst(facts) ==
  IF CurrentTask(facts) = NoTask THEN TaskOrder[1] ELSE CurrentTask(facts)
=============================================================================
