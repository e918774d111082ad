----------------------------- MODULE CatalogLoader -----------------------------
(***************************************************************************)
(* loadOCICatalog of the web console and the request counter beside it.    *)
(*                                                                         *)
(* A load takes the next number of the counter; its answer is applied only *)
(* if the counter has not moved since.  All that the code asks of a number *)
(* is whether it is still the newest, so a call in flight carries a flag   *)
(* instead: latest.  React applies state set inside startTransition later, *)
(* so the catalogue has two values: the one on the screen and the one      *)
(* queued behind it.                                                       *)
(***************************************************************************)
CONSTANTS
  Params,     \* the questions the panel can ask: buildCatalogParams
  NoParams    \* the question of blank parameters

ASSUME NoParamsIsParams == NoParams \in Params

VARIABLES
  shown,      \* the catalogue state the last render used
  queued,     \* the catalogue state once every pending update is applied
  calls       \* POST /api/v1/oci/catalog calls in flight

loaderVars == <<shown, queued, calls>>

Phases  == {"blank", "loading", "loaded", "error"}
Catalog == [phase : Phases, params : Params]
Call    == [params : Params, latest : BOOLEAN]

LoaderTypeOK ==
  /\ shown \in Catalog
  /\ queued \in Catalog
  /\ calls \in SUBSET Call

BlankCatalog    == [phase |-> "blank", params |-> NoParams]
LoadingState(p) == [phase |-> "loading", params |-> p]
LoadedState(p)  == [phase |-> "loaded", params |-> p]
ErrorState(p)   == [phase |-> "error", params |-> p]

LoaderInit ==
  /\ shown = BlankCatalog
  /\ queued = BlankCatalog
  /\ calls = {}

(* A mutant of Superseded: the number does not move. *)
NotSuperseded == calls

(* requestIdRef.current += 1: every call in flight is stale from here on. *)
Superseded == {[c EXCEPT !.latest = FALSE] : c \in calls}

(* loadOCICatalog with the minimum parameters: the call leaves, the loading state is queued. *)
Ask(p) ==
  /\ calls' = Superseded \union {[params |-> p, latest |-> TRUE]}
  /\ queued' = LoadingState(p)
  /\ UNCHANGED shown

(* loadOCICatalog without them: no call, a blank catalogue is queued. *)
DropQuestion ==
  /\ calls' = Superseded
  /\ queued' = BlankCatalog
  /\ UNCHANGED shown

Load(p, enough) == IF enough THEN Ask(p) ELSE DropQuestion

(* A reset outside a transition: the number moves and the blank state replaces
   the shown and the queued one. *)
ResetCatalog ==
  /\ calls' = Superseded
  /\ queued' = BlankCatalog
  /\ shown' = BlankCatalog

(* The blank state alone, without a new number. *)
WipeCatalog ==
  /\ queued' = BlankCatalog
  /\ shown' = BlankCatalog
  /\ UNCHANGED calls

(* A mutant of AppliedAnswer: the number is not compared. *)
AnyAnswer(c, answer) == answer

(* A call returns: the answer of a stale number is dropped. *)
AppliedAnswer(c, answer) == IF c.latest THEN answer ELSE queued

Answered(c) ==
  /\ queued' = AppliedAnswer(c, LoadedState(c.params))
  /\ calls' = calls \ {c}
  /\ UNCHANGED shown

(* A mutant of Failed: the error is not shown. *)
FailedSilently(c) ==
  /\ calls' = calls \ {c}
  /\ UNCHANGED <<shown, queued>>

Failed(c) ==
  /\ queued' = AppliedAnswer(c, ErrorState(c.params))
  /\ calls' = calls \ {c}
  /\ UNCHANGED shown

(* React renders the pending updates. *)
Commit ==
  /\ shown # queued
  /\ shown' = queued
  /\ UNCHANGED <<queued, calls>>

(***************************************************************************)
(* The two facts every client of the loader relies on.                     *)
(***************************************************************************)

(* At most one call in flight carries the newest number. *)
OneNewest ==
  \A c, d \in calls : c.latest /\ d.latest => c = d

(* The panel waits exactly while the newest call is in flight, and for that
   call's question: a spinner that nothing will end, or an answer that will
   replace something else than its own spinner, is excluded. *)
SpinnerIsAwaited ==
  /\ OneNewest
  /\ queued.phase = "loading" <=> \E c \in calls : c.latest
  /\ \A c \in calls : c.latest => c.params = queued.params
=============================================================================
