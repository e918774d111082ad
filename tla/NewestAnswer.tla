----------------------------- MODULE NewestAnswer -----------------------------
(***************************************************************************)
(* What a panel that asks a slow service promises: the screen is blank, or *)
(* it waits for the newest question, or it shows the answer to the newest  *)
(* question.  Answers to older questions are never seen.                   *)
(***************************************************************************)
CONSTANTS Params, NoQuestion

VARIABLES
  question,   \* the newest question while it is unanswered, or NoQuestion
  screen      \* what the panel is to display

Screens == [phase : {"blank", "loading", "loaded", "error"}, params : Params]

(* Nothing is asked yet, whatever an earlier question has left on the screen. *)
Init == question = NoQuestion /\ screen.phase # "loading"

(* The panel asks; a question asked before is forgotten. *)
Ask(p) ==
  /\ question' = p
  /\ screen' = [phase |-> "loading", params |-> p]

(* The service answers the newest question, or fails it. *)
Answer ==
  /\ question # NoQuestion
  /\ question' = NoQuestion
  /\ \E ph \in {"loaded", "error"} : screen' = [phase |-> ph, params |-> question]

(* The panel is emptied, whatever it was waiting for. *)
Clear ==
  /\ question' = NoQuestion
  /\ screen'.phase = "blank"

Next == (\E p \in Params : Ask(p)) \/ Answer \/ Clear

Spec == Init /\ [][Next]_<<question, screen>>
=============================================================================
