--------------------------- MODULE VerifiedImages ---------------------------
(***************************************************************************)
(* What the image bake promises about images, whoever works on them: one   *)
(* is captured only from a machine whose bake has passed, is the work of   *)
(* that machine for good, and becomes the default of the runtime only once *)
(* OCI has it ready.                                                       *)
(***************************************************************************)
CONSTANTS Machines, Images, NoMachine, NoImage

VARIABLES
  passed,   \* the machines whose bake has passed
  source,   \* the machine an image was captured from
  ready,    \* the images that OCI has finished
  default   \* the image of the runtime; NoImage stands for one that was not baked

Pass(m) ==
  /\ passed' = passed \union {m}
  /\ UNCHANGED <<source, ready, default>>

Capture(i, m) ==
  /\ source[i] = NoMachine
  /\ m \in passed
  /\ source' = [source EXCEPT ![i] = m]
  /\ UNCHANGED <<passed, ready, default>>

Finish(i) ==
  /\ source[i] # NoMachine
  /\ ready' = ready \union {i}
  /\ UNCHANGED <<passed, source, default>>

Choose(i) ==
  /\ i \in ready \union {NoImage}
  /\ default' = i
  /\ UNCHANGED <<passed, source, ready>>

Init ==
  /\ passed = {}
  /\ source = [i \in Images |-> NoMachine]
  /\ ready = {}
  /\ default = NoImage

Next ==
  \/ \E m \in Machines : Pass(m)
  \/ \E i \in Images : (\E m \in Machines : Capture(i, m)) \/ Finish(i)
  \/ \E i \in Images \union {NoImage} : Choose(i)

Spec == Init /\ [][Next]_<<passed, source, ready, default>>
=============================================================================
