----------------------------- MODULE StoreLane -----------------------------
(***************************************************************************)
(* What the store lane asks for, carries and makes of the packages it      *)
(* gets: its requests over one cookie jar, the decoder of compressed       *)
(* entries, and the readers of packages, each as a `focus` of its own:     *)
(* they share no state, and where one hands to another what it hands over  *)
(* is an input of the other.                                               *)
(***************************************************************************)
EXTENDS Requests, Inflate, Replicate

VARIABLE focus

laneVars == <<webVars, inflateVars, zipVars, focus>>

Init ==
  /\ focus \in {"requests", "inflate", "package"}
  /\ IF focus = "requests" THEN TRUE ELSE file = CHOOSE f \in Files : TRUE
  /\ IF focus = "inflate" THEN TRUE ELSE stream = CHOOSE s \in Streams : TRUE
  /\ IF focus = "package" THEN TRUE
     ELSE /\ src = CHOOSE s \in Sources : TRUE
          /\ info = CHOOSE i \in Infos : TRUE
          /\ clock = CHOOSE t \in Clocks : TRUE
          /\ job = "replicate"
  /\ WebInit /\ InflateInit /\ ZipInit

Next ==
  /\ UNCHANGED focus
  /\ \/ focus = "requests" /\ WebNext /\ UNCHANGED <<inflateVars, zipVars>>
     \/ focus = "inflate" /\ InflateNext /\ UNCHANGED <<webVars, zipVars>>
     \/ focus = "package" /\ ZipNext /\ UNCHANGED <<webVars, inflateVars>>

Spec == Init /\ [][Next]_laneVars
=============================================================================
