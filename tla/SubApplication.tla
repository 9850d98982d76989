---------------------------- MODULE SubApplication ----------------------------
(***************************************************************************)
(* What the menu of appli/demo_with_lcd.c expects of a "sous-machine a     *)
(* etat": it is called over and over with a request to finish or without,  *)
(* returns IN_PROGRESS until it has finished, finishes only when it was     *)
(* asked to, always does so in the end, and is then ready to begin again.   *)
(***************************************************************************)
VARIABLE app    \* "ready": its next call begins; "running"; "asked" to finish

Init == app = "ready"

Begin   == app = "ready"   /\ app' = "running"
Request == app = "running" /\ app' = "asked"
Finish  == app = "asked"   /\ app' = "ready"

Next == Begin \/ Request \/ Finish

Spec == Init /\ [][Next]_app /\ WF_app(Finish)
=============================================================================
