-------------------------------- MODULE Alarm --------------------------------
(***************************************************************************)
(* What the box promises to whoever watches it from outside: after a        *)
(* power-up it watches, announces an intrusion once, raises the alarm and   *)
(* films.  It never goes back to watching by itself, never films without    *)
(* having announced, and what has hung stays so until the black button.     *)
(***************************************************************************)
VARIABLE alarm

AlarmStates == {"starting", "watching", "announced", "raised", "filming", "hung"}

Init == alarm = "starting"

\* The black button, at any time.
PowerUp == alarm' = "starting"

Arm == alarm = "starting" /\ alarm' = "watching"

\* The message is out, et still says WAIT_PRESENCE.
Announce == alarm = "watching" /\ alarm' = "announced"

Raise == alarm = "announced" /\ alarm' = "raised"

Film == alarm = "raised" /\ alarm' = "filming"

\* Not while it starts, nor between the message and the alarm.
Hang == alarm \in {"watching", "raised", "filming"} /\ alarm' = "hung"

Next == PowerUp \/ Arm \/ Announce \/ Raise \/ Film \/ Hang

Spec == Init /\ [][Next]_alarm
=============================================================================
