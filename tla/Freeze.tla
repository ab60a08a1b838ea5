------------------------------- MODULE Freeze -------------------------------
(***************************************************************************)
(* What stopping a game promises (gamePause and gameResume of              *)
(* src/objects/crt0_prx.c, without the plugin around them): threads are    *)
(* stopped one by one, from a list that is made once; while the game is    *)
(* held no listed thread runs; a thread is let go only when the game is    *)
(* being started again, and then all of them are.  The game goes on        *)
(* creating and ending threads for as long as one of its threads runs.     *)
(***************************************************************************)
CONSTANT Thread     \* the game's threads

VARIABLES
  alive,        \* the threads that exist
  suspended,    \* those that are stopped
  listed,       \* those this stop is about
  phase         \* "off", "stopping", "on" or "starting"

vars == <<alive, suspended, listed, phase>>

Init ==
  /\ alive \in SUBSET Thread
  /\ suspended = {} /\ listed = {} /\ phase = "off"

(* Stopping the game: the threads that exist are listed, or as many of     *)
(* them as the list takes, and stopped.                                    *)
Begin ==
  /\ phase = "off" /\ phase' = "stopping"
  /\ listed' \in SUBSET alive
  /\ UNCHANGED <<alive, suspended>>

Stop(t) ==
  /\ phase = "stopping"
  /\ t \in listed \cap alive
  /\ suspended' = suspended \cup {t}
  /\ UNCHANGED <<alive, listed, phase>>

Hold ==
  /\ phase = "stopping" /\ phase' = "on"
  /\ listed \cap alive \subseteq suspended
  /\ UNCHANGED <<alive, suspended, listed>>

(* Starting it again.                                                      *)
Release ==
  /\ phase = "on" /\ phase' = "starting"
  /\ UNCHANGED <<alive, suspended, listed>>

Start(t) ==
  /\ phase = "starting"
  /\ suspended' = suspended \ {t}
  /\ UNCHANGED <<alive, listed, phase>>

Over ==
  /\ phase = "starting" /\ phase' = "off"
  /\ suspended = {}
  /\ UNCHANGED <<alive, suspended, listed>>

(* A thread that runs creates one, which is not among the listed ones, or  *)
(* ends one, itself or another.                                            *)
Create(t) ==
  /\ t \notin alive /\ (phase = "off" \/ t \notin listed)
  /\ alive' = alive \cup {t}
  /\ UNCHANGED <<suspended, listed, phase>>

End(t) ==
  /\ alive' = alive \ {t} /\ suspended' = suspended \ {t}
  /\ UNCHANGED <<listed, phase>>

Game ==
  /\ alive \ suspended # {}
  /\ \E t \in Thread : Create(t) \/ End(t)

Next ==
  \/ Begin \/ Hold \/ Release \/ Over
  \/ \E t \in Thread : Stop(t) \/ Start(t)
  \/ Game

Spec == Init /\ [][Next]_vars
=============================================================================
