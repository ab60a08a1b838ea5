---------------------------- MODULE MCGamePause ----------------------------
(* GamePause as TLC checks it: every constant is given by the .cfg.        *)
EXTENDS GamePause
=============================================================================
