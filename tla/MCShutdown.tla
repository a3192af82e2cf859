----------------------------- MODULE MCShutdown -----------------------------
(***************************************************************************)
(* A small Shutdown: a client and the timer loop, two calls of each task.  *)
(***************************************************************************)
EXTENDS Shutdown

CONSTANTS tray, timerLoop
=============================================================================
