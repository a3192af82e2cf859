---------------------------- MODULE MCScheduler ----------------------------
(***************************************************************************)
(* A small Scheduler: the tray's click loop and a web handler trigger      *)
(* tasks beside the timer loop, two configuration reloads overlap each     *)
(* other and the tasks, and the file is edited MaxVersion times.           *)
(***************************************************************************)
EXTENDS Scheduler, TLC

CONSTANTS tray, web, timerLoop, r1, r2

Symmetry == Permutations({tray, web}) \cup Permutations({r1, r2})
=============================================================================
