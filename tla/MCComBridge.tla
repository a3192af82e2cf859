---------------------------- MODULE MCComBridge ----------------------------
(***************************************************************************)
(* A small ComBridge: one call under each kind of context and two nested   *)
(* calls.  With a channel of one slot, one call executes, one is queued    *)
(* and the third finds the channel full.                                   *)
(***************************************************************************)
EXTENDS ComBridge, TLC

CONSTANTS b1, t1, m1   \* root calls with a background, the tray's, main's context

MCContext == (b1 :> "background") @@ (t1 :> "tray") @@ (m1 :> "main")
=============================================================================
