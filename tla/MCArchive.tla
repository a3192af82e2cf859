----------------------------- MODULE MCArchive -----------------------------
(***************************************************************************)
(* A small Archive: an inbox with an old mail and one that can never be    *)
(* moved, a second folder with an old mail, and a recent mail that arrives *)
(* in either.  The options vary what a pass does, its limit, and whether   *)
(* recent mail is held back.                                               *)
(***************************************************************************)
EXTENDS Archive

CONSTANTS old, stuck, far, recent

MCMailbox == << <<old, stuck>>, <<far>> >>

Option(m, n, r, b) == [mode |-> m, limit |-> n, retain |-> r, block |-> b]

MCOptions == {Option("move", 0, FALSE, 2), Option("move", 1, TRUE, 2),
              Option("move", 2, FALSE, 1), Option("copy", 1, TRUE, 2),
              Option("copy", 0, TRUE, 1), Option("dry", 1, FALSE, 2)}
=============================================================================
