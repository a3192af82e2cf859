----------------------------- MODULE MCRestore -----------------------------
(***************************************************************************)
(* A small Restore: two PST files, two folders, and three mails, two of    *)
(* them copies of the same one; the third differs in its subject and was   *)
(* put into its store in the second in which the others arrived.           *)
(***************************************************************************)
EXTENDS Restore, TLC

CONSTANTS m1, m2, m3,  \* mails
          p1, p2       \* PST files

MCSubject == (m1 :> "x") @@ (m2 :> "x") @@ (m3 :> "y")
MCTime    == (m1 :> 1) @@ (m2 :> 1) @@ (m3 :> 2)
MCCreated == (m1 :> 1) @@ (m2 :> 1) @@ (m3 :> 1)

\* The two files, and the two copies, differ in nothing but their names.
Alike == Permutations({p1, p2}) \cup Permutations({m1, m2})
=============================================================================
