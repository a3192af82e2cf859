---------------------------- MODULE MCReorganize ----------------------------
(***************************************************************************)
(* A small Reorganize: two quarters, another PST file and a mailbox that   *)
(* is a PST file too, an inbox with a folder of sent mail in it, a folder  *)
(* the walk leaves alone and one of tasks.  One mail was sent in the first *)
(* quarter and received in the second; one is too recent to be archived.   *)
(***************************************************************************)
EXTENDS Reorganize

CONSTANTS straddle, recent

MCNames == {"inbox", "sent", "tasks", "d", "pst", "old", "u"}

Inbox == <<"inbox">>
SentMail == <<"inbox", "sent">>
Tasks == <<"tasks">>

MCPaths == {Inbox, SentMail, Tasks}
MCReserved == {}
MCNotMail == {Tasks}
MCSentFolder == SentMail

MCSent == [m \in Mails |-> IF m = straddle THEN "q1" ELSE "q2"]
MCReceived == [m \in Mails |-> "q2"]

Disk == <<"d">>
OldDir == <<"d", "old">>
MCRoot == <<"d", "pst">>
MCDir == [f \in Legacy |-> IF f = Home THEN <<"u">> ELSE OldDir]

Rules(l, i, e) == [list |-> l, include |-> i, exclude |-> e]
Cfg(r, s, w) == [rules |-> r, scan |-> s, withMounted |-> w]
Text(d, n) == [dir |-> d, as |-> n]

\* The other file is offered once; by up to three directories, among them its own in two
\* spellings; or once from above, and then the mailbox is not offered.
MCConfigs ==
    {Cfg(Rules(FALSE, {}, {}), {Text(OldDir, 0)}, TRUE),
     Cfg(Rules(TRUE, {SentMail}, {}), {Text(OldDir, 1), Text(Disk, 0)}, TRUE),
     Cfg(Rules(TRUE, {Inbox, Tasks}, {SentMail}), {Text(Disk, 0)}, FALSE)}

At(s, p) == [store |-> s, path |-> p]

\* The mail that straddles two quarters may be anywhere; the recent one is in the
\* mailbox, or the user has put it into the file of a quarter it does not belong to.
MCStarts == {a \in [Mails -> Places] :
               /\ a[straddle].path = Tasks => a[straddle].store = Home
               /\ \/ a[recent] = At(Home, Inbox)
                  \/ a[recent] = At("q1", SentMail) /\ a[straddle] = At(Home, SentMail)}
=============================================================================
