----------------------------- MODULE FolderWalk -----------------------------
(***************************************************************************)
(* internal/outlook/folder.go: which folders a walk lists, and by which    *)
(* time a folder's mails are filed.  A path is the sequence of the names   *)
(* on the way from the root; the comparison of names is that of Outlook,   *)
(* which ignores case.                                                     *)
(***************************************************************************)
EXTENDS Naturals, SequencesExt

CONSTANTS Names,      \* the names folders and directories have
          Paths,      \* every folder a store may have
          Reserved,   \* those the mailbox's walk leaves alone for their names: drafts, ...
          NotMail,    \* those made for other items than mail
          SentFolder, \* the mailbox's folder of sent mail
          SentNames   \* the names getTimeField takes for one

ASSUME PathsOK == /\ Paths \subseteq Seq(Names)
                  /\ \A p \in Paths : p # <<>> /\ \A q \in Prefixes(p) \ {<<>>} : q \in Paths
                  /\ Reserved \cup NotMail \subseteq Paths /\ SentFolder \in Paths

Fields == {"SentOn", "ReceivedTime"}

\* The rules of a configuration: [list : archive_mode is "list", include, exclude].
ShouldExclude(p, rules)  == \E e \in rules.exclude : IsPrefix(e, p)
IsIncluded(p, rules)     == \E f \in rules.include : IsPrefix(f, p)
LeadsToIncluded(p, rules) == \E f \in rules.include : IsStrictPrefix(p, f)

\* isSystemReserved: a folder whose kind (its DefaultItemType) cannot be read, as that of
\* the untyped ones, is taken for one of mail.
IsReserved(p, untyped) == p \in Reserved \/ p \in NotMail \ untyped

\* The walk goes into a folder's children, and it lists a folder it has reached.
Enters(p, rules, untyped) ==
    /\ ~IsReserved(p, untyped)
    /\ ~ShouldExclude(p, rules)
    /\ rules.list => IsIncluded(p, rules) \/ LeadsToIncluded(p, rules)

Lists(p, rules, untyped) ==
    /\ ~IsReserved(p, untyped)
    /\ ~ShouldExclude(p, rules)
    /\ rules.list => IsIncluded(p, rules)

\* walkFoldersRecursive: a folder is listed if the walk gets to it.
Walked(rules, untyped) ==
    {p \in Paths : /\ \A q \in Prefixes(p) \ {<<>>, p} : Enters(q, rules, untyped)
                   /\ Lists(p, rules, untyped)}

\* A folder that Outlook does not hand out hides those below it.
Seen(folders, lost) == {p \in folders : Prefixes(p) \cap lost = {}}

\* What the rules say, without a walk: a folder is archived unless it or a folder
\* above it is reserved or excluded, and in list mode if it or one above is included.
ByRule(rules, untyped) ==
    {p \in Paths : LET up == Prefixes(p) IN
        /\ up \cap (Reserved \cup (NotMail \ untyped) \cup rules.exclude) = {}
        /\ rules.list => up \cap rules.include # {}}

\* getTimeField without the id of the folder of sent mail, as in every PST.
FieldByName(p) == IF Last(p) \in SentNames THEN "SentOn" ELSE "ReceivedTime"

\* getTimeField with it: the names play no part.
FieldById(p) == IF p = SentFolder THEN "SentOn" ELSE "ReceivedTime"

\* A folder whose own id cannot be had is taken for one of received mail.
TimeFields(known, unread) ==
    [p \in Paths |-> IF ~known THEN FieldByName(p)
                     ELSE IF p \in unread THEN "ReceivedTime" ELSE FieldById(p)]
=============================================================================
