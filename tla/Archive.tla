------------------------------ MODULE Archive ------------------------------
(***************************************************************************)
(* internal/archiver/archiver.go: the periodic archive of the mailbox.     *)
(* Each pass goes through the folders; the mails of a folder that match    *)
(* the date filter are counted once and then taken in blocks from the end  *)
(* of a live collection that shrinks, stays and shifts as mails leave,     *)
(* fail to leave, or arrive.  Equal mails stand for copies of one mail.    *)
(***************************************************************************)
EXTENDS Integers, Sequences, SequencesExt, FiniteSets

CONSTANTS Mails,
          Old,       \* those past the cutoff when recent mail is retained
          Stuck,     \* those that can never be moved or copied
          Unwanted,  \* bound: those the user may delete
          Folders,   \* number of mailbox folders, in the order of the walk
          Mailbox,   \* the content of each folder at the start, newest first
          Options,   \* the configurations tried: [mode, limit, retain, block]
          MaxErrors  \* bound: errors and panics of COM calls that pass again

Folder == 1 .. Folders

ASSUME ConstantsOK ==
    /\ Folders \in Nat \ {0} /\ MaxErrors \in Nat
    /\ Options \subseteq [mode : {"move", "copy", "dry"}, limit : Nat,
                           retain : BOOLEAN, block : Nat \ {0}]
    /\ Mailbox \in [Folder -> Seq(Mails)]
    /\ Old \subseteq Mails /\ Stuck \subseteq Mails /\ Unwanted \subseteq Mails

VARIABLES items,   \* the mails of each folder, newest first
          pst,     \* the mails that have a copy in a PST
          unborn,  \* the mails that have not arrived yet
          opt,     \* mode, max_batch_size (0: none), is mail held back by its date, stream_block_size
          cancelled,
          errors,  \* how many COM calls have failed
          pc, fol,
          hits, sorted,   \* what Restrict lets through; did Sort succeed?
          end, i,         \* the last index of the block at hand, and the one being read
          block,          \* its snapshot
          moved, total,   \* of the folder, and res.TotalMoved
          owed,           \* res.TotalMatched less what was moved, failed, skipped or unreadable
          missed, touched, \* history of the folder: listed and not yet read; was it disturbed?
          done, panicked  \* history of the pass: mails really moved; has a closure panicked?

env    == <<items, pst, unborn>>
view   == <<hits, sorted>>
cursor == <<end, i, block>>
tally  == <<moved, total, owed>>
hist   == <<missed, touched, done, panicked>>
vars   == <<env, opt, cancelled, errors, pc, fol, view, cursor, tally, hist>>

TypeOK ==
    /\ items \in [Folder -> Seq(Mails)]
    /\ pst \subseteq Mails /\ unborn \subseteq Mails
    /\ opt \in Options
    /\ cancelled \in BOOLEAN /\ sorted \in BOOLEAN /\ touched \in BOOLEAN /\ panicked \in BOOLEAN
    /\ errors \in 0 .. MaxErrors
    /\ pc \in {"idle", "folder", "block", "read", "handle", "finished"}
    /\ fol \in 1 .. Folders + 1
    /\ hits \subseteq Mails
    /\ end \in Int /\ i \in Int
    /\ block \in Seq(Mails)
    /\ moved \in Nat /\ total \in Nat /\ owed \in Nat /\ done \in Nat
    /\ missed \subseteq Mails

InMailbox(m) == \E f \in Folder : Contains(items[f], m)

Init ==
    /\ items = Mailbox
    /\ pst = {}
    /\ unborn = {m \in Mails : \A f \in Folder : ~Contains(Mailbox[f], m)}
    /\ opt \in Options
    /\ cancelled = FALSE /\ errors = 0
    /\ pc = "idle" /\ fol = 1
    /\ hits = {} /\ sorted = TRUE
    /\ end = 0 /\ i = 0 /\ block = <<>>
    /\ moved = 0 /\ total = 0 /\ owed = 0
    /\ missed = {} /\ touched = FALSE /\ done = 0 /\ panicked = FALSE

\* CalcCutoffTime: with neither retain_days nor a delay the cutoff is now.
Due(m) == opt.retain => m \in Old

\* Where in a folder the mails of the restricted collection are.
Collection(folder, h) == {k \in 1 .. Len(folder) : folder[k] \in h}

\* The index in that collection of the mail at k; the oldest is first if Sort has failed.
Index(folder, h, s, k) ==
    Cardinality({l \in Collection(folder, h) : IF s THEN l <= k ELSE l >= k})

\* Mutant: only the folders that are done count.
LimitOfFolders == opt.limit > 0 /\ total >= opt.limit

LimitReached == opt.limit > 0 /\ total + moved >= opt.limit

-----------------------------------------------------------------------------
(* Archive: the loop over the folders.                                     *)

\* The scheduler starts a pass, and Outlook is running.
Begin == /\ pc = "idle"
         /\ ~cancelled
         /\ pc' = "folder"
         /\ UNCHANGED <<env, opt, cancelled, errors, fol, view, cursor, tally, hist>>

\* A COM call fails that would succeed another time.
Error == errors < MaxErrors /\ errors' = errors + 1

\* The loop's check of the context, and its end.
EndPass == /\ pc = "folder"
           /\ cancelled \/ fol > Folders
           /\ pc' = "finished"
           /\ UNCHANGED <<env, opt, cancelled, errors, fol, view, cursor, tally, hist>>

\* The scheduler logs the result.
Log == /\ pc = "finished"
       /\ pc' = "idle"
       /\ fol' = 1
       /\ total' = 0 /\ owed' = 0
       /\ done' = 0 /\ panicked' = FALSE
       /\ UNCHANGED <<env, opt, cancelled, errors, view, cursor, moved, missed, touched>>

\* The locals of processFolder are gone when it returns.
ForgetFolder == /\ hits' = {} /\ sorted' = TRUE
                /\ end' = 0 /\ i' = 0 /\ block' = <<>>
                /\ moved' = 0
                /\ missed' = {} /\ touched' = FALSE

\* After processFolder returned n: Archive adds it up and looks at the batch limit.
\* A cancelled call returned earlier, and Archive may read n before it is written.
FolderDone(n) == /\ total' \in {total + n} \cup (IF cancelled THEN {total} ELSE {})
                 /\ fol' = fol + 1
                 /\ pc' = IF opt.limit > 0 /\ total' >= opt.limit THEN "finished" ELSE "folder"
                 /\ ForgetFolder

\* Restrict may let everything through: it depends on the locale's date format.
Restricted == {h \in SUBSET Mails : h = {m \in Mails : Due(m)} \/ h = Mails}

FolderFails == /\ pc = "folder"
               /\ ~cancelled /\ fol <= Folders
               /\ Error
               /\ FolderDone(0)
               /\ UNCHANGED <<env, opt, cancelled, owed, done, panicked>>

\* A panic in a COM call ends the closure; Archive goes on without its counts.
FolderPanics == /\ pc \in {"block", "read", "handle"}
                /\ Error
                /\ FolderDone(0)
                /\ panicked' = TRUE
                /\ UNCHANGED <<env, opt, cancelled, owed, done>>

OpenFolder ==
    /\ pc = "folder"
    /\ ~cancelled /\ fol <= Folders
    /\ hits' \in Restricted /\ sorted' \in BOOLEAN
    /\ LET c     == Collection(items[fol], hits')
           count == Cardinality(c) IN
         /\ owed' = owed + count
         /\ end' = count
         /\ missed' = {items[fol][k] : k \in c}
    /\ touched' = FALSE
    /\ pc' = "block"
    /\ UNCHANGED <<env, opt, cancelled, errors, fol, i, block,
                   moved, total, done, panicked>>

-----------------------------------------------------------------------------
(* processFolder: blocks are read forwards and handled backwards.          *)

\* The first index of the block that ends at end.
BlockStart == IF end > opt.block THEN end - opt.block + 1 ELSE 1

StopNow == cancelled \/ LimitReached

NextBlock == /\ pc = "block"
             /\ end >= 1
             /\ ~StopNow
             /\ i' = BlockStart
             /\ block' = <<>>
             /\ pc' = "read"
             /\ UNCHANGED <<env, opt, cancelled, errors, fol, view, end, tally, hist>>

LeaveFolder == /\ pc = "block"
               /\ end < 1 \/ StopNow
               /\ owed' = IF end < 1 THEN owed ELSE owed - end
               /\ FolderDone(moved)
               /\ UNCHANGED <<env, opt, cancelled, errors, done, panicked>>

Reading == pc = "read" /\ i <= end /\ ~cancelled

ReadOk(m) == /\ Reading
             /\ \E k \in Collection(items[fol], hits) :
                  Index(items[fol], hits, sorted, k) = i /\ items[fol][k] = m
             /\ block' = Append(block, m)
             /\ missed' = missed \ {m}
             /\ i' = i + 1
             /\ UNCHANGED <<env, opt, cancelled, errors, pc, fol, view, end, tally,
                            touched, done, panicked>>

NoSuchItem == i > Cardinality(Collection(items[fol], hits)) /\ UNCHANGED errors

\* No item at this index, or its id or its time cannot be had: no counter records it.
ReadFails == /\ Reading
             /\ Error \/ NoSuchItem
             /\ i' = i + 1
             /\ owed' = owed - 1
             /\ touched' = TRUE
             /\ UNCHANGED <<env, opt, cancelled, pc, fol, view, end, block,
                            moved, total, missed, done, panicked>>

ReadDone == /\ pc = "read"
            /\ i > end \/ cancelled
            /\ pc' = "handle"
            /\ i' = 0
            /\ UNCHANGED <<env, opt, cancelled, errors, fol, view, end, block, tally, hist>>

\* Mutant: what is left of a block is counted without the mail at hand.
RestOfBlock == Len(block) - 1

LeftInBlock == Len(block)

\* Mutants: the blocks overlap by one item; they leave one out between them.
NextEndOverlaps == end - opt.block + 1
NextEndOffByOne == end - opt.block - 1

NextEnd == end - opt.block

BlockDone == /\ pc = "handle"
             /\ block = <<>> \/ StopNow
             /\ owed' = IF block = <<>> THEN owed ELSE owed - LeftInBlock
             /\ end' = NextEnd
             /\ block' = <<>>
             /\ pc' = "block"
             /\ UNCHANGED <<env, opt, cancelled, errors, fol, view, i, moved, total, hist>>

\* The mail at hand is the last of the block.
Take(m) == /\ pc = "handle"
           /\ block # <<>>
           /\ ~StopNow
           /\ m = Last(block)
           /\ block' = Front(block)
           /\ owed' = owed - 1
           /\ UNCHANGED <<unborn, opt, cancelled, pc, fol, view, end, i,
                          total, missed, touched, panicked>>

At(m, k) == k \in 1 .. Len(items[fol]) /\ items[fol][k] = m

\* The user has deleted the mail, or it is one that cannot be moved or copied.
CannotHandle(m) == /\ m \in Stuck \/ ~Contains(items[fol], m)
                   /\ UNCHANGED errors

\* Mutant: a failure counts against the batch limit.
FailureCounts(m) == /\ Take(m)
                    /\ Error \/ CannotHandle(m)
                    /\ moved' = moved + 1
                    /\ UNCHANGED <<items, pst, done>>

\* The mail is not found by its id, its PST or folder cannot be had, or the move fails.
HandleFails(m) == /\ Take(m)
                  /\ Error \/ CannotHandle(m)
                  /\ UNCHANGED <<items, pst, moved, done>>

\* GetItemFromID finds the mail unless the user has deleted it.
Found(m) == Take(m) /\ Contains(items[fol], m)

\* Mutant: no second check of the date.
NoDoubleCheck(m) == TRUE

DoubleCheck(m) == Due(m)

SkipRecent(m) == /\ Found(m)
                 /\ ~DoubleCheck(m)
                 /\ UNCHANGED <<items, pst, moved, done, errors>>

Succeeds(m) == /\ Found(m)
               /\ DoubleCheck(m)
               /\ moved' = moved + 1
               /\ done' = done + 1
               /\ UNCHANGED errors

DryRun(m) == /\ opt.mode = "dry"
             /\ Succeeds(m)
             /\ UNCHANGED <<items, pst>>

MoveOk(m) == /\ opt.mode = "move"
             /\ m \notin Stuck
             /\ Succeeds(m)
             /\ \E k \in 1 .. Len(items[fol]) :
                  At(m, k) /\ items' = [items EXCEPT ![fol] = RemoveAt(@, k)]
             /\ pst' = pst \cup {m}

CopyOk(m) == /\ opt.mode = "copy"
             /\ m \notin Stuck
             /\ Succeeds(m)
             /\ pst' = pst \cup {m}
             /\ UNCHANGED items

\* CopyItem copies in place and then moves the copy; when that fails the copy stays.
CopyStays(m) == /\ opt.mode = "copy"
                /\ Found(m)
                /\ DoubleCheck(m)
                /\ Error
                /\ \E k \in 1 .. Len(items[fol]) :
                     At(m, k) /\ items' = [items EXCEPT ![fol] = InsertAt(@, k, m)]
                /\ UNCHANGED <<pst, moved, done>>

-----------------------------------------------------------------------------
(* What goes on beside the archive.                                        *)

Disturb == touched' = (touched \/ pc \in {"block", "read", "handle"})

\* A new mail arrives at the head of a folder.
Arrive == /\ \E m \in unborn, f \in Folder :
               /\ unborn' = unborn \ {m}
               /\ items' = [items EXCEPT ![f] = <<m>> \o @]
          /\ Disturb
          /\ UNCHANGED <<pst, opt, cancelled, errors, pc, fol, view, cursor, tally,
                         missed, done, panicked>>

UserDeletes == /\ \E f \in Folder : \E k \in 1 .. Len(items[f]) :
                    /\ items[f][k] \in Unwanted
                    /\ items' = [items EXCEPT ![f] = RemoveAt(@, k)]
               /\ Disturb
               /\ UNCHANGED <<pst, unborn, opt, cancelled, errors, pc, fol, view, cursor, tally,
                              missed, done, panicked>>

\* The program is asked to quit.
Cancel == /\ ~cancelled
          /\ cancelled' = TRUE
          /\ UNCHANGED <<env, opt, errors, pc, fol, view, cursor, tally, hist>>

Handle(m) == \/ HandleFails(m) \/ SkipRecent(m) \/ DryRun(m)
             \/ MoveOk(m) \/ CopyOk(m) \/ CopyStays(m)

Pass == \/ EndPass \/ Log \/ FolderFails \/ OpenFolder \/ NextBlock \/ LeaveFolder
        \/ ReadFails \/ ReadDone \/ BlockDone
        \/ \E m \in Mails : ReadOk(m) \/ Handle(m)

Next == Begin \/ Pass \/ FolderPanics \/ Arrive \/ UserDeletes \/ Cancel

\* The ticker starts a pass again and again, and a pass that runs goes on.
Fairness == WF_vars(Begin) /\ WF_vars(Pass)

Spec     == Init /\ [][Next]_vars
FairSpec == Spec /\ Fairness

-----------------------------------------------------------------------------
(* Properties.                                                             *)

\* max_batch_size bounds the mails that one pass really moves, over all its folders
\* and blocks; only what a panicking folder moved is forgotten.
BatchLimit == opt.limit > 0 /\ ~panicked => done <= opt.limit

\* The counters of the result account for every mail that matched, also where the
\* batch limit cut a block, a folder and the pass short; only items that could not
\* be read are missing.
Accounted == pc \in {"folder", "finished"} /\ ~cancelled /\ ~panicked => owed = 0

\* Blocks, counted down over a collection that shrinks only where mails did leave,
\* reach every mail that was there: nothing else changed the folder, no read failed
\* and no limit struck.
EveryMailVisited ==
    pc = "block" /\ end < 1 /\ ~touched /\ ~StopNow => missed = {}

\* "Only mail older than retain_days": also when Restrict lets everything through.
RecentStays == opt.retain => pst \subseteq Old

\* Modes in which what a pass has handled is not in the way of the next one.
GetsOn == opt.mode = "move" \/ (opt.mode = "copy" /\ opt.limit = 0)

\* A mail that can be moved does get into a PST, whatever number of stuck or recent
\* mails are handled before it in every pass and however small the limit; and so does
\* one that is copied, as long as there is no limit for the copies to use up.
NoMailStarves ==
    \A m \in Mails \ Stuck :
        (GetsOn /\ Due(m) /\ InMailbox(m)) ~> (cancelled \/ ~InMailbox(m) \/ m \in pst)
=============================================================================
