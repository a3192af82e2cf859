------------------------------ MODULE Restore ------------------------------
(***************************************************************************)
(* internal/archiver/restore.go with the deletion step of archiver.go: one *)
(* restore moves the mail of PST files back into the default mailbox, may  *)
(* delete duplicates on the way, and removes the files it believes empty   *)
(* after it has shut Outlook down.  The subject is the safety of mail.     *)
(* A folder's Items collection is the set of its mails: the descending     *)
(* index visits each once, whatever fails.                                 *)
(***************************************************************************)
EXTENDS Naturals, FiniteSets

CONSTANTS Psts,     \* PST files that are mounted or lie in a scanned directory
          Home,     \* the default store; itself a PST for a mailbox without Exchange
          Paths,    \* folder paths; WalkPSTFolders lists these
          RootPath, \* the root folder of a store, which it does not list
          Mails,
          Subject, Time, Created,  \* of each mail: its subject, and the seconds of the
                    \* folder's time field and of its creation
          Hazards   \* what may happen beside the failures every COM call has

HazardKinds == {"partialWalk", "rootItems", "nilItems", "userFiles"}

ASSUME ConstantsOK == /\ RootPath \notin Paths
                      /\ "none" \notin Psts \cup {Home}
                      /\ Hazards \subseteq HazardKinds

Stores == Psts \cup {Home}
Places == [store : Stores, path : Paths \cup {RootPath}]
Gone   == [store |-> "none", path |-> "none"]

VARIABLES at,         \* where each mail is
          onDisk,     \* the PST files that exist
          deleteEmpty, deleteDup, \* the request's options
          dryRun,     \* the configuration's dry_run, which a reload may change
          dryAtStart, \* what Restore itself read
          dryHere,    \* what restoreFolderItems read for the folder at hand
          todo,       \* PSTs still to restore
          cur,        \* the PST at hand
          folders,    \* what the walk listed of it
          left,       \* folders still to process
          path,       \* the folder at hand
          visit,      \* its items still to visit
          ostSet,     \* the keys of the folder, each with a mail it was read of (history)
          twins,      \* the mails each one was deleted for (history)
          pending,    \* pendingDeletes
          pc

env   == <<at, onDisk, dryRun>>
opts  == <<deleteEmpty, deleteDup, dryAtStart>>
walk  == <<folders, left>>
items == <<path, visit, ostSet, dryHere>>
vars  == <<env, opts, todo, cur, walk, items, twins, pending, pc>>

Phases == {"idle", "loop", "mounted", "folders", "items", "unmount", "delete", "done"}
NoPst  == "none"
NoPath == "none"

\* How the reads of a mail's key may turn out.  A subject that cannot be read is an empty
\* one; a time field is replaced by the time of creation, and that by the zero time.
Reads == [subject : BOOLEAN, time : {"field", "created", "none"}]

KeyRead(m, r) == [subject |-> IF r.subject THEN Subject[m] ELSE "",
                  second  |-> CASE r.time = "field"   -> Time[m]
                                [] r.time = "created" -> Created[m]
                                [] OTHER              -> 0]

Entries == {[key |-> KeyRead(m, r), mail |-> m] : m \in Mails, r \in Reads}

TypeOK ==
    /\ at \in [Mails -> Places \cup {Gone}]
    /\ onDisk \subseteq Psts
    /\ {deleteEmpty, deleteDup, dryRun, dryAtStart, dryHere} \subseteq BOOLEAN
    /\ todo \subseteq Psts /\ pending \subseteq Psts
    /\ cur \in Psts \cup {NoPst}
    /\ folders \subseteq Paths /\ left \subseteq folders
    /\ path \in Paths \cup {NoPath}
    /\ visit \subseteq Mails
    /\ ostSet \subseteq Entries
    /\ twins \in [Mails -> SUBSET Mails]
    /\ pc \in Phases

StartPaths == IF "rootItems" \in Hazards THEN Paths \cup {RootPath} ELSE Paths

Init ==
    /\ at \in [Mails -> [store : Stores, path : StartPaths]]
    /\ onDisk = Psts
    /\ deleteEmpty \in BOOLEAN /\ deleteDup \in BOOLEAN /\ dryRun \in BOOLEAN
    /\ dryAtStart = FALSE /\ dryHere = FALSE
    /\ todo = {} /\ cur = NoPst
    /\ folders = {} /\ left = {}
    /\ path = NoPath /\ visit = {} /\ ostSet = {}
    /\ twins = [m \in Mails |-> {}]
    /\ pending = {}
    /\ pc = "idle"

In(s, p) == {m \in Mails : at[m] = [store |-> s, path |-> p]}

Goto(from, to) == pc = from /\ pc' = to

-----------------------------------------------------------------------------
(* Restore: the loop over the PSTs.                                        *)

\* collectPSTsToRestore: what is mounted or found; either source may fail.
Collect == /\ Goto("idle", "loop")
           /\ todo' \in SUBSET Psts
           /\ dryAtStart' = dryRun
           /\ UNCHANGED <<env, deleteEmpty, deleteDup, cur, walk, items, twins, pending>>

MountFails == /\ pc = "loop"
              /\ \E p \in todo : todo' = todo \ {p}
              /\ UNCHANGED <<env, opts, cur, walk, items, twins, pending, pc>>

Mount == /\ Goto("loop", "mounted")
         /\ \E p \in todo : cur' = p /\ todo' = todo \ {p}
         /\ UNCHANGED <<env, opts, walk, items, twins, pending>>

\* walkFoldersRecursive answers an error of a COM call by leaving a subtree out.
Listed(s) == s = Paths \/ "partialWalk" \in Hazards

Walk == /\ Goto("mounted", "folders")
        /\ \E s \in SUBSET Paths : Listed(s) /\ folders' = s /\ left' = s
        /\ UNCHANGED <<env, opts, todo, cur, items, twins, pending>>

\* Mutant: a folder whose count fails is taken for an empty one.
EmptyUnlessCounted(counted) == \A f \in folders \cap counted : In(cur, f) = {}

\* restorePST's verdict, over the folders it has listed.  A count that fails keeps
\* the file; a count whose Items is nil comes back as zero.
Empty(counted) ==
    \A f \in folders : \/ f \in counted /\ In(cur, f) = {}
                       \/ f \notin counted /\ "nilItems" \in Hazards

\* Unmounting, which may fail without consequence, and the decision to delete.
MayDelete(verdict) == deleteEmpty /\ verdict /\ ~dryAtStart

\* Mutant: what is left of a PST that was broken off stays for the next one.
DecideKeepsRest(verdict) ==
    /\ pending' = IF MayDelete(verdict) THEN pending \cup {cur} ELSE pending
    /\ cur' = NoPst
    /\ folders' = {}
    /\ UNCHANGED <<left, env, opts, todo, items, twins>>

Decide(verdict) == /\ pending' = IF MayDelete(verdict) THEN pending \cup {cur} ELSE pending
                   /\ cur' = NoPst
                   /\ folders' = {} /\ left' = {}
                   /\ UNCHANGED <<env, opts, todo, items, twins>>

Judge == /\ Goto("folders", "loop")
         /\ left = {}
         /\ \E counted \in SUBSET folders : Decide(Empty(counted))

\* WalkPSTFolders fails: its closure panicked or was refused by the bridge.
WalkFails == /\ Goto("mounted", "loop")
             /\ Decide(FALSE)

\* ctx.Done() between two folders: restorePST returns (false, ctx.Err()).
BreakOff == /\ Goto("folders", "loop")
            /\ left # {}
            /\ Decide(FALSE)

\* ctx.Done() between two PSTs, or no mailbox root: Restore fails and deletes nothing.
Cancelled == /\ Goto("loop", "done")
             /\ UNCHANGED <<env, opts, todo, cur, walk, items, twins, pending>>

AllRestored == /\ Goto("loop", "delete")
               /\ todo = {}
               /\ UNCHANGED <<env, opts, todo, cur, walk, items, twins, pending>>

-----------------------------------------------------------------------------
(* restoreFolderItems: one closure on the COM thread.                      *)

\* The folder cannot be created in the mailbox, or has no Items.
SkipFolder == /\ pc = "folders"
              /\ \E f \in left : left' = left \ {f}
              /\ UNCHANGED <<env, opts, todo, cur, folders, items, twins, pending, pc>>

\* The index of the mailbox folder; reading the table may stop early.
DuplicateSets(f) ==
    IF deleteDup
    THEN {{[key |-> KeyRead(m, read[m]), mail |-> m] : m \in DOMAIN read} :
             read \in UNION {[seen -> Reads] : seen \in SUBSET In(Home, f)}}
    ELSE {{}}

EnterFolder == /\ Goto("folders", "items")
               /\ \E f \in left : /\ left' = left \ {f}
                                  /\ path' = f
                                  /\ visit' = In(cur, f)
                                  /\ ostSet' \in DuplicateSets(f)
               /\ dryHere' = dryRun
               /\ UNCHANGED <<env, opts, todo, cur, folders, twins, pending>>

\* An item that cannot be fetched, deleted or moved stays where it is; the key of
\* one that was to be moved is recorded all the same.
Here(m) == at[m] = [store |-> cur, path |-> path]

With(key) == {e.mail : e \in {i \in ostSet : i.key = key}}

\* Mutant: the key of an item is recorded before it is looked up.
SeenItself(m, key) == IF deleteDup THEN With(key) \cup {m} ELSE {}

\* The mails of which the index has this key.
Seen(m, key) == IF deleteDup THEN With(key) ELSE {}

KeyRecorded(m, key) ==
    ostSet' = IF deleteDup THEN ostSet \cup {[key |-> key, mail |-> m]} ELSE ostSet

NextItem(m) == /\ pc = "items"
               /\ m \in visit
               /\ visit' = visit \ {m}
               /\ UNCHANGED <<onDisk, dryRun, opts, todo, cur, walk, path, dryHere, pending, pc>>

ItemFails == \E m \in Mails : /\ NextItem(m)
                              /\ UNCHANGED <<at, ostSet, twins>>

Deleted(m) == IF dryHere THEN at ELSE [at EXCEPT ![m] = Gone]

DeleteDuplicate ==
    \E m \in Mails, r \in Reads :
        LET same == Seen(m, KeyRead(m, r)) IN
        /\ NextItem(m)
        /\ Here(m)
        /\ same # {}
        /\ at' = Deleted(m)
        /\ twins' = IF dryHere THEN twins ELSE [twins EXCEPT ![m] = same]
        /\ UNCHANGED ostSet

Moved(m) == IF dryHere THEN at ELSE [at EXCEPT ![m] = [store |-> Home, path |-> path]]

MoveItem ==
    \E m \in Mails, r \in Reads :
        /\ NextItem(m)
        /\ Here(m)
        /\ Seen(m, KeyRead(m, r)) = {}
        /\ KeyRecorded(m, KeyRead(m, r))
        /\ at' \in {at, Moved(m)}
        /\ UNCHANGED twins

\* All items visited, or ctx.Done() between two of them.
LeaveFolder == /\ Goto("items", "folders")
               /\ path' = NoPath /\ visit' = {} /\ ostSet' = {} /\ dryHere' = FALSE
               /\ UNCHANGED <<env, opts, todo, cur, walk, twins, pending>>

-----------------------------------------------------------------------------
(* ExecuteIndependentDeletion, with Outlook down.                          *)

DeleteFile == /\ pc = "delete"
              /\ \E p \in pending :
                   /\ pending' = pending \ {p}
                   /\ onDisk' = onDisk \ {p}
                   /\ at' = [m \in Mails |-> IF at[m].store = p THEN Gone ELSE at[m]]
              /\ UNCHANGED <<dryRun, opts, todo, cur, walk, items, twins, pc>>

\* os.Remove fails: the file is still in use.
RemoveFails == /\ pc = "delete"
               /\ \E p \in pending : pending' = pending \ {p}
               /\ UNCHANGED <<env, opts, todo, cur, walk, items, twins, pc>>

Restart == /\ Goto("delete", "done")
           /\ pending = {}
           /\ UNCHANGED <<env, opts, todo, cur, walk, items, twins, pending>>

-----------------------------------------------------------------------------
(* What goes on beside the restore.                                        *)

\* A reload that had passed its idle check before the restore began.
Reload == /\ pc # "done"
          /\ dryRun' = ~dryRun
          /\ UNCHANGED <<at, onDisk, opts, todo, cur, walk, items, twins, pending, pc>>

\* The user drags mail about in the Outlook window: to another mailbox folder or,
\* with the hazard, into a PST that is being restored.
Targets == IF "userFiles" \in Hazards THEN [store : Stores, path : Paths]
                                      ELSE [store : {Home}, path : Paths]

UserMoves == /\ pc \notin {"delete", "done"}
             /\ \E m \in Mails, t \in Targets : at[m] # Gone /\ at' = [at EXCEPT ![m] = t]
             /\ UNCHANGED <<onDisk, dryRun, opts, todo, cur, walk, items, twins, pending, pc>>

Next == \/ Collect \/ MountFails \/ Mount \/ Walk \/ WalkFails \/ Judge \/ BreakOff \/ Cancelled
        \/ AllRestored \/ SkipFolder \/ EnterFolder \/ ItemFails \/ DeleteDuplicate
        \/ MoveItem \/ LeaveFolder \/ DeleteFile \/ RemoveFails \/ Restart
        \/ Reload \/ UserMoves

Spec == Init /\ [][Next]_vars

-----------------------------------------------------------------------------
(* Properties.                                                             *)

\* "If the main mailbox already has the mail, delete the copy in the PST" (the web
\* page's words for the option): whatever is deleted, and whichever calls fail or read
\* nothing, another mail of which the same subject and second were read survives.  Two
\* mails the reads do not tell apart are one mail to the code, and one of them may go.
TwinSurvives ==
    \A m \in Mails : at[m] = Gone => \E n \in twins[m] : at[n] # Gone

\* "Deleted from the disk if the file was emptied": what the walk listed, the counts
\* found and the shutdown of Outlook left open, a file that is removed holds no mail.
OnlyEmptyFilesDeleted ==
    [][\A p \in onDisk \ onDisk' : \A m \in Mails : at[m].store # p]_vars
=============================================================================
