--------------------------- MODULE RestoreProofs ---------------------------
(***************************************************************************)
(* Proofs about Restore, and about NamespaceCache: its deletion of files   *)
(* restarts Outlook.  Restore's TypeOK holds whatever may happen.  The two *)
(* promises about mail are proved for any stores, folders and mails where  *)
(* the code can keep them: no hazard happens and the default store is not  *)
(* one of the PST files.                                                   *)
(* The runs of MCRestorePartialWalk and MCRestoreDefaultStore show what    *)
(* becomes of the promises without the first and the second.               *)
(***************************************************************************)
EXTENDS Restore, NamespaceCache, TLAPS

Walking == {"folders", "items"}

\* Where the loop over the PSTs is, the PST at hand is one of the files.
AtHand == /\ pc \in Walking \cup {"mounted"} => cur \in Psts
          /\ pc = "items" => path \in Paths

TInv == TypeOK /\ AtHand

\* A restore begins well-typed, and each step keeps it so.
LEMMA TypeInit == Init => TInv
  BY DEF Init, TInv, TypeOK, AtHand, StartPaths, Places, Phases, Walking, NoPst, NoPath

LEMMA TypeStep == TInv /\ [Next]_vars => TInv'
<1> SUFFICES ASSUME TInv, [Next]_vars PROVE TInv'
  OBVIOUS
<1> USE DEF TInv, TypeOK, AtHand, Walking, Phases, NoPst, NoPath, vars, env, opts, walk, items, Goto
<1>1. ASSUME Collect \/ MountFails \/ Mount \/ Cancelled \/ AllRestored PROVE TInv'
  BY <1>1 DEF Collect, MountFails, Mount, Cancelled, AllRestored
<1>2. ASSUME Walk PROVE TInv'
  BY <1>2 DEF Walk
<1>3. ASSUME WalkFails \/ Judge \/ BreakOff PROVE TInv'
  <2>1. pc' = "loop" /\ \E v \in BOOLEAN : Decide(v)
    BY <1>3 DEF WalkFails, Judge, BreakOff, Empty
  <2>2. cur \in Psts
    BY <1>3 DEF WalkFails, Judge, BreakOff
  <2> QED BY <2>1, <2>2 DEF Decide
<1>4. ASSUME SkipFolder \/ LeaveFolder PROVE TInv'
  BY <1>4 DEF SkipFolder, LeaveFolder
<1>5. ASSUME EnterFolder PROVE TInv'
  <2>1. PICK f \in left : left' = left \ {f} /\ path' = f /\ visit' = In(cur, f)
                          /\ ostSet' \in DuplicateSets(f)
    BY <1>5 DEF EnterFolder
  <2>2. visit' \subseteq Mails /\ ostSet' \subseteq Entries
    BY <2>1 DEF In, DuplicateSets, Entries
  <2> QED BY <1>5, <2>1, <2>2 DEF EnterFolder
<1>6. ASSUME ItemFails \/ DeleteDuplicate \/ MoveItem PROVE TInv'
  <2>1. PICK m \in Mails, r \in Reads :
           /\ NextItem(m)
           /\ ostSet' = ostSet \/ KeyRecorded(m, KeyRead(m, r))
           /\ twins' \in {twins, [twins EXCEPT ![m] = Seen(m, KeyRead(m, r))]}
           /\ at' \in {at, Moved(m), Deleted(m)}
    <3>1. \E r \in Reads : TRUE
      <4>1. [subject |-> TRUE, time |-> "field"] \in Reads
        BY DEF Reads
      <4> QED BY <4>1
    <3> QED BY <1>6, <3>1 DEF ItemFails, DeleteDuplicate, MoveItem
  <2>2. at' \in [Mails -> Places \cup {Gone}]
    BY <2>1 DEF NextItem, Moved, Deleted, Places, Stores
  <2>3. ostSet' \subseteq Entries
    BY <2>1 DEF KeyRecorded, Entries
  <2>4. Seen(m, KeyRead(m, r)) \subseteq Mails
    <3>1. \A e \in Entries : e.mail \in Mails
      BY DEF Entries
    <3> QED BY <3>1 DEF Seen, With
  <2>5. twins' \in [Mails -> SUBSET Mails]
    BY <2>1, <2>4
  <2> QED BY <2>1, <2>2, <2>3, <2>5 DEF NextItem
<1>7. ASSUME DeleteFile \/ RemoveFails \/ Restart PROVE TInv'
  BY <1>7 DEF DeleteFile, RemoveFails, Restart
<1>8. ASSUME Reload PROVE TInv'
  BY <1>8 DEF Reload
<1>9. ASSUME UserMoves PROVE TInv'
  BY <1>9 DEF UserMoves, Targets, Places, Stores
<1>10. CASE UNCHANGED vars
  BY <1>10
<1> QED
  BY <1>1, <1>2, <1>3, <1>4, <1>5, <1>6, <1>7, <1>8, <1>9, <1>10 DEF Next

\* Every reachable state is well-typed, with every hazard and for any stores and mails.
THEOREM TypeCorrect == Spec => []TypeOK
<1>1. TInv => TypeOK
  BY DEF TInv
<1> QED
  BY TypeInit, TypeStep, <1>1, PTL DEF Spec
-----------------------------------------------------------------------------
(* The safety of mail.                                                     *)

\* What the code takes for granted: every folder is listed and counted, and the user keeps
\* out of the PSTs, none of which is the mailbox.
Undisturbed == Hazards = {} /\ Home \notin Psts

\* A verdict is given over all folders, and mail lies in folders only.
AllListed == /\ pc \in Walking => folders = Paths
             /\ \A m \in Mails : at[m] # Gone => at[m].path \in Paths

\* A file that waits for its deletion has no mail, and none comes back into it.
PendingEmpty == \A p \in pending : \A m \in Mails : at[m].store # p

\* The restore will not come to this mail: it is in the mailbox, in a file that is done
\* with, or in a folder whose turn is over.
Past(n) == /\ at[n] # Gone
           /\ at[n].store \notin todo
           /\ at[n].store = cur => pc \in Walking /\ at[n].path \notin left /\ n \notin visit

\* The file and the folder at hand no longer wait, and nothing is recorded at first.
Turn == /\ pc \in Walking \cup {"mounted"} => cur \notin todo
        /\ pc = "items" => path \notin left
        /\ pc = "idle" => ostSet = {} /\ \A m \in Mails : twins[m] = {}

\* A recorded key was read of a mail that is not itself taken for a duplicate later, and
\* so was the key for which a mail was deleted.
KeysHeld == \A e \in ostSet : Past(e.mail)
TwinsHeld == \A m \in Mails : /\ at[m] = Gone => twins[m] # {}
                              /\ \A n \in twins[m] : Past(n)

\* Only the option to delete duplicates takes mail away.
NoneLost == ~deleteDup => \A m \in Mails : at[m] # Gone

SInv == AllListed /\ PendingEmpty /\ Turn /\ KeysHeld /\ TwinsHeld /\ NoneLost

\* All mail is there at the start.
LEMMA SafeInit == Undisturbed /\ Init => SInv
<1> SUFFICES ASSUME Undisturbed, Init PROVE SInv
  OBVIOUS
<1>1. \A m \in Mails : at[m] # Gone /\ at[m].path \in Paths
  BY ConstantsOK DEF Init, StartPaths, Undisturbed, Gone, Stores
<1>2. AllListed /\ PendingEmpty /\ Turn /\ KeysHeld
  BY <1>1 DEF Init, AllListed, PendingEmpty, Turn, KeysHeld, Walking
<1>3. TwinsHeld /\ NoneLost
  BY <1>1 DEF Init, TwinsHeld, NoneLost
<1> QED
  BY <1>2, <1>3 DEF SInv

\* Entries and twins are mails, and each mail is in a place of a store, or gone.
LEMMA Placed == TInv => /\ at \in [Mails -> Places \cup {Gone}]
                        /\ \A e \in ostSet : e.mail \in Mails
                        /\ \A m \in Mails : twins[m] \subseteq Mails
<1> SUFFICES ASSUME TInv PROVE \A e \in ostSet : e.mail \in Mails
  BY DEF TInv, TypeOK
<1> QED
  BY DEF TInv, TypeOK, Entries

\* The folders were listed in full and the counts did not lie: the PST holds no mail.
LEMMA JudgedEmpty ==
  ASSUME Undisturbed, TInv, SInv, pc = "folders",
         NEW counted \in SUBSET folders, Empty(counted), NEW m \in Mails
  PROVE  at[m].store # cur
<1>1. SUFFICES ASSUME at[m].store = cur PROVE FALSE
  OBVIOUS
<1>2. cur \in Psts /\ folders = Paths
  BY DEF TInv, AtHand, SInv, AllListed, Walking
<1>3. at[m] # Gone
  BY <1>1, <1>2, ConstantsOK DEF Gone
<1>4. at[m].path \in folders
  BY <1>2, <1>3 DEF SInv, AllListed
<1>5. In(cur, at[m].path) = {}
  BY <1>4 DEF Empty, Undisturbed
<1>6. at[m] = [store |-> cur, path |-> at[m].path]
  BY <1>1, <1>3 DEF TInv, TypeOK, Places
<1> QED
  BY <1>5, <1>6 DEF In

\* The restore goes on to other files and folders: what is past stays past.
LEMMA StaysPast ==
  ASSUME TInv, NEW n \in Mails, Past(n), at'[n] = at[n], todo' \subseteq todo,
         \/ cur' \in todo \cup {NoPst}
         \/ /\ cur' = cur
            /\ pc \in Walking => /\ pc' \in Walking
                                 /\ left' \subseteq left
                                 /\ \A m \in visit' : m \in visit \/ at[m].path \in left
  PROVE  Past(n)'
<1>1. at[n] # Gone /\ at[n].store \notin todo /\ at[n].store # NoPst
  <2>1. at[n] \in Places
    BY Placed DEF Past
  <2> QED BY <2>1, ConstantsOK DEF Past, Places, Stores, NoPst
<1>2. CASE cur' \in todo \cup {NoPst}
  BY <1>1, <1>2 DEF Past
<1>3. CASE cur' = cur /\ at[n].store # cur
  BY <1>1, <1>3 DEF Past
<1>4. CASE cur' = cur /\ at[n].store = cur
  <2>1. pc \in Walking /\ at[n].path \notin left /\ n \notin visit
    BY <1>4 DEF Past
  <2>2. pc' \in Walking /\ left' \subseteq left /\ n \notin visit'
    BY <1>1, <1>4, <2>1 DEF TInv, AtHand, Walking
  <2> QED BY <1>1, <1>4, <2>1, <2>2 DEF Past
<1> QED BY <1>2, <1>3, <1>4

\* Mail in the mailbox is past.
LEMMA HomeIsPast ==
  ASSUME Undisturbed, TInv', NEW n \in Mails, NEW f, at'[n] = [store |-> Home, path |-> f]
  PROVE  Past(n)'
BY ConstantsOK DEF Undisturbed, TInv, TypeOK, Past, Gone, NoPst

\* Steps that leave all mail where it is and record no key.
LEMMA MailStays ==
  ASSUME TInv, SInv, UNCHANGED <<at, deleteDup, twins>>, ostSet' \subseteq ostSet,
         pc = "idle" \/ \A n \in Mails : Past(n) => Past(n)',
         Turn', pc' \in Walking => folders' = Paths,
         \A p \in pending' \ pending : \A m \in Mails : at[m].store # p
  PROVE  SInv'
<1>1. AllListed' /\ PendingEmpty' /\ NoneLost'
  BY DEF SInv, AllListed, PendingEmpty, NoneLost
<1>2. KeysHeld'
  BY Placed DEF SInv, KeysHeld, Turn
<1>3. TwinsHeld'
  BY Placed DEF SInv, TwinsHeld, Turn
<1> QED
  BY <1>1, <1>2, <1>3 DEF SInv

\* Steps of the loop over the PSTs.
LEMMA LoopKeepsMail ==
  ASSUME Undisturbed, TInv, SInv,
         \/ Collect \/ MountFails \/ Mount \/ Walk \/ WalkFails \/ Judge \/ BreakOff
         \/ Cancelled \/ AllRestored \/ SkipFolder \/ LeaveFolder
  PROVE  SInv'
<1> USE DEF env, opts, walk, items, Goto, Walking
<1>1. CASE Collect \/ MountFails \/ Mount \/ Cancelled \/ AllRestored
  <2>1. UNCHANGED <<at, deleteDup, twins, ostSet, pending>> /\ pc' \notin Walking
    BY <1>1 DEF Collect, MountFails, Mount, Cancelled, AllRestored
  <2>2. Turn'
    BY <1>1 DEF Collect, MountFails, Mount, Cancelled, AllRestored, Turn
  <2>3. \/ pc = "idle"
        \/ pc = "loop" /\ todo' \subseteq todo /\ cur' \in todo \cup {cur}
    BY <1>1 DEF Collect, MountFails, Mount, Cancelled, AllRestored
  <2>4. pc = "idle" \/ \A n \in Mails : Past(n) => Past(n)'
    BY <2>1, <2>3, StaysPast
  <2> QED BY <2>1, <2>2, <2>4, MailStays
<1>2. CASE Walk
  <2>1. /\ UNCHANGED <<at, deleteDup, twins, ostSet, todo, cur, pending>> /\ folders' = Paths
        /\ pc = "mounted" /\ pc' = "folders"
    BY <1>2 DEF Walk, Listed, Undisturbed
  <2>2. Turn' /\ \A n \in Mails : Past(n) => Past(n)'
    BY <2>1, StaysPast DEF SInv, Turn
  <2> QED BY <2>1, <2>2, MailStays
<1>3. CASE SkipFolder \/ LeaveFolder
  <2>1. /\ UNCHANGED <<at, deleteDup, twins, todo, cur, folders, pending>>
        /\ visit' \in {visit, {}} /\ ostSet' \in {ostSet, {}} /\ left' \subseteq left
        /\ pc \in Walking /\ pc' = "folders"
    BY <1>3 DEF SkipFolder, LeaveFolder
  <2>2. Turn' /\ \A n \in Mails : Past(n) => Past(n)'
    BY <2>1, StaysPast DEF SInv, Turn
  <2> QED BY <2>1, <2>2, MailStays DEF SInv, AllListed
<1>4. CASE WalkFails \/ BreakOff
  <2>1. /\ UNCHANGED <<at, deleteDup, twins, ostSet, todo, pending>>
        /\ pc' = "loop" /\ cur' = NoPst
    BY <1>4 DEF WalkFails, BreakOff, Decide, MayDelete
  <2>2. Turn' /\ \A n \in Mails : Past(n) => Past(n)'
    BY <2>1, StaysPast DEF Turn
  <2> QED BY <2>1, <2>2, MailStays
<1>5. CASE Judge
  <2>1. PICK counted \in SUBSET folders : Decide(Empty(counted))
    BY <1>5 DEF Judge
  <2>2. /\ UNCHANGED <<at, deleteDup, twins, ostSet, todo>>
        /\ pc = "folders" /\ pc' = "loop" /\ cur' = NoPst
    BY <1>5, <2>1 DEF Judge, Decide
  <2>3. Turn' /\ \A n \in Mails : Past(n) => Past(n)'
    BY <2>2, StaysPast DEF Turn
  <2>4. CASE Empty(counted)
    <3>1. \A m \in Mails : at[m].store # cur
      BY <2>1, <2>2, <2>4, JudgedEmpty
    <3>2. pending' \subseteq pending \cup {cur}
      BY <2>1 DEF Decide
    <3> QED BY <2>2, <2>3, <3>1, <3>2, MailStays
  <2>5. CASE ~Empty(counted)
    <3>1. pending' = pending
      BY <2>1, <2>5 DEF Decide, MayDelete
    <3> QED BY <2>2, <2>3, <3>1, MailStays
  <2> QED BY <2>4, <2>5
<1> QED BY <1>1, <1>2, <1>3, <1>4, <1>5

\* The keys of the mailbox folder are those of mails that are not to be visited.
LEMMA EnterKeepsMail ==
  ASSUME Undisturbed, TInv, TInv', SInv, EnterFolder
  PROVE  SInv'
<1> USE DEF env, opts, walk, items, Goto, Walking
<1>1. PICK f \in left : /\ left' = left \ {f} /\ path' = f
                        /\ visit' = In(cur, f) /\ ostSet' \in DuplicateSets(f)
  BY DEF EnterFolder
<1>2. /\ UNCHANGED <<at, deleteDup, twins, todo, cur, folders, pending>>
      /\ pc = "folders" /\ pc' = "items"
  BY DEF EnterFolder
<1>3. \A n \in Mails : Past(n) => Past(n)'
  <2>1. \A m \in visit' : at[m].path \in left
    BY <1>1 DEF In
  <2> QED BY <1>1, <1>2, <2>1, StaysPast
<1>4. KeysHeld'
  <2> SUFFICES ASSUME NEW e \in ostSet' PROVE Past(e.mail)'
    BY DEF KeysHeld
  <2>1. \A e1 \in ostSet' : e1.mail \in In(Home, f)
    BY <1>1 DEF DuplicateSets
  <2>2. e.mail \in Mails /\ at'[e.mail] = [store |-> Home, path |-> f]
    BY <1>2, <2>1 DEF In
  <2> QED BY <2>2, HomeIsPast
<1>5. TwinsHeld'
  BY <1>2, <1>3, Placed DEF SInv, TwinsHeld
<1>6. AllListed' /\ PendingEmpty' /\ Turn' /\ NoneLost'
  BY <1>1, <1>2 DEF SInv, AllListed, PendingEmpty, Turn, NoneLost
<1> QED BY <1>4, <1>5, <1>6 DEF SInv

\* A move into the mailbox, by the restore or by the user, may fail: no waiting file gets
\* mail, and none is lost.
LEMMA MailGoesHome ==
  ASSUME Undisturbed, TInv, TInv', SInv,
         UNCHANGED <<deleteDup, twins, todo, cur, left, folders, path, pending, pc>>,
         visit' \subseteq visit, NEW m \in Mails, NEW f \in Paths, at[m] # Gone,
         at' \in {at, [at EXCEPT ![m] = [store |-> Home, path |-> f]]}
  PROVE  /\ AllListed' /\ PendingEmpty' /\ TwinsHeld' /\ NoneLost'
         /\ \A n \in Mails : Past(n) => Past(n)'
<1>1. \A n \in Mails : \/ at'[n] = at[n]
                       \/ n = m /\ at'[n] = [store |-> Home, path |-> f]
  BY Placed
<1>2. Home \notin pending /\ [store |-> Home, path |-> f] # Gone
  BY ConstantsOK DEF Undisturbed, TInv, TypeOK, Gone
<1>3. \A n \in Mails : at[n] # Gone => at'[n] # Gone
  BY <1>1, <1>2
<1>4. \A n \in Mails : Past(n) => Past(n)'
  BY <1>1, StaysPast, HomeIsPast
<1>6. AllListed' /\ PendingEmpty'
  BY <1>1, <1>2 DEF SInv, AllListed, PendingEmpty
<1>7. TwinsHeld'
  BY <1>1, <1>2, <1>4, Placed DEF SInv, TwinsHeld
<1>8. NoneLost'
  BY <1>3 DEF SInv, NoneLost
<1> QED BY <1>4, <1>6, <1>7, <1>8

\* A mail that is to be moved has its key recorded; its turn is over even if it stays.
LEMMA MoveKeepsMail ==
  ASSUME Undisturbed, TInv, TInv', SInv, MoveItem
  PROVE  SInv'
<1>1. PICK m \in Mails, r \in Reads : /\ NextItem(m) /\ Here(m)
                                      /\ KeyRecorded(m, KeyRead(m, r))
                                      /\ at' \in {at, Moved(m)} /\ twins' = twins
  BY DEF MoveItem
<1>2. /\ UNCHANGED <<deleteDup, todo, cur, left, folders, pending, path, pc>>
      /\ pc = "items" /\ visit' = visit \ {m}
  BY <1>1 DEF NextItem, walk, opts
<1>3. cur \in Psts /\ path \in Paths /\ path \notin left /\ cur \notin todo
  BY <1>2 DEF TInv, AtHand, Walking, SInv, Turn
<1>4. at[m] # Gone /\ at[m] = [store |-> cur, path |-> path]
  BY <1>1, <1>3, ConstantsOK DEF Here, Gone
<1>5. at' \in {at, [at EXCEPT ![m] = [store |-> Home, path |-> path]]}
  BY <1>1 DEF Moved
<1>6. /\ AllListed' /\ PendingEmpty' /\ TwinsHeld' /\ NoneLost'
      /\ \A n \in Mails : Past(n) => Past(n)'
  BY <1>1, <1>2, <1>3, <1>4, <1>5, MailGoesHome
<1>7. Past(m)'
  <2>1. CASE at' = at
    BY <1>2, <1>3, <1>4, <2>1 DEF Past, Walking
  <2>2. CASE at' # at
    BY <1>5, <2>2, Placed, HomeIsPast
  <2> QED BY <2>1, <2>2
<1>8. KeysHeld'
  <2>1. \A e \in ostSet' : e \in ostSet \/ e.mail = m
    BY <1>1 DEF KeyRecorded
  <2> QED BY <1>6, <1>7, <2>1, Placed DEF SInv, KeysHeld
<1>9. Turn'
  BY <1>2, <1>3 DEF Turn
<1> QED BY <1>6, <1>8, <1>9 DEF SInv

\* A duplicate is deleted for mails of which the same key was read, and which stay.
LEMMA DeleteKeepsMail ==
  ASSUME Undisturbed, TInv, SInv, DeleteDuplicate
  PROVE  SInv'
<1>1. PICK m \in Mails, r \in Reads :
         /\ NextItem(m) /\ Here(m) /\ Seen(m, KeyRead(m, r)) # {}
         /\ ostSet' = ostSet /\ at' = Deleted(m)
         /\ twins' = IF dryHere THEN twins
                               ELSE [twins EXCEPT ![m] = Seen(m, KeyRead(m, r))]
  BY DEF DeleteDuplicate
<1>2. /\ UNCHANGED <<deleteDup, todo, cur, left, folders, path, pending, pc>>
      /\ pc = "items" /\ m \in visit /\ visit' = visit \ {m} /\ deleteDup
  BY <1>1 DEF NextItem, walk, opts, Seen
<1>3. \A n \in Mails : at'[n] = at[n] \/ (n = m /\ at'[n] = Gone)
  BY <1>1, Placed DEF Deleted
<1>4. "none" \notin pending
  BY ConstantsOK DEF TInv, TypeOK
<1>5. AllListed' /\ PendingEmpty' /\ NoneLost' /\ Turn'
  BY <1>2, <1>3, <1>4 DEF SInv, AllListed, PendingEmpty, NoneLost, Turn, Gone
<1>6. cur \in Psts /\ path \in Paths
  BY <1>2 DEF TInv, AtHand, Walking
<1>7. ~Past(m)
  BY <1>1, <1>2 DEF Past, Here
<1>8. \A n \in Mails : Past(n) => Past(n)'
  BY <1>2, <1>3, <1>7, StaysPast
<1>9. KeysHeld'
  BY <1>1, <1>8, Placed DEF SInv, KeysHeld
<1>10. \A n \in Seen(m, KeyRead(m, r)) : n \in Mails /\ Past(n)
  BY Placed DEF Seen, With, SInv, KeysHeld
<1>11. TwinsHeld'
  <2>1. CASE dryHere
    <3>1. at' = at /\ twins' = twins
      BY <1>1, <2>1 DEF Deleted
    <3> QED BY <1>8, <3>1, Placed DEF SInv, TwinsHeld
  <2>2. CASE ~dryHere
    <3>1. twins' = [twins EXCEPT ![m] = Seen(m, KeyRead(m, r))]
      BY <1>1, <2>2
    <3>2. twins'[m] = Seen(m, KeyRead(m, r)) /\ \A n \in Mails \ {m} : twins'[n] = twins[n]
      BY <3>1 DEF TInv, TypeOK
    <3> QED BY <1>1, <1>3, <1>8, <1>10, <3>2, Placed DEF SInv, TwinsHeld
  <2> QED BY <2>1, <2>2
<1> QED BY <1>5, <1>9, <1>11 DEF SInv

\* A file that is removed takes no mail with it.
LEMMA RemovalKeepsMail ==
  ASSUME TInv, SInv, DeleteFile \/ RemoveFails \/ Restart
  PROVE  SInv'
<1>1. at' = at
  <2>1. CASE DeleteFile
    <3>1. PICK p \in pending : at' = [m \in Mails |-> IF at[m].store = p THEN Gone ELSE at[m]]
      BY <2>1 DEF DeleteFile
    <3> QED BY <3>1 DEF SInv, PendingEmpty, TInv, TypeOK
  <2> QED BY <2>1 DEF RemoveFails, Restart, env
<1>2. /\ UNCHANGED <<deleteDup, twins, visit, ostSet, todo, cur>> /\ pc' \notin Walking
      /\ pc = "delete" /\ pc' \in {"delete", "done"} /\ pending' \subseteq pending
  BY DEF DeleteFile, RemoveFails, Restart, Goto, Walking, items, opts
<1>3. Turn'
  BY <1>2 DEF Turn, Walking
<1>4. \A n \in Mails : Past(n) => Past(n)'
  BY <1>1, <1>2 DEF Past, Walking
<1> QED BY <1>1, <1>2, <1>3, <1>4, MailStays

\* Every step keeps the mail safe.
LEMMA SafeStep == Undisturbed /\ TInv /\ TInv' /\ SInv /\ [Next]_vars => SInv'
<1> SUFFICES ASSUME Undisturbed, TInv, TInv', SInv, [Next]_vars PROVE SInv'
  OBVIOUS
<1>1. CASE \/ Collect \/ MountFails \/ Mount \/ Walk \/ WalkFails \/ Judge \/ BreakOff
           \/ Cancelled \/ AllRestored \/ SkipFolder \/ LeaveFolder
  BY <1>1, LoopKeepsMail
<1>2. CASE EnterFolder
  BY <1>2, EnterKeepsMail
<1>3. CASE DeleteDuplicate \/ MoveItem
  BY <1>3, DeleteKeepsMail, MoveKeepsMail
<1>4. CASE DeleteFile \/ RemoveFails \/ Restart
  BY <1>4, RemovalKeepsMail
<1>5. CASE UserMoves
  <2>1. PICK m \in Mails, t \in Targets : at[m] # Gone /\ at' = [at EXCEPT ![m] = t]
    BY <1>5 DEF UserMoves
  <2>2. PICK f \in Paths : t = [store |-> Home, path |-> f]
    BY DEF Targets, Undisturbed
  <2>3. UNCHANGED <<deleteDup, ostSet, twins, todo, cur, left, folders, path, pending, visit, pc>>
    BY <1>5 DEF UserMoves, walk, items, opts
  <2>4. /\ AllListed' /\ PendingEmpty' /\ TwinsHeld' /\ NoneLost'
        /\ \A n \in Mails : Past(n) => Past(n)'
    BY <2>1, <2>2, <2>3, MailGoesHome
  <2>5. KeysHeld' /\ Turn'
    BY <2>3, <2>4, Placed DEF SInv, KeysHeld, Turn
  <2> QED BY <2>4, <2>5 DEF SInv
<1>6. CASE Reload \/ ItemFails \/ UNCHANGED vars
  <2>1. /\ UNCHANGED <<at, deleteDup, ostSet, twins, todo, cur, left, folders, path, pending, pc>>
        /\ visit' \subseteq visit
    BY <1>6 DEF Reload, ItemFails, NextItem, vars, env, walk, items, opts
  <2>2. Turn' /\ \A n \in Mails : Past(n) => Past(n)'
    BY <2>1, StaysPast DEF SInv, Turn
  <2> QED BY <2>1, <2>2, MailStays DEF SInv, AllListed
<1> QED BY <1>1, <1>2, <1>3, <1>4, <1>5, <1>6 DEF Next
-----------------------------------------------------------------------------
\* What the results on mail rest on, for a restore that nothing disturbs.
THEOREM Safe == ASSUME Undisturbed PROVE Spec => [](TInv /\ SInv)
<1>1. Init => TInv /\ SInv
  BY TypeInit, SafeInit
<1>2. TInv /\ SInv /\ [Next]_vars => (TInv /\ SInv)'
  BY TypeStep, SafeStep
<1> QED
  BY <1>1, <1>2, PTL DEF Spec

\* Duplicates are deleted only for a mail that remains, and files only when no mail is
\* left in them: for every mail that is gone another one survives of which the restore
\* has read the same key, whichever calls and reads fail and wherever it is broken off.
THEOREM CopySurvives == ASSUME Undisturbed PROVE Spec => []TwinSurvives
<1>1. TInv /\ SInv => TwinSurvives
  BY DEF SInv, TwinsHeld, Past, TwinSurvives
<1> QED
  BY <1>1, Safe, PTL

\* A restore without the option to delete duplicates loses no mail, whatever subjects and
\* times are equal: what it cannot move stays in a file, and that file stays on the disk.
THEOREM NothingLost ==
  ASSUME Undisturbed
  PROVE  Spec => [](~deleteDup => \A m \in Mails : at[m] # Gone)
<1>1. TInv /\ SInv => (~deleteDup => \A m \in Mails : at[m] # Gone)
  BY DEF SInv, NoneLost
<1> QED
  BY <1>1, Safe, PTL

\* A file judged empty is still empty when it is removed, long after its verdict, and
\* however coarse the keys of duplicates are.
THEOREM RemovedWereEmpty == ASSUME Undisturbed PROVE Spec => OnlyEmptyFilesDeleted
<1>1. ASSUME TInv, SInv, [Next]_vars
      PROVE  \A p \in onDisk \ onDisk' : \A m \in Mails : at[m].store # p
  <2>1. onDisk \ onDisk' \subseteq pending
    BY <1>1 DEF Next, Collect, MountFails, Mount, Walk, WalkFails, Judge, BreakOff, Cancelled,
           AllRestored, SkipFolder, EnterFolder, ItemFails, DeleteDuplicate, MoveItem, NextItem,
           LeaveFolder, DeleteFile, RemoveFails, Restart, Reload, UserMoves, Decide, env, vars
  <2> QED BY <1>1, <2>1 DEF SInv, PendingEmpty
<1> QED
  BY <1>1, Safe, PTL DEF Spec, OnlyEmptyFilesDeleted

-----------------------------------------------------------------------------
(* The cached namespace.                                                   *)

\* The cache belongs to the Outlook that runs, or a restart has gone past it.
CacheFresh == cached # 0 /\ IsOutlookRunning => cached = inc \/ cached \in overtaken \cup cachedLate

\* From QuitOutlook until Outlook is started again nothing older is cached.
RestartQuiet == Restarting /\ cached # 0 => cached \in cachedLate

\* No pass is under way beside a deletion, and nothing is cached after the bridge's end.
Alone == /\ del # "none" => pass # "submitted"
         /\ com = "gone" => cached = 0

CacheInv == CacheTypeOK /\ CacheFresh /\ RestartQuiet /\ Alone
-----------------------------------------------------------------------------
\* The types of the history, and those of the cache itself.
HistoryOK == /\ overtaken \subseteq 0 .. inc
             /\ cachedLate \subseteq 0 .. inc
             /\ notStarted \in BOOLEAN
CoreOK ==
    /\ proc \in {"down", "starting", "up", "closing"}
    /\ inc \in 0 .. MaxStarts
    /\ cached \in 0 .. inc
    /\ com \in {"free", "lookup", "cold", "active", "using", "gone"}
    /\ client \in {"none", "pass", "page"}
    /\ held \in 0 .. inc
    /\ pass \in {"none", "submitted", "skipped", "ok", "failed"}
    /\ del \in {"none", "invalidate", "quit", "poll", "remove", "start"}
    /\ polls \in 0 .. Polls
    /\ alive \in BOOLEAN

LEMMA CacheTypes == CacheTypeOK <=> CoreOK /\ HistoryOK
BY DEF CacheTypeOK, CoreOK, HistoryOK

\* The cache begins well-typed.
LEMMA CacheTypeInit == CacheInit => CacheTypeOK
<1> SUFFICES ASSUME CacheInit PROVE CoreOK /\ HistoryOK
  BY CacheTypes
<1>1. CoreOK
  BY CacheConstantsOK DEF CacheInit, CoreOK
<1>2. HistoryOK
  BY DEF CacheInit, HistoryOK
<1> QED
  BY <1>1, <1>2

\* Each step keeps the types.
LEMMA CacheTypeStep == CacheTypeOK /\ [CacheNext]_cacheVars => CacheTypeOK'
<1> SUFFICES ASSUME CoreOK, HistoryOK, [CacheNext]_cacheVars PROVE CoreOK' /\ HistoryOK'
  BY Zenon DEF CacheTypeOK, CoreOK, HistoryOK
<1>1. CoreOK'
  <2> USE CacheConstantsOK DEF CoreOK, outlook, closure, deletion
  <2>1. CASE UserStarts \/ UserCloses \/ Process
    BY <2>1 DEF UserStarts, UserCloses, Process, ComesUp, GoesDown, Launched
  <2>2. CASE PassStarts \/ PassCall \/ PageCall
    BY <2>2 DEF PassStarts, PassCall, PageCall, Begin
  <2>3. CASE Closure
    BY <2>3 DEF Closure, CacheHit, CacheMiss, GetActive, NotActive, GetNamespace, NoNamespace,
                Use, Over
  <2>4. CASE DeletionBegins \/ InvalidateNamespaceCache \/ QuitOutlook \/ Refused
    BY <2>4 DEF DeletionBegins, InvalidateNamespaceCache, QuitOutlook, QuitCall, Refused
  <2>5. CASE Waits
    BY <2>5 DEF Waits, SeesRunning, SeesGone, ForceKillOutlook, RemoveFiles, StartOutlook, Launched
  <2>6. CASE BridgeExits
    BY <2>6 DEF BridgeExits
  <2>7. CASE MainReturns
    BY <2>7 DEF MainReturns
  <2>8. CASE UNCHANGED cacheVars
    BY <2>8 DEF cacheVars
  <2>9. QED
    BY <2>1, <2>2, <2>3, <2>4, <2>5, <2>6, <2>7, <2>8 DEF CacheNext
<1>2. inc \in Nat /\ inc' \in Nat /\ inc' >= inc
  BY <1>1, CacheConstantsOK DEF CoreOK, CacheNext, UserStarts, UserCloses, Process, ComesUp, GoesDown,
     Launched, PassStarts, PassCall, PageCall, Begin, Closure, CacheHit, CacheMiss, GetActive,
     NotActive, GetNamespace, NoNamespace, Use, Over, DeletionBegins, InvalidateNamespaceCache,
     QuitOutlook, QuitCall, Refused, Waits, SeesRunning, SeesGone, ForceKillOutlook, RemoveFiles,
     StartOutlook, BridgeExits, MainReturns, cacheVars, outlook
<1>3. /\ overtaken' \subseteq overtaken \cup {cached}
      /\ cachedLate' \subseteq cachedLate \cup {held}
      /\ notStarted' \in {notStarted, TRUE, FALSE}
  BY DEF CacheNext, UserStarts, UserCloses, Process, ComesUp, GoesDown, PassStarts,
     PassCall, PageCall, Begin, Closure, CacheHit, CacheMiss, GetActive, NotActive,
     GetNamespace, NoNamespace, Use, Over, DeletionBegins, InvalidateNamespaceCache,
     QuitOutlook, Refused, Waits, SeesRunning, SeesGone, ForceKillOutlook, RemoveFiles,
     StartOutlook, BridgeExits, MainReturns, cacheVars, history
<1>4. overtaken' \subseteq 0 .. inc /\ cachedLate' \subseteq 0 .. inc
  BY <1>3 DEF CoreOK, HistoryOK
<1>5. HistoryOK'
  <2>1. \A i \in 0 .. inc : i \in 0 .. inc'
    BY <1>2
  <2>2. notStarted' \in BOOLEAN
    BY <1>3, Zenon DEF HistoryOK
  <2> QED BY <1>4, <2>1, <2>2, Zenon DEF HistoryOK
<1>6. QED
  BY <1>1, <1>5

\* Every variable keeps its type; the cache never holds a proxy of an Outlook to come.
THEOREM CacheTypeCorrect == CacheSpec => []CacheTypeOK
BY CacheTypeInit, CacheTypeStep, PTL DEF CacheSpec
-----------------------------------------------------------------------------
\* Each step keeps what is cached fresh, and nothing cached during a restart.
LEMMA CacheStep == CacheInv /\ [CacheNext]_cacheVars => CacheInv'
<1> SUFFICES ASSUME CacheInv, [CacheNext]_cacheVars PROVE CacheInv'
  OBVIOUS
<1>t. CacheTypeOK'
  BY CacheTypeStep DEF CacheInv
<1>n. inc \in Nat /\ cached \in Nat
  BY CacheConstantsOK DEF CacheInv, CacheTypeOK
<1> USE <1>n DEF CacheInv, CacheFresh, RestartQuiet, Alone, Restarting, IsOutlookRunning,
        outlook, closure, deletion, history
<1>1. CASE UserStarts \/ UserCloses \/ Process
  BY <1>1, <1>t DEF UserStarts, UserCloses, Process, ComesUp, GoesDown, Launched
<1>2. CASE PassStarts \/ PassCall \/ PageCall
  BY <1>2, <1>t DEF PassStarts, PassCall, PageCall, Begin
<1>3. CASE Closure
  BY <1>3, <1>t DEF Closure, CacheHit, CacheMiss, GetActive, NotActive, GetNamespace, NoNamespace,
                    Use, Over, Usable
<1>4. CASE DeletionBegins \/ InvalidateNamespaceCache \/ QuitOutlook \/ Refused
  BY <1>4, <1>t DEF DeletionBegins, InvalidateNamespaceCache, QuitOutlook, QuitCall,
                    Refused, Answers
<1>5. CASE Waits
  BY <1>5, <1>t DEF Waits, SeesRunning, SeesGone, ForceKillOutlook, RemoveFiles, StartOutlook,
                    Launched
<1>6. CASE BridgeExits \/ MainReturns \/ UNCHANGED cacheVars
  BY <1>6, <1>t DEF BridgeExits, MainReturns, cacheVars
<1>7. QED
  BY <1>1, <1>2, <1>3, <1>4, <1>5, <1>6 DEF CacheNext

\* What is handed out comes from the cache, which is fresh or overtaken, or Outlook has just
\* answered.
LEMMA HandsOutStep ==
  ASSUME CacheInv, [CacheNext]_cacheVars, com # "using", com' = "using"
  PROVE  \/ held' = inc /\ IsOutlookRunning
         \/ held' \in overtaken \cup cachedLate
<1>1. CacheHit \/ GetNamespace
  BY DEF CacheNext, UserStarts, UserCloses, Process, ComesUp, GoesDown, PassStarts, PassCall,
         PageCall, Begin, Closure, CacheMiss, GetActive, NotActive, NoNamespace, Use, Over,
         DeletionBegins, InvalidateNamespaceCache, QuitOutlook, Refused, Waits, SeesRunning,
         SeesGone, ForceKillOutlook, RemoveFiles, StartOutlook, BridgeExits, MainReturns, cacheVars, closure
<1>2. QED
  BY <1>1 DEF CacheInv, CacheFresh, CacheHit, Hit, GetNamespace, Usable, Answers,
              IsOutlookRunning, closure

\* Whatever user, page, passes and deletions do, getNamespace hands out live proxies, and
\* others only if a restart has gone past the cache unseen: the invalidation in QuitOutlook
\* is enough for all that was cached before it.
THEOREM LiveProxies == CacheSpec => HandsOutLive
<1>1. CacheInit => CacheInv
  BY CacheTypeInit DEF CacheInit, CacheInv, CacheFresh, RestartQuiet, Alone, Restarting,
                       IsOutlookRunning
<1>2. CacheInv /\ [CacheNext]_cacheVars => CacheInv'
  BY CacheStep
<1>3. CacheInv /\ [CacheNext]_cacheVars
        => [com # "using" /\ com' = "using" =>
              \/ held' = inc /\ IsOutlookRunning
              \/ held' \in overtaken \cup cachedLate]_cacheVars
  BY HandsOutStep
<1>4. QED
  BY <1>1, <1>2, <1>3, PTL DEF CacheSpec, HandsOutLive
=============================================================================
