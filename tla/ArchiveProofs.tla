--------------------------- MODULE ArchiveProofs ---------------------------
(***************************************************************************)
(* Proofs about Archive: the batch limit, the accounting of a pass, and    *)
(* that it visits every mail, for any mailbox, any number of folders, any  *)
(* options and any block size.                                             *)
(***************************************************************************)
EXTENDS Archive, SequenceTheorems, FiniteSetTheorems, TLAPS

InFolder == pc \in {"block", "read", "handle"}

\* A folder's closure runs within the folders; between folders nothing is moved yet.
PlaceShape == /\ InFolder => fol \in Folder
              /\ ~InFolder => moved = 0
              /\ pc = "read" => i >= 1 /\ i <= end + 1
              /\ opt.block \in Nat \ {0} /\ opt.limit \in Nat

\* The items of the collection beyond the block at hand.
Beyond == IF end > opt.block THEN end - opt.block ELSE 0

\* What the folder at hand has still to account for.
Remaining ==
    IF pc = "block" THEN (IF end >= 1 THEN end ELSE 0)
    ELSE IF pc = "read" THEN (end - i + 1) + Len(block) + Beyond
    ELSE IF pc = "handle" THEN Len(block) + Beyond
    ELSE 0

\* The code counts every item it still has to look at, and exactly these unless a
\* cancelled read or a panic has left some out.
Books == /\ owed >= Remaining
         /\ ~cancelled /\ ~panicked => owed = Remaining

\* What Archive and the closure have counted is what was moved, and within the limit.
Counts == /\ ~cancelled /\ ~panicked => done = total + moved
          /\ opt.limit > 0 /\ ~panicked => done <= opt.limit

IInv == TypeOK /\ PlaceShape /\ Books /\ Counts
-----------------------------------------------------------------------------
\* Removing an item from, or adding one to, a folder leaves a sequence of mails.
LEMMA RemoveIsSeq ==
  ASSUME NEW S, NEW s \in Seq(S), NEW k \in 1 .. Len(s)
  PROVE  RemoveAt(s, k) \in Seq(S)
<1>1. SubSeq(s, 1, k - 1) \in Seq(S) /\ SubSeq(s, k + 1, Len(s)) \in Seq(S)
  BY ElementOfSeq, SubSeqProperties, LenProperties
<1>2. QED
  BY <1>1, ConcatProperties DEF RemoveAt

LEMMA InsertIsSeq ==
  ASSUME NEW S, NEW s \in Seq(S), NEW k \in 1 .. Len(s), NEW e \in S
  PROVE  InsertAt(s, k, e) \in Seq(S)
<1>1. SubSeq(s, 1, k - 1) \in Seq(S) /\ SubSeq(s, k, Len(s)) \in Seq(S)
  BY ElementOfSeq, SubSeqProperties, LenProperties
<1>2. <<e>> \in Seq(S)
  OBVIOUS
<1>3. QED
  BY <1>1, <1>2, ConcatProperties DEF InsertAt

\* Taking the last mail of a block leaves a block that is one shorter.
LEMMA FrontIsSeq ==
  ASSUME NEW S, NEW s \in Seq(S), s # <<>>
  PROVE  Front(s) \in Seq(S) /\ Len(Front(s)) = Len(s) - 1 /\ Last(s) \in S
<1>1. Len(s) \in Nat \ {0}
  BY EmptySeq, LenProperties
<1>2. \A j \in 1 .. Len(s) - 1 : s[j] \in S
  BY <1>1, ElementOfSeq
<1>3. Last(s) \in S
  BY <1>1, ElementOfSeq DEF Last
<1>4. /\ SubSeq(s, 1, Len(s) - 1) \in Seq(S)
      /\ Len(SubSeq(s, 1, Len(s) - 1)) = Len(s) - 1
  <2> DEFINE n == Len(s) - 1
  <2>1. n \in Nat
    BY <1>1
  <2>2. /\ SubSeq(s, 1, n) \in Seq(S)
        /\ Len(SubSeq(s, 1, n)) = IF 1 <= n THEN n - 1 + 1 ELSE 0
    BY <1>2, <2>1, SubSeqProperties
  <2> HIDE DEF n
  <2>3. Len(SubSeq(s, 1, n)) = n
    BY <2>1, <2>2
  <2>4. QED
    BY <2>2, <2>3 DEF n
<1>5. QED
  BY <1>3, <1>4 DEF Front
\* A collection has finitely many items.
LEMMA CollectionFinite ==
  ASSUME NEW S, NEW c \in Seq(S), NEW h
  PROVE  /\ IsFiniteSet(Collection(c, h)) /\ Cardinality(Collection(c, h)) \in Nat
         /\ Collection(c, h) \subseteq 1 .. Len(c)
<1>1. Len(c) \in Nat /\ Collection(c, h) \in SUBSET (1 .. Len(c))
  BY LenProperties DEF Collection
<1>2. IsFiniteSet(1 .. Len(c))
  BY <1>1, FS_Interval
<1>3. IsFiniteSet(Collection(c, h))
  BY <1>1, <1>2, FS_Subset
<1>4. QED
  BY <1>1, <1>3, FS_CardinalityType
-----------------------------------------------------------------------------
\* What the arithmetic below needs of the types.
LEMMA Numbers ==
  ASSUME IInv
  PROVE  /\ end \in Int /\ i \in Int /\ Len(block) \in Nat
         /\ moved \in Nat /\ total \in Nat /\ owed \in Nat /\ done \in Nat
         /\ opt.block \in Nat \ {0} /\ opt.limit \in Nat
         /\ Beyond \in Nat /\ Remaining \in Nat
<1>1. /\ end \in Int /\ i \in Int
      /\ moved \in Nat /\ total \in Nat /\ owed \in Nat /\ done \in Nat
  BY DEF IInv, TypeOK
<1>2. block \in Seq(Mails)
  BY DEF IInv, TypeOK
<1>3. Len(block) \in Nat
  BY <1>2, LenProperties
<1>4. opt.block \in Nat \ {0} /\ opt.limit \in Nat
  BY DEF IInv, PlaceShape
<1>5. Beyond \in Nat
  BY <1>1, <1>4 DEF Beyond
<1>6. pc = "read" => i <= end + 1
  BY DEF IInv, PlaceShape
<1>7. Remaining \in Nat
  BY <1>1, <1>3, <1>5, <1>6 DEF Remaining
<1>8. QED
  BY <1>1, <1>3, <1>4, <1>5, <1>7

LEMMA InitInv == Init => IInv
<1> SUFFICES ASSUME Init PROVE IInv
  OBVIOUS
<1>1. opt \in Options /\ opt.block \in Nat \ {0} /\ opt.limit \in Nat
  BY ConstantsOK DEF Init
<1>2. /\ items \in [Folder -> Seq(Mails)]
      /\ pst \subseteq Mails /\ unborn \subseteq Mails /\ hits \subseteq Mails
      /\ missed \subseteq Mails
  BY ConstantsOK DEF Init
<1>3. block \in Seq(Mails)
  BY EmptySeq DEF Init
<1>4. errors \in 0 .. MaxErrors /\ fol \in 1 .. Folders + 1
  BY ConstantsOK DEF Init
<1>5. /\ cancelled \in BOOLEAN /\ sorted \in BOOLEAN
      /\ touched \in BOOLEAN /\ panicked \in BOOLEAN
  BY DEF Init
<1>6. /\ end \in Int /\ i \in Int
      /\ moved \in Nat /\ total \in Nat /\ owed \in Nat /\ done \in Nat
  BY DEF Init
<1>7. pc \in {"idle", "folder", "block", "read", "handle", "finished"}
  BY DEF Init
<1>8. TypeOK
  BY <1>1, <1>2, <1>3, <1>4, <1>5, <1>6, <1>7 DEF TypeOK
<1>9. PlaceShape /\ Books /\ Counts
  BY <1>1 DEF Init, PlaceShape, InFolder, Books, Remaining, Counts
<1>10. QED
  BY <1>8, <1>9 DEF IInv

\* The end of processFolder: the folder's counts move into the result.
LEMMA LeavingAFolder ==
  ASSUME IInv, InFolder \/ pc = "folder", fol \in Folder,
         NEW n \in Nat, FolderDone(n),
         opt' = opt, cancelled' = cancelled,
         items' = items, pst' = pst, unborn' = unborn,
         errors' \in 0 .. MaxErrors, done' = done,
         panicked' \in BOOLEAN, panicked => panicked',
         ~panicked' => n = moved,
         owed' \in Nat, ~cancelled /\ ~panicked' => owed' = 0
  PROVE  IInv'
<1> USE ConstantsOK DEF FolderDone, ForgetFolder
<1>1. pc' \in {"folder", "finished"} /\ moved' = 0 /\ fol' \in 1 .. Folders + 1
  BY DEF Folder
<1>2. total' \in Nat /\ (~cancelled => total' = total + n)
  BY DEF IInv, TypeOK
<1>3. TypeOK'
  <2>1. /\ hits' \subseteq Mails /\ missed' \subseteq Mails
        /\ sorted' \in BOOLEAN /\ touched' \in BOOLEAN
    <3>1. hits' = {} /\ missed' = {} /\ sorted' = TRUE /\ touched' = FALSE
      OBVIOUS
    <3>2. QED
      BY <3>1, Zenon
  <2>5. end' \in Int /\ i' \in Int
    <3>1. end' = 0 /\ i' = 0
      OBVIOUS
    <3>2. QED
      BY <3>1
  <2>2. block' \in Seq(Mails)
    BY EmptySeq
  <2>3. opt' \in Options /\ cancelled' \in BOOLEAN /\ done' \in Nat
    BY DEF IInv, TypeOK
  <2>4. items' \in [Folder -> Seq(Mails)] /\ pst' \subseteq Mails /\ unborn' \subseteq Mails
    BY DEF IInv, TypeOK
  <2>6. QED
    BY <1>1, <1>2, <2>1, <2>2, <2>3, <2>4, <2>5 DEF TypeOK
<1>4. PlaceShape'
  BY <1>1 DEF IInv, PlaceShape, InFolder
<1>5. Remaining' = 0
  BY <1>1 DEF Remaining
<1>6. Books'
  BY <1>3, <1>5 DEF Books, TypeOK
<1>7. Counts'
  <2>1. ~panicked' => ~panicked
    OBVIOUS
  <2>2. ASSUME ~cancelled, ~panicked' PROVE done' = total' + moved'
    <3>1. done = total + moved /\ total' = total + moved
      BY <1>2, <2>1, <2>2 DEF IInv, Counts
    <3>2. QED
      BY <1>1, <3>1, Numbers
  <2>3. QED
    BY <2>1, <2>2 DEF IInv, Counts
<1>8. QED
  BY <1>3, <1>4, <1>6, <1>7 DEF IInv

\* Steps between folders.
LEMMA LoopSteps ==
  ASSUME IInv, Begin \/ EndPass \/ Log \/ FolderFails \/ FolderPanics \/ OpenFolder
  PROVE  IInv'
<1> USE ConstantsOK DEF IInv, env, view, cursor, tally, hist
<1>1. CASE Begin
  BY <1>1 DEF Begin, TypeOK, PlaceShape, InFolder, Books, Remaining, Beyond, Counts
<1>2. CASE EndPass
  BY <1>2 DEF EndPass, TypeOK, PlaceShape, InFolder, Books, Remaining, Beyond, Counts
<1>3. CASE Log
  <2>1. moved = 0 /\ opt.limit \in Nat
    BY <1>3 DEF Log, PlaceShape, InFolder
  <2>2. Books' /\ Counts'
    BY <1>3, <2>1 DEF Log, Books, Remaining, Counts
  <2>3. TypeOK'
    <3>1. fol' \in 1 .. Folders + 1 /\ total' \in Nat /\ owed' \in Nat /\ done' \in Nat
      BY <1>3 DEF Log
    <3>2. pc' = "idle" /\ panicked' = FALSE
      BY <1>3 DEF Log
    <3>3. UNCHANGED <<items, pst, unborn, opt, cancelled, errors, hits, sorted, end, i, block,
                      moved, missed, touched>>
      BY <1>3 DEF Log
    <3>4. QED
      BY <3>1, <3>2, <3>3 DEF TypeOK
  <2>4. PlaceShape'
    BY <1>3 DEF Log, PlaceShape, InFolder
  <2>5. QED
    BY <2>2, <2>3, <2>4
<1>4. CASE FolderFails
  <2>1. fol \in Folder /\ moved = 0
    BY <1>4 DEF FolderFails, TypeOK, PlaceShape, InFolder, Folder
  <2>2. owed \in Nat /\ (~cancelled /\ ~panicked => owed = 0)
    BY <1>4 DEF FolderFails, TypeOK, Books, Remaining
  <2>3. errors' \in 0 .. MaxErrors
    BY <1>4 DEF FolderFails, Error, TypeOK
  <2>4. panicked \in BOOLEAN
    BY DEF TypeOK
  <2>5. pc = "folder" /\ FolderDone(0)
    BY <1>4 DEF FolderFails
  <2>6. UNCHANGED <<items, pst, unborn, opt, cancelled, owed, done, panicked>>
    BY <1>4 DEF FolderFails
  <2>7. QED
    BY <2>1, <2>2, <2>3, <2>4, <2>5, <2>6, LeavingAFolder
<1>5. CASE FolderPanics
  <2>1. fol \in Folder
    BY <1>5 DEF FolderPanics, PlaceShape, InFolder
  <2>2. errors' \in 0 .. MaxErrors /\ owed \in Nat
    BY <1>5 DEF FolderPanics, Error, TypeOK
  <2>3. InFolder /\ FolderDone(0) /\ panicked' = TRUE
    BY <1>5 DEF FolderPanics, InFolder
  <2>4. UNCHANGED <<items, pst, unborn, opt, cancelled, owed, done>>
    BY <1>5 DEF FolderPanics
  <2>5. QED
    BY <2>1, <2>2, <2>3, <2>4, LeavingAFolder
<1>6. CASE OpenFolder
  <2> USE <1>6 DEF OpenFolder
  <2>1. fol \in Folder
    BY DEF TypeOK, Folder
  <2>2. PICK count \in Nat : owed' = owed + count /\ end' = count
    <3>1. items[fol] \in Seq(Mails)
      BY <2>1 DEF TypeOK
    <3>2. QED
      BY <3>1, CollectionFinite
  <2>3. hits' \subseteq Mails /\ missed' \subseteq Mails
    <3>1. items[fol] \in Seq(Mails)
      BY <2>1 DEF TypeOK
    <3>2. \A k \in Collection(items[fol], hits') : items[fol][k] \in Mails
      BY <3>1, ElementOfSeq DEF Collection
    <3>3. hits' \subseteq Mails
      BY DEF Restricted
    <3>4. QED
      BY <3>2, <3>3
  <2>4. TypeOK'
    <3>1. end' \in Int /\ owed' \in Nat
      BY <2>2 DEF TypeOK
    <3>2. sorted' \in BOOLEAN /\ touched' \in BOOLEAN /\ pc' = "block"
      OBVIOUS
    <3>3. QED
      BY <2>3, <3>1, <3>2 DEF TypeOK
  <2>5. PlaceShape'
    BY <2>1 DEF PlaceShape, InFolder
  <2>6. Books'
    BY <2>2 DEF TypeOK, Books, Remaining
  <2>7. Counts'
    BY DEF Counts
  <2>8. QED
    BY <2>4, <2>5, <2>6, <2>7
<1>7. QED
  BY <1>1, <1>2, <1>3, <1>4, <1>5, <1>6

\* Steps of processFolder up to the handling of a mail.
LEMMA BlockSteps ==
  ASSUME IInv,
         \/ NextBlock \/ LeaveFolder \/ ReadFails \/ ReadDone \/ BlockDone
         \/ \E m \in Mails : ReadOk(m)
  PROVE  IInv'
<1> USE ConstantsOK DEF IInv, env, view, cursor, tally, hist
<1>1. CASE NextBlock
  <2> USE <1>1 DEF NextBlock, BlockStart
  <2>1. i' \in Int /\ i' >= 1 /\ i' <= end' + 1
    BY DEF TypeOK, PlaceShape
  <2>2. TypeOK' /\ PlaceShape' /\ Counts'
    BY <2>1 DEF TypeOK, PlaceShape, InFolder, Counts
  <2>3. Remaining' = Remaining
    BY DEF TypeOK, PlaceShape, Remaining, Beyond
  <2>4. QED
    BY <2>2, <2>3 DEF Books
<1>2. CASE LeaveFolder
  <2> USE <1>2 DEF LeaveFolder
  <2>1. owed' \in Nat /\ (~cancelled /\ ~panicked => owed' = 0)
    BY DEF TypeOK, Books, Remaining
  <2>2. QED
    BY <2>1, LeavingAFolder DEF TypeOK, PlaceShape, InFolder
<1>3. CASE ReadFails
  <2> USE <1>3 DEF ReadFails, Reading
  <2>1. errors' \in 0 .. MaxErrors
    BY DEF Error, NoSuchItem, TypeOK
  <2>2. Len(block) \in Nat
    BY LenProperties DEF TypeOK
  <2>3. Remaining' = Remaining - 1 /\ Remaining >= 1
    BY <2>2 DEF TypeOK, PlaceShape, Remaining, Beyond
  <2>4. Books' /\ owed' \in Nat
    BY <2>2, <2>3 DEF TypeOK, PlaceShape, Books, Remaining, Beyond
  <2>5. QED
    BY <2>1, <2>4 DEF TypeOK, PlaceShape, InFolder, Counts
<1>4. CASE ReadDone
  <2> USE <1>4 DEF ReadDone
  <2>1. Len(block) \in Nat
    BY LenProperties DEF TypeOK
  <2>2. Remaining >= Remaining' /\ (~cancelled => Remaining' = Remaining)
    BY <2>1 DEF TypeOK, PlaceShape, Remaining, Beyond
  <2>3. Books'
    BY <2>1, <2>2 DEF TypeOK, PlaceShape, Books, Remaining, Beyond
  <2>4. QED
    BY <2>3 DEF TypeOK, PlaceShape, InFolder, Counts
<1>5. CASE BlockDone
  <2> USE <1>5 DEF BlockDone, NextEnd, LeftInBlock
  <2>1. Len(block) \in Nat /\ (block = <<>> => Len(block) = 0)
    BY LenProperties DEF TypeOK
  <2>2. owed' = owed - Len(block)
    BY <2>1, Numbers
  <2>3. Remaining = Len(block) + Beyond /\ Remaining' = Beyond
    BY Numbers DEF Remaining, Beyond
  <2>4. owed >= Remaining /\ (~cancelled /\ ~panicked => owed = Remaining)
    BY DEF Books
  <2>5. owed' \in Nat /\ Books'
    BY <2>1, <2>2, <2>3, <2>4, Numbers DEF Books
  <2>6. end' \in Int
    BY DEF TypeOK, PlaceShape
  <2>7. QED
    BY <2>5, <2>6 DEF TypeOK, PlaceShape, InFolder, Counts
<1>6. ASSUME NEW m \in Mails, ReadOk(m) PROVE IInv'
  <2> USE <1>6 DEF ReadOk, Reading
  <2>1. block' \in Seq(Mails) /\ Len(block') = Len(block) + 1 /\ Len(block) \in Nat
    BY AppendProperties, LenProperties DEF TypeOK
  <2>2. Remaining' = Remaining
    BY <2>1 DEF TypeOK, PlaceShape, Remaining, Beyond
  <2>3. QED
    BY <2>1, <2>2 DEF TypeOK, PlaceShape, InFolder, Books, Counts
<1>7. QED
  BY <1>1, <1>2, <1>3, <1>4, <1>5, <1>6

\* Whatever becomes of the mail at hand, it is accounted for once, and it is moved
\* only while the limit is not reached.
LEMMA HandleSteps ==
  ASSUME IInv, NEW m \in Mails, Handle(m)
  PROVE  IInv'
<1> USE ConstantsOK DEF IInv, env, view, cursor, tally, hist
<1>1. Take(m)
  BY DEF Handle, HandleFails, SkipRecent, DryRun, MoveOk, CopyOk, CopyStays, Succeeds, Found
<1>2. fol \in Folder /\ items[fol] \in Seq(Mails)
  BY <1>1 DEF Take, TypeOK, PlaceShape, InFolder
<1>3. items' \in [Folder -> Seq(Mails)]
  <2>1. CASE UNCHANGED items
    BY <2>1 DEF TypeOK
  <2>2. CASE MoveOk(m)
    BY <1>2, <2>2, RemoveIsSeq DEF MoveOk, TypeOK
  <2>3. CASE CopyStays(m)
    BY <1>2, <2>3, InsertIsSeq DEF CopyStays, TypeOK
  <2>4. QED
    BY <2>1, <2>2, <2>3 DEF Handle, HandleFails, SkipRecent, DryRun, CopyOk
<1>4. errors' \in 0 .. MaxErrors /\ pst' \subseteq Mails
  BY DEF Handle, HandleFails, SkipRecent, DryRun, MoveOk, CopyOk, CopyStays, Succeeds,
         Error, CannotHandle, TypeOK
<1>5. \/ moved' = moved /\ done' = done
      \/ moved' = moved + 1 /\ done' = done + 1
  BY DEF Handle, HandleFails, SkipRecent, DryRun, MoveOk, CopyOk, CopyStays, Succeeds
<1>6. block' \in Seq(Mails) /\ Len(block') = Len(block) - 1 /\ Len(block) \in Nat \ {0}
  BY <1>1, FrontIsSeq, EmptySeq, LenProperties DEF Take, TypeOK
<1>7. Remaining' = Remaining - 1
  BY <1>1, <1>6 DEF Take, TypeOK, PlaceShape, Remaining, Beyond
<1>8. Remaining' >= 0
  BY <1>1, <1>6 DEF Take, TypeOK, PlaceShape, Remaining, Beyond
<1>9. Books' /\ owed' \in Nat
  <2>1. Remaining \in Int
    BY <1>1, <1>6 DEF Take, TypeOK, PlaceShape, Remaining, Beyond
  <2>2. QED
    BY <1>1, <1>7, <1>8, <2>1 DEF Take, TypeOK, Books
<1>10. TypeOK'
  BY <1>1, <1>3, <1>4, <1>5, <1>6, <1>9 DEF Take, TypeOK
<1>11. PlaceShape'
  BY <1>1 DEF Take, PlaceShape, InFolder
<1>12. Counts'
  <2>1. ~cancelled /\ (opt.limit > 0 => total + moved < opt.limit)
    BY <1>1, Numbers DEF Take, StopNow, LimitReached
  <2>2. UNCHANGED <<opt, cancelled, panicked, total>>
    BY <1>1 DEF Take
  <2>3. ~panicked => done' = total + moved' /\ done' <= total + moved + 1
    BY <1>5, <2>1, Numbers DEF Counts
  <2>4. QED
    BY <2>1, <2>2, <2>3, Numbers, <1>5 DEF Counts
<1>13. QED
  BY <1>9, <1>10, <1>11, <1>12

\* What goes on beside the archive changes none of its counters.
LEMMA OutsideSteps ==
  ASSUME IInv, Arrive \/ UserDeletes \/ Cancel \/ UNCHANGED vars
  PROVE  IInv'
<1> USE DEF IInv, env, view, cursor, tally, hist
<1>1. CASE Arrive
  <2>1. items' \in [Folder -> Seq(Mails)]
    <3>1. PICK m \in unborn, f \in Folder : items' = [items EXCEPT ![f] = <<m>> \o @]
      BY <1>1 DEF Arrive
    <3>2. m \in Mails /\ items[f] \in Seq(Mails)
      BY DEF TypeOK
    <3>3. <<m>> \o items[f] \in Seq(Mails)
      BY <3>2, ConcatProperties
    <3>4. QED
      BY <3>1, <3>3 DEF TypeOK
  <2>2. unborn' \subseteq Mails /\ touched' \in BOOLEAN
    BY <1>1 DEF Arrive, Disturb, TypeOK
  <2>3. QED
    BY <1>1, <2>1, <2>2 DEF Arrive, TypeOK, PlaceShape, InFolder, Books, Remaining, Beyond, Counts
<1>2. CASE UserDeletes
  <2>1. items' \in [Folder -> Seq(Mails)]
    BY <1>2, RemoveIsSeq DEF UserDeletes, TypeOK
  <2>2. touched' \in BOOLEAN
    BY <1>2 DEF UserDeletes, Disturb, TypeOK
  <2>3. QED
    BY <1>2, <2>1, <2>2 DEF UserDeletes, TypeOK, PlaceShape, InFolder, Books, Remaining, Beyond,
                            Counts
<1>3. CASE Cancel
  BY <1>3 DEF Cancel, TypeOK, PlaceShape, InFolder, Books, Remaining, Beyond, Counts
<1>4. CASE UNCHANGED vars
  BY <1>4 DEF vars, TypeOK, PlaceShape, InFolder, Books, Remaining, Beyond, Counts
<1>5. QED
  BY <1>1, <1>2, <1>3, <1>4
-----------------------------------------------------------------------------
\* The invariant the other results rest on: at each point of a pass, what the code has
\* still to account for and what it has moved.
THEOREM Invariant == Spec => []IInv
<1>1. IInv /\ [Next]_vars => IInv'
  BY LoopSteps, BlockSteps, HandleSteps, OutsideSteps DEF Next, Pass
<1>2. QED
  BY <1>1, InitInv, PTL DEF Spec

\* Every variable keeps its type; in particular a pass never accounts for more mails
\* than matched, whatever arrives, leaves, fails or is cancelled.
THEOREM TypeCorrect == Spec => []TypeOK
BY Invariant, PTL DEF IInv

\* No pass moves more mails than max_batch_size, unless a panic lost its count.
THEOREM LimitKept == Spec => []BatchLimit
<1>1. IInv => BatchLimit
  BY DEF IInv, Counts, BatchLimit
<1>2. QED
  BY <1>1, Invariant, PTL

\* The logged result accounts for every mail that matched and could be read.
THEOREM AllAccounted == Spec => []Accounted
<1>1. IInv => Accounted
  BY DEF IInv, Books, Remaining, Accounted
<1>2. QED
  BY <1>1, Invariant, PTL

\* "Only mail older than retain_days", for any mailbox, any passes and whatever Restrict
\* lets through: every mail passes the second check of its date on its way into a PST.
THEOREM RecentKept == Spec => []RecentStays
<1>1. Init => RecentStays
  BY DEF Init, RecentStays
<1>2. RecentStays /\ [Next]_vars => RecentStays'
  <2> SUFFICES ASSUME RecentStays, [Next]_vars PROVE RecentStays'
    OBVIOUS
  <2>1. opt' = opt
    BY DEF Next, Begin, Pass, EndPass, Log, FolderFails, FolderPanics, OpenFolder, NextBlock,
           LeaveFolder, ReadFails, ReadDone, BlockDone, ReadOk, Handle, HandleFails, SkipRecent,
           DryRun, MoveOk, CopyOk, CopyStays, Succeeds, Found, Take, Arrive, UserDeletes, Cancel,
           vars
  <2>2. ASSUME NEW m \in Mails, MoveOk(m) \/ CopyOk(m) PROVE RecentStays'
    <3>1. pst' = pst \cup {m} /\ Due(m)
      BY <2>2 DEF MoveOk, CopyOk, Succeeds, DoubleCheck
    <3>2. QED
      BY <2>1, <3>1 DEF RecentStays, Due
  <2>3. CASE pst' = pst
    BY <2>1, <2>3 DEF RecentStays
  <2>4. pst' = pst \/ \E m \in Mails : MoveOk(m) \/ CopyOk(m)
    BY DEF Next, Begin, Pass, EndPass, Log, FolderFails, FolderPanics, OpenFolder, NextBlock,
           LeaveFolder, ReadFails, ReadDone, BlockDone, ReadOk, Handle, HandleFails, SkipRecent,
           DryRun, CopyStays, Succeeds, Arrive, UserDeletes, Cancel, vars, env
  <2>5. QED
    BY <2>2, <2>3, <2>4
<1>3. QED
  BY <1>1, <1>2, PTL DEF Spec
-----------------------------------------------------------------------------
(* Every mail is visited: where the mails stand that are not read yet.     *)

\* Removing the item at r moves what comes after it one place down.
LEMMA RemovePoints ==
  ASSUME NEW S, NEW s \in Seq(S), NEW r \in 1 .. Len(s)
  PROVE  /\ Len(RemoveAt(s, r)) = Len(s) - 1
         /\ \A l \in 1 .. Len(s) - 1 : RemoveAt(s, r)[l] = IF l < r THEN s[l] ELSE s[l + 1]
<1> DEFINE a == SubSeq(s, 1, r - 1)
           b == SubSeq(s, r + 1, Len(s))
<1>1. Len(s) \in Nat
  BY LenProperties
<1>2. /\ a \in Seq(S) /\ Len(a) = r - 1
      /\ \A l \in 1 .. r - 1 : a[l] = s[l]
  BY <1>1, ElementOfSeq, SubSeqProperties
<1>3. /\ b \in Seq(S) /\ Len(b) = Len(s) - r
      /\ \A l \in 1 .. Len(s) - r : b[l] = s[r + l]
  BY <1>1, ElementOfSeq, SubSeqProperties
<1> HIDE DEF a, b
<1>4. /\ Len(a \o b) = Len(a) + Len(b)
      /\ \A l \in 1 .. Len(a) + Len(b) : (a \o b)[l] = IF l <= Len(a) THEN a[l] ELSE b[l - Len(a)]
  BY <1>2, <1>3, ConcatProperties
<1>5. ASSUME NEW l \in 1 .. Len(s) - 1
      PROVE  (a \o b)[l] = IF l < r THEN s[l] ELSE s[l + 1]
  <2>1. CASE l < r
    BY <1>1, <1>2, <1>3, <1>4, <2>1
  <2>2. CASE l >= r
    <3>1. l - (r - 1) \in 1 .. Len(s) - r /\ r + (l - (r - 1)) = l + 1 /\ l > r - 1
      BY <1>1, <2>2
    <3>2. (a \o b)[l] = b[l - (r - 1)]
      BY <1>1, <1>2, <1>3, <1>4, <3>1
    <3> QED BY <1>1, <1>3, <2>2, <3>1, <3>2
  <2>3. l < r \/ l >= r
    BY <1>1
  <2> QED BY <2>1, <2>2, <2>3
<1>6. Len(a \o b) = Len(s) - 1
  BY <1>1, <1>2, <1>3, <1>4
<1> QED BY <1>5, <1>6 DEF RemoveAt, a, b

\* Inserting an item at r moves what was there, and what comes after it, one place up.
LEMMA InsertPoints ==
  ASSUME NEW S, NEW s \in Seq(S), NEW r \in 1 .. Len(s), NEW e \in S
  PROVE  /\ Len(InsertAt(s, r, e)) = Len(s) + 1
         /\ \A l \in 1 .. Len(s) + 1 :
              InsertAt(s, r, e)[l] = IF l < r THEN s[l] ELSE IF l = r THEN e ELSE s[l - 1]
<1> DEFINE a == SubSeq(s, 1, r - 1)
           b == SubSeq(s, r, Len(s))
           c == a \o <<e>>
<1>1. Len(s) \in Nat
  BY LenProperties
<1>2. /\ a \in Seq(S) /\ Len(a) = r - 1
      /\ \A l \in 1 .. r - 1 : a[l] = s[l]
  BY <1>1, ElementOfSeq, SubSeqProperties
<1>3. /\ b \in Seq(S) /\ Len(b) = Len(s) - r + 1
      /\ \A l \in 1 .. Len(s) - r + 1 : b[l] = s[r + l - 1]
  BY <1>1, ElementOfSeq, SubSeqProperties
<1>4. <<e>> \in Seq(S) /\ Len(<<e>>) = 1 /\ <<e>>[1] = e
  OBVIOUS
<1> HIDE DEF a, b
<1>5. /\ c \in Seq(S) /\ Len(c) = r
      /\ \A l \in 1 .. r : c[l] = IF l < r THEN s[l] ELSE e
  <2>1. /\ c \in Seq(S) /\ Len(c) = Len(a) + 1
        /\ \A l \in 1 .. Len(a) + 1 : c[l] = IF l <= Len(a) THEN a[l] ELSE <<e>>[l - Len(a)]
    BY <1>2, <1>4, ConcatProperties
  <2> HIDE DEF c
  <2> QED BY <1>1, <1>2, <1>4, <2>1
<1> HIDE DEF c
<1>6. /\ Len(c \o b) = Len(c) + Len(b)
      /\ \A l \in 1 .. Len(c) + Len(b) : (c \o b)[l] = IF l <= Len(c) THEN c[l] ELSE b[l - Len(c)]
  BY <1>3, <1>5, ConcatProperties
<1>7. Len(c \o b) = Len(s) + 1
  BY <1>1, <1>3, <1>5, <1>6
<1>8. ASSUME NEW l \in 1 .. Len(s) + 1
      PROVE  (c \o b)[l] = IF l < r THEN s[l] ELSE IF l = r THEN e ELSE s[l - 1]
  <2>1. CASE l <= r
    BY <1>1, <1>3, <1>5, <1>6, <2>1
  <2>2. CASE l > r
    <3>1. l - r \in 1 .. Len(s) - r + 1 /\ r + (l - r) - 1 = l - 1
      BY <1>1, <2>2
    <3>2. (c \o b)[l] = b[l - r]
      BY <1>1, <1>3, <1>5, <1>6, <2>2
    <3> QED BY <1>1, <1>3, <2>2, <3>1, <3>2
  <2>3. l <= r \/ l > r
    BY <1>1
  <2> QED BY <2>1, <2>2, <2>3
<1> QED BY <1>7, <1>8 DEF InsertAt, a, b, c

\* k comes before l in the order of the collection.
Before(s, k, l) == IF s THEN k < l ELSE k > l

\* Indexes of the collection start at 1, go up to its size, and follow its order.
LEMMA IndexOrder ==
  ASSUME NEW S, NEW c \in Seq(S), NEW h, NEW s \in BOOLEAN,
         NEW k \in Collection(c, h)
  PROVE  /\ Index(c, h, s, k) \in 1 .. Cardinality(Collection(c, h))
         /\ \A l \in Collection(c, h) :
              Before(s, k, l) => Index(c, h, s, k) < Index(c, h, s, l)
<1> DEFINE all == Collection(c, h)
           upTo(l) == {j \in all : IF s THEN j <= l ELSE j >= l}
<1>1. all \subseteq Int
  BY LenProperties DEF Collection
<1>3. IsFiniteSet(all) /\ Cardinality(all) \in Nat
  BY CollectionFinite
<1>4. \A l \in all : Index(c, h, s, l) = Cardinality(upTo(l))
  BY DEF Index
<1>5. ASSUME NEW l \in all
      PROVE  /\ IsFiniteSet(upTo(l)) /\ Cardinality(upTo(l)) \in Nat
             /\ Cardinality(upTo(l)) <= Cardinality(all) /\ l \in upTo(l)
  <2>1. upTo(l) \in SUBSET all
    OBVIOUS
  <2>2. l \in upTo(l)
    BY <1>1
  <2> HIDE DEF upTo, all
  <2>3. IsFiniteSet(upTo(l)) /\ Cardinality(upTo(l)) <= Cardinality(all)
    BY <1>3, <2>1, FS_Subset
  <2> QED BY <2>2, <2>3, FS_CardinalityType
<1>6. Cardinality(upTo(k)) # 0
  <2>1. upTo(k) # {} /\ IsFiniteSet(upTo(k))
    BY <1>5
  <2> HIDE DEF upTo
  <2> QED BY <2>1, FS_EmptySet
<1>7. ASSUME NEW l \in all, Before(s, k, l)
      PROVE  Cardinality(upTo(k)) < Cardinality(upTo(l))
  <2>1. upTo(k) \in SUBSET upTo(l) /\ l \notin upTo(k) /\ l \in upTo(l)
    BY <1>1, <1>7 DEF Before
  <2>2. /\ IsFiniteSet(upTo(l)) /\ Cardinality(upTo(l)) \in Nat
        /\ Cardinality(upTo(k)) \in Nat
    BY <1>5
  <2> HIDE DEF upTo
  <2>3. /\ Cardinality(upTo(k)) <= Cardinality(upTo(l))
        /\ Cardinality(upTo(l)) = Cardinality(upTo(k)) => upTo(l) = upTo(k)
    BY <2>1, <2>2, FS_Subset
  <2> QED BY <2>1, <2>2, <2>3
<1>8. Cardinality(upTo(k)) \in 1 .. Cardinality(all)
  <2>1. k \in all
    OBVIOUS
  <2> HIDE DEF upTo, all
  <2> QED BY <1>3, <1>5, <1>6, <2>1
<1> HIDE DEF upTo
<1> QED BY <1>3, <1>4, <1>7, <1>8

\* An index does not grow when what is up to it in the order only moves by some places.
LEMMA IndexKept ==
  ASSUME NEW S, NEW c \in Seq(S), NEW d \in Seq(S), NEW h, NEW s \in BOOLEAN,
         NEW k \in Collection(d, h), NEW by \in Int,
         \A l \in 1 .. Len(d) :
           (IF s THEN l <= k ELSE l >= k) => l + by \in 1 .. Len(c) /\ c[l + by] = d[l]
  PROVE  k + by \in Collection(c, h) /\ Index(d, h, s, k) <= Index(c, h, s, k + by)
<1> DEFINE new == {l \in Collection(d, h) : IF s THEN l <= k ELSE l >= k}
           old == {l \in Collection(c, h) : IF s THEN l <= k + by ELSE l >= k + by}
           f == [l \in new |-> l + by]
<1>1. /\ Len(c) \in Nat /\ Len(d) \in Nat
      /\ Collection(c, h) \subseteq Int /\ Collection(d, h) \subseteq Int
  BY LenProperties DEF Collection
<1>2. \A l \in new : l + by \in old
  <2> SUFFICES ASSUME NEW l \in new PROVE l + by \in old
    OBVIOUS
  <2>1. l \in 1 .. Len(d) /\ d[l] \in h /\ (IF s THEN l <= k ELSE l >= k)
    BY DEF Collection
  <2>2. l + by \in Collection(c, h)
    BY <2>1 DEF Collection
  <2>3. IF s THEN l + by <= k + by ELSE l + by >= k + by
    BY <1>1, <2>1
  <2> QED BY <2>2, <2>3
<1>3. k \in new
  BY <1>1
<1>4. k + by \in Collection(c, h)
  BY <1>2, <1>3
<1>5. \A l \in new : l \in Int
  BY <1>1
<1>6. IsFiniteSet(old)
  <2>1. IsFiniteSet(Collection(c, h)) /\ old \in SUBSET Collection(c, h)
    BY CollectionFinite
  <2> HIDE DEF old
  <2> QED BY <2>1, FS_Subset
<1>7. f \in Injection(new, old)
  <2> HIDE DEF new, old
  <2> QED BY <1>2, <1>5 DEF Injection, IsInjective
<1>8. Cardinality(new) <= Cardinality(old)
  <2> HIDE DEF new, old, f
  <2> QED BY <1>6, <1>7, FS_Injection
<1> QED BY <1>4, <1>8 DEF Index

-----------------------------------------------------------------------------
\* Copies of a mail stand next to each other, as they do in a collection that is sorted.
Gathered(c) ==
    \A j, k, l \in 1 .. Len(c) : j < k /\ k < l /\ c[j] = c[l] => c[k] = c[j]

\* They stay together, and what has yet to arrive is nowhere.
CopiesTogether ==
    \A f \in Folder : Gathered(items[f]) /\ \A k \in 1 .. Len(items[f]) : items[f][k] \notin unborn

Mail(k) == items[fol][k]
Listed  == Collection(items[fol], hits)
Rank(k) == Index(items[fol], hits, sorted, k)

\* Nothing but the pass has changed the folder, and every item was read.
Undisturbed == ~touched /\ ~cancelled

\* The mails that are missed are still listed, at indexes the pass has yet to come to.
ToCome ==
    /\ \A m \in missed : \E k \in Listed : Mail(k) = m
    /\ \A k \in Listed : Mail(k) \in missed =>
         /\ pc = "block" => Rank(k) <= end
         /\ pc = "read" => Rank(k) <= Beyond \/ Rank(k) \in i .. end
         /\ pc = "handle" => Rank(k) <= Beyond

\* The mails of the block have been read, behind all that are missed.
Snapshot ==
    /\ pc = "read" => i > Beyond
    /\ \A j \in 1 .. Len(block) :
         /\ block[j] \notin missed
         /\ pc = "read" => \E l \in Listed : Mail(l) = block[j] /\ Rank(l) > Beyond
         /\ pc = "handle" =>
              \A k, l \in 1 .. Len(items[fol]) :
                Mail(k) \in missed /\ Mail(l) = block[j] => Before(sorted, k, l)

VisitInv ==
    /\ CopiesTogether
    /\ missed \subseteq hits
    /\ ~InFolder => missed = {}
    /\ InFolder /\ Undisturbed => ToCome
    /\ pc \in {"read", "handle"} /\ Undisturbed => Snapshot

\* Taking a mail out of a folder leaves copies together.
LEMMA GatheredRemove ==
  ASSUME NEW S, NEW c \in Seq(S), Gathered(c), NEW r \in 1 .. Len(c)
  PROVE  Gathered(RemoveAt(c, r))
<1> DEFINE d == RemoveAt(c, r)
           at(l) == IF l < r THEN l ELSE l + 1
<1>1. Len(c) \in Nat /\ Len(d) = Len(c) - 1 /\ \A l \in 1 .. Len(d) : d[l] = c[at(l)]
  BY RemovePoints, LenProperties
<1> HIDE DEF d
<1>2. SUFFICES ASSUME NEW j \in 1 .. Len(d), NEW k \in 1 .. Len(d), NEW l \in 1 .. Len(d),
                      j < k, k < l, d[j] = d[l]
               PROVE  d[k] = d[j]
  BY DEF Gathered, d
<1>3. /\ at(j) \in 1 .. Len(c) /\ at(k) \in 1 .. Len(c) /\ at(l) \in 1 .. Len(c)
      /\ at(j) < at(k) /\ at(k) < at(l)
  BY <1>1, <1>2
<1> HIDE DEF at
<1> QED BY <1>1, <1>2, <1>3 DEF Gathered

\* A copy beside its original leaves copies together.
LEMMA GatheredInsert ==
  ASSUME NEW S, NEW c \in Seq(S), Gathered(c), NEW r \in 1 .. Len(c)
  PROVE  Gathered(InsertAt(c, r, c[r]))
<1> DEFINE d == InsertAt(c, r, c[r])
           at(l) == IF l <= r THEN l ELSE l - 1
<1>1. c[r] \in S /\ Len(c) \in Nat
  BY ElementOfSeq, LenProperties
<1>2. Len(d) = Len(c) + 1 /\ \A l \in 1 .. Len(d) : d[l] = c[at(l)]
  <2>1. /\ Len(d) = Len(c) + 1
        /\ \A l \in 1 .. Len(c) + 1 :
             d[l] = IF l < r THEN c[l] ELSE IF l = r THEN c[r] ELSE c[l - 1]
    BY <1>1, InsertPoints
  <2> HIDE DEF d
  <2> QED BY <1>1, <2>1
<1> HIDE DEF d
<1>3. SUFFICES ASSUME NEW j \in 1 .. Len(d), NEW k \in 1 .. Len(d), NEW l \in 1 .. Len(d),
                      j < k, k < l, d[j] = d[l]
               PROVE  d[k] = d[j]
  BY DEF Gathered, d
<1>4. /\ at(j) \in 1 .. Len(c) /\ at(k) \in 1 .. Len(c) /\ at(l) \in 1 .. Len(c)
      /\ at(j) = at(k) \/ at(j) < at(k)
      /\ at(k) = at(l) \/ at(k) < at(l)
  BY <1>1, <1>2, <1>3
<1> HIDE DEF at
<1> QED BY <1>2, <1>3, <1>4 DEF Gathered

\* So does a mail that is new to the folder.
LEMMA GatheredArrival ==
  ASSUME NEW S, NEW c \in Seq(S), Gathered(c), NEW m \in S,
         \A k \in 1 .. Len(c) : c[k] # m
  PROVE  Gathered(<<m>> \o c)
<1> DEFINE d == <<m>> \o c
<1>1. Len(c) \in Nat /\ Len(d) = Len(c) + 1 /\ d[1] = m
      /\ \A l \in 2 .. Len(d) : d[l] = c[l - 1]
  BY ConcatProperties, LenProperties
<1> HIDE DEF d
<1>2. SUFFICES ASSUME NEW j \in 1 .. Len(d), NEW k \in 1 .. Len(d), NEW l \in 1 .. Len(d),
                      j < k, k < l, d[j] = d[l]
               PROVE  d[k] = d[j]
  BY DEF Gathered, d
<1>3. k \in 2 .. Len(d) /\ l \in 2 .. Len(d) /\ l - 1 \in 1 .. Len(c) /\ k - 1 \in 1 .. Len(c)
      /\ k - 1 < l - 1
  BY <1>1, <1>2
<1>4. j # 1
  BY <1>1, <1>2, <1>3
<1>5. j \in 2 .. Len(d) /\ j - 1 \in 1 .. Len(c) /\ j - 1 < k - 1
  BY <1>1, <1>2, <1>4
<1> QED BY <1>1, <1>2, <1>3, <1>5 DEF Gathered

\* The collection at hand: indexes are counted from 1 and follow its order.
LEMMA AtHand ==
  ASSUME IInv, InFolder
  PROVE  /\ fol \in Folder /\ items[fol] \in Seq(Mails) /\ Len(items[fol]) \in Nat
         /\ sorted \in BOOLEAN /\ Listed \subseteq 1 .. Len(items[fol])
         /\ \A k \in Listed : Rank(k) \in Nat \ {0}
         /\ \A k, l \in Listed : /\ Rank(k) < Rank(l) => Before(sorted, k, l)
                                 /\ Rank(k) = Rank(l) => k = l
<1>1. fol \in Folder /\ items[fol] \in Seq(Mails) /\ sorted \in BOOLEAN
  BY DEF IInv, TypeOK, PlaceShape
<1>2. Len(items[fol]) \in Nat /\ Listed \subseteq 1 .. Len(items[fol])
  BY <1>1, LenProperties DEF Listed, Collection
<1>3. Cardinality(Listed) \in Nat
  BY <1>1, CollectionFinite DEF Listed
<1>4. ASSUME NEW k \in Listed
      PROVE  /\ Rank(k) \in 1 .. Cardinality(Listed)
             /\ \A l \in Listed : Before(sorted, k, l) => Rank(k) < Rank(l)
  BY <1>1, IndexOrder DEF Listed, Rank
<1>5. \A k \in Listed : Rank(k) \in Nat \ {0}
  BY <1>3, <1>4
<1>6. ASSUME NEW k \in Listed, NEW l \in Listed
      PROVE  /\ Rank(k) < Rank(l) => Before(sorted, k, l)
             /\ Rank(k) = Rank(l) => k = l
  <2>1. k \in Int /\ l \in Int
    BY <1>2
  <2>2. k = l \/ Before(sorted, k, l) \/ Before(sorted, l, k)
    BY <1>1, <2>1 DEF Before
  <2>3. /\ Before(sorted, k, l) => Rank(k) < Rank(l)
        /\ Before(sorted, l, k) => Rank(l) < Rank(k)
    BY <1>4
  <2> QED BY <1>5, <2>2, <2>3
<1> QED BY <1>1, <1>2, <1>5, <1>6

\* What arrives, leaves or is copied does not part the copies of a mail.
LEMMA CopiesStep ==
  ASSUME IInv, CopiesTogether, [Next]_vars
  PROVE  CopiesTogether'
<1>1. items \in [Folder -> Seq(Mails)] /\ unborn \subseteq Mails
  BY DEF IInv, TypeOK
<1>2. CASE UNCHANGED <<items, unborn>>
  BY <1>2 DEF CopiesTogether
<1>3. ASSUME NEW f \in Folder, NEW r \in 1 .. Len(items[f]), unborn' = unborn,
             items' = [items EXCEPT ![f] = RemoveAt(@, r)]
      PROVE  CopiesTogether'
  <2>1. items[f] \in Seq(Mails) /\ Len(items[f]) \in Nat
    BY <1>1, LenProperties
  <2>2. Gathered(RemoveAt(items[f], r))
    BY <2>1, GatheredRemove DEF CopiesTogether
  <2>3. ASSUME NEW k \in 1 .. Len(RemoveAt(items[f], r))
        PROVE  RemoveAt(items[f], r)[k] \notin unborn
    <3>1. /\ Len(RemoveAt(items[f], r)) = Len(items[f]) - 1
          /\ RemoveAt(items[f], r)[k] = IF k < r THEN items[f][k] ELSE items[f][k + 1]
      BY <2>1, RemovePoints
    <3>2. k \in 1 .. Len(items[f]) /\ k + 1 \in 1 .. Len(items[f])
      BY <2>1, <3>1
    <3> QED BY <3>1, <3>2 DEF CopiesTogether
  <2> QED BY <1>1, <1>3, <2>2, <2>3 DEF CopiesTogether
<1>4. ASSUME NEW m \in Mails, CopyStays(m) PROVE CopiesTogether'
  <2>1. PICK r \in 1 .. Len(items[fol]) :
          /\ items[fol][r] = m /\ unborn' = unborn
          /\ items' = [items EXCEPT ![fol] = InsertAt(@, r, m)]
    BY <1>4 DEF CopyStays, Found, Take, At
  <2>2. fol \in Folder
    BY <1>4 DEF CopyStays, Found, Take, IInv, PlaceShape, InFolder
  <2>3. items[fol] \in Seq(Mails) /\ Len(items[fol]) \in Nat
    BY <1>1, <2>2, LenProperties
  <2> DEFINE d == InsertAt(items[fol], r, m)
  <2>4. Gathered(d)
    BY <2>1, <2>2, <2>3, GatheredInsert DEF CopiesTogether
  <2>5. ASSUME NEW k \in 1 .. Len(d) PROVE d[k] \notin unborn
    <3>1. /\ Len(d) = Len(items[fol]) + 1
          /\ \A l \in 1 .. Len(items[fol]) + 1 :
               d[l] = IF l < r THEN items[fol][l] ELSE IF l = r THEN m ELSE items[fol][l - 1]
      BY <2>3, InsertPoints
    <3> HIDE DEF d
    <3>2. \E l \in 1 .. Len(items[fol]) : d[k] = items[fol][l]
      <4>1. CASE k < r
        BY <2>3, <3>1, <4>1
      <4>2. CASE k = r
        BY <2>1, <2>3, <3>1, <4>2
      <4>3. CASE k > r
        <5>1. k - 1 \in 1 .. Len(items[fol]) /\ d[k] = items[fol][k - 1]
          BY <2>3, <3>1, <4>3
        <5> QED BY <5>1
      <4>4. k < r \/ k = r \/ k > r
        BY <2>3, <3>1
      <4> QED BY <4>1, <4>2, <4>3, <4>4
    <3> QED BY <2>2, <3>2 DEF CopiesTogether
  <2>6. items' = [items EXCEPT ![fol] = d]
    BY <2>1
  <2> HIDE DEF d
  <2> QED BY <1>1, <2>1, <2>2, <2>4, <2>5, <2>6 DEF CopiesTogether
<1>5. CASE Arrive
  <2>1. PICK m \in unborn, f \in Folder :
          unborn' = unborn \ {m} /\ items' = [items EXCEPT ![f] = <<m>> \o @]
    BY <1>5 DEF Arrive
  <2>2. items[f] \in Seq(Mails) /\ Len(items[f]) \in Nat /\ m \in Mails
        /\ \A k \in 1 .. Len(items[f]) : items[f][k] \notin unborn
    BY <1>1, LenProperties DEF CopiesTogether
  <2> DEFINE d == <<m>> \o items[f]
  <2>3. Gathered(d)
    BY <2>2, GatheredArrival DEF CopiesTogether
  <2>4. Len(d) = Len(items[f]) + 1 /\ d[1] = m /\ \A l \in 2 .. Len(d) : d[l] = items[f][l - 1]
    BY <2>2, ConcatProperties
  <2> HIDE DEF d
  <2>5. ASSUME NEW k \in 1 .. Len(d) PROVE d[k] \notin unborn'
    <3>1. k = 1 \/ (k \in 2 .. Len(d) /\ k - 1 \in 1 .. Len(items[f]))
      BY <2>2, <2>4
    <3> QED BY <2>1, <2>2, <2>4, <3>1
  <2>6. items' = [items EXCEPT ![f] = d]
    BY <2>1 DEF d
  <2>7. ASSUME NEW g \in Folder
        PROVE  Gathered(items'[g]) /\ \A k \in 1 .. Len(items'[g]) : items'[g][k] \notin unborn'
    <3>1. CASE g = f
      BY <1>1, <2>3, <2>5, <2>6, <3>1
    <3>2. CASE g # f
      BY <1>1, <2>1, <2>6, <3>2 DEF CopiesTogether
    <3> QED BY <3>1, <3>2
  <2> QED BY <2>7 DEF CopiesTogether
<1>6. CASE UserDeletes
  BY <1>3, <1>6 DEF UserDeletes
<1>7. ASSUME NEW m \in Mails, MoveOk(m) PROVE CopiesTogether'
  <2>1. fol \in Folder /\ unborn' = unborn
    BY <1>7 DEF MoveOk, Succeeds, Found, Take, IInv, PlaceShape, InFolder
  <2>2. PICK r \in 1 .. Len(items[fol]) : items' = [items EXCEPT ![fol] = RemoveAt(@, r)]
    BY <1>7 DEF MoveOk, At
  <2> QED BY <1>3, <2>1, <2>2
<1>8. \/ UNCHANGED <<items, unborn>> \/ Arrive \/ UserDeletes
      \/ \E m \in Mails : MoveOk(m) \/ CopyStays(m)
  BY DEF Next, Begin, Pass, EndPass, Log, FolderFails, FolderPanics, OpenFolder, NextBlock,
         LeaveFolder, ReadFails, ReadDone, BlockDone, ReadOk, Handle, HandleFails, SkipRecent,
         DryRun, CopyOk, Succeeds, Found, Take, Cancel, vars, env
<1> QED BY <1>2, <1>4, <1>5, <1>6, <1>7, <1>8

\* A folder is opened: every mail that matches is missed, none has been come to.
LEMMA VisitOpen ==
  ASSUME IInv, IInv', OpenFolder
  PROVE  missed' \subseteq hits' /\ ToCome'
<1> DEFINE c == items[fol]
<1>1. /\ fol' = fol /\ items' = items /\ pc' = "block" /\ InFolder'
      /\ end' = Cardinality(Collection(c, hits'))
      /\ missed' = {c[k] : k \in Collection(c, hits')}
  BY DEF OpenFolder, env, InFolder
<1>2. c \in Seq(Mails) /\ sorted' \in BOOLEAN
  BY DEF IInv, TypeOK, Folder, OpenFolder
<1>3. \A k \in Collection(c, hits') : Index(c, hits', sorted', k) <= end'
  BY <1>1, <1>2, IndexOrder, CollectionFinite
<1>4. missed' \subseteq hits'
  BY <1>1 DEF Collection
<1> HIDE DEF c
<1>5. ToCome'
  BY <1>1, <1>3 DEF ToCome, Listed, Mail, Rank, c
<1> QED BY <1>4, <1>5

\* The next block begins where the blocks beyond it end.
LEMMA VisitNextBlock ==
  ASSUME IInv, VisitInv, Undisturbed, NextBlock
  PROVE  ToCome' /\ Snapshot'
<1>1. /\ pc = "block" /\ pc' = "read" /\ block' = <<>> /\ i' = BlockStart
      /\ UNCHANGED <<items, fol, hits, sorted, end, missed, opt>>
  BY DEF NextBlock, env, view, hist
<1>2. InFolder /\ ToCome
  BY <1>1 DEF VisitInv, InFolder
<1>3. end \in Int /\ opt.block \in Nat \ {0} /\ Beyond \in Nat
  BY Numbers
<1>4. i' = Beyond + 1 /\ Beyond' = Beyond
  BY <1>1, <1>3 DEF BlockStart, Beyond
<1>5. /\ Listed' = Listed
      /\ \A k : Rank(k)' = Rank(k) /\ Mail(k)' = Mail(k)
  BY <1>1 DEF Listed, Rank, Mail
<1>6. ASSUME NEW k \in Listed, Mail(k) \in missed
      PROVE  Rank(k) <= Beyond \/ Rank(k) \in i' .. end
  <2>1. Rank(k) \in Nat /\ Rank(k) <= end
    BY <1>1, <1>2, <1>6, AtHand DEF ToCome
  <2> QED BY <1>3, <1>4, <2>1
<1>7. ToCome'
  BY <1>1, <1>2, <1>4, <1>5, <1>6 DEF ToCome
<1>8. Snapshot'
  <2>1. i' > Beyond' /\ Len(block') = 0
    BY <1>1, <1>3, <1>4
  <2> QED BY <1>1, <2>1 DEF Snapshot
<1> QED BY <1>7, <1>8

\* Only one item has the index that is read, and its mail is missed no more.
LEMMA VisitRead ==
  ASSUME IInv, VisitInv, Undisturbed, NEW m \in Mails, ReadOk(m)
  PROVE  ToCome' /\ Snapshot'
<1>1. /\ pc = "read" /\ pc' = "read" /\ block' = Append(block, m) /\ i' = i + 1
      /\ missed' = missed \ {m}
      /\ UNCHANGED <<items, fol, hits, sorted, end, opt>>
  BY DEF ReadOk, Reading, env, view
<1>2. InFolder /\ ToCome /\ Snapshot
  BY <1>1 DEF VisitInv, InFolder
<1>3. PICK here \in Listed : Rank(here) = i /\ Mail(here) = m
  BY DEF ReadOk, Listed, Rank, Mail
<1>4. /\ end \in Int /\ i \in Int /\ Beyond \in Nat /\ Beyond' = Beyond
      /\ block \in Seq(Mails) /\ Len(block) \in Nat
  BY <1>1, Numbers DEF IInv, TypeOK, Beyond
<1>5. /\ Listed' = Listed
      /\ \A k : Rank(k)' = Rank(k) /\ Mail(k)' = Mail(k)
  BY <1>1 DEF Listed, Rank, Mail
<1>6. ASSUME NEW k \in Listed, Mail(k) \in missed'
      PROVE  Rank(k) <= Beyond \/ Rank(k) \in i' .. end
  <2>1. Rank(k) \in Nat /\ (Rank(k) <= Beyond \/ Rank(k) \in i .. end)
    BY <1>1, <1>2, <1>6, AtHand DEF ToCome
  <2>2. Rank(k) # i
    <3>1. Rank(k) = i => k = here
      BY <1>2, <1>3, AtHand
    <3> QED BY <1>1, <1>3, <1>6, <3>1
  <2> QED BY <1>1, <1>4, <2>1, <2>2
<1>7. ToCome'
  <2>1. \A x \in missed' : \E k \in Listed : Mail(k) = x
    BY <1>1, <1>2 DEF ToCome
  <2> QED BY <1>1, <1>4, <1>5, <1>6, <2>1 DEF ToCome
<1>8. Snapshot'
  <2>1. i' > Beyond'
    BY <1>1, <1>2, <1>4 DEF Snapshot
  <2>2. ASSUME NEW j \in 1 .. Len(block')
        PROVE  /\ block'[j] \notin missed'
               /\ \E l \in Listed : Mail(l) = block'[j] /\ Rank(l) > Beyond
    <3>1. /\ Len(block') = Len(block) + 1 /\ block'[Len(block) + 1] = m
          /\ \A x \in 1 .. Len(block) : block'[x] = block[x]
      BY <1>1, <1>4, AppendProperties
    <3>2. CASE j \in 1 .. Len(block)
      BY <1>1, <1>2, <3>1, <3>2 DEF Snapshot
    <3>3. CASE j = Len(block) + 1
      <4>1. i > Beyond
        BY <1>1, <1>2 DEF Snapshot
      <4> QED BY <1>1, <1>3, <3>1, <3>3, <4>1
    <3> QED BY <1>4, <3>1, <3>2, <3>3
  <2> QED BY <1>1, <1>4, <1>5, <2>1, <2>2 DEF Snapshot
<1> QED BY <1>7, <1>8

\* Once the block is read its mails are behind all that are missed: those copies the pass
\* has come to are, and the others stand with them.
LEMMA VisitReadDone ==
  ASSUME IInv, VisitInv, Undisturbed, ReadDone
  PROVE  ToCome' /\ Snapshot'
<1>1. /\ pc = "read" /\ pc' = "handle" /\ i > end
      /\ UNCHANGED <<items, fol, hits, sorted, end, block, missed, opt>>
  BY DEF ReadDone, Undisturbed, env, view, hist
<1>2. InFolder /\ ToCome /\ Snapshot /\ missed \subseteq hits /\ CopiesTogether
  BY <1>1 DEF VisitInv, InFolder
<1>3. /\ end \in Int /\ i \in Int /\ Beyond \in Nat /\ Beyond' = Beyond
  BY <1>1, Numbers DEF Beyond
<1>4. /\ Listed' = Listed
      /\ \A k : Rank(k)' = Rank(k) /\ Mail(k)' = Mail(k)
  BY <1>1 DEF Listed, Rank, Mail
<1>5. ASSUME NEW k \in Listed, Mail(k) \in missed PROVE Rank(k) <= Beyond
  <2>1. Rank(k) \in Nat /\ (Rank(k) <= Beyond \/ Rank(k) \in i .. end)
    BY <1>1, <1>2, <1>5, AtHand DEF ToCome
  <2> QED BY <1>1, <1>3, <2>1
<1>6. ToCome'
  BY <1>1, <1>2, <1>3, <1>4, <1>5 DEF ToCome
<1>7. ASSUME NEW j \in 1 .. Len(block),
             NEW k \in 1 .. Len(items[fol]), NEW l \in 1 .. Len(items[fol]),
             Mail(k) \in missed, Mail(l) = block[j]
      PROVE  Before(sorted, k, l)
  <2>1. k \in Listed /\ Rank(k) <= Beyond
    BY <1>2, <1>5, <1>7 DEF Listed, Collection, Mail
  <2>2. PICK come \in Listed : Mail(come) = block[j] /\ Rank(come) > Beyond
    BY <1>1, <1>2, <1>7 DEF Snapshot
  <2>3. /\ sorted \in BOOLEAN /\ come \in 1 .. Len(items[fol]) /\ fol \in Folder
        /\ Rank(k) \in Nat /\ Rank(come) \in Nat /\ Len(items[fol]) \in Nat
    BY <1>2, <2>1, <2>2, AtHand
  <2>4. Before(sorted, k, come)
    BY <1>2, <1>3, <2>1, <2>2, <2>3, AtHand
  <2>5. Mail(k) # block[j]
    BY <1>2, <1>7 DEF Snapshot
  <2>6. Gathered(items[fol])
    BY <1>2, <2>3 DEF CopiesTogether
  <2>7. k # l
    BY <1>7, <2>5
  <2>8. SUFFICES ASSUME ~Before(sorted, k, l) PROVE FALSE
    OBVIOUS
  <2>9. CASE sorted
    <3>1. l < k /\ k < come
      BY <2>3, <2>4, <2>7, <2>8, <2>9 DEF Before
    <3> QED BY <1>7, <2>2, <2>3, <2>5, <2>6, <3>1 DEF Gathered, Mail
  <2>10. CASE ~sorted
    <3>1. come < k /\ k < l
      BY <2>3, <2>4, <2>7, <2>8, <2>10 DEF Before
    <3> QED BY <1>7, <2>2, <2>3, <2>5, <2>6, <3>1 DEF Gathered, Mail
  <2> QED BY <2>9, <2>10
<1>8. Snapshot'
  BY <1>1, <1>2, <1>4, <1>7 DEF Snapshot
<1> QED BY <1>6, <1>8

\* The next block ends before the one that was handled: nothing lies between them.
LEMMA VisitBlockDone ==
  ASSUME IInv, VisitInv, Undisturbed, BlockDone
  PROVE  ToCome'
<1>1. /\ pc = "handle" /\ pc' = "block" /\ end' = end - opt.block
      /\ UNCHANGED <<items, fol, hits, sorted, missed, opt>>
  BY DEF BlockDone, NextEnd, env, view, hist
<1>2. InFolder /\ ToCome
  BY <1>1 DEF VisitInv, InFolder
<1>3. end \in Int /\ opt.block \in Nat \ {0}
  BY Numbers
<1>4. /\ Listed' = Listed
      /\ \A k : Rank(k)' = Rank(k) /\ Mail(k)' = Mail(k)
  BY <1>1 DEF Listed, Rank, Mail
<1>5. ASSUME NEW k \in Listed, Mail(k) \in missed PROVE Rank(k) <= end'
  <2>1. Rank(k) \in Nat \ {0} /\ Rank(k) <= Beyond
    BY <1>1, <1>2, <1>5, AtHand DEF ToCome
  <2> QED BY <1>1, <1>3, <2>1 DEF Beyond
<1> QED BY <1>1, <1>2, <1>4, <1>5 DEF ToCome

\* Taking the last mail of a block leaves the others where they were.
LEMMA FrontPoints ==
  ASSUME NEW S, NEW s \in Seq(S), s # <<>>
  PROVE  \A j \in 1 .. Len(Front(s)) : j \in 1 .. Len(s) /\ Front(s)[j] = s[j]
<1>1. Len(s) \in Nat \ {0} /\ Len(Front(s)) = Len(s) - 1
  BY EmptySeq, LenProperties, FrontIsSeq
<1>2. \A j \in 1 .. Len(s) - 1 : SubSeq(s, 1, Len(s) - 1)[j] = s[j]
  BY <1>1, ElementOfSeq, SubSeqProperties
<1> QED BY <1>1, <1>2 DEF Front

\* The folder has changed behind the mails that are missed, seen from the end the indexes
\* are counted from: these have moved together, and none has left.
LEMMA VisitRearranged ==
  ASSUME IInv, VisitInv, Undisturbed, pc = "handle",
         UNCHANGED <<pc, fol, hits, sorted, end, opt, missed>>,
         NEW d \in Seq(Mails), items' = [items EXCEPT ![fol] = d],
         block' = Front(block), block # <<>>,
         NEW at \in [1 .. Len(d) -> 1 .. Len(items[fol])],
         \A k \in 1 .. Len(d) : d[k] = items[fol][at[k]],
         \A k, l \in 1 .. Len(d) : at[k] < at[l] => k < l,
         \A k \in 1 .. Len(items[fol]) :
           items[fol][k] \in missed => \E l \in 1 .. Len(d) : d[l] = items[fol][k],
         \A k \in 1 .. Len(d) : d[k] \in missed =>
           \E by \in Int :
             /\ at[k] = k + by
             /\ \A l \in 1 .. Len(d) :
                  (IF sorted THEN l <= k ELSE l >= k)
                    => l + by \in 1 .. Len(items[fol]) /\ items[fol][l + by] = d[l]
  PROVE  ToCome' /\ Snapshot'
<1> DEFINE c == items[fol]
<1>1. InFolder /\ ToCome /\ Snapshot /\ missed \subseteq hits
  BY DEF VisitInv, InFolder
<1>2. /\ fol \in Folder /\ c \in Seq(Mails) /\ Len(c) \in Nat /\ sorted \in BOOLEAN
      /\ Listed \subseteq 1 .. Len(c) /\ \A k \in Listed : Rank(k) \in Nat
  BY <1>1, AtHand
<1>3. items'[fol'] = d
  BY <1>2 DEF IInv, TypeOK
<1>4. Beyond' = Beyond /\ Beyond \in Nat
  BY Numbers DEF Beyond
<1>5. /\ Listed' = Collection(d, hits)
      /\ \A k : Rank(k)' = Index(d, hits, sorted, k) /\ Mail(k)' = d[k]
  BY <1>3 DEF Listed, Rank, Mail
<1>6. Len(d) \in Nat
  BY LenProperties
<1>7. ASSUME NEW k \in Collection(d, hits), d[k] \in missed
      PROVE  Index(d, hits, sorted, k) <= Beyond
  <2>1. k \in 1 .. Len(d)
    BY DEF Collection
  <2>2. PICK by \in Int :
          /\ at[k] = k + by
          /\ \A l \in 1 .. Len(d) :
               (IF sorted THEN l <= k ELSE l >= k) => l + by \in 1 .. Len(c) /\ c[l + by] = d[l]
    BY <1>7, <2>1
  <2>3. /\ k + by \in Collection(c, hits)
        /\ Index(d, hits, sorted, k) <= Index(c, hits, sorted, k + by)
    <3> HIDE DEF c
    <3> QED BY <1>2, <2>2, IndexKept
  <2>4. Mail(at[k]) \in missed /\ at[k] \in Listed
    BY <1>7, <2>1, <2>2, <2>3 DEF Mail, Listed
  <2>5. Rank(at[k]) <= Beyond
    BY <1>1, <2>4 DEF ToCome
  <2>6. Index(d, hits, sorted, k) \in Nat
    <3>1. Cardinality(Collection(d, hits)) \in Nat
      BY CollectionFinite
    <3> QED BY <1>2, <3>1, IndexOrder
  <2>7. Rank(at[k]) = Index(c, hits, sorted, k + by) /\ Rank(at[k]) \in Nat
    BY <1>2, <2>2, <2>4 DEF Rank
  <2> QED BY <1>4, <2>3, <2>5, <2>6, <2>7
<1>8. ASSUME NEW m \in missed PROVE \E l \in Collection(d, hits) : d[l] = m
  <2>1. PICK k \in Listed : c[k] = m
    BY <1>1 DEF ToCome, Mail
  <2>2. PICK l \in 1 .. Len(d) : d[l] = m
    BY <1>2, <2>1
  <2> QED BY <1>1, <2>2 DEF Collection
<1>9. ToCome'
  BY <1>4, <1>5, <1>7, <1>8 DEF ToCome
<1>10. ASSUME NEW j \in 1 .. Len(block')
       PROVE  /\ block'[j] \notin missed
              /\ \A k, l \in 1 .. Len(d) :
                   d[k] \in missed /\ d[l] = block'[j] => Before(sorted, k, l)
  <2>1. j \in 1 .. Len(block) /\ block'[j] = block[j]
    BY FrontPoints DEF IInv, TypeOK
  <2>2. block[j] \notin missed
    BY <1>1, <2>1 DEF Snapshot
  <2>3. ASSUME NEW k \in 1 .. Len(d), NEW l \in 1 .. Len(d), d[k] \in missed, d[l] = block[j]
        PROVE  Before(sorted, k, l)
    <3>1. /\ at[k] \in 1 .. Len(c) /\ at[l] \in 1 .. Len(c)
          /\ Mail(at[k]) \in missed /\ Mail(at[l]) = block[j]
      BY <2>3 DEF Mail
    <3>2. Before(sorted, at[k], at[l])
      BY <1>1, <2>1, <3>1 DEF Snapshot
    <3> HIDE DEF c
    <3> QED BY <1>2, <3>1, <3>2 DEF Before
  <2> QED BY <2>1, <2>2, <2>3
<1>11. Snapshot'
  BY <1>3, <1>5, <1>10 DEF Snapshot
<1> QED BY <1>9, <1>11

\* Whatever becomes of the last mail of the block: it is taken from, or copied to, a place
\* behind all that are missed.
LEMMA VisitHandle ==
  ASSUME IInv, VisitInv, Undisturbed, NEW m \in Mails, Handle(m)
  PROVE  ToCome' /\ Snapshot'
<1> DEFINE c == items[fol]
<1>1. Take(m)
  BY DEF Handle, HandleFails, SkipRecent, DryRun, MoveOk, CopyOk, CopyStays, Succeeds, Found
<1>2. /\ pc = "handle" /\ block # <<>> /\ block' = Front(block) /\ m = Last(block)
      /\ UNCHANGED <<pc, fol, hits, sorted, end, opt, missed>>
  BY <1>1 DEF Take, view
<1>3. InFolder /\ Snapshot
  BY <1>2 DEF VisitInv, InFolder
<1>4. /\ fol \in Folder /\ c \in Seq(Mails) /\ Len(c) \in Nat /\ sorted \in BOOLEAN
      /\ items \in [Folder -> Seq(Mails)] /\ block \in Seq(Mails)
  BY <1>3, AtHand DEF IInv, TypeOK
<1>5. Len(block) \in 1 .. Len(block) /\ block[Len(block)] = m
  BY <1>2, <1>4, EmptySeq, LenProperties DEF Last
<1>6. /\ m \notin missed
      /\ \A k, l \in 1 .. Len(c) : c[k] \in missed /\ c[l] = m => Before(sorted, k, l)
  BY <1>2, <1>3, <1>5 DEF Snapshot, Mail
<1> HIDE DEF c
<1>7. CASE items' = items
  <2>1. PICK d \in Seq(Mails) : d = c
    BY <1>4
  <2> DEFINE at == [k \in 1 .. Len(d) |-> k]
  <2>2. items' = [items EXCEPT ![fol] = d]
    BY <1>4, <1>7, <2>1 DEF c
  <2>3. at \in [1 .. Len(d) -> 1 .. Len(c)] /\ \A k \in 1 .. Len(d) : at[k] = k
    BY <2>1
  <2> HIDE DEF at
  <2>4. /\ \A k \in 1 .. Len(d) : d[k] = c[at[k]]
        /\ \A k, l \in 1 .. Len(d) : at[k] < at[l] => k < l
        /\ \A k \in 1 .. Len(c) : c[k] \in missed => \E l \in 1 .. Len(d) : d[l] = c[k]
    BY <2>1, <2>3
  <2>5. ASSUME NEW k \in 1 .. Len(d), d[k] \in missed
        PROVE  \E by \in Int : /\ at[k] = k + by
                              /\ \A l \in 1 .. Len(d) : (IF sorted THEN l <= k ELSE l >= k)
                                   => l + by \in 1 .. Len(c) /\ c[l + by] = d[l]
    <3>1. at[k] = k + 0 /\ \A l \in 1 .. Len(d) : l + 0 = l
      BY <1>4, <2>1, <2>3
    <3> QED BY <2>1, <3>1
  <2> QED BY <1>2, <2>2, <2>3, <2>4, <2>5, VisitRearranged DEF c
<1>8. CASE MoveOk(m)
  <2>1. PICK r \in 1 .. Len(c) : c[r] = m /\ items' = [items EXCEPT ![fol] = RemoveAt(c, r)]
    BY <1>8 DEF MoveOk, At, c
  <2> DEFINE d == RemoveAt(c, r)
             at == [k \in 1 .. Len(c) - 1 |-> IF k < r THEN k ELSE k + 1]
  <2>2. d \in Seq(Mails)
    BY <1>4, RemoveIsSeq
  <2>3. Len(d) = Len(c) - 1 /\ \A k \in 1 .. Len(d) : d[k] = IF k < r THEN c[k] ELSE c[k + 1]
    BY <1>4, RemovePoints
  <2>4. items' = [items EXCEPT ![fol] = d]
    BY <2>1
  <2> HIDE DEF d
  <2>5. /\ at \in [1 .. Len(d) -> 1 .. Len(c)]
        /\ \A k \in 1 .. Len(d) : at[k] = IF k < r THEN k ELSE k + 1
    BY <1>4, <2>3
  <2> HIDE DEF at
  <2>6. \A k \in 1 .. Len(d) : d[k] = c[at[k]]
    BY <2>3, <2>5
  <2>7. \A k, l \in 1 .. Len(d) : at[k] < at[l] => k < l
    BY <1>4, <2>3, <2>5
  <2>8. ASSUME NEW k \in 1 .. Len(c), c[k] \in missed
        PROVE  \E l \in 1 .. Len(d) : d[l] = c[k]
    <3>1. k # r
      BY <1>6, <2>1, <2>8
    <3>2. CASE k < r
      <4>1. k \in 1 .. Len(d) /\ d[k] = c[k]
        BY <1>4, <2>3, <3>2
      <4> QED BY <4>1
    <3>3. CASE k > r
      <4>1. k - 1 \in 1 .. Len(d) /\ d[k - 1] = c[k]
        BY <1>4, <2>3, <3>3
      <4> QED BY <4>1
    <3> QED BY <1>4, <3>1, <3>2, <3>3
  <2>9. ASSUME NEW k \in 1 .. Len(d), d[k] \in missed
        PROVE  \E by \in Int : /\ at[k] = k + by
                              /\ \A l \in 1 .. Len(d) : (IF sorted THEN l <= k ELSE l >= k)
                                   => l + by \in 1 .. Len(c) /\ c[l + by] = d[l]
    <3>1. Before(sorted, at[k], r)
      BY <1>6, <2>1, <2>5, <2>6, <2>9
    <3>2. CASE sorted
      <4>1. k < r
        BY <1>4, <2>3, <2>5, <3>1, <3>2 DEF Before
      <4>2. at[k] = k + 0
        BY <1>4, <2>3, <2>5, <4>1
      <4>3. ASSUME NEW l \in 1 .. Len(d), l <= k
            PROVE  l + 0 \in 1 .. Len(c) /\ c[l + 0] = d[l]
        BY <1>4, <2>3, <4>1, <4>3
      <4> QED BY <3>2, <4>2, <4>3
    <3>3. CASE ~sorted
      <4>1. k >= r
        BY <1>4, <2>3, <2>5, <3>1, <3>3 DEF Before
      <4>2. at[k] = k + 1
        BY <1>4, <2>3, <2>5, <4>1
      <4>3. ASSUME NEW l \in 1 .. Len(d), l >= k
            PROVE  l + 1 \in 1 .. Len(c) /\ c[l + 1] = d[l]
        BY <1>4, <2>3, <4>1, <4>3
      <4> QED BY <3>3, <4>2, <4>3
    <3> QED BY <3>2, <3>3
  <2> QED BY <1>2, <2>2, <2>4, <2>5, <2>6, <2>7, <2>8, <2>9, VisitRearranged DEF c
<1>9. CASE CopyStays(m)
  <2>1. PICK r \in 1 .. Len(c) : c[r] = m /\ items' = [items EXCEPT ![fol] = InsertAt(c, r, m)]
    BY <1>9 DEF CopyStays, At, c
  <2> DEFINE d == InsertAt(c, r, m)
             at == [k \in 1 .. Len(c) + 1 |-> IF k <= r THEN k ELSE k - 1]
  <2>2. d \in Seq(Mails)
    BY <1>4, InsertIsSeq
  <2>3. /\ Len(d) = Len(c) + 1
        /\ \A k \in 1 .. Len(d) : d[k] = IF k < r THEN c[k] ELSE IF k = r THEN m ELSE c[k - 1]
    BY <1>4, InsertPoints
  <2>4. items' = [items EXCEPT ![fol] = d]
    BY <2>1
  <2> HIDE DEF d
  <2>5. /\ at \in [1 .. Len(d) -> 1 .. Len(c)]
        /\ \A k \in 1 .. Len(d) : at[k] = IF k <= r THEN k ELSE k - 1
    BY <1>4, <2>3
  <2> HIDE DEF at
  <2>6. ASSUME NEW k \in 1 .. Len(d) PROVE d[k] = c[at[k]]
    <3>1. CASE k < r
      BY <1>4, <2>3, <2>5, <3>1
    <3>2. CASE k = r
      BY <1>4, <2>1, <2>3, <2>5, <3>2
    <3>3. CASE k > r
      BY <1>4, <2>3, <2>5, <3>3
    <3> QED BY <1>4, <2>3, <3>1, <3>2, <3>3
  <2>7. \A k, l \in 1 .. Len(d) : at[k] < at[l] => k < l
    BY <1>4, <2>3, <2>5
  <2>8. ASSUME NEW k \in 1 .. Len(c), c[k] \in missed
        PROVE  \E l \in 1 .. Len(d) : d[l] = c[k]
    <3>1. k # r
      BY <1>6, <2>1, <2>8
    <3>2. CASE k < r
      <4>1. k \in 1 .. Len(d) /\ d[k] = c[k]
        BY <1>4, <2>3, <3>2
      <4> QED BY <4>1
    <3>3. CASE k > r
      <4>1. k + 1 \in 1 .. Len(d) /\ d[k + 1] = c[k]
        BY <1>4, <2>3, <3>3
      <4> QED BY <4>1
    <3> QED BY <1>4, <3>1, <3>2, <3>3
  <2>9. ASSUME NEW k \in 1 .. Len(d), d[k] \in missed
        PROVE  \E by \in Int : /\ at[k] = k + by
                              /\ \A l \in 1 .. Len(d) : (IF sorted THEN l <= k ELSE l >= k)
                                   => l + by \in 1 .. Len(c) /\ c[l + by] = d[l]
    <3>1. Before(sorted, at[k], r)
      BY <1>6, <2>1, <2>5, <2>6, <2>9
    <3>2. CASE sorted
      <4>1. k < r
        BY <1>4, <2>3, <2>5, <3>1, <3>2 DEF Before
      <4>2. at[k] = k + 0
        BY <1>4, <2>3, <2>5, <4>1
      <4>3. ASSUME NEW l \in 1 .. Len(d), l <= k
            PROVE  l + 0 \in 1 .. Len(c) /\ c[l + 0] = d[l]
        BY <1>4, <2>3, <4>1, <4>3
      <4> QED BY <3>2, <4>2, <4>3
    <3>3. CASE ~sorted
      <4>1. k > r + 1
        BY <1>4, <2>3, <2>5, <3>1, <3>3 DEF Before
      <4>2. at[k] = k + (-1)
        BY <1>4, <2>3, <2>5, <4>1
      <4>3. ASSUME NEW l \in 1 .. Len(d), l >= k
            PROVE  l + (-1) \in 1 .. Len(c) /\ c[l + (-1)] = d[l]
        <5>1. l + (-1) = l - 1 /\ l - 1 \in 1 .. Len(c) /\ l > r
          BY <1>4, <2>3, <4>1, <4>3
        <5> QED BY <1>4, <2>3, <5>1
      <4>4. -1 \in Int
        OBVIOUS
      <4> QED BY <3>3, <4>2, <4>3, <4>4
    <3> QED BY <3>2, <3>3
  <2> QED BY <1>2, <2>2, <2>4, <2>5, <2>6, <2>7, <2>8, <2>9, VisitRearranged DEF c
<1>10. items' = items \/ MoveOk(m) \/ CopyStays(m)
  BY DEF Handle, HandleFails, SkipRecent, DryRun, CopyOk
<1> QED BY <1>7, <1>8, <1>9, <1>10

\* What a pass has yet to read is kept by every step.
LEMMA VisitStep ==
  ASSUME IInv, IInv', VisitInv, [Next]_vars
  PROVE  VisitInv'
<1>1. CopiesTogether'
  BY CopiesStep DEF VisitInv
<1>2. CASE \/ Begin \/ EndPass \/ Log \/ FolderFails \/ FolderPanics \/ LeaveFolder
  <2>1. ~InFolder' /\ missed' = {}
    BY <1>2 DEF Begin, EndPass, Log, FolderFails, FolderPanics, LeaveFolder, FolderDone,
                ForgetFolder, VisitInv, InFolder, hist
  <2> QED BY <1>1, <2>1 DEF VisitInv, InFolder
<1>3. CASE OpenFolder
  <2>1. pc' = "block"
    BY <1>3 DEF OpenFolder
  <2> QED BY <1>1, <1>3, <2>1, VisitOpen DEF VisitInv, InFolder
<1>4. ASSUME NextBlock \/ ReadDone \/ BlockDone \/ \E m \in Mails : ReadOk(m) \/ Handle(m)
      PROVE  VisitInv'
  <2>1. /\ InFolder /\ InFolder' /\ hits' = hits /\ touched' = touched
        /\ cancelled' = cancelled /\ missed' \subseteq missed
    BY <1>4 DEF NextBlock, ReadDone, BlockDone, ReadOk, Reading, Handle, HandleFails, SkipRecent,
                DryRun, MoveOk, CopyOk, CopyStays, Succeeds, Found, Take, InFolder, view, hist
  <2>2. BlockDone => pc' = "block"
    BY DEF BlockDone
  <2>3. Undisturbed => ToCome' /\ (pc' \in {"read", "handle"} => Snapshot')
    BY <1>4, <2>2, VisitNextBlock, VisitRead, VisitReadDone, VisitBlockDone, VisitHandle
  <2> QED BY <1>1, <2>1, <2>3 DEF VisitInv, Undisturbed
<1>5. CASE ReadFails
  <2>1. InFolder' /\ touched' /\ UNCHANGED <<missed, hits>>
    BY <1>5 DEF ReadFails, Reading, InFolder, view
  <2> QED BY <1>1, <2>1 DEF VisitInv, Undisturbed
<1>6. CASE Arrive \/ UserDeletes
  <2>1. UNCHANGED <<pc, missed, hits>> /\ (InFolder => touched')
    BY <1>6 DEF Arrive, UserDeletes, Disturb, InFolder, view
  <2> QED BY <1>1, <2>1 DEF VisitInv, Undisturbed, InFolder
<1>7. CASE Cancel
  <2>1. cancelled' /\ UNCHANGED <<pc, missed, hits>>
    BY <1>7 DEF Cancel, view, hist
  <2> QED BY <1>1, <2>1 DEF VisitInv, Undisturbed, InFolder
<1>8. CASE UNCHANGED vars
  BY <1>1, <1>8 DEF vars, env, view, cursor, hist, VisitInv, Undisturbed, InFolder, ToCome,
                    Snapshot, Beyond, Listed, Rank, Mail
<1> QED BY <1>2, <1>3, <1>4, <1>5, <1>6, <1>7, <1>8 DEF Next, Pass

\* If no two mails of a folder are the same at the start, or only side by side, the blocks
\* reach every mail of a folder that nothing else changes: for any block size, whatever is
\* moved, copied with a copy left behind, skipped or fails, in either order.
THEOREM AllVisited ==
  ASSUME \A f \in Folder : Gathered(Mailbox[f])
  PROVE  Spec => []EveryMailVisited
<1>1. Init => VisitInv
  <2> SUFFICES ASSUME Init PROVE VisitInv
    OBVIOUS
  <2>1. missed = {} /\ ~InFolder /\ pc = "idle"
    BY DEF Init, InFolder
  <2>2. CopiesTogether
    BY DEF Init, CopiesTogether, Contains
  <2> QED BY <2>1, <2>2 DEF VisitInv
<1>2. IInv /\ VisitInv => EveryMailVisited
  <2> SUFFICES ASSUME IInv, VisitInv, pc = "block", end < 1, ~touched, ~StopNow, NEW m \in missed
               PROVE  FALSE
    BY DEF EveryMailVisited
  <2>1. InFolder /\ ToCome
    BY DEF VisitInv, InFolder, Undisturbed, StopNow
  <2>2. PICK k \in Listed : Mail(k) \in missed
    BY <2>1 DEF ToCome
  <2>3. Rank(k) \in Nat \ {0} /\ Rank(k) <= end
    BY <2>1, <2>2, AtHand DEF ToCome
  <2> QED BY <2>3, Numbers
<1>3. IInv /\ [Next]_vars => IInv'
  BY LoopSteps, BlockSteps, HandleSteps, OutsideSteps DEF Next, Pass
<1>4. IInv /\ VisitInv /\ [Next]_vars => (IInv /\ VisitInv)'
  BY <1>3, VisitStep
<1> QED BY <1>1, <1>2, <1>4, InitInv, PTL DEF Spec
=============================================================================
