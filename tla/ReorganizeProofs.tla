-------------------------- MODULE ReorganizeProofs --------------------------
(***************************************************************************)
(* Proofs about Reorganize and the FolderWalk it rests on, for any         *)
(* folders, files, mails, configurations and number of passes.             *)
(***************************************************************************)
EXTENDS Reorganize, SequenceTheorems, FiniteSetTheorems, TLAPS

-----------------------------------------------------------------------------
(* Prefixes of paths.                                                      *)

\* A prefix agrees with the sequence as far as it goes.
LEMMA PrefixPointwise ==
  ASSUME NEW S, NEW s \in Seq(S), NEW t \in Seq(S)
  PROVE  IsPrefix(s, t) <=> Len(s) <= Len(t) /\ \A i \in 1 .. Len(s) : s[i] = t[i]
<1>1. ASSUME Len(s) <= Len(t)
      PROVE  SubSeq(s, 1, Len(s)) = SubSeq(t, 1, Len(s)) <=> \A i \in 1 .. Len(s) : s[i] = t[i]
  <2>1. Len(s) \in Nat /\ Len(t) \in Nat
    BY LenProperties
  <2>2. SubSeq(s, 1, Len(s)) = [i \in 1 .. Len(s) |-> s[i]]
    BY <2>1
  <2>3. SubSeq(t, 1, Len(s)) = [i \in 1 .. Len(s) |-> t[i]]
    BY <1>1, <2>1
  <2> QED BY <2>2, <2>3
<1> QED BY <1>1 DEF IsPrefix

\* The prefixes of a sequence are the sequences that are prefixes of it.
LEMMA PrefixesArePrefix ==
  ASSUME NEW S, NEW s \in Seq(S), NEW t \in Seq(S)
  PROVE  s \in Prefixes(t) <=> IsPrefix(s, t)
<1>1. Len(s) \in Nat /\ Len(t) \in Nat
  BY LenProperties
<1>2. SubSeq(s, 1, Len(s)) = s
  BY <1>1, SubSeqFull
<1>3. ASSUME s \in Prefixes(t) PROVE IsPrefix(s, t)
  <2>1. PICK l \in 0 .. Len(t) : s = SubSeq(t, 1, l)
    BY <1>3 DEF Prefixes
  <2>2. Len(s) = l
    BY <1>1, <2>1
  <2> QED BY <1>1, <1>2, <2>1, <2>2 DEF IsPrefix
<1>4. ASSUME IsPrefix(s, t) PROVE s \in Prefixes(t)
  <2>1. Len(s) \in 0 .. Len(t) /\ s = SubSeq(t, 1, Len(s))
    BY <1>1, <1>2, <1>4 DEF IsPrefix
  <2> QED BY <2>1 DEF Prefixes
<1> QED BY <1>3, <1>4

\* A prefix of a path is a path, and a prefix in the sense of IsPrefix.
LEMMA PrefixesAreSeq ==
  ASSUME NEW S, NEW t \in Seq(S), NEW s \in Prefixes(t)
  PROVE  s \in Seq(S) /\ IsPrefix(s, t)
<1>1. PICK l \in 0 .. Len(t) : s = SubSeq(t, 1, l)
  BY DEF Prefixes
<1>2. s \in Seq(S)
  BY <1>1, LenProperties, ElementOfSeq, SubSeqProperties
<1> QED BY <1>2, PrefixesArePrefix

\* What lies below a folder lies below the folders above that one.
LEMMA PrefixTransitive ==
  ASSUME NEW S, NEW s \in Seq(S), NEW t \in Seq(S), NEW u \in Seq(S),
         IsPrefix(s, t), IsPrefix(t, u)
  PROVE  IsPrefix(s, u)
BY PrefixPointwise, LenProperties

\* Two prefixes of one sequence are comparable.
LEMMA PrefixLinear ==
  ASSUME NEW S, NEW s \in Seq(S), NEW t \in Seq(S), NEW u \in Seq(S),
         IsPrefix(s, u), IsPrefix(t, u)
  PROVE  IsPrefix(s, t) \/ IsPrefix(t, s)
BY PrefixPointwise, LenProperties

\* A path is a prefix of itself.
LEMMA PrefixReflexive ==
  ASSUME NEW S, NEW s \in Seq(S) PROVE IsPrefix(s, s)
BY PrefixPointwise, LenProperties

-----------------------------------------------------------------------------
(* The walk of folder.go and the rules it stands for.                      *)

\* The rules of a configuration are made of paths.
LEMMA RulesAreSeq ==
  ASSUME NEW c \in Configs
  PROVE  /\ c.rules.list \in BOOLEAN
         /\ c.rules.include \subseteq Seq(Names) /\ c.rules.exclude \subseteq Seq(Names)
         /\ Reserved \cup NotMail \subseteq Seq(Names)
BY ConstantsOK, PathsOK

\* ShouldExclude and IsIncluded look for a folder above, or the folder itself.
LEMMA AboveOrSelf ==
  ASSUME NEW set \in SUBSET Seq(Names), NEW p \in Seq(Names)
  PROVE  (\E e \in set : IsPrefix(e, p)) <=> Prefixes(p) \cap set # {}
BY PrefixesArePrefix

\* walkFoldersRecursive goes into every folder on the way to one the rules name, and lists
\* no other: the walk archives the folders that are not reserved or excluded, nor below
\* one that is, and in list mode those at or below an included one; whatever folders'
\* kinds cannot be read.
THEOREM WalkedIsByRule ==
  ASSUME NEW c \in Configs, NEW unknown
  PROVE  Walked(c.rules, unknown) = ByRule(c.rules, unknown)
<1> DEFINE r == c.rules
           res == Reserved \cup (NotMail \ unknown)
           Ex(p) == \E e \in r.exclude : IsPrefix(e, p)
           In(p) == \E f \in r.include : IsPrefix(f, p)
<1>1. r.include \subseteq Seq(Names) /\ r.exclude \subseteq Seq(Names)
      /\ res \subseteq Seq(Names) /\ Paths \subseteq Seq(Names)
  BY RulesAreSeq, PathsOK
<1>0. \A q : IsReserved(q, unknown) <=> q \in res
  BY DEF IsReserved
<1>2. ASSUME NEW p \in Paths PROVE p \in Walked(r, unknown) <=> p \in ByRule(r, unknown)
  <2>1. p \in Seq(Names) /\ p # <<>>
    BY <1>1, PathsOK
  <2>2. Prefixes(p) \cap r.exclude # {} <=> Ex(p)
    BY <1>1, <2>1, AboveOrSelf
  <2>3. Prefixes(p) \cap r.include # {} <=> In(p)
    BY <1>1, <2>1, AboveOrSelf
  <2>4. p \in ByRule(r, unknown) <=> /\ Prefixes(p) \cap res = {} /\ ~Ex(p)
                                     /\ r.list => In(p)
    BY <2>2, <2>3 DEF ByRule
  <2>5. \A q \in Prefixes(p) : q \in Seq(Names) /\ IsPrefix(q, p)
    BY <2>1, PrefixesAreSeq
  <2>6. p \in Prefixes(p)
    BY <2>1, PrefixReflexive, PrefixesArePrefix
  <2>7. <<>> \notin res
    BY PathsOK
  <2>8. ASSUME p \in Walked(r, unknown) PROVE p \in ByRule(r, unknown)
    <3>1. p \notin res /\ ~Ex(p) /\ (r.list => In(p))
      BY <1>0, <2>8 DEF Walked, Lists, ShouldExclude, IsIncluded
    <3>2. \A q \in Prefixes(p) \ {<<>>, p} : q \notin res
      BY <1>0, <2>8 DEF Walked, Enters
    <3> QED BY <2>4, <2>7, <3>1, <3>2
  <2>9. ASSUME p \in ByRule(r, unknown) PROVE p \in Walked(r, unknown)
    <3>1. Prefixes(p) \cap res = {} /\ ~Ex(p) /\ (r.list => In(p))
      BY <2>4, <2>9
    <3>2. Lists(p, r, unknown)
      BY <1>0, <2>6, <3>1 DEF Lists, ShouldExclude, IsIncluded
    <3>3. ASSUME NEW q \in Prefixes(p) \ {<<>>, p} PROVE Enters(q, r, unknown)
      <4>1. q \in Seq(Names) /\ IsPrefix(q, p) /\ q \notin res
        BY <2>5, <3>1
      <4>2. ~Ex(q)
        BY <1>1, <2>1, <3>1, <4>1, PrefixTransitive
      <4>3. ASSUME r.list PROVE In(q) \/ \E f \in r.include : IsStrictPrefix(q, f)
        <5>1. PICK f \in r.include : IsPrefix(f, p)
          BY <3>1, <4>3
        <5>2. f \in Seq(Names)
          BY <1>1
        <5>3. IsPrefix(f, q) \/ IsPrefix(q, f)
          BY <2>1, <4>1, <5>1, <5>2, PrefixLinear
        <5> QED BY <4>1, <5>2, <5>3, PrefixReflexive DEF IsStrictPrefix
      <4> QED BY <1>0, <4>1, <4>2, <4>3 DEF Enters, ShouldExclude, IsIncluded, LeadsToIncluded
    <3> QED BY <3>2, <3>3 DEF Walked
  <2> QED BY <2>8, <2>9
<1> QED BY <1>2 DEF Walked, ByRule

-----------------------------------------------------------------------------
(* The inductive invariant, in parts.                                      *)

\* The folders of Home that phase 1 still has to process.
HomeLeft(p) == pc = "walk" \/ (pc = "mailbox" /\ p \in left)

\* The folders of a file that phase 2 may still process.
FileLeft(s, p) == \/ pc \in {"walk", "mailbox", "discover"}
                  \/ /\ pc \in {"ours", "legacy"}
                     /\ \/ s \in files
                        \/ s \in Legacy /\ listings[s] > 0
                        \/ s = cur /\ p \in left

\* A mail in the file of a quarter that is not its own.
Misfiled(s, p, m) == s \in Quarters /\ s # QuarterOf(FieldByName(p))[m]

\* A pass that begins now finds the file.
Reach(f) == Dir[f] = Root \/ \E d \in Scanned : IsPrefix(d.dir, Dir[f])

\* Where a pass is and what it has at hand.
Control ==
    /\ pc \notin {"ours", "legacy"} => cur = NoFile
    /\ pc = "ours" => cur \in (Quarters \ files) \cup {NoFile}
    /\ pc = "legacy" => cur \in Legacy \cup {NoFile} /\ files = {}
    /\ pc \in {"walk", "mailbox", "discover"} => dirs = {} /\ gone \subseteq {Home}
    /\ pc = "walk" => \A p \in Paths : fields[p] = FieldByName(p)
    /\ alone /\ pc # "idle" => mode1 = mode
    /\ pc = "mailbox" => Home \in gone /\ left \subseteq ByRule(rules, untyped)
    /\ pc = "mailbox" /\ settled => rules = cfg.rules /\ untyped = {}

\* Only a file that exists holds mail.
OnDisk == \A q \in Quarters \ onDisk, p \in Paths, m \in Mails : has[q][p][m] = 0

\* A file that directories offer once is listed once, and not when it has been gone through.
ListedOnce ==
    pc \in {"ours", "legacy"} =>
      \A f \in Legacy : ~FoundTwice(f) =>
        /\ listings[f] <= 1
        /\ cur = f => listings[f] = 0
        /\ f \in gone => f = Home \/ (listings[f] = 0 /\ cur # f)

\* What a pass has found, or is about to process, a later pass finds too.
FoundAgain ==
    alone \/ settled =>
      \A f \in Legacy :
        Reached(f) \/ (pc \in {"ours", "legacy"} /\ (listings[f] > 0 \/ cur = f)) => Reach(f)

\* The items of a mail a pass may still take, for the first time: not those of a quarter's
\* file that lie where phase 1 files them, nor those of a file that has been copied.
MayTake(s, p, m) ==
    \/ s = Home /\ HomeLeft(p)
    \/ Misfiled(s, p, m) /\ FileLeft(s, p) /\ s # QuarterOf(fields[p])[m]
    \/ /\ s \in Legacy /\ FileLeft(s, p)
       /\ mode = "copy" => s \notin gone /\ (s = cur => p \in left)

InReach(m) == [pl \in Places |-> IF MayTake(pl.store, pl.path, m)
                                 THEN has[pl.store][pl.path][m] ELSE 0]

Bag(g) == UNION {{pl} \X (1 .. g[pl]) : pl \in Places}

\* What was placed and what may still be taken is no more than there was.
Accounted ==
    alone => \A m \in Mails \ again :
               made[m] + Cardinality(Bag(InReach(m))) <= before[m]

\* A clean pass that moves leaves nothing misfiled behind it.
Progress ==
    alone /\ clean /\ mode = "move" /\ pc # "idle" =>
      \A p \in Paths, m \in Mails :
        /\ p \in ByRule(cfg.rules, {}) /\ m \in Old /\ has[Home][p][m] > 0 => HomeLeft(p)
        /\ \A q \in Quarters : Misfiled(q, p, m) /\ has[q][p][m] > 0 => FileLeft(q, p)
        /\ \A f \in Legacy : Reach(f) /\ has[f][p][m] > 0 => FileLeft(f, p)

Filed ==
    settled =>
      \A p \in Paths, m \in Mails :
        /\ p \in ByRule(cfg.rules, {}) /\ m \in Old => has[Home][p][m] = 0
        /\ \A q \in Quarters : Misfiled(q, p, m) => has[q][p][m] = 0
        /\ \A f \in Legacy : Reach(f) => has[f][p][m] = 0

-----------------------------------------------------------------------------
(* Sets of items.                                                          *)

\* There are finitely many folders in all stores.
LEMMA StoresFinite ==
  /\ IsFiniteSet(Places)
  /\ \A s \in Stores, p \in Paths : [store |-> s, path |-> p] \in Places
  /\ \A pl \in Places : pl.store \in Stores /\ pl.path \in Paths
<1> DEFINE f == [x \in Stores \X Paths |-> [store |-> x[1], path |-> x[2]]]
<1>1. IsFiniteSet(Quarters) /\ IsFiniteSet(Legacy) /\ IsFiniteSet(Paths)
  BY ConstantsOK
<1>2. IsFiniteSet({Home})
  BY FS_Singleton
<1>3. IsFiniteSet({Home} \cup Quarters)
  BY <1>1, <1>2, FS_Union
<1>4. IsFiniteSet(Stores)
  BY <1>1, <1>3, FS_Union DEF Stores
<1>5. IsFiniteSet(Stores \X Paths)
  BY <1>1, <1>4, FS_Product
<1>6. f \in Surjection(Stores \X Paths, Places)
  <2>1. f \in [Stores \X Paths -> Places]
    BY DEF Places
  <2>2. ASSUME NEW pl \in Places PROVE \E x \in Stores \X Paths : f[x] = pl
    <3>1. <<pl.store, pl.path>> \in Stores \X Paths /\ f[<<pl.store, pl.path>>] = pl
      BY <2>2 DEF Places
    <3> QED BY <3>1
  <2> QED BY <2>1, <2>2 DEF Surjection
<1>7. IsFiniteSet(Places)
  <2> HIDE DEF f
  <2> QED BY <1>5, <1>6, FS_Surjection
<1> QED BY <1>7 DEF Places

\* A folder holds finitely many items of a mail, and so do all of them together.
LEMMA BagFinite ==
  ASSUME NEW g \in [Places -> Nat]
  PROVE  IsFiniteSet(Bag(g)) /\ Cardinality(Bag(g)) \in Nat
<1> DEFINE at(pl) == {pl} \X (1 .. g[pl])
           all == {at(pl) : pl \in Places}
           f == [pl \in Places |-> at(pl)]
<1>1. ASSUME NEW pl \in Places PROVE IsFiniteSet(at(pl))
  <2>1. 1 \in Int /\ g[pl] \in Int
    OBVIOUS
  <2>2. IsFiniteSet(1 .. g[pl])
    BY <2>1, FS_Interval
  <2>3. IsFiniteSet({pl})
    BY FS_Singleton
  <2> QED BY <2>2, <2>3, FS_Product
<1>2. IsFiniteSet(all)
  <2>1. f \in Surjection(Places, all)
    BY DEF Surjection
  <2> QED BY <2>1, StoresFinite, FS_Surjection
<1>3. IsFiniteSet(UNION all)
  BY <1>1, <1>2, FS_UNION
<1> QED BY <1>3, FS_CardinalityType DEF Bag

\* Fewer items everywhere, and k fewer in one place, are k fewer in all.
LEMMA BagLess ==
  ASSUME NEW g \in [Places -> Nat], NEW h \in [Places -> Nat], NEW x \in Places, NEW k \in Nat,
         \A pl \in Places : g[pl] <= h[pl],
         g[x] + k <= h[x]
  PROVE  Cardinality(Bag(g)) + k <= Cardinality(Bag(h))
<1> DEFINE more == {x} \X (g[x] + 1 .. g[x] + k)
<1>1. IsFiniteSet(more) /\ Cardinality(more) = k
  <2>1. IsFiniteSet(g[x] + 1 .. g[x] + k) /\ Cardinality(g[x] + 1 .. g[x] + k) = k
    <3> DEFINE a == g[x] + 1
               b == g[x] + k
    <3>1. a \in Int /\ b \in Int
      OBVIOUS
    <3>2. (IF a > b THEN 0 ELSE b - a + 1) = k
      OBVIOUS
    <3> HIDE DEF a, b
    <3>3. IsFiniteSet(a .. b) /\ Cardinality(a .. b) = k
      BY <3>1, <3>2, FS_Interval
    <3> QED BY <3>3 DEF a, b
  <2>2. IsFiniteSet({x}) /\ Cardinality({x}) = 1
    BY FS_Singleton
  <2> QED BY <2>1, <2>2, FS_Product
<1>2. IsFiniteSet(Bag(g)) /\ IsFiniteSet(Bag(h)) /\ Cardinality(Bag(g)) \in Nat
      /\ Cardinality(Bag(h)) \in Nat
  BY BagFinite
<1>3. Bag(g) \cup more \subseteq Bag(h)
  <2>1. ASSUME NEW e \in Bag(g) PROVE e \in Bag(h)
    <3>1. PICK pl \in Places : e \in {pl} \X (1 .. g[pl])
      BY DEF Bag
    <3>2. 1 .. g[pl] \subseteq 1 .. h[pl]
      BY <3>1
    <3>3. e \in {pl} \X (1 .. h[pl])
      BY <3>1, <3>2
    <3> QED BY <3>3 DEF Bag
  <2>2. ASSUME NEW e \in more PROVE e \in Bag(h)
    <3>1. g[x] + 1 .. g[x] + k \subseteq 1 .. h[x]
      OBVIOUS
    <3>2. e \in {x} \X (1 .. h[x])
      BY <3>1
    <3> QED BY <3>2 DEF Bag
  <2> QED BY <2>1, <2>2
<1>4. Bag(g) \cap more = {}
  <2> SUFFICES ASSUME NEW e \in Bag(g), e \in more PROVE FALSE
    OBVIOUS
  <2>1. PICK pl \in Places : e \in {pl} \X (1 .. g[pl])
    BY DEF Bag
  <2>2. e[1] = pl /\ e[1] = x /\ e[2] \in 1 .. g[pl] /\ e[2] \in g[x] + 1 .. g[x] + k
    BY <2>1
  <2> QED BY <2>2
<1> HIDE DEF more
<1>5. Cardinality(Bag(g) \cup more) = Cardinality(Bag(g)) + k
  <2>1. Cardinality(Bag(g) \cup more)
          = Cardinality(Bag(g)) + Cardinality(more) - Cardinality(Bag(g) \cap more)
    BY <1>1, <1>2, FS_Union
  <2>2. Cardinality(Bag(g) \cap more) = 0
    BY <1>4, FS_EmptySet
  <2> QED BY <1>1, <1>2, <2>1, <2>2
<1>6. Cardinality(Bag(g) \cup more) <= Cardinality(Bag(h))
  BY <1>2, <1>3, FS_Subset
<1> QED BY <1>5, <1>6

\* No items fewer.
LEMMA BagNotMore ==
  ASSUME NEW g \in [Places -> Nat], NEW h \in [Places -> Nat],
         \A pl \in Places : g[pl] <= h[pl]
  PROVE  Cardinality(Bag(g)) <= Cardinality(Bag(h))
<1>1. Bag(g) \subseteq Bag(h)
  <2> SUFFICES ASSUME NEW e \in Bag(g) PROVE e \in Bag(h)
    OBVIOUS
  <2>1. PICK pl \in Places : e \in {pl} \X (1 .. g[pl])
    BY DEF Bag
  <2>2. 1 .. g[pl] \subseteq 1 .. h[pl]
    BY <2>1
  <2>3. e \in {pl} \X (1 .. h[pl])
    BY <2>1, <2>2
  <2> QED BY <2>3 DEF Bag
<1> QED BY <1>1, BagFinite, FS_Subset

\* Items(m) is a natural number.
LEMMA ItemsAreMany ==
  ASSUME TypeOK, NEW m \in Mails
  PROVE  /\ [pl \in Places |-> has[pl.store][pl.path][m]] \in [Places -> Nat]
         /\ Items(m) = Cardinality(Bag([pl \in Places |-> has[pl.store][pl.path][m]]))
         /\ Items(m) \in Nat
<1> DEFINE g == [pl \in Places |-> has[pl.store][pl.path][m]]
<1>1. g \in [Places -> Nat]
  BY StoresFinite DEF TypeOK
<1>2. Items(m) = Cardinality(Bag(g))
  <2>1. \A pl \in Places : {pl} \X (1 .. g[pl]) = {pl} \X (1 .. has[pl.store][pl.path][m])
    OBVIOUS
  <2>2. {{pl} \X (1 .. g[pl]) : pl \in Places}
          = {{pl} \X (1 .. has[pl.store][pl.path][m]) : pl \in Places}
    BY <2>1
  <2> QED BY <2>2 DEF Items, Bag
<1> HIDE DEF g
<1>3. Items(m) \in Nat
  BY <1>1, <1>2, BagFinite
<1> QED BY <1>1, <1>2, <1>3 DEF g

-----------------------------------------------------------------------------
(* The directories that are scanned.                                       *)

\* A pass scans finitely many directories.
LEMMA ScannedFinite ==
  ASSUME TypeOK
  PROVE  /\ Scanned \subseteq Texts /\ IsFiniteSet(Scanned)
         /\ \A f \in Legacy : Dir[f] \in Seq(Names)
         /\ Root \in Seq(Names)
<1>1. cfg \in Configs
  BY DEF TypeOK
<1>2. cfg.scan \subseteq Texts /\ IsFiniteSet(cfg.scan)
  BY <1>1, ConstantsOK
<1>3. (\A f \in Legacy : Dir[f] \in Seq(Names)) /\ Root \in Seq(Names)
  BY ConstantsOK
<1> DEFINE some == {g \in mounted \cap Legacy : Dir[g] # Root}
           text(f) == [dir |-> Dir[f], as |-> 0]
           textsOf == {text(f) : f \in some}
           g == [f \in some |-> text(f)]
<1>4. IsFiniteSet(some)
  BY ConstantsOK, FS_Subset
<1>5. IsFiniteSet(textsOf)
  <2>1. g \in Surjection(some, textsOf)
    BY DEF Surjection
  <2> HIDE DEF g, textsOf, some
  <2> QED BY <2>1, <1>4, FS_Surjection
<1>6. textsOf \subseteq Texts
  BY <1>3 DEF Texts
<1>7. Extra \subseteq textsOf
  BY DEF Extra
<1>8. IsFiniteSet(Extra)
  BY <1>5, <1>7, FS_Subset
<1>9. IsFiniteSet({d \in cfg.scan : d.dir # Root})
  BY <1>2, FS_Subset
<1>10. IsFiniteSet(Scanned)
  BY <1>8, <1>9, FS_Union DEF Scanned
<1>11. Scanned \subseteq Texts
  BY <1>2, <1>6, <1>7 DEF Scanned
<1> QED BY <1>3, <1>10, <1>11

\* A file is listed once for each text of a directory above it that is scanned: at least
\* once if there is one, and no more than once if no two directories offer it.
LEMMA ListedTimesAre ==
  ASSUME TypeOK, NEW f \in Legacy
  PROVE  /\ ListedTimes(f) \in Nat
         /\ ListedTimes(f) > 0 <=> Reach(f)
         /\ \/ ListedTimes(f) <= 1
            \/ \E d \in Scanned :
                 /\ IsPrefix(d.dir, Dir[f])
                 /\ Dir[f] = Root \/ \E e \in Scanned \ {d} : IsPrefix(e.dir, Dir[f])
<1> DEFINE above == {d \in Scanned : IsPrefix(d.dir, Dir[f])}
<1>1. IsFiniteSet(above)
  BY ScannedFinite, FS_Subset
<1>2. Cardinality(above) \in Nat
  BY <1>1, FS_CardinalityType
<1>3. Cardinality(above) = 0 <=> above = {}
  BY <1>1, FS_EmptySet
<1>4. ListedTimes(f) = Cardinality(above) + (IF Dir[f] = Root THEN 1 ELSE 0)
  BY DEF ListedTimes
<1>5. ASSUME \A d \in above : Dir[f] # Root /\ \A e \in above : e = d
      PROVE  ListedTimes(f) <= 1
  <2>1. above = {} \/ \E d : above = {d} /\ Dir[f] # Root
    BY <1>5
  <2> HIDE DEF above
  <2>2. CASE above = {}
    BY <1>3, <1>4, <2>2
  <2>3. CASE \E d : above = {d} /\ Dir[f] # Root
    <3>1. PICK d : above = {d} /\ Dir[f] # Root
      BY <2>3
    <3>2. Cardinality(above) = 1
      BY <3>1, FS_Singleton
    <3> QED BY <1>4, <3>1, <3>2
  <2> QED BY <2>1, <2>2, <2>3
<1>6. ASSUME NEW d \in above, Dir[f] = Root \/ \E e \in above : e # d
      PROVE  \E x \in Scanned :
               /\ IsPrefix(x.dir, Dir[f])
               /\ Dir[f] = Root \/ \E e \in Scanned \ {x} : IsPrefix(e.dir, Dir[f])
  <2>1. Dir[f] = Root \/ \E e \in Scanned \ {d} : IsPrefix(e.dir, Dir[f])
    BY <1>6
  <2> QED BY <2>1
<1>7. above # {} <=> \E d \in Scanned : IsPrefix(d.dir, Dir[f])
  OBVIOUS
<1>8. ListedTimes(f) > 0 <=> Reach(f)
  <2> HIDE DEF above
  <2> QED BY <1>2, <1>3, <1>4, <1>7 DEF Reach
<1>9. ListedTimes(f) \in Nat
  <2> HIDE DEF above
  <2> QED BY <1>2, <1>4
<1> HIDE DEF above
<1> QED BY <1>5, <1>6, <1>8, <1>9

-----------------------------------------------------------------------------
(* What processing a folder does.                                          *)

\* n[m] items are placed, and stay[m] copies that could not be moved on stay behind.
Result(src, p, wanted, target, how, n, stay) ==
    /\ n \in [Mails -> Nat] /\ stay \in [Mails -> Nat]
    /\ \A m \in Mails :
         /\ n[m] + stay[m] <= IF m \in wanted THEN has[src][p][m] ELSE 0
         /\ how # "copy" => stay[m] = 0
         /\ how = "dry" => n[m] = 0
         /\ n[m] > 0 => target[m] \in onDisk'
         /\ clean' /\ how # "dry" /\ m \in wanted => n[m] = has[src][p][m]
    /\ has' \in [Stores -> [Paths -> [Mails -> Nat]]]
    /\ \A s \in Stores, q \in Paths, m \in Mails :
         has'[s][q][m] = has[s][q][m]
           + (IF q = p /\ s = target[m] THEN n[m] ELSE 0)
           + (IF q = p /\ s = src THEN stay[m] ELSE 0)
           - (IF q = p /\ s = src /\ how = "move" THEN n[m] ELSE 0)
    /\ made' = [m \in Mails |-> made[m] + n[m]]
    /\ onDisk \subseteq onDisk' /\ onDisk' \subseteq Quarters
    /\ mounted \subseteq mounted' /\ mounted' \subseteq mounted \cup Quarters
    /\ troubles' \in 0 .. MaxTroubles /\ clean' \in BOOLEAN
    /\ clean' => clean

\* Process has a result of this kind, in each of its modes and whatever fails.
LEMMA ProcessResult ==
  ASSUME TypeOK, NEW src \in Stores, NEW p \in Paths, NEW wanted \in SUBSET Mails,
         NEW target \in [Mails -> Quarters], NEW how \in Modes,
         Process(src, p, wanted, target, how)
  PROVE  \E n, stay \in [Mails -> Nat] : Result(src, p, wanted, target, how, n, stay)
<1> DEFINE all == [m \in Mails |-> IF m \in wanted THEN has[src][p][m] ELSE 0]
<1>1. has \in [Stores -> [Paths -> [Mails -> Nat]]] /\ all \in [Mails -> Nat]
  BY DEF TypeOK
<1>2. /\ onDisk \subseteq Quarters /\ clean \in BOOLEAN /\ made \in [Mails -> Nat]
      /\ troubles \in 0 .. MaxTroubles /\ MaxTroubles \in Nat
  BY ConstantsOK DEF TypeOK
<1>3. CASE how = "dry"
  <2>1. NoTrouble /\ UNCHANGED <<has, onDisk, mounted, made>>
    BY <1>3 DEF Process
  <2>2. None \in [Mails -> Nat] /\ \A m \in Mails : None[m] = 0
    BY DEF None
  <2>3. made' = [m \in Mails |-> made[m] + None[m]]
    BY <1>2, <2>1, <2>2
  <2>4. \A s \in Stores, q \in Paths, m \in Mails : has[s][q][m] \in Nat
    BY <1>1
  <2>5. Result(src, p, wanted, target, how, None, None)
    BY <1>1, <1>2, <1>3, <2>1, <2>2, <2>3, <2>4 DEF Result, NoTrouble
  <2> QED BY <2>2, <2>5
<1>4. CASE how # "dry"
  <2>1. PICK n \in SomeOf(all), stay \in [Mails -> 0 .. 1] :
          /\ \A m \in Mails : n[m] + stay[m] <= all[m]
          /\ how = "move" => stay = None
          /\ IF n = all THEN NoTrouble ELSE Trouble
          /\ has' = Placed(src, p, target, n, stay, how)
          /\ made' = [m \in Mails |-> made[m] + n[m]]
          /\ \E opened \in SUBSET Targets(target, all) :
               /\ Targets(target, n) \cup Targets(target, stay) \subseteq opened
               /\ onDisk' = onDisk \cup opened
               /\ mounted' = mounted \cup opened
    BY <1>4 DEF Process
  <2>2. n \in [Mails -> Nat] /\ stay \in [Mails -> Nat]
    <3>1. UNION {0 .. all[m] : m \in Mails} \subseteq Nat
      BY <1>1
    <3> QED BY <2>1, <3>1 DEF SomeOf
  <2>3. PICK opened \in SUBSET Targets(target, all) :
          /\ Targets(target, n) \cup Targets(target, stay) \subseteq opened
          /\ onDisk' = onDisk \cup opened
          /\ mounted' = mounted \cup opened
    BY <2>1
  <2>4. opened \subseteq Quarters
    BY <2>3 DEF Targets
  <2>5. \A m \in Mails : n[m] > 0 => target[m] \in opened
    BY <2>3 DEF Targets
  <2>6. /\ troubles' \in 0 .. MaxTroubles /\ clean' \in BOOLEAN /\ (clean' => clean)
        /\ clean' => n = all
    <3>1. CASE n = all
      <4>1. NoTrouble
        BY <2>1, <3>1
      <4> QED BY <1>2, <3>1, <4>1 DEF NoTrouble
    <3>2. CASE n # all
      <4>1. Trouble
        BY <2>1, <3>2
      <4>2. clean' = FALSE /\ troubles' \in 0 .. MaxTroubles
        BY <1>2, <4>1 DEF Trouble
      <4> QED BY <4>2
    <3> QED BY <3>1, <3>2
  <2>7. \A m \in Mails : how # "copy" => stay[m] = 0
    BY <1>4, <2>1 DEF None, Modes
  <2>8. \A s \in Stores, q \in Paths, m \in Mails :
          has'[s][q][m] = has[s][q][m]
            + (IF q = p /\ s = target[m] THEN n[m] ELSE 0)
            + (IF q = p /\ s = src THEN stay[m] ELSE 0)
            - (IF q = p /\ s = src /\ how = "move" THEN n[m] ELSE 0)
    BY <2>1 DEF Placed, TargetFolder
  <2>9. \A m \in Mails : n[m] + stay[m] <= IF m \in wanted THEN has[src][p][m] ELSE 0
    BY <2>1
  <2>10. has' \in [Stores -> [Paths -> [Mails -> Nat]]]
    <3>1. ASSUME NEW s \in Stores, NEW q \in Paths, NEW m \in Mails
          PROVE  has[s][q][m]
                   + (IF q = TargetFolder(p) /\ s = target[m] THEN n[m] ELSE 0)
                   + (IF q = p /\ s = src THEN stay[m] ELSE 0)
                   - (IF q = p /\ s = src /\ how = "move" THEN n[m] ELSE 0) \in Nat
      <4>1. n[m] \in Nat /\ stay[m] \in Nat /\ has[s][q][m] \in Nat /\ has[src][p][m] \in Nat
        BY <1>1, <2>2
      <4>2. n[m] <= has[src][p][m]
        BY <2>9, <4>1
      <4> QED BY <4>1, <4>2
    <3> QED BY <2>1, <3>1 DEF Placed
  <2>11. \A m \in Mails : clean' /\ m \in wanted => n[m] = has[src][p][m]
    BY <2>6
  <2> HIDE DEF all
  <2>12. Result(src, p, wanted, target, how, n, stay)
    BY <1>2, <1>4, <2>1, <2>2, <2>3, <2>4, <2>5, <2>6, <2>7, <2>8, <2>9, <2>10, <2>11
    DEF Result, TypeOK
  <2> QED BY <2>2, <2>12
<1> QED BY <1>3, <1>4

\* A folder of the mailbox: its old mails.
LEMMA ArchiveFolderResult ==
  ASSUME TypeOK, ArchiveFolder
  PROVE  \E p \in left : \E n, stay \in [Mails -> Nat] :
           /\ p \in Paths /\ left' = left \ {p}
           /\ Result(Home, p, Old, QuarterOf(fields[p]), mode1, n, stay)
<1>1. PICK p \in left : /\ left' = left \ {p}
                        /\ Process(Home, p, {m \in Mails : Due(m)}, QuarterOf(fields[p]), mode1)
  BY DEF ArchiveFolder, notes
<1>2. {m \in Mails : Due(m)} = Old
  BY ConstantsOK DEF Due
<1>3. Home \in Stores /\ p \in Paths /\ mode1 \in Modes /\ Old \in SUBSET Mails
  BY ConstantsOK DEF Stores, TypeOK
<1>4. QuarterOf(fields[p]) \in [Mails -> Quarters]
  BY ConstantsOK DEF QuarterOf
<1>5. Process(Home, p, Old, QuarterOf(fields[p]), mode1)
  BY <1>1, <1>2
<1>6. \E n, stay \in [Mails -> Nat] : Result(Home, p, Old, QuarterOf(fields[p]), mode1, n, stay)
  BY <1>3, <1>4, <1>5, ProcessResult
<1> QED BY <1>1, <1>3, <1>6

\* A folder of a PST file: the mails that do not belong to it.
LEMMA ProcessFolderResult ==
  ASSUME TypeOK, ProcessFolder
  PROVE  \E p \in left : \E n, stay \in [Mails -> Nat] :
           /\ p \in Paths /\ left' = left \ {p} /\ cur \in Quarters \cup Legacy
           /\ Result(cur, p, {m \in Mails : NeedsMove(m, p)}, QuarterOf(FieldByName(p)), mode,
                     n, stay)
           /\ again' = again \cup Repeats(p)
<1> DEFINE wanted(p) == {m \in Mails : NeedsMove(m, p)}
<1>1. PICK p \in left : /\ left' = left \ {p}
                        /\ Process(cur, p, wanted(p), QuarterOf(FieldByName(p)), mode)
                        /\ again' = again \cup Repeats(p)
  BY DEF ProcessFolder
<1>2. cur \in Quarters \cup Legacy /\ p \in Paths /\ mode \in Modes /\ wanted(p) \in SUBSET Mails
  BY DEF TypeOK, ProcessFolder
<1>3. cur \in Stores
  BY <1>2 DEF Stores
<1>4. QuarterOf(FieldByName(p)) \in [Mails -> Quarters]
  BY ConstantsOK DEF QuarterOf
<1> HIDE DEF wanted
<1>5. \E n, stay \in [Mails -> Nat] :
        Result(cur, p, wanted(p), QuarterOf(FieldByName(p)), mode, n, stay)
  BY <1>1, <1>2, <1>3, <1>4, ProcessResult
<1> QED BY <1>1, <1>2, <1>5 DEF wanted

-----------------------------------------------------------------------------
(* Types.                                                                  *)

\* A call that fails, or does not, keeps the types of the two variables it is about.
LEMMA TroubleTypes ==
  ASSUME TypeOK
  PROVE  /\ Trouble => troubles' \in 0 .. MaxTroubles /\ clean' = FALSE
         /\ NoTrouble => troubles' \in 0 .. MaxTroubles /\ clean' = clean /\ clean' \in BOOLEAN
<1>1. troubles \in 0 .. MaxTroubles /\ MaxTroubles \in Nat /\ clean \in BOOLEAN
  BY ConstantsOK DEF TypeOK
<1>2. ASSUME Trouble PROVE troubles' \in 0 .. MaxTroubles /\ clean' = FALSE
  BY <1>1, <1>2 DEF Trouble
<1>3. ASSUME NoTrouble
      PROVE  troubles' \in 0 .. MaxTroubles /\ clean' = clean /\ clean' \in BOOLEAN
  BY <1>1, <1>3 DEF NoTrouble
<1> QED BY <1>2, <1>3

\* Taking a file off a list keeps the types of the lists; none is taken more often than listed.
LEMMA PickTypes ==
  ASSUME TypeOK, NEW f, Pick(f)
  PROVE  files' \subseteq Quarters /\ listings' \in [Legacy -> Nat]
<1>1. files \subseteq Quarters /\ listings \in [Legacy -> Nat]
  BY DEF TypeOK
<1>2. CASE pc = "ours"
  BY <1>1, <1>2 DEF Pick
<1>3. CASE pc = "legacy"
  <2>1. f \in Legacy /\ listings[f] > 0 /\ listings' = [listings EXCEPT ![f] = @ - 1]
        /\ files' = files
    BY <1>3 DEF Pick
  <2> QED BY <1>1, <2>1
<1> QED BY <1>2, <1>3 DEF Pick

\* A user who moves an item leaves no folder with a negative number of them.
LEMMA MovedType ==
  ASSUME TypeOK, NEW m \in Mails, NEW s \in Stores, NEW t \in Stores, NEW p \in Paths,
         NEW q \in Paths, has[s][p][m] > 0,
         has' = [has EXCEPT ![s][p][m] = @ - 1, ![t][q][m] = @ + 1]
  PROVE  has' \in [Stores -> [Paths -> [Mails -> Nat]]]
<1> DEFINE h == [has EXCEPT ![s][p][m] = @ - 1]
<1>1. h \in [Stores -> [Paths -> [Mails -> Nat]]]
  BY DEF TypeOK
<1>2. has' = [h EXCEPT ![t][q][m] = has[t][q][m] + 1]
  OBVIOUS
<1>3. has[t][q][m] + 1 \in Nat
  BY DEF TypeOK
<1> HIDE DEF h
<1>4. [h EXCEPT ![t][q][m] = has[t][q][m] + 1] \in [Stores -> [Paths -> [Mails -> Nat]]]
  BY <1>1, <1>3
<1> QED BY <1>2, <1>4

\* A reorganization begins well-typed.
LEMMA TypeInit == Init => TypeOK
<1> SUFFICES ASSUME Init PROVE TypeOK
  OBVIOUS
<1>1. PICK at \in Starts :
        /\ has = [s \in Stores |-> [p \in Paths |-> [m \in Mails |->
                    IF at[m] = [store |-> s, path |-> p] THEN 1 ELSE 0]]]
        /\ onDisk = {at[m].store : m \in Mails} \cap Quarters
  BY DEF Init
<1>2. has \in [Stores -> [Paths -> [Mails -> Nat]]] /\ onDisk \subseteq Quarters
  BY <1>1
<1>3. fields \in [Paths -> Fields]
  BY DEF Init, FieldByName, Fields
<1>4. made \in [Mails -> Nat] /\ before \in [Mails -> Nat]
  BY DEF Init, None
<1>5. listings \in [Legacy -> Nat]
  BY DEF Init
<1>6. troubles \in 0 .. MaxTroubles /\ passes \in 0 .. MaxPasses
  BY ConstantsOK DEF Init
<1>7. /\ mounted \subseteq Legacy \cup Quarters
      /\ cfg \in Configs /\ rules \in {c.rules : c \in Configs}
      /\ mode \in Modes /\ mode1 \in Modes /\ pc = "idle" /\ files = {} /\ left = {} /\ dirs = {}
      /\ untyped = {} /\ gone = {} /\ again = {}
      /\ cur = NoFile
      /\ cancelled = FALSE /\ clean = TRUE /\ alone = TRUE /\ settled = FALSE
  BY DEF Init, Modes
<1> QED BY <1>2, <1>3, <1>4, <1>5, <1>6, <1>7 DEF TypeOK

\* Each step keeps the types.
LEMMA TypeStep == TypeOK /\ [Next]_vars => TypeOK'
<1> SUFFICES ASSUME TypeOK, [Next]_vars PROVE TypeOK'
  OBVIOUS
<1> USE DEF TypeOK
<1>0. MaxPasses \in Nat /\ MaxTroubles \in Nat
  BY ConstantsOK
<1>1. CASE Begin
  <2>1. before' \in [Mails -> Nat] /\ made' \in [Mails -> Nat]
    BY <1>1, ItemsAreMany DEF Begin, None
  <2>2. fields' \in [Paths -> Fields]
    BY <1>1 DEF Begin, FieldByName, Fields
  <2> QED BY <1>0, <1>1, <2>1, <2>2 DEF Begin, env, control, lists
<1>2. CASE Walk
  <2>1. PICK known \in BOOLEAN, unread \in SUBSET Paths, lost \in SUBSET Paths :
          /\ IF known /\ unread = {} /\ lost = {} /\ untyped' = {} THEN NoTrouble ELSE Trouble
          /\ fields' = TimeFields(known, unread)
          /\ left' = Seen(Walked(rules', untyped'), lost)
    BY <1>2 DEF Walk
  <2>2. troubles' \in 0 .. MaxTroubles /\ clean' \in BOOLEAN
    BY <2>1, TroubleTypes
  <2>3. fields' \in [Paths -> Fields]
    BY <2>1 DEF TimeFields, FieldByName, FieldById, Fields
  <2>4. left' \subseteq Paths
    BY <2>1 DEF Seen, Walked
  <2>5. gone' \subseteq Stores /\ untyped' \subseteq NotMail /\ settled' \in BOOLEAN
    BY <1>2 DEF Walk, Stores
  <2> QED BY <1>0, <1>2, <2>2, <2>3, <2>4, <2>5 DEF Walk, env
<1>3. CASE SkipMailbox
  BY <1>3, TroubleTypes DEF SkipMailbox, env, config, lists, hist, notes, since
<1>4. CASE ArchiveFolder
  <2>1. PICK p \in left, n \in [Mails -> Nat], stay \in [Mails -> Nat] :
           /\ p \in Paths /\ left' = left \ {p}
           /\ Result(Home, p, Old, QuarterOf(fields[p]), mode1, n, stay)
    BY <1>4, ArchiveFolderResult
  <2>2. made' \in [Mails -> Nat]
    BY <2>1 DEF Result
  <2> QED BY <1>4, <2>1, <2>2 DEF ArchiveFolder, notes, Result, config, since
<1>5. CASE MailboxDone
  BY <1>5 DEF MailboxDone, env, config, control, lists, hist, notes, since
<1>6. CASE Discover
  <2>1. PICK mine \in SUBSET onDisk, missed \in [Legacy -> 0 .. 1] :
          /\ \A f \in Legacy : missed[f] <= ListedTimes(f)
          /\ files' = mine
          /\ listings' = [f \in Legacy |-> ListedTimes(f) - missed[f]]
          /\ IF mine = onDisk /\ \A f \in Legacy : missed[f] = 0
             THEN NoTrouble ELSE Trouble
    BY <1>6 DEF Discover
  <2>2. troubles' \in 0 .. MaxTroubles /\ clean' \in BOOLEAN
    BY <2>1, TroubleTypes
  <2>3. \A f \in Legacy : ListedTimes(f) \in Nat
    BY ListedTimesAre
  <2>4. listings' \in [Legacy -> Nat]
    <3>1. ASSUME NEW f \in Legacy PROVE ListedTimes(f) - missed[f] \in Nat
      <4>1. missed[f] \in 0 .. 1 /\ missed[f] <= ListedTimes(f)
        BY <2>1, Zenon
      <4>2. ListedTimes(f) \in Nat
        BY <2>3
      <4> QED BY <4>1, <4>2
    <3> QED BY <2>1, <3>1
  <2>5. dirs' \subseteq Texts
    BY <1>6, ScannedFinite DEF Discover
  <2> QED BY <1>6, <2>1, <2>2, <2>4, <2>5 DEF Discover, env, config, since
<1>7. ASSUME NEW f \in Quarters \cup Legacy, Pick(f)
      PROVE  files' \subseteq Quarters /\ listings' \in [Legacy -> Nat]
  BY <1>7, PickTypes
<1>8. CASE OpenFile
  <2>1. PICK f \in Quarters \cup Legacy, lost \in SUBSET Paths :
          /\ Pick(f)
          /\ IF lost = {} THEN NoTrouble ELSE Trouble
          /\ cur' = f
          /\ left' = Seen(Paths, lost)
          /\ mounted' = mounted \cup {f}
    BY <1>8 DEF OpenFile
  <2>2. troubles' \in 0 .. MaxTroubles /\ clean' \in BOOLEAN
    BY <2>1, TroubleTypes
  <2>3. left' \subseteq Paths
    BY <2>1 DEF Seen
  <2> QED BY <1>7, <1>8, <2>1, <2>2, <2>3 DEF OpenFile, config, hist, notes, since
<1>9. CASE FileFails
  <2>1. PICK f \in Quarters \cup Legacy : Pick(f)
    BY <1>9 DEF FileFails
  <2> QED BY <1>7, <1>9, <2>1, TroubleTypes DEF FileFails, env, config, hist, notes, since
<1>10. CASE ProcessFolder
  <2>1. PICK p \in left, n \in [Mails -> Nat], stay \in [Mails -> Nat] :
           /\ p \in Paths /\ left' = left \ {p}
           /\ Result(cur, p, {m \in Mails : NeedsMove(m, p)}, QuarterOf(FieldByName(p)), mode,
                     n, stay)
    BY <1>10, ProcessFolderResult
  <2>2. made' \in [Mails -> Nat]
    BY <2>1 DEF Result
  <2>3. again' \subseteq Mails
    BY <1>10 DEF ProcessFolder, Repeats
  <2> QED BY <1>10, <2>1, <2>2, <2>3 DEF ProcessFolder, Result, config, since
<1>11. CASE CloseFile
  <2>1. gone' \subseteq Stores
    BY <1>11 DEF CloseFile, Stores
  <2> QED BY <1>11, <2>1 DEF CloseFile, env, config, control, since
<1>12. CASE OursDone
  BY <1>12 DEF OursDone, env, config, control, lists, hist, notes, since
<1>13. CASE Finish
  BY <1>13 DEF Finish, env, config, control, lists, hist, notes
<1>14. CASE BreakOff
  <2>1. troubles' \in 0 .. MaxTroubles /\ clean' \in BOOLEAN
    BY <1>14, TroubleTypes DEF BreakOff
  <2>2. listings' \in [Legacy -> Nat] /\ files' = {} /\ left' = {} /\ cur' = NoFile
    BY <1>14 DEF BreakOff
  <2> QED BY <1>14, <2>1, <2>2 DEF BreakOff, env, config, hist, notes, since
<1>15. CASE Cancel
  BY <1>15 DEF Cancel, env, config, lists, hist, notes, since
<1>16. CASE Reload
  <2>1. troubles' \in 0 .. MaxTroubles
    BY <1>0, <1>16 DEF Reload
  <2> QED BY <1>16, <2>1 DEF Reload, env, lists, hist, notes
<1>17. CASE UserMoves
  <2>1. PICK m \in Mails, s \in Stores, t \in Stores, p \in Paths, q \in Paths :
          /\ has[s][p][m] > 0
          /\ has' = [has EXCEPT ![s][p][m] = @ - 1, ![t][q][m] = @ + 1]
    BY <1>17 DEF UserMoves
  <2>2. has' \in [Stores -> [Paths -> [Mails -> Nat]]]
    BY <2>1, MovedType
  <2>3. troubles' \in 0 .. MaxTroubles
    <3>1. troubles < MaxTroubles /\ troubles' = troubles + 1
      BY <1>17 DEF UserMoves
    <3> QED BY <1>0, <3>1
  <2> QED BY <1>17, <2>2, <2>3 DEF UserMoves, config, lists, hist, notes
<1>18. CASE UNCHANGED vars
  BY <1>18 DEF vars, env, config, control, lists, hist, notes, since
<1> QED BY <1>1, <1>2, <1>3, <1>4, <1>5, <1>6, <1>8, <1>9, <1>10, <1>11, <1>12, <1>13,
           <1>14, <1>15, <1>16, <1>17, <1>18 DEF Next

\* Every variable of a reorganization keeps its type; no folder ever holds a negative
\* number of items, and no file is listed a negative number of times.
THEOREM TypeCorrect == Spec => []TypeOK
BY TypeInit, TypeStep, PTL DEF Spec

-----------------------------------------------------------------------------
(* What a pass has at hand.                                                *)

\* A file is opened or given up in one of two ways.
LEMMA PickCases ==
  ASSUME TypeOK, NEW f, Pick(f)
  PROVE  \/ /\ pc = "ours" /\ f \in files /\ f \in Quarters
            /\ files' = files \ {f} /\ listings' = listings
         \/ /\ pc = "legacy" /\ f \in Legacy /\ listings[f] > 0 /\ files' = files
            /\ listings'[f] = listings[f] - 1
            /\ \A g \in Legacy : g # f => listings'[g] = listings[g]
<1>1. files \subseteq Quarters /\ listings \in [Legacy -> Nat]
  BY DEF TypeOK
<1>2. CASE pc = "ours"
  BY <1>1, <1>2 DEF Pick
<1>3. CASE pc = "legacy"
  <2>1. f \in Legacy /\ listings[f] > 0 /\ listings' = [listings EXCEPT ![f] = @ - 1]
        /\ files' = files
    BY <1>3 DEF Pick
  <2> QED BY <1>1, <1>3, <2>1
<1> QED BY <1>2, <1>3 DEF Pick

\* At the start no file is at hand.
LEMMA ControlInit == Init => Control
BY DEF Init, Control

\* Each step leaves at hand what the next phase expects.
LEMMA ControlStep == TypeOK /\ Control /\ [Next]_vars => Control'
<1> SUFFICES ASSUME TypeOK, Control, [Next]_vars PROVE Control'
  OBVIOUS
<1> USE DEF Control
<1>1. CASE Begin
  BY <1>1 DEF Begin, lists
<1>2. CASE Walk
  <2>1. PICK unknown : unknown = untyped'
    OBVIOUS
  <2>2. left' \subseteq Walked(rules', unknown) /\ rules' = cfg.rules
    BY <1>2, <2>1 DEF Walk, Seen
  <2>3. Walked(rules', unknown) = ByRule(rules', unknown)
    BY <2>2, WalkedIsByRule DEF TypeOK
  <2>4. left' \subseteq ByRule(rules, untyped)'
    BY <2>1, <2>2, <2>3 DEF ByRule
  <2> QED BY <1>2, <2>2, <2>4 DEF Walk
<1>3. CASE SkipMailbox
  BY <1>3 DEF SkipMailbox, config, lists, hist, notes, since
<1>4. CASE ArchiveFolder
  BY <1>4 DEF ArchiveFolder, notes, config, since
<1>5. CASE MailboxDone
  BY <1>5 DEF MailboxDone, config, lists, hist, notes, since
<1>6. CASE Discover
  BY <1>6 DEF Discover, config, since
<1>7. CASE OpenFile
  <2>1. PICK f \in Quarters \cup Legacy : Pick(f) /\ cur' = f
    BY <1>7 DEF OpenFile
  <2> QED BY <1>7, <2>1, PickCases DEF OpenFile, config, hist, notes, since
<1>8. CASE FileFails
  <2>1. PICK f \in Quarters \cup Legacy : Pick(f)
    BY <1>8 DEF FileFails
  <2> QED BY <1>8, <2>1, PickCases DEF FileFails, config, hist, notes, since
<1>9. CASE ProcessFolder
  BY <1>9 DEF ProcessFolder, notes, config, since
<1>10. CASE CloseFile
  BY <1>10 DEF CloseFile, config, hist, notes, since
<1>11. CASE OursDone
  BY <1>11 DEF OursDone, config, lists, hist, notes, since
<1>12. CASE Finish
  BY <1>12 DEF Finish, config, lists, hist, notes
<1>13. CASE BreakOff
  BY <1>13 DEF BreakOff, config, hist, notes, since
<1>14. CASE Cancel
  BY <1>14 DEF Cancel, config, lists, hist, notes, since
<1>15. CASE Reload
  BY <1>15 DEF Reload, lists, hist, notes
<1>16. CASE UserMoves
  BY <1>16 DEF UserMoves, config, lists, hist, notes
<1>17. CASE UNCHANGED vars
  BY <1>17 DEF vars, config, lists, hist, notes, since
<1> QED BY <1>1, <1>2, <1>3, <1>4, <1>5, <1>6, <1>7, <1>8, <1>9, <1>10, <1>11, <1>12, <1>13,
           <1>14, <1>15, <1>16, <1>17 DEF Next

\* At the start the files that hold mail exist.
LEMMA OnDiskInit == Init => OnDisk
<1> SUFFICES ASSUME Init PROVE OnDisk
  OBVIOUS
<1>1. PICK at \in Starts :
        /\ has = [s \in Stores |-> [p \in Paths |-> [m \in Mails |->
                    IF at[m] = [store |-> s, path |-> p] THEN 1 ELSE 0]]]
        /\ onDisk = {at[m].store : m \in Mails} \cap Quarters
  BY DEF Init
<1>2. ASSUME NEW q \in Quarters \ onDisk, NEW p \in Paths, NEW m \in Mails
      PROVE  has[q][p][m] = 0
  <2>1. q \in Stores /\ at[m].store # q
    BY <1>1 DEF Stores
  <2>2. at[m] # [store |-> q, path |-> p]
    BY <2>1
  <2> QED BY <1>1, <2>1, <2>2
<1> QED BY <1>2 DEF OnDisk

\* Files are made where mail is put, and no file is removed.
LEMMA OnDiskStep == TypeOK /\ OnDisk /\ [Next]_vars => OnDisk'
<1> SUFFICES ASSUME TypeOK, OnDisk, [Next]_vars,
                    NEW q \in Quarters, q \notin onDisk', NEW p \in Paths, NEW m \in Mails
             PROVE  has'[q][p][m] = 0
  BY DEF OnDisk
<1>1. q \in Stores /\ has[q][p][m] \in Nat
  BY DEF Stores, TypeOK
<1>2. ASSUME NEW src \in Stores, NEW f \in Paths, NEW wanted, NEW target, NEW how,
             NEW n, NEW stay, Result(src, f, wanted, target, how, n, stay)
      PROVE  has'[q][p][m] = 0
  <2>1. has[q][p][m] = 0
    BY <1>2 DEF OnDisk, Result
  <2>2. has'[q][p][m] = has[q][p][m]
           + (IF p = f /\ q = target[m] THEN n[m] ELSE 0)
           + (IF p = f /\ q = src THEN stay[m] ELSE 0)
           - (IF p = f /\ q = src /\ how = "move" THEN n[m] ELSE 0)
    BY <1>1, <1>2 DEF Result
  <2>3. n[m] \in Nat /\ stay[m] \in Nat
    BY <1>2 DEF Result
  <2>4. n[m] > 0 => target[m] \in onDisk'
    BY <1>2 DEF Result
  <2>5. n[m] + stay[m] <= IF m \in wanted THEN has[src][f][m] ELSE 0
    BY <1>2 DEF Result
  <2>6. p = f /\ q = target[m] => n[m] = 0
    BY <2>3, <2>4
  <2>7. p = f /\ q = src => n[m] = 0 /\ stay[m] = 0
    BY <2>1, <2>3, <2>5
  <2> QED BY <2>1, <2>2, <2>3, <2>6, <2>7
<1>3. CASE ArchiveFolder
  BY <1>2, <1>3, ArchiveFolderResult DEF Stores
<1>4. CASE ProcessFolder
  BY <1>2, <1>4, ProcessFolderResult DEF Stores
<1>5. CASE UserMoves
  <2>1. PICK k \in Mails, s \in Stores, t \in Stores, r \in Paths, u \in Paths :
          /\ <<s, r>> # <<t, u>>
          /\ has[s][r][k] > 0
          /\ t \in Quarters => t \in onDisk
          /\ has' = [has EXCEPT ![s][r][k] = @ - 1, ![t][u][k] = @ + 1]
    BY <1>5 DEF UserMoves
  <2>2. onDisk' = onDisk /\ has[q][p][m] = 0
    BY <1>5 DEF UserMoves, OnDisk
  <2>3. t # q
    BY <2>1, <2>2
  <2>4. <<q, p, m>> # <<s, r, k>>
    BY <2>1, <2>2
  <2>5. has'[q][p][m] = has[q][p][m]
    <3> DEFINE h == [has EXCEPT ![s][r][k] = @ - 1]
    <3>1. has' = [h EXCEPT ![t][u][k] = has[t][u][k] + 1]
      BY <2>1
    <3>2. h \in [Stores -> [Paths -> [Mails -> Int]]] /\ has[t][u][k] + 1 \in Int
      <4>1. has \in [Stores -> [Paths -> [Mails -> Int]]]
        BY DEF TypeOK
      <4>2. has[s][r][k] - 1 \in Int /\ has[t][u][k] + 1 \in Int
        BY <4>1
      <4> QED BY <4>1, <4>2
    <3>3. h[q][p][m] = has[q][p][m]
      BY <1>1, <2>4 DEF TypeOK
    <3> HIDE DEF h
    <3>4. has'[q][p][m] = h[q][p][m]
      BY <1>1, <2>3, <3>1, <3>2
    <3> QED BY <3>3, <3>4
  <2> QED BY <2>2, <2>5
<1>6. ASSUME UNCHANGED <<has, onDisk>> PROVE has'[q][p][m] = 0
  BY <1>6 DEF OnDisk
<1> QED BY <1>3, <1>4, <1>5, <1>6 DEF Next, vars, env, Begin, Walk, SkipMailbox, MailboxDone,
           Discover, OpenFile, FileFails, CloseFile, OursDone, Finish, BreakOff, Cancel, Reload

-----------------------------------------------------------------------------
(* What discoverPSTs finds.                                                *)

\* At the start nothing is listed.
LEMMA ListedOnceInit == Init => ListedOnce
BY DEF Init, ListedOnce

\* Each step lists such a file once at most, and not while it is at hand or when it has been.
LEMMA ListedOnceStep == TypeOK /\ Control /\ ListedOnce /\ [Next]_vars => ListedOnce'
<1> SUFFICES ASSUME TypeOK, Control, ListedOnce, [Next]_vars,
                    pc' \in {"ours", "legacy"}, NEW f \in Legacy, ~FoundTwice(f)'
             PROVE  /\ listings'[f] <= 1
                    /\ cur' = f => listings'[f] = 0
                    /\ f \in gone' => f = Home \/ (listings'[f] = 0 /\ cur' # f)
  BY DEF ListedOnce
<1>0. f # NoFile
  BY ConstantsOK DEF NoFile, Stores
<1>1. CASE Discover
  <2>1. PICK missed \in [Legacy -> 0 .. 1] :
          listings' = [g \in Legacy |-> ListedTimes(g) - missed[g]]
    BY <1>1 DEF Discover
  <2>2. dirs' = Scanned /\ gone' = gone /\ cur' = cur /\ pc = "discover"
    BY <1>1 DEF Discover
  <2>3. ListedTimes(f) \in Nat /\ ListedTimes(f) <= 1
    BY <2>2, ListedTimesAre DEF FoundTwice
  <2>4. missed[f] \in 0 .. 1
    BY <2>1, Zenon
  <2>5. listings'[f] = ListedTimes(f) - missed[f]
    BY <2>1
  <2>6. cur' # f /\ (f \in gone' => f = Home)
    BY <1>0, <2>2 DEF Control
  <2> QED BY <2>3, <2>4, <2>5, <2>6
<1>2. ASSUME pc \in {"ours", "legacy"}, UNCHANGED dirs
      PROVE  /\ listings[f] <= 1 /\ listings[f] \in Nat
             /\ cur = f => listings[f] = 0
             /\ f \in gone => f = Home \/ (listings[f] = 0 /\ cur # f)
  BY <1>2 DEF ListedOnce, FoundTwice, TypeOK
<1>3. CASE OpenFile
  <2>1. PICK g \in Quarters \cup Legacy : Pick(g) /\ cur' = g
    BY <1>3 DEF OpenFile
  <2>2. UNCHANGED <<pc, dirs, gone>> /\ pc \in {"ours", "legacy"}
    BY <1>3, <2>1 DEF OpenFile, Pick, hist, notes
  <2> QED BY <1>2, <2>1, <2>2, PickCases, ConstantsOK
<1>4. CASE FileFails
  <2>1. PICK g \in Quarters \cup Legacy : Pick(g)
    BY <1>4 DEF FileFails
  <2>2. UNCHANGED <<pc, dirs, gone, cur>> /\ pc \in {"ours", "legacy"} /\ cur = NoFile
    BY <1>4, <2>1 DEF FileFails, Pick, hist, notes
  <2> QED BY <1>0, <1>2, <2>1, <2>2, PickCases
<1>5. CASE ProcessFolder
  BY <1>2, <1>5 DEF ProcessFolder, Control
<1>6. CASE CloseFile
  BY <1>0, <1>2, <1>6 DEF CloseFile, Control
<1>7. CASE OursDone
  BY <1>2, <1>7 DEF OursDone, lists, hist, notes
<1>8. CASE Cancel
  BY <1>2, <1>8 DEF Cancel, lists, hist, notes
<1>9. CASE Reload
  BY <1>2, <1>9 DEF Reload, lists, hist, notes
<1>10. CASE UserMoves
  BY <1>2, <1>10 DEF UserMoves, lists, hist, notes
<1>11. CASE UNCHANGED vars
  BY <1>2, <1>11 DEF vars, lists, hist, notes
<1> QED BY <1>1, <1>3, <1>4, <1>5, <1>6, <1>7, <1>8, <1>9, <1>10, <1>11 DEF Next, Begin, Walk,
           SkipMailbox, ArchiveFolder, MailboxDone, Finish, BreakOff

\* What is found depends on the configuration and on the other files Outlook has open.
LEMMA ReachSame ==
  ASSUME cfg' = cfg, mounted' \cap Legacy = mounted \cap Legacy
  PROVE  Scanned' = Scanned /\ \A f \in Legacy : Reach(f)' <=> Reach(f)
BY DEF Reach, Scanned, Extra

\* Outlook opening a file that a pass found makes the next pass find no more than that:
\* what lies below its directory lies below the directory it was found in.
LEMMA ReachKept ==
  ASSUME TypeOK, NEW g \in Legacy, Reach(g), cfg' = cfg, mounted' = mounted \cup {g}
  PROVE  \A f \in Legacy : Reach(f)' <=> Reach(f)
<1> TAKE f \in Legacy
<1>1. /\ Scanned \subseteq Texts /\ Dir[f] \in Seq(Names) /\ Dir[g] \in Seq(Names)
  BY ScannedFinite
<1> DEFINE text == [dir |-> Dir[g], as |-> 0]
<1>2. Scanned \subseteq Scanned'
  BY DEF Scanned, Extra
<1>3. Scanned' \subseteq Scanned \cup {text}
  BY DEF Scanned, Extra
<1>4. text \in Scanned' /\ text \notin Scanned => Dir[g] # Root
  BY DEF Scanned, Extra
<1>5. ASSUME Reach(f)' PROVE Reach(f)
  <2>1. CASE Dir[f] = Root
    BY <2>1 DEF Reach
  <2>2. CASE Dir[f] # Root
    <3>1. PICK d \in Scanned' : IsPrefix(d.dir, Dir[f])
      BY <1>5, <2>2 DEF Reach
    <3>2. CASE d \in Scanned
      BY <3>1, <3>2 DEF Reach
    <3>3. CASE d \notin Scanned
      <4>0. d = text
        BY <1>3, <3>1, <3>3
      <4>1. Dir[g] # Root
        BY <1>4, <3>1, <3>3, <4>0
      <4>2. PICK e \in Scanned : IsPrefix(e.dir, Dir[g])
        BY <4>1 DEF Reach
      <4>3. IsPrefix(Dir[g], Dir[f]) /\ e.dir \in Seq(Names)
        BY <1>1, <3>1, <4>0 DEF Texts
      <4>4. IsPrefix(e.dir, Dir[f])
        BY <1>1, <4>2, <4>3, PrefixTransitive
      <4> QED BY <4>2, <4>4 DEF Reach
    <3> QED BY <3>2, <3>3
  <2> QED BY <2>1, <2>2
<1>6. ASSUME Reach(f) PROVE Reach(f)'
  BY <1>2, <1>6 DEF Reach
<1> QED BY <1>5, <1>6

\* At the start only Root has been read.
LEMMA FoundAgainInit == Init => FoundAgain
BY DEF Init, FoundAgain, Reached, Reach

\* What a pass found or has at hand is found by the next one, whatever was opened since.
LEMMA FoundAgainStep ==
  TypeOK /\ Control /\ FoundAgain /\ [Next]_vars => FoundAgain'
<1> SUFFICES ASSUME TypeOK, Control, FoundAgain, [Next]_vars, alone' \/ settled',
                    NEW f \in Legacy,
                    \/ Reached(f)'
                    \/ pc' \in {"ours", "legacy"} /\ (listings'[f] > 0 \/ cur' = f)
             PROVE  Reach(f)'
  BY DEF FoundAgain
<1>1. CASE Begin
  BY <1>1 DEF Begin, Reached, Reach
<1>2. CASE Discover
  <2>1. PICK missed \in [Legacy -> 0 .. 1] :
          listings' = [g \in Legacy |-> ListedTimes(g) - missed[g]]
    BY <1>2 DEF Discover
  <2>2. Reach(f)' <=> Reach(f)
    BY <1>2, ReachSame DEF Discover, env, config
  <2>3. ASSUME Reached(f)' PROVE Reach(f)
    BY <1>2, <2>3 DEF Discover, Reached, Reach
  <2>4. ASSUME listings'[f] > 0 PROVE Reach(f)
    <3>1. missed[f] \in 0 .. 1
      BY <2>1, Zenon
    <3>2. listings'[f] = ListedTimes(f) - missed[f] /\ ListedTimes(f) \in Nat
      BY <2>1, ListedTimesAre
    <3>3. ListedTimes(f) > 0
      BY <2>4, <3>1, <3>2
    <3> QED BY <3>3, ListedTimesAre
  <2>5. cur' # f
    BY <1>2, ConstantsOK DEF Discover, Control, NoFile, Stores
  <2> QED BY <2>2, <2>3, <2>4, <2>5
<1>3. CASE OpenFile
  <2>1. PICK g \in Quarters \cup Legacy : Pick(g) /\ cur' = g /\ mounted' = mounted \cup {g}
    BY <1>3 DEF OpenFile
  <2>2. alone \/ settled
    BY <1>3 DEF OpenFile, since
  <2>3. cfg' = cfg /\ dirs' = dirs /\ pc' = pc /\ pc \in {"ours", "legacy"}
    BY <1>3, <2>1 DEF OpenFile, config, hist, notes, Pick
  <2>4. \A x \in Legacy : Reach(x)' <=> Reach(x)
    <3>1. CASE g \in Legacy
      <4>1. Reach(g)
        BY <2>1, <2>2, <3>1, PickCases, ConstantsOK DEF FoundAgain
      <4> QED BY <2>1, <2>3, <3>1, <4>1, ReachKept
    <3>2. CASE g \notin Legacy
      BY <2>1, <2>3, <3>2, ReachSame
    <3> QED BY <3>1, <3>2
  <2>5. Reached(f)' => Reached(f)
    BY <2>3 DEF Reached
  <2>6. listings'[f] > 0 \/ cur' = f => listings[f] > 0
    <3>1. listings[f] \in Nat
      BY DEF TypeOK
    <3> QED BY <2>1, <3>1, PickCases, ConstantsOK
  <2> QED BY <2>2, <2>3, <2>4, <2>5, <2>6 DEF FoundAgain
<1>4. ASSUME cfg' = cfg, mounted' \cap Legacy = mounted \cap Legacy, dirs' = dirs,
             alone \/ settled, Reached(f) \/ listings[f] > 0 \/ cur = f,
             Reached(f) \/ pc \in {"ours", "legacy"}
      PROVE  Reach(f)'
  BY <1>4, ReachSame DEF FoundAgain
<1>5. dirs' = dirs => (Reached(f)' <=> Reached(f))
  BY DEF Reached
<1>6. CASE FileFails
  <2>1. PICK g \in Quarters \cup Legacy : Pick(g)
    BY <1>6 DEF FileFails
  <2>2. listings[f] \in Nat
    BY DEF TypeOK
  <2>3. listings'[f] > 0 => listings[f] > 0
    BY <2>1, <2>2, PickCases
  <2> QED BY <1>4, <1>5, <1>6, <2>1, <2>3 DEF FileFails, env, config, hist, notes, since, Pick
<1>7. CASE ArchiveFolder
  <2>1. mounted' \cap Legacy = mounted \cap Legacy
    BY <1>7, ArchiveFolderResult, ConstantsOK DEF Result
  <2> QED BY <1>4, <1>5, <1>7, <2>1 DEF ArchiveFolder, notes, config, since
<1>8. CASE ProcessFolder
  <2>1. mounted' \cap Legacy = mounted \cap Legacy
    BY <1>8, ProcessFolderResult, ConstantsOK DEF Result
  <2> QED BY <1>4, <1>5, <1>8, <2>1 DEF ProcessFolder, notes, config, since
<1>9. CASE Walk
  BY <1>4, <1>5, <1>9 DEF Walk, env, hist, notes, since
<1>10. CASE SkipMailbox
  BY <1>4, <1>5, <1>10 DEF SkipMailbox, env, config, lists, hist, notes, since
<1>11. CASE MailboxDone
  BY <1>4, <1>5, <1>11 DEF MailboxDone, env, config, lists, hist, notes, since
<1>12. CASE CloseFile
  BY <1>4, <1>5, <1>12, ConstantsOK DEF CloseFile, env, config, hist, notes, since, NoFile, Stores
<1>13. CASE OursDone
  BY <1>4, <1>5, <1>13 DEF OursDone, env, config, lists, hist, notes, since
<1>14. CASE Finish
  BY <1>4, <1>5, <1>14 DEF Finish, env, config, lists, hist, notes
<1>15. CASE BreakOff
  BY <1>4, <1>5, <1>15 DEF BreakOff, env, config, hist, notes, since
<1>16. CASE Cancel
  BY <1>4, <1>5, <1>16 DEF Cancel, env, config, lists, hist, notes, since
<1>17. CASE Reload
  BY <1>4, <1>5, <1>17 DEF Reload, env, lists, hist, notes
<1>18. CASE UserMoves
  BY <1>18 DEF UserMoves
<1>19. CASE UNCHANGED vars
  BY <1>4, <1>5, <1>19 DEF vars, env, config, lists, hist, notes, since
<1> QED BY <1>1, <1>2, <1>3, <1>6, <1>7, <1>8, <1>9, <1>10, <1>11, <1>12, <1>13, <1>14,
           <1>15, <1>16, <1>17, <1>18, <1>19 DEF Next

-----------------------------------------------------------------------------
(* Nothing is handled twice.                                               *)

\* What is within reach can be counted.
LEMMA InReachTypes ==
  ASSUME TypeOK, NEW m \in Mails
  PROVE  InReach(m) \in [Places -> Nat] /\ Cardinality(Bag(InReach(m))) \in Nat
<1>1. \A pl \in Places : has[pl.store][pl.path][m] \in Nat
  BY StoresFinite DEF TypeOK
<1>2. InReach(m) \in [Places -> Nat]
  BY <1>1 DEF InReach
<1> QED BY <1>2, BagFinite

\* A step that moves no mail, and puts none within reach of the pass.
LEMMA NoneTaken ==
  ASSUME TypeOK, TypeOK', NEW m \in Mails, has' = has,
         \A s \in Stores, p \in Paths : MayTake(s, p, m)' => MayTake(s, p, m)
  PROVE  Cardinality(Bag(InReach(m)))' <= Cardinality(Bag(InReach(m)))
<1>1. InReach(m) \in [Places -> Nat] /\ InReach(m)' \in [Places -> Nat]
  <2>1. \A pl \in Places : has'[pl.store][pl.path][m] \in Nat
    BY StoresFinite DEF TypeOK
  <2>2. InReach(m)' \in [Places -> Nat]
    BY <2>1 DEF InReach
  <2> QED BY <2>2, InReachTypes
<1>2. ASSUME NEW pl \in Places PROVE InReach(m)'[pl] <= InReach(m)[pl]
  <2>1. pl.store \in Stores /\ pl.path \in Paths
    BY StoresFinite
  <2>2. has[pl.store][pl.path][m] \in Nat
    BY <2>1 DEF TypeOK
  <2>3. InReach(m)[pl] = IF MayTake(pl.store, pl.path, m)
                         THEN has[pl.store][pl.path][m] ELSE 0
    BY DEF InReach
  <2>4. InReach(m)'[pl] = IF MayTake(pl.store, pl.path, m)'
                          THEN has[pl.store][pl.path][m] ELSE 0
    BY DEF InReach
  <2> QED BY <2>1, <2>2, <2>3, <2>4
<1> QED BY <1>1, <1>2, BagNotMore

\* The items a step places are taken from those within reach, and are out of it then.
LEMMA SomeTaken ==
  ASSUME TypeOK, TypeOK', NEW m \in Mails, NEW src \in Stores, NEW p \in Paths,
         NEW wanted, NEW target, NEW how, NEW n, NEW stay,
         Result(src, p, wanted, target, how, n, stay),
         \A s \in Stores, q \in Paths : MayTake(s, q, m)' => MayTake(s, q, m),
         ~MayTake(target[m], p, m)',
         how = "copy" => ~MayTake(src, p, m)',
         how \in Modes,
         m \in wanted /\ has[src][p][m] > 0 => MayTake(src, p, m)
  PROVE  Cardinality(Bag(InReach(m)))' + n[m] <= Cardinality(Bag(InReach(m)))
<1> DEFINE x == [store |-> src, path |-> p]
<1>1. InReach(m) \in [Places -> Nat] /\ InReach(m)' \in [Places -> Nat]
  <2>1. \A pl \in Places : has'[pl.store][pl.path][m] \in Nat
    BY StoresFinite DEF TypeOK
  <2>2. InReach(m)' \in [Places -> Nat]
    BY <2>1 DEF InReach
  <2> QED BY <2>2, InReachTypes
<1>2. n[m] \in Nat /\ stay[m] \in Nat
  BY DEF Result
<1>3. n[m] + stay[m] <= IF m \in wanted THEN has[src][p][m] ELSE 0
  BY DEF Result
<1>4. (how # "copy" => stay[m] = 0) /\ (how = "dry" => n[m] = 0)
  BY DEF Result
<1>5. ASSUME NEW s \in Stores, NEW q \in Paths
      PROVE  has'[s][q][m] = has[s][q][m]
               + (IF q = p /\ s = target[m] THEN n[m] ELSE 0)
               + (IF q = p /\ s = src THEN stay[m] ELSE 0)
               - (IF q = p /\ s = src /\ how = "move" THEN n[m] ELSE 0)
  BY DEF Result
<1>6. ASSUME NEW s \in Stores, NEW q \in Paths, MayTake(s, q, m)'
      PROVE  has'[s][q][m] = has[s][q][m] - (IF q = p /\ s = src THEN n[m] ELSE 0)
  <2>1. ~(q = p /\ s = target[m])
    BY <1>6
  <2>2. q = p /\ s = src => how = "move" \/ how = "dry"
    BY <1>6 DEF Modes
  <2>3. has[s][q][m] \in Nat
    BY DEF TypeOK
  <2>4. CASE q = p /\ s = src
    BY <1>2, <1>4, <1>5, <2>1, <2>2, <2>3, <2>4
  <2>5. CASE ~(q = p /\ s = src)
    BY <1>2, <1>5, <2>1, <2>3, <2>5
  <2> QED BY <2>4, <2>5
<1>7. ASSUME NEW s \in Stores, NEW q \in Paths, NEW pl \in Places, pl.store = s, pl.path = q
      PROVE  /\ InReach(m)[pl] = IF MayTake(s, q, m) THEN has[s][q][m] ELSE 0
             /\ InReach(m)'[pl] = IF MayTake(s, q, m)' THEN has'[s][q][m] ELSE 0
  BY <1>7 DEF InReach
<1>8. ASSUME NEW pl \in Places PROVE InReach(m)'[pl] <= InReach(m)[pl]
  <2>1. PICK s \in Stores, q \in Paths : pl.store = s /\ pl.path = q
    BY StoresFinite
  <2>2. has[s][q][m] \in Nat
    BY DEF TypeOK
  <2> QED BY <1>2, <1>6, <1>7, <2>1, <2>2
<1>9. x \in Places /\ x.store = src /\ x.path = p
  BY StoresFinite
<1>10. InReach(m)'[x] + n[m] <= InReach(m)[x]
  <2>1. has[src][p][m] \in Nat
    BY DEF TypeOK
  <2>2. n[m] <= IF m \in wanted THEN has[src][p][m] ELSE 0
    BY <1>2, <1>3, <2>1
  <2>0. n[m] > 0 => MayTake(src, p, m)
    BY <1>2, <2>1, <2>2
  <2>3. CASE MayTake(src, p, m)'
    <3>1. has'[src][p][m] = has[src][p][m] - n[m]
      BY <1>6, <2>3
    <3> QED BY <1>2, <1>7, <1>9, <2>1, <2>3, <3>1
  <2>4. CASE ~MayTake(src, p, m)'
    BY <1>2, <1>7, <1>9, <2>0, <2>1, <2>2, <2>4
  <2> QED BY <2>3, <2>4
<1> HIDE DEF x
<1> QED BY <1>1, <1>2, <1>8, <1>9, <1>10, BagLess

\* At the start nothing is within reach and nothing was placed.
LEMMA AccountedInit == Init => Accounted
<1> SUFFICES ASSUME Init, NEW m \in Mails
             PROVE  made[m] + Cardinality(Bag(InReach(m))) <= before[m]
  BY DEF Accounted
<1>1. TypeOK
  BY TypeInit
<1>2. ASSUME NEW s \in Stores, NEW p \in Paths PROVE ~MayTake(s, p, m)
  BY DEF Init, MayTake, HomeLeft, FileLeft
<1> DEFINE zero == [pl \in Places |-> 0]
<1>3. InReach(m) = zero
  BY <1>2, StoresFinite DEF InReach
<1>4. Bag(zero) = {}
  BY DEF Bag
<1>5. Cardinality(Bag(InReach(m))) = 0
  BY <1>3, <1>4, FS_EmptySet
<1> QED BY <1>5 DEF Init, None

\* What a step leaves of the files and folders to process was there before it.
LEMMA LessToTake ==
  ASSUME TypeOK, Control, [Next]_vars, ~Begin, alone',
         NEW s \in Stores, NEW p \in Paths, NEW m \in Mails, MayTake(s, p, m)'
  PROVE  MayTake(s, p, m)
<1> USE DEF MayTake, HomeLeft, FileLeft, Misfiled
<1>0. s \in Legacy => s # NoFile
  BY ConstantsOK DEF NoFile, Stores
<1>1. CASE Walk
  <2>1. pc = "walk" /\ pc' = "mailbox" /\ mode' = mode /\ cur = NoFile
    BY <1>1 DEF Walk, Control
  <2>2. fields[p] = FieldByName(p)
    BY <2>1 DEF Control
  <2>3. Misfiled(s, p, m) => s # QuarterOf(fields[p])[m]
    BY <2>2
  <2>4. gone \subseteq {Home} /\ gone' = {Home}
    BY <1>1, <2>1 DEF Walk, Control
  <2> QED BY <1>0, <2>1, <2>3, <2>4
<1>2. CASE SkipMailbox
  BY <1>2 DEF SkipMailbox, config, lists, hist, notes
<1>3. CASE ArchiveFolder
  BY <1>0, <1>3 DEF ArchiveFolder, Control, config, notes
<1>4. CASE MailboxDone
  BY <1>4 DEF MailboxDone, config, lists, hist, notes
<1>5. CASE Discover
  BY <1>5 DEF Discover, config
<1>6. CASE OpenFile
  <2>1. PICK f \in Quarters \cup Legacy : Pick(f) /\ cur' = f
    BY <1>6 DEF OpenFile
  <2>2. pc' = pc /\ pc \in {"ours", "legacy"}
    BY <1>6, <2>1 DEF OpenFile, Pick
  <2>3. s \in Legacy /\ listings'[s] > 0 => listings[s] > 0
    <3>1. s \in Legacy => listings[s] \in Nat
      BY DEF TypeOK
    <3> QED BY <2>1, <3>1, PickCases
  <2>4. cur' = s => s \in files \/ (s \in Legacy /\ listings[s] > 0)
    BY <2>1, PickCases
  <2>5. files' \subseteq files
    BY <2>1, PickCases
  <2>6. cur = NoFile /\ mode' = mode /\ fields' = fields /\ gone' = gone
    BY <1>6 DEF OpenFile, config, hist, notes
  <2> QED BY <1>0, <2>2, <2>3, <2>4, <2>5, <2>6
<1>7. CASE FileFails
  <2>1. PICK f \in Quarters \cup Legacy : Pick(f)
    BY <1>7 DEF FileFails
  <2>2. s \in Legacy /\ listings'[s] > 0 => listings[s] > 0
    <3>1. s \in Legacy => listings[s] \in Nat
      BY DEF TypeOK
    <3> QED BY <2>1, <3>1, PickCases
  <2>3. files' \subseteq files
    BY <2>1 DEF Pick
  <2>4. UNCHANGED <<pc, cur, left, mode, fields, gone>>
    BY <1>7 DEF FileFails, config, hist, notes
  <2> QED BY <2>2, <2>3, <2>4
<1>8. CASE ProcessFolder
  BY <1>8 DEF ProcessFolder, config
<1>9. CASE CloseFile
  <2>1. ~(s = cur' /\ p \in left')
    BY <1>9 DEF CloseFile
  <2>2. UNCHANGED <<pc, files, listings, mode, fields, left>> /\ gone' = gone \cup {cur}
        /\ cur' = NoFile
    BY <1>9 DEF CloseFile, config
  <2> QED BY <1>0, <2>1, <2>2
<1>10. CASE OursDone
  BY <1>10 DEF OursDone, config, lists, hist, notes
<1>11. CASE Finish
  BY <1>11 DEF Finish
<1>12. CASE BreakOff
  BY <1>12 DEF BreakOff
<1>13. CASE Cancel
  BY <1>13 DEF Cancel, config, lists, hist, notes
<1>14. CASE Reload
  BY <1>14 DEF Reload
<1>15. CASE UserMoves
  BY <1>15 DEF UserMoves, config, lists, hist, notes
<1>16. CASE UNCHANGED vars
  BY <1>16 DEF vars, config, lists, hist, notes
<1> QED BY <1>1, <1>2, <1>3, <1>4, <1>5, <1>6, <1>7, <1>8, <1>9, <1>10, <1>11, <1>12, <1>13,
           <1>14, <1>15, <1>16 DEF Next

\* Within a pass an interference is not forgotten, nor that a mail is handled again.
LEMMA AloneBefore ==
  ASSUME [Next]_vars, ~Begin
  PROVE  (alone' => alone) /\ again \subseteq again'
<1>1. CASE ProcessFolder
  BY <1>1 DEF ProcessFolder, since
<1>2. CASE ~ProcessFolder
  <2>1. again' = again
    BY <1>2 DEF Next, vars, hist, notes, Walk, SkipMailbox, ArchiveFolder, MailboxDone, Discover,
           OpenFile, FileFails, CloseFile, OursDone, Finish, BreakOff, Cancel, Reload, UserMoves
  <2>2. alone' => alone
    BY <1>2 DEF Next, vars, since, Walk, SkipMailbox, ArchiveFolder, MailboxDone, Discover,
           OpenFile, FileFails, CloseFile, OursDone, Finish, BreakOff, Cancel, Reload, UserMoves
  <2> QED BY <2>1, <2>2
<1> QED BY <1>1, <1>2

\* Each step places no more of a mail than it takes out of reach, unless it takes the mail
\* for another time.
LEMMA AccountedStep ==
  TypeOK /\ TypeOK' /\ Control /\ Control' /\ ListedOnce /\ Accounted /\ [Next]_vars
    => Accounted'
<1> SUFFICES ASSUME TypeOK, TypeOK', Control, Control', ListedOnce, Accounted, [Next]_vars,
                    alone', NEW m \in Mails, m \notin again'
             PROVE  made'[m] + Cardinality(Bag(InReach(m)))' <= before'[m]
  BY DEF Accounted
<1>1. Cardinality(Bag(InReach(m))) \in Nat /\ InReach(m) \in [Places -> Nat]
  BY InReachTypes
<1>2. made[m] \in Nat /\ before[m] \in Nat
  BY DEF TypeOK
<1>3. Cardinality(Bag(InReach(m)))' \in Nat /\ InReach(m)' \in [Places -> Nat]
  <2>1. \A pl \in Places : has'[pl.store][pl.path][m] \in Nat
    BY StoresFinite DEF TypeOK
  <2>2. InReach(m)' \in [Places -> Nat]
    BY <2>1 DEF InReach
  <2> QED BY <2>2, BagFinite
<1>4. CASE Begin
  <2> DEFINE g == [pl \in Places |-> has[pl.store][pl.path][m]]
  <2>1. has' = has /\ made'[m] = 0 /\ before'[m] = Items(m)
    BY <1>4 DEF Begin, env, None
  <2>2. g \in [Places -> Nat] /\ Items(m) = Cardinality(Bag(g)) /\ Items(m) \in Nat
    BY ItemsAreMany
  <2>3. ASSUME NEW pl \in Places PROVE InReach(m)'[pl] <= g[pl]
    <3>1. InReach(m)'[pl] = IF MayTake(pl.store, pl.path, m)' THEN g[pl] ELSE 0
      BY <2>1 DEF InReach
    <3>2. g[pl] \in Nat
      BY <2>2
    <3> QED BY <3>1, <3>2
  <2> HIDE DEF g
  <2>4. Cardinality(Bag(InReach(m)))' <= Cardinality(Bag(g))
    BY <1>3, <2>2, <2>3, BagNotMore
  <2> QED BY <1>3, <2>1, <2>2, <2>4
<1> SUFFICES ASSUME ~Begin PROVE made'[m] + Cardinality(Bag(InReach(m)))' <= before'[m]
  BY <1>4
<1>5. alone /\ m \notin again
  BY AloneBefore
<1>6. made[m] + Cardinality(Bag(InReach(m))) <= before[m]
  BY <1>5 DEF Accounted
<1>7. \A s \in Stores, p \in Paths : MayTake(s, p, m)' => MayTake(s, p, m)
  BY LessToTake
<1>8. CASE ArchiveFolder
  <2>1. PICK p \in left, n \in [Mails -> Nat], stay \in [Mails -> Nat] :
          /\ p \in Paths /\ left' = left \ {p}
          /\ Result(Home, p, Old, QuarterOf(fields[p]), mode1, n, stay)
    BY <1>8, ArchiveFolderResult
  <2>0. PICK target : target = QuarterOf(fields[p])
    OBVIOUS
  <2>2. pc = "mailbox" /\ pc' = "mailbox" /\ before' = before
    BY <1>8 DEF ArchiveFolder, notes
  <2>3. target[m] = QuarterOf(fields[p])[m] /\ target[m] \in Quarters /\ fields' = fields
    BY <1>8, <2>0, ConstantsOK DEF QuarterOf, ArchiveFolder
  <2>4. ~MayTake(target[m], p, m)'
    BY <2>3, ConstantsOK DEF MayTake
  <2>5. ASSUME mode1 = "copy" PROVE ~MayTake(Home, p, m)'
    <3>1. mode' = "copy" /\ Home \in gone'
      BY <1>5, <1>8, <2>2, <2>5 DEF ArchiveFolder, Control, config, notes
    <3> QED BY <2>1, <2>2, <3>1, ConstantsOK DEF MayTake, Misfiled, HomeLeft
  <2>6. MayTake(Home, p, m)
    BY <2>1, <2>2 DEF MayTake, HomeLeft
  <2>7. PICK how \in Modes : how = mode1
    BY DEF TypeOK
  <2>8. Result(Home, p, Old, target, how, n, stay)
    BY <2>0, <2>1, <2>7
  <2>9. Cardinality(Bag(InReach(m)))' + n[m] <= Cardinality(Bag(InReach(m)))
    <3>1. Home \in Stores
      BY DEF Stores
    <3> QED BY <1>7, <2>1, <2>4, <2>5, <2>6, <2>7, <2>8, <3>1, SomeTaken
  <2>10. made'[m] = made[m] + n[m] /\ n[m] \in Nat
    BY <2>1 DEF Result
  <2> QED BY <1>1, <1>2, <1>3, <1>6, <2>2, <2>9, <2>10
<1>9. CASE ProcessFolder
  <2> DEFINE wanted(p) == {k \in Mails : NeedsMove(k, p)}
  <2>1. PICK p \in left, n \in [Mails -> Nat], stay \in [Mails -> Nat] :
          /\ p \in Paths /\ left' = left \ {p} /\ cur \in Quarters \cup Legacy
          /\ Result(cur, p, wanted(p), QuarterOf(FieldByName(p)), mode, n, stay)
          /\ again' = again \cup Repeats(p)
    BY <1>9, ProcessFolderResult
  <2>0. PICK target, src : target = QuarterOf(FieldByName(p)) /\ src = cur
    OBVIOUS
  <2>2. pc' = pc /\ files' = files /\ listings' = listings /\ cur' = cur /\ before' = before
        /\ cur # NoFile
    BY <1>9 DEF ProcessFolder, notes
  <2>3. target[m] \in Quarters
    BY <2>0, ConstantsOK DEF QuarterOf
  <2>4. ~MayTake(target[m], p, m)'
    BY <2>0, <2>3, ConstantsOK DEF MayTake, Misfiled
  <2>5. pc \in {"ours", "legacy"}
    BY <2>2 DEF Control
  <2>6. pc = "ours" => cur \in Quarters \ files
    BY <2>2 DEF Control
  <2>7. pc = "legacy" => cur \in Legacy /\ files = {}
    BY <2>2 DEF Control
  <2>8. ASSUME mode = "copy" PROVE ~MayTake(src, p, m)'
    <3>1. cur \notin files
      BY <2>5, <2>6, <2>7
    <3>2. p \notin left' /\ mode' = "copy"
      BY <1>9, <2>1, <2>8 DEF ProcessFolder, config
    <3>3. cur \in Quarters => ~FileLeft(cur, p)'
      BY <2>2, <2>5, <3>1, <3>2, ConstantsOK DEF FileLeft
    <3> QED BY <2>0, <2>1, <2>2, <2>5, <3>2, <3>3 DEF MayTake, Misfiled, HomeLeft
  <2>9. ASSUME m \in wanted(p), has[src][p][m] > 0 PROVE MayTake(src, p, m)
    <3>1. FileLeft(cur, p)
      BY <2>1, <2>5 DEF FileLeft
    <3>2. m \notin Repeats(p)
      BY <2>1
    <3>3. CASE pc = "ours"
      <4>1. Misfiled(cur, p, m)
        BY <2>6, <2>9, <3>3 DEF Misfiled, NeedsMove
      <4> QED BY <2>0, <2>9, <3>1, <3>2, <4>1 DEF MayTake, Misfiled, Repeats
    <3>4. CASE pc = "legacy"
      <4>1. mode = "copy" => cur \notin gone
        <5>1. mode = "copy" /\ cur \in gone => cur # Home /\ ~FoundTwice(cur)
          BY <2>0, <2>9, <3>2 DEF Repeats
        <5> QED BY <2>7, <3>4, <5>1 DEF ListedOnce
      <4> QED BY <2>0, <2>1, <2>7, <3>1, <3>4, <4>1 DEF MayTake
    <3> QED BY <2>5, <3>3, <3>4
  <2>10. PICK how, some : how = mode /\ how \in Modes /\ some = wanted(p)
    BY DEF TypeOK
  <2> HIDE DEF wanted
  <2>11. Result(src, p, some, target, how, n, stay) /\ src \in Stores
    BY <2>0, <2>1, <2>10 DEF Stores
  <2>12. Cardinality(Bag(InReach(m)))' + n[m] <= Cardinality(Bag(InReach(m)))
    BY <1>7, <2>1, <2>4, <2>8, <2>9, <2>10, <2>11, SomeTaken
  <2>13. made'[m] = made[m] + n[m] /\ n[m] \in Nat
    BY <2>1 DEF Result
  <2> QED BY <1>1, <1>2, <1>3, <1>6, <2>2, <2>12, <2>13
<1>10. CASE UserMoves
  BY <1>10 DEF UserMoves
<1>11. ASSUME UNCHANGED <<has, made, before>>
       PROVE  made'[m] + Cardinality(Bag(InReach(m)))' <= before'[m]
  <2>1. Cardinality(Bag(InReach(m)))' <= Cardinality(Bag(InReach(m)))
    BY <1>7, <1>11, NoneTaken
  <2> QED BY <1>1, <1>2, <1>3, <1>6, <1>11, <2>1
<1>12. UNCHANGED <<has, made, before>> \/ ArchiveFolder \/ ProcessFolder \/ UserMoves
  BY DEF Next, vars, env, hist, notes, Walk, SkipMailbox, MailboxDone, Discover, OpenFile, FileFails,
         CloseFile, OursDone, Finish, BreakOff, Cancel, Reload
<1> QED BY <1>8, <1>9, <1>10, <1>11, <1>12

\* In a pass that nobody disturbs every item is placed at most once, although both phases
\* and several listings of one file offer it: what a pass has placed and what it may still
\* take for the first time is never more than there was when it began.  Exempt are only the
\* mails of Repeats: filed by another time in phase 1, or copied from a file that two
\* directories offer or that is the mailbox.
THEOREM EachHandledOnce == Spec => []HandledOnce
<1> DEFINE Inv == TypeOK /\ Control /\ ListedOnce /\ Accounted
<1>1. Init => Inv
  BY TypeInit, ControlInit, ListedOnceInit, AccountedInit
<1>2. Inv /\ [Next]_vars => Inv'
  BY TypeStep, ControlStep, ListedOnceStep, AccountedStep
<1>3. Inv => HandledOnce
  <2> SUFFICES ASSUME Inv, alone, NEW m \in Mails \ again
               PROVE  made[m] <= before[m]
    BY DEF HandledOnce
  <2>1. made[m] + Cardinality(Bag(InReach(m))) <= before[m]
    BY DEF Accounted
  <2>2. Cardinality(Bag(InReach(m))) \in Nat
    BY InReachTypes
  <2>3. made[m] \in Nat /\ before[m] \in Nat
    BY DEF TypeOK
  <2> QED BY <2>1, <2>2, <2>3
<1> QED BY <1>1, <1>2, <1>3, PTL DEF Spec

-----------------------------------------------------------------------------
(* The rules of the mailbox.                                               *)

\* Recent mail and mail in folders the rules leave out stays in the mailbox: phase 1 lists
\* only folders by the rules and looks at the date, and phase 2 takes from files that are
\* not the mailbox, unless the mailbox is itself one of them and at hand.
THEOREM MailboxRulesKept == Spec => MailboxRules
<1> DEFINE Inv == TypeOK /\ Control
           Step == made' # made /\ cur # Home =>
                     \A p \in Paths, m \in Mails :
                       (p \notin ByRule(rules, untyped) \/ m \notin Old)
                         => has'[Home][p][m] >= has[Home][p][m]
<1>1. Init => Inv
  BY TypeInit, ControlInit
<1>2. Inv /\ [Next]_vars => Inv'
  BY TypeStep, ControlStep
<1>3. Inv /\ [Next]_vars => [Step]_vars
  <2> SUFFICES ASSUME TypeOK, Control, Next, made' # made,
                      cur # Home, NEW p \in Paths, NEW m \in Mails,
                      p \notin ByRule(rules, untyped) \/ m \notin Old
               PROVE  has'[Home][p][m] >= has[Home][p][m]
    OBVIOUS
  <2>1. Home \in Stores /\ has[Home][p][m] \in Nat
    BY DEF Stores, TypeOK
  <2>2. CASE Begin
    BY <2>1, <2>2 DEF Begin, env
  <2>3. ASSUME NEW src \in Stores, NEW f \in Paths, NEW wanted, NEW target, NEW how,
               NEW n, NEW stay, Result(src, f, wanted, target, how, n, stay),
               src = Home => f \in ByRule(rules, untyped) /\ wanted = Old
        PROVE  has'[Home][p][m] >= has[Home][p][m]
    <3>1. n[m] \in Nat /\ stay[m] \in Nat
      BY <2>3 DEF Result
    <3>2. n[m] + stay[m] <= IF m \in wanted THEN has[src][f][m] ELSE 0
      BY <2>3 DEF Result
    <3>3. has'[Home][p][m] = has[Home][p][m]
             + (IF p = f /\ Home = target[m] THEN n[m] ELSE 0)
             + (IF p = f /\ Home = src THEN stay[m] ELSE 0)
             - (IF p = f /\ Home = src /\ how = "move" THEN n[m] ELSE 0)
      BY <2>1, <2>3 DEF Result
    <3>4. p = f /\ Home = src => n[m] = 0
      BY <2>3, <3>1, <3>2
    <3> QED BY <2>1, <3>1, <3>3, <3>4
  <2>4. CASE ArchiveFolder
    <3>1. PICK f \in left, n \in [Mails -> Nat], stay \in [Mails -> Nat] :
            f \in Paths /\ Result(Home, f, Old, QuarterOf(fields[f]), mode1, n, stay)
      BY <2>4, ArchiveFolderResult
    <3>2. f \in ByRule(rules, untyped)
      BY <2>4, <3>1 DEF ArchiveFolder, notes, Control
    <3> QED BY <2>1, <2>3, <3>1, <3>2
  <2>5. CASE ProcessFolder
    <3>1. PICK f \in left, n \in [Mails -> Nat], stay \in [Mails -> Nat] :
            /\ f \in Paths /\ cur \in Quarters \cup Legacy
            /\ Result(cur, f, {k \in Mails : NeedsMove(k, f)}, QuarterOf(FieldByName(f)), mode,
                      n, stay)
      BY <2>5, ProcessFolderResult
    <3>2. cur \in Stores
      BY <3>1 DEF Stores
    <3> QED BY <2>3, <3>1, <3>2
  <2> QED BY <2>2, <2>4, <2>5 DEF Next, hist, notes, Walk, SkipMailbox, MailboxDone, Discover, OpenFile,
             FileFails, CloseFile, OursDone, Finish, BreakOff, Cancel, Reload, UserMoves
<1>4. MailboxRules <=> [][Step]_vars
  BY DEF MailboxRules
<1> HIDE DEF Inv, Step
<1> QED BY <1>1, <1>2, <1>3, <1>4, PTL DEF Spec

-----------------------------------------------------------------------------
(* Where the mail is after a clean pass.                                   *)

\* A folder moved without trouble: whatever is found somewhere else than at its target
\* was there before, and was not to be moved.
LEMMA AllMoved ==
  ASSUME TypeOK, NEW src \in Stores, NEW f \in Paths, NEW wanted, NEW target, NEW n, NEW stay,
         Result(src, f, wanted, target, "move", n, stay), clean',
         NEW s \in Stores, NEW q \in Paths, NEW m \in Mails,
         has'[s][q][m] > 0, ~(s = target[m] /\ q = f)
  PROVE  has[s][q][m] > 0 /\ ~(s = src /\ q = f /\ m \in wanted)
<1>1. n[m] \in Nat /\ stay[m] = 0
  BY DEF Result
<1>2. m \in wanted => n[m] = has[src][f][m]
  BY DEF Result
<1>3. has'[s][q][m] = has[s][q][m]
         + (IF q = f /\ s = target[m] THEN n[m] ELSE 0)
         + (IF q = f /\ s = src THEN stay[m] ELSE 0)
         - (IF q = f /\ s = src THEN n[m] ELSE 0)
  BY DEF Result
<1>4. has[s][q][m] \in Nat
  BY DEF TypeOK
<1>5. has'[s][q][m] = has[s][q][m] - (IF q = f /\ s = src THEN n[m] ELSE 0)
  BY <1>1, <1>3, <1>4
<1> QED BY <1>1, <1>2, <1>4, <1>5

\* No pass is under way at the start.
LEMMA ProgressInit == Init => Progress
BY DEF Init, Progress

\* While a pass is clean, mail that is misfiled lies where it has still to go.
LEMMA ProgressStep ==
  TypeOK /\ Control /\ OnDisk /\ FoundAgain /\ Progress /\ [Next]_vars => Progress'
<1> SUFFICES ASSUME TypeOK, Control, OnDisk, FoundAgain, Progress, [Next]_vars,
                    alone', clean', mode' = "move", pc' # "idle",
                    NEW p \in Paths, NEW m \in Mails
             PROVE  /\ (p \in ByRule(cfg.rules, {}) /\ m \in Old /\ has[Home][p][m] > 0
                          => HomeLeft(p))'
                    /\ \A q \in Quarters :
                         (Misfiled(q, p, m) /\ has[q][p][m] > 0 => FileLeft(q, p))'
                    /\ \A f \in Legacy :
                         (Reach(f) /\ has[f][p][m] > 0 => FileLeft(f, p))'
  BY DEF Progress
<1>1. ASSUME alone, clean, mode = "move", pc # "idle"
      PROVE  /\ p \in ByRule(cfg.rules, {}) /\ m \in Old /\ has[Home][p][m] > 0 => HomeLeft(p)
             /\ \A q \in Quarters : Misfiled(q, p, m) /\ has[q][p][m] > 0 => FileLeft(q, p)
             /\ \A f \in Legacy : Reach(f) /\ has[f][p][m] > 0 => FileLeft(f, p)
             /\ mode1 = "move"
  BY <1>1 DEF Progress, Control
<1>2. CASE Begin
  BY <1>2 DEF Begin, HomeLeft, FileLeft
<1>3. CASE Walk
  <2>1. PICK known \in BOOLEAN, unread \in SUBSET Paths, lost \in SUBSET Paths :
          /\ IF known /\ unread = {} /\ lost = {} /\ untyped' = {} THEN NoTrouble ELSE Trouble
          /\ left' = Seen(Walked(rules', untyped'), lost)
    BY <1>3 DEF Walk
  <2>2. lost = {} /\ untyped' = {}
    BY <2>1 DEF Trouble
  <2>3. left' = Walked(rules', {})
    BY <2>1, <2>2 DEF Seen, Walked
  <2>4. rules' = cfg.rules /\ cfg' = cfg /\ pc' = "mailbox"
    BY <1>3 DEF Walk
  <2>5. left' = ByRule(cfg'.rules, {})
    BY <2>3, <2>4, WalkedIsByRule DEF TypeOK
  <2> QED BY <2>4, <2>5 DEF HomeLeft, FileLeft
<1>4. CASE ArchiveFolder
  <2>1. PICK f \in left, n \in [Mails -> Nat], stay \in [Mails -> Nat] :
          /\ f \in Paths /\ left' = left \ {f}
          /\ Result(Home, f, Old, QuarterOf(fields[f]), mode1, n, stay)
    BY <1>4, ArchiveFolderResult
  <2>2. pc = "mailbox" /\ pc' = "mailbox" /\ cfg' = cfg /\ alone /\ mode = "move"
    BY <1>4 DEF ArchiveFolder, notes, config, since
  <2>3. clean
    BY <2>1 DEF Result
  <2>4. PICK target : target = QuarterOf(fields[f])
    OBVIOUS
  <2>5. Result(Home, f, Old, target, "move", n, stay)
    BY <1>1, <2>1, <2>2, <2>3, <2>4
  <2>6. ASSUME p \in ByRule(cfg.rules, {}), m \in Old, has'[Home][p][m] > 0
        PROVE  p \in left'
    <3>1. target[m] # Home /\ Home \in Stores
      BY <2>4, ConstantsOK DEF QuarterOf, Stores
    <3>2. has[Home][p][m] > 0 /\ ~(p = f /\ m \in Old)
      BY <2>1, <2>5, <2>6, <3>1, AllMoved
    <3> QED BY <1>1, <2>1, <2>2, <2>3, <2>6, <3>2 DEF HomeLeft
  <2> QED BY <2>2, <2>6 DEF HomeLeft, FileLeft
<1>5. CASE MailboxDone
  BY <1>1, <1>5 DEF MailboxDone, HomeLeft, FileLeft, env, config, since
<1>6. CASE Discover
  <2>1. PICK mine \in SUBSET onDisk, missed \in [Legacy -> 0 .. 1] :
          /\ files' = mine
          /\ listings' = [f \in Legacy |-> ListedTimes(f) - missed[f]]
          /\ IF mine = onDisk /\ \A f \in Legacy : missed[f] = 0
             THEN NoTrouble ELSE Trouble
    BY <1>6 DEF Discover
  <2>2. clean /\ files' = onDisk /\ \A f \in Legacy : missed[f] = 0
    BY <2>1 DEF Trouble, NoTrouble
  <2>3. pc = "discover" /\ pc' = "ours" /\ has' = has /\ cfg' = cfg /\ alone /\ mode = "move"
        /\ mounted' = mounted
    BY <1>6 DEF Discover, env, config, since
  <2>4. ASSUME NEW q \in Quarters, has[q][p][m] > 0 PROVE FileLeft(q, p)'
    BY <2>2, <2>3, <2>4 DEF OnDisk, FileLeft
  <2>5. ASSUME NEW f \in Legacy, Reach(f)' PROVE FileLeft(f, p)'
    <3>1. Reach(f)
      BY <2>3, <2>5, ReachSame
    <3>2. ListedTimes(f) > 0 /\ ListedTimes(f) \in Nat
      BY <3>1, ListedTimesAre
    <3>3. listings'[f] > 0
      BY <2>1, <2>2, <3>2
    <3> QED BY <2>3, <3>3 DEF FileLeft
  <2> QED BY <1>1, <2>2, <2>3, <2>4, <2>5 DEF HomeLeft
<1>7. CASE OpenFile
  <2>1. PICK g \in Quarters \cup Legacy, lost \in SUBSET Paths :
          /\ Pick(g)
          /\ IF lost = {} THEN NoTrouble ELSE Trouble
          /\ cur' = g
          /\ left' = Seen(Paths, lost)
          /\ mounted' = mounted \cup {g}
    BY <1>7 DEF OpenFile
  <2>2. clean /\ lost = {}
    BY <2>1 DEF Trouble, NoTrouble
  <2>3. left' = Paths
    BY <2>1, <2>2 DEF Seen
  <2>4. pc' = pc /\ pc \in {"ours", "legacy"} /\ has' = has /\ cfg' = cfg /\ alone
        /\ mode = "move" /\ cur = NoFile
    BY <1>7, <2>1 DEF OpenFile, Pick, config, since
  <2>5. ASSUME NEW f \in Legacy, Reach(f)' PROVE Reach(f)
    <3>1. CASE g \in Legacy
      <4>1. Reach(g)
        BY <2>1, <2>4, <3>1, PickCases, ConstantsOK DEF FoundAgain
      <4> QED BY <2>1, <2>4, <2>5, <3>1, <4>1, ReachKept
    <3>2. CASE g \notin Legacy
      BY <2>1, <2>4, <2>5, <3>2, ReachSame
    <3> QED BY <3>1, <3>2
  <2>6. ASSUME NEW s \in Quarters \cup Legacy, FileLeft(s, p) PROVE FileLeft(s, p)'
    <3>1. s # NoFile
      BY ConstantsOK DEF NoFile, Stores
    <3>2. s \in files \/ (s \in Legacy /\ listings[s] > 0)
      BY <2>4, <2>6, <3>1 DEF FileLeft
    <3>3. s = g \/ s \in files' \/ (s \in Legacy /\ listings'[s] > 0)
      BY <2>1, <3>2, PickCases
    <3> QED BY <2>1, <2>3, <2>4, <3>3 DEF FileLeft
  <2> QED BY <1>1, <2>2, <2>4, <2>5, <2>6 DEF HomeLeft, Misfiled
<1>8. CASE ProcessFolder
  <2>1. PICK f \in left, n \in [Mails -> Nat], stay \in [Mails -> Nat] :
          /\ f \in Paths /\ left' = left \ {f} /\ cur \in Quarters \cup Legacy
          /\ Result(cur, f, {k \in Mails : NeedsMove(k, f)}, QuarterOf(FieldByName(f)), mode,
                    n, stay)
    BY <1>8, ProcessFolderResult
  <2>2. pc' = pc /\ files' = files /\ listings' = listings /\ cur' = cur /\ cfg' = cfg /\ alone
        /\ mode = "move" /\ cur # NoFile
    BY <1>8 DEF ProcessFolder, notes, config, since
  <2>3. clean /\ mounted' \cap Legacy = mounted \cap Legacy
    BY <2>1, ConstantsOK DEF Result
  <2>4. PICK target : target = QuarterOf(FieldByName(f))
    OBVIOUS
  <2>5. Result(cur, f, {k \in Mails : NeedsMove(k, f)}, target, "move", n, stay)
    BY <2>1, <2>2, <2>4
  <2>6. pc \in {"ours", "legacy"} /\ (pc = "ours" => cur \in Quarters)
        /\ (pc = "legacy" => cur \in Legacy) /\ cur \in Stores
    BY <2>1, <2>2 DEF Control, Stores
  <2>7. ASSUME NEW s \in Stores, has'[s][p][m] > 0, ~(s = target[m] /\ p = f)
        PROVE  has[s][p][m] > 0 /\ ~(s = cur /\ p = f /\ NeedsMove(m, f))
    BY <2>1, <2>3, <2>5, <2>6, <2>7, AllMoved
  <2>8. target[m] \in Quarters /\ target[m] = QuarterOf(FieldByName(f))[m]
    BY <2>4, ConstantsOK DEF QuarterOf
  <2>9. ASSUME p \in ByRule(cfg.rules, {}), m \in Old, has'[Home][p][m] > 0
        PROVE  FALSE
    <3>1. Home \in Stores /\ Home # target[m]
      BY <2>8, ConstantsOK DEF Stores
    <3>2. has[Home][p][m] > 0
      BY <2>7, <2>9, <3>1
    <3> QED BY <1>1, <2>2, <2>3, <2>6, <2>9, <3>2 DEF HomeLeft
  <2>10. ASSUME NEW s \in Quarters \cup Legacy, FileLeft(s, p), ~(s = cur /\ p = f)
         PROVE  FileLeft(s, p)'
    BY <2>1, <2>2, <2>6, <2>10 DEF FileLeft
  <2>11. ASSUME NEW q \in Quarters, Misfiled(q, p, m), has'[q][p][m] > 0
         PROVE  FileLeft(q, p)'
    <3>1. ~(q = target[m] /\ p = f) /\ q \in Stores
      BY <2>8, <2>11 DEF Misfiled, Stores
    <3>2. has[q][p][m] > 0 /\ ~(q = cur /\ p = f /\ NeedsMove(m, f))
      BY <2>7, <2>11, <3>1
    <3>3. ~(q = cur /\ p = f)
      BY <2>11, <3>2 DEF Misfiled, NeedsMove
    <3> QED BY <1>1, <2>2, <2>3, <2>6, <2>10, <2>11, <3>2, <3>3
  <2>12. ASSUME NEW g \in Legacy, Reach(g)', has'[g][p][m] > 0
         PROVE  FileLeft(g, p)'
    <3>1. g # target[m] /\ g \in Stores
      BY <2>8, ConstantsOK DEF Stores
    <3>2. has[g][p][m] > 0 /\ ~(g = cur /\ p = f /\ NeedsMove(m, f))
      BY <2>7, <2>12, <3>1
    <3>3. ~(g = cur /\ p = f)
      BY <2>6, <3>2, ConstantsOK DEF NeedsMove
    <3>4. Reach(g)
      BY <2>2, <2>3, <2>12, ReachSame
    <3> QED BY <1>1, <2>2, <2>3, <2>6, <2>10, <3>2, <3>3, <3>4
  <2> QED BY <2>2, <2>9, <2>11, <2>12 DEF Misfiled
<1>9. CASE CloseFile
  <2>1. UNCHANGED <<has, onDisk, mounted, cfg, mode, pc, clean, alone, files, listings>>
        /\ left = {} /\ left' = {}
    BY <1>9 DEF CloseFile, env, config, since
  <2>2. \A f \in Legacy : Reach(f)' => Reach(f)
    BY <2>1, ReachSame
  <2> QED BY <1>1, <2>1, <2>2 DEF HomeLeft, FileLeft, Misfiled
<1>10. CASE OursDone \/ UNCHANGED vars
  <2>1. UNCHANGED <<has, onDisk, mounted, cfg, mode, clean, alone, files, listings, cur, left>>
    BY <1>10 DEF OursDone, vars, env, config, lists, since
  <2>2. \A f \in Legacy : Reach(f)' => Reach(f)
    BY <2>1, ReachSame
  <2>3. \/ pc = "ours" /\ pc' = "legacy"
        \/ pc' = pc
    BY <1>10 DEF OursDone, vars
  <2> QED BY <1>1, <2>1, <2>2, <2>3 DEF HomeLeft, FileLeft, Misfiled
<1> QED BY <1>2, <1>3, <1>4, <1>5, <1>6, <1>7, <1>8, <1>9, <1>10 DEF Next, SkipMailbox, FileFails,
           Finish, BreakOff, Cancel, Reload, UserMoves, Trouble

\* At the start no pass has settled anything.
LEMMA FiledInit == Init => Filed
BY DEF Init, Filed

\* Nothing to move is nothing moved.
LEMMA NothingWanted ==
  ASSUME TypeOK, NEW src \in Stores, NEW f \in Paths, NEW wanted, NEW target, NEW how,
         NEW n, NEW stay, Result(src, f, wanted, target, how, n, stay),
         \A m \in Mails : m \in wanted => has[src][f][m] = 0
  PROVE  has' = has
<1>1. ASSUME NEW s \in Stores, NEW q \in Paths, NEW m \in Mails
      PROVE  has'[s][q][m] = has[s][q][m]
  <2>1. n[m] \in Nat /\ stay[m] \in Nat
    BY DEF Result
  <2>2. n[m] + stay[m] <= IF m \in wanted THEN has[src][f][m] ELSE 0
    BY DEF Result
  <2>3. n[m] = 0 /\ stay[m] = 0
    BY <2>1, <2>2
  <2>4. has'[s][q][m] = has[s][q][m]
           + (IF q = f /\ s = target[m] THEN n[m] ELSE 0)
           + (IF q = f /\ s = src THEN stay[m] ELSE 0)
           - (IF q = f /\ s = src /\ how = "move" THEN n[m] ELSE 0)
    BY DEF Result
  <2>5. has[s][q][m] \in Nat
    BY DEF TypeOK
  <2> QED BY <2>3, <2>4, <2>5
<1>2. has' \in [Stores -> [Paths -> [Mails -> Nat]]]
  BY DEF Result
<1>3. has \in [Stores -> [Paths -> [Mails -> Nat]]]
  BY DEF TypeOK
<1>4. ASSUME NEW s \in Stores PROVE has'[s] = has[s]
  <2>1. has'[s] \in [Paths -> [Mails -> Nat]] /\ has[s] \in [Paths -> [Mails -> Nat]]
    BY <1>2, <1>3
  <2>2. ASSUME NEW q \in Paths PROVE has'[s][q] = has[s][q]
    <3>1. has'[s][q] \in [Mails -> Nat] /\ has[s][q] \in [Mails -> Nat]
      BY <2>1
    <3> QED BY <1>1, <3>1
  <2> QED BY <2>1, <2>2
<1> QED BY <1>2, <1>3, <1>4

\* Once everything is filed, no folder that a pass processes holds mail it would move.
LEMMA Quiet ==
  TypeOK /\ Control /\ FoundAgain /\ Filed /\ settled /\ settled' /\ [Next]_vars => has' = has
<1> SUFFICES ASSUME TypeOK, Control, FoundAgain, Filed, settled, settled', [Next]_vars
             PROVE  has' = has
  OBVIOUS
<1>1. CASE ArchiveFolder
  <2>1. PICK f \in left, n \in [Mails -> Nat], stay \in [Mails -> Nat] :
          f \in Paths /\ Result(Home, f, Old, QuarterOf(fields[f]), mode1, n, stay)
    BY <1>1, ArchiveFolderResult
  <2>2. f \in ByRule(cfg.rules, {})
    BY <1>1, <2>1 DEF ArchiveFolder, notes, Control
  <2>3. \A m \in Mails : m \in Old => has[Home][f][m] = 0
    BY <2>1, <2>2 DEF Filed
  <2>4. Home \in Stores
    BY DEF Stores
  <2> QED BY <2>1, <2>3, <2>4, NothingWanted
<1>2. CASE ProcessFolder
  <2>1. PICK f \in left, n \in [Mails -> Nat], stay \in [Mails -> Nat] :
          /\ f \in Paths /\ cur \in Quarters \cup Legacy
          /\ Result(cur, f, {k \in Mails : NeedsMove(k, f)}, QuarterOf(FieldByName(f)), mode,
                    n, stay)
    BY <1>2, ProcessFolderResult
  <2>2. pc \in {"ours", "legacy"} /\ (pc = "ours" => cur \in Quarters)
        /\ (pc = "legacy" => cur \in Legacy) /\ cur \in Stores
    BY <1>2, <2>1 DEF ProcessFolder, notes, Control, Stores
  <2>3. ASSUME NEW m \in Mails, NeedsMove(m, f) PROVE has[cur][f][m] = 0
    <3>1. CASE pc = "ours"
      BY <2>1, <2>2, <2>3, <3>1 DEF Filed, Misfiled, NeedsMove
    <3>2. CASE pc = "legacy"
      <4>1. Reach(cur)
        BY <2>2, <3>2 DEF FoundAgain
      <4> QED BY <2>1, <2>2, <3>2, <4>1 DEF Filed
    <3> QED BY <2>2, <3>1, <3>2
  <2>4. \A m \in Mails : m \in {k \in Mails : NeedsMove(k, f)} => has[cur][f][m] = 0
    BY <2>3
  <2> QED BY <2>1, <2>2, <2>4, NothingWanted
<1>3. CASE UserMoves
  BY <1>3 DEF UserMoves
<1> QED BY <1>1, <1>2, <1>3 DEF Next, vars, env, Begin, Walk, SkipMailbox, MailboxDone, Discover,
           OpenFile, FileFails, CloseFile, OursDone, Finish, BreakOff, Cancel, Reload

\* A clean pass has everything filed when it finishes, and it stays so.
LEMMA FiledStep ==
  TypeOK /\ Control /\ FoundAgain /\ Progress /\ Filed /\ [Next]_vars => Filed'
<1> SUFFICES ASSUME TypeOK, Control, FoundAgain, Progress, Filed, [Next]_vars, settled',
                    NEW p \in Paths, NEW m \in Mails
             PROVE  /\ (p \in ByRule(cfg.rules, {}) /\ m \in Old => has[Home][p][m] = 0)'
                    /\ \A q \in Quarters : (Misfiled(q, p, m) => has[q][p][m] = 0)'
                    /\ \A f \in Legacy : (Reach(f) => has[f][p][m] = 0)'
  BY DEF Filed
<1>1. CASE settled
  <2>1. has' = has
    BY <1>1, Quiet
  <2>2. cfg' = cfg
    BY DEF Next, vars, config, Begin, Walk, SkipMailbox, ArchiveFolder, MailboxDone,
           Discover, OpenFile, FileFails, ProcessFolder, CloseFile, OursDone, Finish, BreakOff,
           Cancel, Reload, UserMoves
  <2>3. \A f \in Legacy : Reach(f)' => Reach(f)
    <3>1. CASE OpenFile
      <4>1. PICK g \in Quarters \cup Legacy : Pick(g) /\ mounted' = mounted \cup {g}
        BY <3>1 DEF OpenFile
      <4>2. CASE g \in Legacy
        <5>1. Reach(g)
          BY <1>1, <4>1, <4>2, PickCases, ConstantsOK DEF FoundAgain
        <5> QED BY <2>2, <4>1, <4>2, <5>1, ReachKept
      <4>3. CASE g \notin Legacy
        BY <2>2, <4>1, <4>3, ReachSame
      <4> QED BY <4>2, <4>3
    <3>2. CASE ArchiveFolder
      <4>1. mounted' \cap Legacy = mounted \cap Legacy
        BY <3>2, ArchiveFolderResult, ConstantsOK DEF Result
      <4> QED BY <2>2, <4>1, ReachSame
    <3>3. CASE ProcessFolder
      <4>1. mounted' \cap Legacy = mounted \cap Legacy
        BY <3>3, ProcessFolderResult, ConstantsOK DEF Result
      <4> QED BY <2>2, <4>1, ReachSame
    <3>4. ASSUME mounted' = mounted PROVE \A f \in Legacy : Reach(f)' => Reach(f)
      BY <2>2, <3>4, ReachSame
    <3> QED BY <3>1, <3>2, <3>3, <3>4 DEF Next, vars, env, Begin, Walk, SkipMailbox, MailboxDone,
               Discover, FileFails, CloseFile, OursDone, Finish, BreakOff, Cancel, Reload,
               UserMoves
  <2> QED BY <1>1, <2>1, <2>2, <2>3 DEF Filed, Misfiled
<1>2. CASE ~settled
  <2>1. Finish
    BY <1>2 DEF Next, vars, since, Begin, Walk, SkipMailbox, ArchiveFolder, MailboxDone, Discover,
           OpenFile, FileFails, ProcessFolder, CloseFile, OursDone, BreakOff, Cancel, Reload,
           UserMoves
  <2>2. /\ pc = "legacy" /\ cur = NoFile /\ \A f \in Legacy : listings[f] = 0
        /\ clean /\ alone /\ mode = "move"
    BY <1>2, <2>1 DEF Finish
  <2>3. has' = has /\ cfg' = cfg /\ mounted' = mounted
    BY <2>1 DEF Finish, env, config
  <2>4. ~HomeLeft(p) /\ \A s \in Quarters \cup Legacy : ~FileLeft(s, p)
    <3>1. files = {} /\ NoFile \notin Quarters \cup Legacy
      BY <2>2, ConstantsOK DEF Control, NoFile, Stores
    <3>2. \A s \in Legacy : ~(listings[s] > 0)
      BY <2>2
    <3> QED BY <2>2, <3>1, <3>2 DEF HomeLeft, FileLeft
  <2>5. ASSUME NEW s \in Stores PROVE has[s][p][m] > 0 \/ has[s][p][m] = 0
    BY DEF TypeOK
  <2>6. Home \in Stores /\ Quarters \subseteq Stores /\ Legacy \subseteq Stores
    BY DEF Stores
  <2>7. \A f \in Legacy : Reach(f)' => Reach(f)
    BY <2>3, ReachSame
  <2>8. /\ p \in ByRule(cfg.rules, {}) /\ m \in Old => has[Home][p][m] = 0
        /\ \A q \in Quarters : Misfiled(q, p, m) => has[q][p][m] = 0
        /\ \A f \in Legacy : Reach(f) => has[f][p][m] = 0
    BY <2>2, <2>4, <2>5, <2>6 DEF Progress
  <2> QED BY <2>3, <2>7, <2>8 DEF Misfiled
<1> QED BY <1>1, <1>2

\* What a clean pass that moves mail achieves, and what keeps it.
FilingInv == TypeOK /\ Control /\ OnDisk /\ FoundAgain /\ Progress /\ Filed

LEMMA FilingInvariant ==
  /\ Init => FilingInv
  /\ FilingInv /\ [Next]_vars => FilingInv'
BY TypeInit, ControlInit, OnDiskInit, FoundAgainInit, ProgressInit, FiledInit,
   TypeStep, ControlStep, OnDiskStep, FoundAgainStep, ProgressStep, FiledStep DEF FilingInv

\* A clean pass that moves mail leaves every item where the guide says, also the items
\* that phase 1 filed by another time than phase 2 goes by, and those in files that were
\* found through a mounted file's directory; and it stays so until a user or a
\* configuration interferes.
THEOREM EverythingFiled == Spec => []AllFiled
<1>1. FilingInv => AllFiled
  <2> SUFFICES ASSUME FilingInv, settled, NEW p \in Paths, NEW m \in Mails
               PROVE  /\ \A q \in Quarters :
                           has[q][p][m] > 0 => QuarterOf(FieldByName(p))[m] = q
                      /\ \A f \in Legacy : Reached(f) => has[f][p][m] = 0
                      /\ p \in ByRule(cfg.rules, {}) /\ m \in Old => has[Home][p][m] = 0
    BY DEF AllFiled
  <2>1. \A f \in Legacy : Reached(f) => Reach(f)
    BY DEF FilingInv, FoundAgain
  <2>2. \A q \in Quarters : Misfiled(q, p, m) => ~(has[q][p][m] > 0)
    BY DEF FilingInv, Filed
  <2> QED BY <2>1, <2>2 DEF FilingInv, Filed, Misfiled
<1> QED BY <1>1, FilingInvariant, PTL DEF Spec

\* A later pass, in any mode and with any failure, moves nothing: neither phase undoes
\* what the other one did, and the files it opens make it find no others.
THEOREM SecondPassIsQuiet == Spec => SecondPassQuiet
<1> DEFINE Step == settled /\ settled' => has' = has
<1>1. FilingInv /\ [Next]_vars => [Step]_vars
  BY Quiet DEF FilingInv
<1>2. SecondPassQuiet <=> [][Step]_vars
  BY DEF SecondPassQuiet
<1> HIDE DEF Step
<1> QED BY <1>1, <1>2, FilingInvariant, PTL DEF Spec
=============================================================================
