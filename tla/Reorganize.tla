----------------------------- MODULE Reorganize -----------------------------
(***************************************************************************)
(* internal/archiver/reorganizer.go: a reorganization archives the whole   *)
(* mailbox, then goes through the PST files it discovers: mail in a        *)
(* quarter's file that belongs to another quarter is rectified, mail in    *)
(* other files is migrated.  One folder is one step here, with any part    *)
(* of its mails failing; Archive has the loop over its blocks.             *)
(***************************************************************************)
EXTENDS FolderWalk, FiniteSets

CONSTANTS Mails, Quarters,
          Sent, Received,  \* the quarter of a mail by either of its times
          Old,             \* mails past the cutoff of retain_days
          Home,            \* the mailbox; may itself be one of Legacy
          Legacy,          \* PST files that are not named like a quarter's
          Dir, Root,       \* the directory of each of them, and pst_root_path
          Configs,         \* configurations: rules, scan (directory texts), withMounted
          Starts,          \* where the mails are at the start: a set of [Mails -> Places]
          MaxPasses, MaxTroubles  \* bounds

\* A quarter's file is named by the quarter, and lies in Root.
Stores == {Home} \cup Quarters \cup Legacy
Places == [store : Stores, path : Paths]

\* One directory may be written in several ways: as filepath.Dir writes it (0), or with a
\* separator at its end, a short name, or as a repeated entry.
Texts == [dir : Seq(Names), as : Nat]

ASSUME ConstantsOK ==
    /\ IsFiniteSet(Quarters) /\ IsFiniteSet(Legacy) /\ IsFiniteSet(Paths)
    /\ Home \notin Quarters /\ Quarters \cap Legacy = {} /\ "none" \notin Stores
    /\ Sent \in [Mails -> Quarters] /\ Received \in [Mails -> Quarters]
    /\ Old \subseteq Mails
    /\ Starts \subseteq [Mails -> Places]
    /\ Dir \in [Legacy -> Seq(Names)] /\ Root \in Seq(Names)
    /\ \A c \in Configs : /\ c.rules.list \in BOOLEAN /\ c.withMounted \in BOOLEAN
                          /\ c.rules.include \cup c.rules.exclude \subseteq Seq(Names)
                          /\ c.scan \subseteq Texts /\ IsFiniteSet(c.scan)
    /\ MaxPasses \in Nat /\ MaxTroubles \in Nat

VARIABLES has,     \* how many items of a mail a folder of a store holds
          onDisk,  \* the quarters' files that exist
          mounted, \* the PST files that Outlook has open
          cfg, mode,       \* the configuration in force; mode: copy_only and dry_run
          mode1, rules,    \* what phase 1 works with
          cancelled, troubles,
          pc, fields,      \* by which time each folder of the mailbox is filed
          files, listings, \* ourPSTs and legacyPSTs still to process
          cur, left,       \* the file at hand, its folders still to process
          passes,
          made, before,    \* history of the pass: items placed of each mail, items at first
          dirs,            \* history of the pass: the directory texts scanned
          untyped,         \* history of the pass: folders of a kind that could not be read
          gone,            \* history of the pass: the stores gone through
          again,           \* history of the pass: mails that may be handled again, see Repeats
          clean, alone,    \* history of the pass: nothing failed; nobody interfered
          settled          \* history: after a clean pass that moved, without interference

env     == <<has, onDisk, mounted>>
config  == <<cfg, mode, mode1, rules>>
control == <<cancelled, troubles>>
lists   == <<files, listings, cur, left>>
notes   == <<before, dirs, untyped, gone, again>>
hist    == <<made, notes>>
since   == <<alone, settled>>
vars    == <<env, config, control, pc, fields, lists, passes, hist, clean, since>>

Modes  == {"move", "copy", "dry"}
NoFile == "none"
None   == [m \in Mails |-> 0]

TypeOK ==
    /\ has \in [Stores -> [Paths -> [Mails -> Nat]]]
    /\ onDisk \subseteq Quarters /\ mounted \subseteq Legacy \cup Quarters
    /\ cfg \in Configs /\ {mode, mode1} \subseteq Modes /\ rules \in {c.rules : c \in Configs}
    /\ cancelled \in BOOLEAN /\ {clean, alone, settled} \subseteq BOOLEAN
    /\ troubles \in 0 .. MaxTroubles /\ passes \in 0 .. MaxPasses
    /\ pc \in {"idle", "walk", "mailbox", "discover", "ours", "legacy"}
    /\ fields \in [Paths -> Fields]
    /\ files \subseteq Quarters /\ listings \in [Legacy -> Nat]
    /\ cur \in Quarters \cup Legacy \cup {NoFile}
    /\ left \subseteq Paths
    /\ made \in [Mails -> Nat] /\ before \in [Mails -> Nat]
    /\ dirs \subseteq Texts /\ untyped \subseteq NotMail
    /\ gone \subseteq Stores /\ again \subseteq Mails

Init ==
    /\ \E at \in Starts :
         /\ has = [s \in Stores |-> [p \in Paths |-> [m \in Mails |->
                     IF at[m] = [store |-> s, path |-> p] THEN 1 ELSE 0]]]
         /\ onDisk = {at[m].store : m \in Mails} \cap Quarters
    /\ mounted \in SUBSET Legacy /\ (Home \in Legacy => Home \in mounted)
    /\ cfg \in Configs /\ mode \in Modes /\ mode1 = "dry" /\ rules = cfg.rules
    /\ cancelled = FALSE /\ troubles = 0
    /\ pc = "idle" /\ passes = 0
    /\ fields = [p \in Paths |-> FieldByName(p)]
    /\ files = {} /\ listings = [f \in Legacy |-> 0]
    /\ cur = NoFile /\ left = {}
    /\ made = None /\ before = None
    /\ dirs = {} /\ untyped = {} /\ gone = {} /\ again = {}
    /\ clean = TRUE /\ alone = TRUE /\ settled = FALSE

\* A call fails.
Trouble   == troubles < MaxTroubles /\ troubles' = troubles + 1 /\ clean' = FALSE
NoTrouble == UNCHANGED <<troubles, clean>>

\* How many items of a mail there are: each is named by its place and a number.
Items(m) == Cardinality(UNION {{pl} \X (1 .. has[pl.store][pl.path][m]) : pl \in Places})

-----------------------------------------------------------------------------
(* One folder: processFolder and processPSTFolder.                         *)

\* The quarter of each mail by its time.
QuarterOf(field) == IF field = "SentOn" THEN Sent ELSE Received

\* Mutant: the target folder is the topmost one on the path.
TopFolder(p) == SubSeq(p, 1, 1)

\* EnsurePSTFolder splits the joined path and descends by all of its names, creating
\* what is not there; no name holds a separator, so it ends where the source's path does.
TargetFolder(p) == p

\* The n[m] items of each mail go to its target; a copy that could not be moved
\* on stays beside its item, stay[m] of them.
Placed(src, p, target, n, stay, how) ==
    [s \in Stores |-> [q \in Paths |-> [m \in Mails |->
        has[s][q][m]
          + (IF q = TargetFolder(p) /\ s = target[m] THEN n[m] ELSE 0)
          + (IF q = p /\ s = src THEN stay[m] ELSE 0)
          - (IF q = p /\ s = src /\ how = "move" THEN n[m] ELSE 0)]]]

Targets(target, n) == {target[m] : m \in {x \in Mails : n[x] > 0}}

\* Some of the items of each mail.
SomeOf(all) == {n \in [Mails -> UNION {0 .. all[m] : m \in Mails}] :
                  \A m \in Mails : n[m] <= all[m]}

\* Some of the wanted mails succeed; a move or copy that fails is only counted,
\* and leaves the target's file open.
Process(src, p, wanted, target, how) ==
    LET all == [m \in Mails |-> IF m \in wanted THEN has[src][p][m] ELSE 0] IN
    IF how = "dry" THEN NoTrouble /\ UNCHANGED <<has, onDisk, mounted, made>>
    ELSE \E n \in SomeOf(all), stay \in [Mails -> 0 .. 1] :
           /\ \A m \in Mails : n[m] + stay[m] <= all[m]
           /\ how = "move" => stay = None
           /\ IF n = all THEN NoTrouble ELSE Trouble
           /\ has' = Placed(src, p, target, n, stay, how)
           /\ made' = [m \in Mails |-> made[m] + n[m]]
           /\ \E opened \in SUBSET Targets(target, all) :
                /\ Targets(target, n) \cup Targets(target, stay) \subseteq opened
                /\ onDisk' = onDisk \cup opened
                /\ mounted' = mounted \cup opened

-----------------------------------------------------------------------------
(* Phase 1: Archive without a batch limit.                                 *)

Begin == /\ pc = "idle"
         /\ ~cancelled
         /\ passes < MaxPasses
         /\ passes' = passes + 1
         /\ pc' = "walk"
         /\ mode1' = mode
         /\ made' = None
         /\ before' = [m \in Mails |-> Items(m)]
         /\ fields' = [p \in Paths |-> FieldByName(p)]
         /\ dirs' = {} /\ untyped' = {} /\ gone' = {} /\ again' = {}
         /\ clean' = TRUE /\ alone' = TRUE
         /\ UNCHANGED <<env, cfg, mode, rules, control, lists, settled>>

Walk == /\ pc = "walk"
        /\ rules' = cfg.rules
        /\ untyped' \in SUBSET NotMail
        /\ \E known \in BOOLEAN, unread, lost \in SUBSET Paths :
             /\ IF known /\ unread = {} /\ lost = {} /\ untyped' = {} THEN NoTrouble ELSE Trouble
             /\ fields' = TimeFields(known, unread)
             /\ left' = Seen(Walked(rules', untyped'), lost)
        /\ gone' = {Home}
        /\ settled' = (settled /\ untyped' = {})
        /\ pc' = "mailbox"
        /\ UNCHANGED <<env, cfg, mode, mode1, cancelled, files, listings, cur, passes,
                       made, before, dirs, again, alone>>

\* Outlook is not running: Archive returns an empty result, and phase 2 goes on.
SkipMailbox == /\ pc = "walk"
               /\ Trouble
               /\ pc' = "discover"
               /\ UNCHANGED <<env, config, cancelled, fields, lists, passes, hist, since>>

\* Mutant: no check of the date.
AnyAge(m) == TRUE

Due(m) == m \in Old

ArchiveFolder ==
    /\ pc = "mailbox"
    /\ ~cancelled
    /\ \E p \in left :
         /\ left' = left \ {p}
         /\ Process(Home, p, {m \in Mails : Due(m)}, QuarterOf(fields[p]), mode1)
    /\ UNCHANGED <<config, cancelled, pc, fields, files, listings, cur, passes, notes, since>>

MailboxDone == /\ pc = "mailbox"
               /\ left = {}
               /\ pc' = "discover"
               /\ UNCHANGED <<env, config, control, fields, lists, passes, hist, clean, since>>

-----------------------------------------------------------------------------
(* discoverPSTs and DiscoverLegacyPSTs.                                    *)

\* The directories of mounted files, unless they are configured in the same words.
Extra == IF cfg.withMounted
         THEN {[dir |-> Dir[f], as |-> 0] : f \in {g \in mounted \cap Legacy : Dir[g] # Root}}
                \ cfg.scan
         ELSE {}

Scanned == {d \in cfg.scan : d.dir # Root} \cup Extra

\* Mutant: the directory of a mounted file is scanned although it is configured.
ListedByEach(f) == Cardinality({d \in cfg.scan : d.dir # Root /\ IsPrefix(d.dir, Dir[f])})
                     + (IF cfg.withMounted /\ f \in mounted THEN 1 ELSE 0)
                     + (IF Dir[f] = Root THEN 1 ELSE 0)

\* How often a file appears in legacyPSTs: Root is read without its subdirectories,
\* every scanned directory with them, and as often as it is written differently.
ListedTimes(f) == Cardinality({d \in Scanned : IsPrefix(d.dir, Dir[f])})
                    + (IF Dir[f] = Root THEN 1 ELSE 0)

\* Directories that cannot be read hide their files.
Discover == /\ pc = "discover"
            /\ \E mine \in SUBSET onDisk, missed \in [Legacy -> 0 .. 1] :
                 /\ \A f \in Legacy : missed[f] <= ListedTimes(f)
                 /\ files' = mine
                 /\ listings' = [f \in Legacy |-> ListedTimes(f) - missed[f]]
                 /\ IF mine = onDisk /\ \A f \in Legacy : missed[f] = 0
                    THEN NoTrouble ELSE Trouble
            /\ dirs' = Scanned
            /\ pc' = "ours"
            /\ UNCHANGED <<env, config, cancelled, fields, cur, left, passes, made, before,
                           untyped, gone, again, since>>

-----------------------------------------------------------------------------
(* Phase 2: processPST, for the quarters' files and then for the others.   *)

\* Mutant: a file is taken that was not found.
PickAny(f) == \/ /\ pc = "ours" /\ f \in files
                 /\ files' = files \ {f}
                 /\ UNCHANGED listings
              \/ /\ pc = "legacy" /\ f \in Legacy
                 /\ listings' = [listings EXCEPT ![f] = @ - 1]
                 /\ UNCHANGED files

Pick(f) == \/ /\ pc = "ours" /\ f \in files
              /\ files' = files \ {f}
              /\ UNCHANGED listings
           \/ /\ pc = "legacy" /\ f \in Legacy /\ listings[f] > 0
              /\ listings' = [listings EXCEPT ![f] = @ - 1]
              /\ UNCHANGED files

OpenFile == /\ cur = NoFile
            /\ ~cancelled
            /\ \E f \in Quarters \cup Legacy, lost \in SUBSET Paths :
                 /\ Pick(f)
                 /\ IF lost = {} THEN NoTrouble ELSE Trouble
                 /\ cur' = f
                 /\ left' = Seen(Paths, lost)
                 /\ mounted' = mounted \cup {f}
            /\ UNCHANGED <<has, onDisk, config, cancelled, pc, fields, passes, hist, since>>

\* The file cannot be mounted or walked.
FileFails == /\ cur = NoFile
             /\ ~cancelled
             /\ \E f \in Quarters \cup Legacy : Pick(f)
             /\ Trouble
             /\ UNCHANGED <<env, config, cancelled, pc, fields, cur, left, passes, hist, since>>

\* Mutant: every folder of a quarter's file is judged by the time of receipt.
NeedsMoveByReceipt(m, p) == pc = "legacy" \/ cur # Received[m]

\* forceMigrate, or a mail in the file of another quarter.
NeedsMove(m, p) == pc = "legacy" \/ cur # QuarterOf(FieldByName(p))[m]

\* Directories offered the file more than once.
FoundTwice(f) == \E d \in dirs : /\ IsPrefix(d.dir, Dir[f])
                                 /\ Dir[f] = Root \/ \E e \in dirs \ {d} : IsPrefix(e.dir, Dir[f])

\* The mails of a folder that the pass may be handling again: those that lie where phase 1
\* filed them by a time that is not this phase's, and those copied before, because two
\* directories offered their file or because the file is the mailbox.
Repeats(p) ==
    {m \in Mails :
       /\ has[cur][p][m] > 0
       /\ \/ cur = QuarterOf(fields[p])[m] /\ cur # QuarterOf(FieldByName(p))[m]
          \/ mode = "copy" /\ cur \in gone /\ (cur = Home \/ FoundTwice(cur))}

ProcessFolder ==
    /\ cur # NoFile
    /\ ~cancelled
    /\ \E p \in left :
         /\ left' = left \ {p}
         /\ Process(cur, p, {m \in Mails : NeedsMove(m, p)}, QuarterOf(FieldByName(p)), mode)
         /\ again' = again \cup Repeats(p)
    /\ UNCHANGED <<config, cancelled, pc, fields, files, listings, cur, passes,
                   before, dirs, untyped, gone, since>>

CloseFile == /\ cur # NoFile
             /\ left = {}
             /\ cur' = NoFile
             /\ gone' = gone \cup {cur}
             /\ UNCHANGED <<env, config, control, pc, fields, files, listings, left, passes,
                            made, before, dirs, untyped, again, clean, since>>

OursDone == /\ pc = "ours" /\ cur = NoFile /\ files = {}
            /\ pc' = "legacy"
            /\ UNCHANGED <<env, config, control, fields, lists, passes, hist, clean, since>>

Finish == /\ pc = "legacy" /\ cur = NoFile /\ \A f \in Legacy : listings[f] = 0
          /\ pc' = "idle"
          /\ settled' = (settled \/ (clean /\ alone /\ mode = "move" /\ mode1 = "move"))
          /\ UNCHANGED <<env, config, control, fields, lists, passes, hist, clean, alone>>

\* ctx.Err() at the head of a loop, or a walk of the mailbox that fails: the pass ends.
BreakOff == /\ pc # "idle"
            /\ \/ cancelled /\ NoTrouble
               \/ pc = "walk" /\ Trouble
            /\ pc' = "idle"
            /\ files' = {} /\ listings' = [f \in Legacy |-> 0]
            /\ cur' = NoFile /\ left' = {}
            /\ UNCHANGED <<env, config, cancelled, fields, passes, hist, since>>

-----------------------------------------------------------------------------
(* What goes on beside it.                                                 *)

Cancel == /\ ~cancelled
          /\ cancelled' = TRUE
          /\ clean' = FALSE
          /\ UNCHANGED <<env, config, troubles, pc, fields, lists, passes, hist, since>>

\* A reload that had passed its idle check stores another configuration, with other
\* modes or with other folders and directories.
Reload == /\ troubles < MaxTroubles /\ troubles' = troubles + 1
          /\ \/ mode' \in Modes \ {mode} /\ UNCHANGED <<cfg, settled>>
             \/ cfg' \in Configs \ {cfg} /\ settled' = FALSE /\ UNCHANGED mode
          /\ alone' = FALSE
          /\ UNCHANGED <<env, mode1, rules, cancelled, pc, fields, lists, passes, hist, clean>>

\* The user, or another program, moves an item between stores.
UserMoves == /\ troubles < MaxTroubles /\ troubles' = troubles + 1
             /\ alone' = FALSE /\ settled' = FALSE
             /\ \E m \in Mails, s, t \in Stores, p, q \in Paths :
                  /\ <<s, p>> # <<t, q>>
                  /\ has[s][p][m] > 0
                  /\ t \in Quarters => t \in onDisk
                  /\ has' = [has EXCEPT ![s][p][m] = @ - 1, ![t][q][m] = @ + 1]
             /\ UNCHANGED <<onDisk, mounted, config, cancelled, pc, fields, lists, passes,
                            hist, clean>>

Next == \/ Begin \/ Walk \/ SkipMailbox \/ ArchiveFolder \/ MailboxDone
        \/ Discover \/ OpenFile \/ FileFails \/ ProcessFolder \/ CloseFile
        \/ OursDone \/ Finish \/ BreakOff
        \/ Cancel \/ Reload \/ UserMoves

Spec == Init /\ [][Next]_vars

-----------------------------------------------------------------------------
(* Properties.                                                             *)

\* No item is handled twice in a pass that nobody disturbs, neither by both phases, nor
\* in two files, nor because a file was found twice: of a mail a pass places no more items
\* than there were when it began.  The code has three exceptions, the mails of Repeats:
\* phase 1 files a folder by the folder's id and phase 2 by its name, so a folder of sent
\* mail with an unknown name is filed twice; copying goes through a file once for each
\* directory that offers it; and a mailbox that is itself one of those files is copied
\* by both phases.
HandledOnce == alone => \A m \in Mails \ again : made[m] <= before[m]

Reached(f) == Dir[f] = Root \/ \E d \in dirs : IsPrefix(d.dir, Dir[f])

\* After a clean pass that moved mail every item is where the guide says: in the file
\* of its quarter, out of the other files that were found, and, if it is old and in a
\* folder the rules name, out of the mailbox.
AllFiled ==
    settled /\ pc = "idle" =>
      \A p \in Paths, m \in Mails :
        /\ \A q \in Quarters : has[q][p][m] > 0 => QuarterOf(FieldByName(p))[m] = q
        /\ \A f \in Legacy : Reached(f) => has[f][p][m] = 0
        /\ p \in ByRule(cfg.rules, {}) /\ m \in Old => has[Home][p][m] = 0

\* A second reorganization, in whatever mode and with whatever failures, finds
\* nothing to do: neither phase undoes what the other, or an earlier file, has done.
\* (Where a folder of other items is taken for one of mail, there is more to do.)
SecondPassQuiet == [][settled /\ settled' => has' = has]_vars

\* No step of a pass takes recent mail, or mail of a folder the rules leave out, from
\* the mailbox: phase 2, which knows neither rules nor retain_days, does not get there
\* unless the mailbox is itself the file at hand.  A folder whose kind could not be read
\* counts as one of mail.  The code keeps recent mail in phase 1 on purpose
\* (reorganizer.go:90); docs/USER_GUIDE.md:225 says that phase ignores retain_days.
MailboxRules ==
    [][made' # made /\ cur # Home =>
         \A p \in Paths, m \in Mails :
           (p \notin ByRule(rules, untyped) \/ m \notin Old)
             => has'[Home][p][m] >= has[Home][p][m]]_vars
=============================================================================
