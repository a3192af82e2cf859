---------------------------- MODULE ConfigStore ----------------------------
(***************************************************************************)
(* The settings in their five places: config.yaml, its temporary copy, the *)
(* configuration in force (Scheduler.cfgVal), the autostart entry of the   *)
(* registry and the form of the web page.  handleConfig (server.go) carries*)
(* a save through them; the page sends two for one edit (change and blur). *)
(* A configuration is one number, max_batch_size.                          *)
(***************************************************************************)
EXTENDS Integers, FiniteSets

CONSTANTS Values,   \* the values of max_batch_size, 0 for unlimited
          Default,  \* of DefaultConfig and of the page
          Together  \* bounds the requests that are unanswered at the same time

\* What the code does not defend itself against:
\* "overlap":  the page or the user changes a setting while an earlier change is not
\*             answered; forgotten when the next save begins with none unanswered.
\* "disk":     the disk is full for one of two saves under way; forgotten likewise.
\* "reload":   when the file last changed, a reload had read the old one and not yet
\*             put it in force.
\* "registry": the last SetAutoStart of a save has failed.
HazardKinds == {"overlap", "disk", "reload", "registry"}

\* What else a file may hold: nothing, no bytes, a configuration that does not
\* validate, a mixture of two.
Absent == -4
Torn   == -3
Empty  == -2
Bad    == -1

ASSUME ConstantsOK == /\ Values \subseteq Nat
                      /\ Default \in Values \ {0}
                      /\ Together \in Nat

Savers  == {"change", "blur"}
Callers == Savers \union {"reload", "toggle"}

VARIABLES state,     \* the program: down, in its first run's save, up
          file, tmp, \* config.yaml and config.yaml.tmp
          open,      \* the savers with a handle on the temporary file
          live,      \* the configuration in force
          registry,  \* does the Run key start the program?
          form,      \* max_batch_size on the page
          toggle,    \* auto_start_toggle on the page
          pc,        \* the step each request is at
          sent,      \* what it carries, until it has written it
          loaded,    \* what its LoadConfig has returned
          told,      \* does the user know of a difference, from an error or
                     \* because it is his own doing?
          met        \* history: the hazards that have come up

disk  == <<file, tmp, open>>
page  == <<form, toggle>>
calls == <<pc, sent, loaded>>
vars  == <<state, disk, live, registry, page, calls, told, met>>

Wanted   == Values \union {Bad}
Whole    == Wanted
Contents == Whole \union {Absent, Torn, Empty}

TypeOK ==
    /\ state \in {"down", "first", "up"}
    /\ file \in Contents /\ tmp \in Contents
    /\ open \subseteq Savers
    /\ live \in Values
    /\ registry \in BOOLEAN
    /\ form \in Wanted /\ toggle \in BOOLEAN
    /\ pc \in [Callers -> {"idle", "registry", "create", "write", "rename",
                           "remove", "check", "store"}]
    /\ sent \in [Callers -> [limit : Wanted, auto : BOOLEAN]]
    /\ loaded \in [Callers -> Values]
    /\ told \in BOOLEAN
    /\ met \subseteq HazardKinds

NoRequest == [limit |-> Default, auto |-> FALSE]

Init ==
    /\ state = "down"
    /\ file = Absent /\ tmp = Absent /\ open = {}
    /\ live = Default
    /\ registry = FALSE
    /\ form = Default /\ toggle = FALSE
    /\ pc = [c \in Callers |-> "idle"]
    /\ sent = [c \in Callers |-> NoRequest]
    /\ loaded = [c \in Callers |-> Default]
    /\ told = FALSE
    /\ met = {}

Quiet(S) == \A c \in S : pc[c] = "idle"

\* The requests that carry a setting.
Edits == Savers \union {"toggle"}

\* What a change meets that comes while some of S are under way.
MetBeside(S) == IF Quiet(S) THEN met ELSE met \union {"overlap"}

\* What a save meets as it begins.
MetBySave(S) == IF Quiet(Edits) THEN met \ {"overlap", "disk"} ELSE MetBeside(S)

\* What a new file meets.
MetByReload(m) == IF pc["reload"] = "store" THEN m \union {"reload"} ELSE m \ {"reload"}

\* "cfg.max_batch_size || 500" and "parseInt(...) || 500" of index.html.
OrDefault(v) == IF v = 0 THEN Default ELSE v

-----------------------------------------------------------------------------
(* LoadConfig.  An empty file leaves the defaults in place.                *)

\* Mutant: LoadConfig does not validate what it has read.
LoadsAnything(f) == f \in Whole \union {Empty}

Loads(f)   == f \in Values \union {Empty}
Meaning(f) == IF f = Empty THEN Default ELSE f

FirstRun == /\ state = "down" /\ file = Absent
            /\ file' = Empty
            /\ state' = "first"
            /\ UNCHANGED <<tmp, open, live, registry, page, calls, told, met>>

\* SaveConfig writes the default file in place; an error is only a warning.
FirstRunSaved == /\ state = "first"
                 /\ file' \in {Default, file}
                 /\ live' = Default
                 /\ state' = "up"
                 /\ UNCHANGED <<tmp, open, registry, page, calls, told, met>>

Starts == /\ state = "down" /\ Loads(file)
          /\ live' = Meaning(file)
          /\ state' = "up"
          /\ UNCHANGED <<disk, registry, page, calls, told, met>>

\* The program quits or dies; requests under way fail on the page.
Ends == /\ state # "down"
        /\ state' = "down"
        /\ open' = {}
        /\ live' = Default
        /\ pc' = [c \in Callers |-> "idle"]
        /\ sent' = [c \in Callers |-> NoRequest]
        /\ loaded' = [c \in Callers |-> Default]
        /\ told' = (told \/ ~Quiet(Callers))
        /\ UNCHANGED <<file, tmp, registry, page, met>>

-----------------------------------------------------------------------------
(* The page.                                                               *)

Request(c, step, value, auto) ==
    /\ state = "up" /\ pc[c] = "idle"
    /\ Cardinality({d \in Callers : pc[d] # "idle"}) < Together
    /\ pc' = [pc EXCEPT ![c] = step]
    /\ sent' = [sent EXCEPT ![c] = [limit |-> OrDefault(value), auto |-> auto]]
    /\ UNCHANGED <<state, disk, live, registry, loaded, told>>

\* A request under way goes on, although nobody waits for its answer any more.
PageLoads == /\ state = "up"
             /\ form' = OrDefault(live)
             /\ toggle' = registry
             /\ met' = MetBeside(Edits)
             /\ UNCHANGED <<state, disk, live, registry, calls, told>>

UserEdits == /\ form' \in Wanted
             /\ Request("change", "registry", form', toggle)
             /\ met' = MetBySave(Edits)
             /\ UNCHANGED toggle

\* Leaving a field saves too, whether it was edited or not.
FieldLeft == /\ Request("blur", "registry", form, toggle)
             /\ met' = MetBySave({"toggle"})
             /\ UNCHANGED page

ToggleAutoStart == /\ toggle' = ~toggle
                   /\ Request("toggle", "registry", Default, toggle')
                   /\ met' = MetBeside(Savers)
                   /\ UNCHANGED form

\* handleActionReload, and the tray's menu item.
Reload == /\ Request("reload", "check", Default, FALSE)
          /\ UNCHANGED <<page, met>>

-----------------------------------------------------------------------------
(* handleConfig, a POST.                                                   *)

At(c, step) == state = "up" /\ pc[c] = step
Goto(c, step) == pc' = [pc EXCEPT ![c] = step]

Reply(c, ok) == /\ Goto(c, "idle")
                /\ told' = IF ok THEN told /\ c \notin Savers ELSE TRUE
                /\ sent' = [sent EXCEPT ![c] = NoRequest]
                /\ loaded' = [loaded EXCEPT ![c] = Default]
                /\ UNCHANGED state

Proceed(c, step) == /\ Goto(c, step)
                    /\ UNCHANGED <<state, sent, loaded, told>>

\* ValidateConfig turns it away before anything is done.
Reject(c) == /\ c \in Savers /\ At(c, "registry")
             /\ sent[c].limit = Bad
             /\ Reply(c, FALSE)
             /\ UNCHANGED <<disk, live, registry, page, met>>

\* An error of SetAutoStart is only logged.
SetAutoStart(c) == /\ c \in Savers /\ At(c, "registry")
                   /\ sent[c].limit # Bad
                   /\ registry' \in {sent[c].auto, registry}
                   /\ met' = IF registry' = sent[c].auto
                             THEN met \ {"registry"} ELSE met \union {"registry"}
                   /\ Goto(c, "create")
                   /\ sent' = [sent EXCEPT ![c].auto = FALSE]
                   /\ UNCHANGED <<state, disk, live, page, loaded, told>>

\* handleActionAutostart reports its error, and the page turns the toggle back.
Toggled == /\ At("toggle", "registry")
           /\ \/ registry' = sent["toggle"].auto /\ UNCHANGED page
              \/ toggle' = ~sent["toggle"].auto /\ UNCHANGED <<registry, form>>
           /\ Reply("toggle", TRUE)
           /\ UNCHANGED <<disk, live, met>>

\* Mutant: SaveConfig gets the path of the file itself.
CreateInPlace(c) == /\ At(c, "create")
                    /\ file' = Empty
                    /\ open' = open \union {c}
                    /\ Proceed(c, "write")
                    /\ UNCHANGED <<tmp, live, registry, page, met>>

\* SaveConfig opens and truncates, then writes and closes.
CreateTmp(c) == /\ At(c, "create")
                /\ tmp' = Empty
                /\ open' = open \union {c}
                /\ Proceed(c, "write")
                /\ UNCHANGED <<file, live, registry, page, met>>

CreateFails(c) == /\ At(c, "create")
                  /\ Reply(c, FALSE)
                  /\ UNCHANGED <<disk, live, registry, page, met>>

WriteTmp(c) == /\ At(c, "write")
               /\ tmp' \in {sent[c].limit} \union IF tmp \in {Empty, sent[c].limit} THEN {} ELSE {Torn}
               /\ open' = open \ {c}
               /\ Goto(c, "rename")
               /\ sent' = [sent EXCEPT ![c] = NoRequest]
               /\ UNCHANGED <<state, file, live, registry, page, loaded, told, met>>

WriteFails(c) == /\ At(c, "write")
                 /\ met' = IF Quiet(Savers \ {c}) THEN met ELSE met \union {"disk"}
                 /\ open' = open \ {c}
                 /\ Reply(c, FALSE)
                 /\ UNCHANGED <<file, tmp, live, registry, page>>

\* Windows moves no file that another handle keeps open (os.Open shares reading and
\* writing, not deletion).
Rename(c) == /\ At(c, "rename")
             /\ tmp # Absent /\ open = {}
             /\ file' = tmp
             /\ tmp' = Absent
             /\ met' = MetByReload(met)
             /\ Proceed(c, "check")
             /\ UNCHANGED <<open, live, registry, page>>

RenameFails(c) == /\ At(c, "rename")
                  /\ Proceed(c, "remove")
                  /\ UNCHANGED <<disk, live, registry, page, met>>

RemoveTmp(c) == /\ At(c, "remove")
                /\ tmp' \in IF open = {} THEN {tmp, Absent} ELSE {tmp}
                /\ Reply(c, FALSE)
                /\ UNCHANGED <<file, open, live, registry, page, met>>

-----------------------------------------------------------------------------
(* ReloadConfig, the last step of a save, and of a reload all there is.    *)

\* Mutant: handleConfig does not look at the error of ReloadConfig.
RefusalIgnored(c) == /\ At(c, "check")
                     /\ Reply(c, TRUE)
                     /\ UNCHANGED <<disk, live, registry, page, met>>

\* A task of the scheduler is under way, which may be at any moment.
Refuse(c) == /\ At(c, "check")
             /\ Reply(c, FALSE)
             /\ UNCHANGED <<disk, live, registry, page, met>>

LoadConfig(c) == /\ At(c, "check")
                 /\ IF Loads(file)
                    THEN /\ loaded' = [loaded EXCEPT ![c] = Meaning(file)]
                         /\ Goto(c, "store")
                         /\ UNCHANGED <<state, sent, told>>
                    ELSE Reply(c, FALSE)
                 /\ UNCHANGED <<disk, live, registry, page, met>>

Store(c) == /\ At(c, "store")
            /\ live' = loaded[c]
            /\ Reply(c, TRUE)
            /\ UNCHANGED <<disk, registry, page, met>>

-----------------------------------------------------------------------------
(* Who changes things beside the page: an editor, the tray, the scheduler. *)

Beside == /\ told' = TRUE
          /\ UNCHANGED <<state, tmp, open, live, page, pc, sent, loaded>>

HandEdit == /\ state # "first"
            /\ file' \in Wanted
            /\ met' = MetByReload(MetBeside(Savers))
            /\ Beside
            /\ UNCHANGED registry

TrayToggle == /\ state = "up"
              /\ registry' = ~registry
              /\ met' = MetBeside(Edits)
              /\ Beside
              /\ UNCHANGED file

-----------------------------------------------------------------------------
Save(c) == \/ Reject(c) \/ SetAutoStart(c)
           \/ CreateTmp(c) \/ CreateFails(c) \/ WriteTmp(c) \/ WriteFails(c)
           \/ Rename(c) \/ RenameFails(c) \/ RemoveTmp(c)

ReloadConfig(c) == Refuse(c) \/ LoadConfig(c) \/ Store(c)

Next == \/ FirstRun \/ FirstRunSaved \/ Starts \/ Ends
        \/ PageLoads \/ UserEdits \/ FieldLeft \/ ToggleAutoStart \/ Reload \/ Toggled
        \/ \E c \in Savers : Save(c)
        \/ \E c \in Savers \union {"reload"} : ReloadConfig(c)
        \/ HandEdit \/ TrayToggle

Spec == Init /\ [][Next]_vars

-----------------------------------------------------------------------------
(* Properties.                                                             *)

OneEditAtATime == {"overlap", "disk"} \cap met = {}

\* Once config.yaml holds a whole configuration no step of the program leaves it with
\* less, wherever a save is cut off by a failure or the end of the program, and although
\* the two saves of an edit share one temporary file.  Saves of two edits that overlap may
\* tear it, and so may the disk that is full for one of two; when the saves to come wait
\* for each other they begin with a clean copy again.
KeepsSettings == [][(file \in Whole /\ OneEditAtATime) => (file' \in Whole)]_vars

\* While nothing is under way and the user has heard of no error and meddled with
\* nothing, what the page shows is what is in force, on the disk and in the registry:
\* a save that says "saved and in effect" is both.  A zero on the page stands for the
\* default.  The exceptions are the hazards: edits that overlap, until the next save that
\* does not; a reload that puts the old file in force; a registry that has refused a save,
\* which only logs it.
QuietMeansInForce ==
    state = "up" /\ Quiet(Callers) /\ ~told /\ OneEditAtATime =>
        /\ \/ live = Meaning(file) /\ live = OrDefault(form)
           \/ "reload" \in met
        /\ toggle = registry \/ "registry" \in met
=============================================================================
