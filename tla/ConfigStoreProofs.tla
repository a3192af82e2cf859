------------------------- MODULE ConfigStoreProofs -------------------------
(***************************************************************************)
(* Proofs about ConfigStore, for any values of the setting: the types, that*)
(* config.yaml stays whole although both saves of an edit write the same   *)
(* temporary file, and that a quiet program shows what is in force.        *)
(***************************************************************************)
EXTENDS ConfigStore, TLAPS

\* What the page has sent, or would send now.
Edited == OrDefault(form)

\* The saves under way all carry what the page shows.
Carried == \A c \in Savers : pc[c] \in {"registry", "create", "write"} => sent[c].limit = Edited

\* The temporary file is open for exactly the saves that are about to write it.
Handles == open = {c \in Savers : pc[c] = "write"}

Renaming == \E c \in Savers : pc[c] = "rename"

\* Somebody writes it: nothing is in it yet, or what everybody writes.  Somebody moves it
\* and nobody writes it: it is complete, unless another one has moved or removed it.
TmpShape == /\ open # {} => tmp \in {Empty, Edited}
            /\ open = {} /\ Renaming => tmp \in {Absent, Edited}

SaveInv == Handles /\ (OneEditAtATime => Carried /\ TmpShape)
-----------------------------------------------------------------------------
LEMMA Constants == /\ Values \subseteq Nat /\ Default \in Values /\ Default # 0
                   /\ Bad \notin Values /\ Empty \notin Whole /\ Absent \notin Whole
                   /\ Torn \notin Whole
BY ConstantsOK DEF Bad, Empty, Absent, Torn, Whole, Wanted

LEMMA Defaults == ASSUME NEW v \in Wanted PROVE OrDefault(v) \in Wanted
BY Constants DEF OrDefault, Wanted

LEMMA Nothing == NoRequest \in [limit : Wanted, auto : BOOLEAN]
BY Constants DEF NoRequest, Wanted

LEMMA InitType == Init => TypeOK
<1> SUFFICES ASSUME Init PROVE TypeOK
  OBVIOUS
<1>1. /\ sent \in [Callers -> [limit : Wanted, auto : BOOLEAN]]
      /\ loaded \in [Callers -> Values]
  BY Nothing, Constants DEF Init
<1>2. QED
  BY <1>1, Constants DEF Init, TypeOK, Contents, Whole, Wanted

\* An answer, and a step towards it.
LEMMA ReplyType ==
  ASSUME TypeOK, NEW c \in Callers, NEW ok \in BOOLEAN, Reply(c, ok)
  PROVE  /\ pc' \in [Callers -> {"idle", "registry", "create", "write", "rename",
                                 "remove", "check", "store"}]
         /\ sent' \in [Callers -> [limit : Wanted, auto : BOOLEAN]]
         /\ loaded' \in [Callers -> Values]
         /\ told' \in BOOLEAN /\ state' = state
<1>1. told' \in BOOLEAN
  BY DEF Reply, TypeOK
<1>2. QED
  BY <1>1, Nothing, Constants DEF Reply, Goto, TypeOK

\* A request of the page.
LEMMA RequestType ==
  ASSUME TypeOK, NEW c \in Callers, NEW step \in {"registry", "check"},
         NEW value \in Wanted, NEW auto \in BOOLEAN, Request(c, step, value, auto)
  PROVE  /\ pc' \in [Callers -> {"idle", "registry", "create", "write", "rename",
                                 "remove", "check", "store"}]
         /\ sent' \in [Callers -> [limit : Wanted, auto : BOOLEAN]]
BY Defaults DEF Request, TypeOK

LEMMA MetType ==
  ASSUME TypeOK, NEW S
  PROVE  /\ MetBeside(S) \subseteq HazardKinds /\ MetBySave(S) \subseteq HazardKinds
         /\ \A m \in SUBSET HazardKinds : MetByReload(m) \subseteq HazardKinds
BY DEF TypeOK, MetBeside, MetBySave, MetByReload, HazardKinds

LEMMA NextType == TypeOK /\ [Next]_vars => TypeOK'
<1> SUFFICES ASSUME TypeOK, [Next]_vars PROVE TypeOK'
  OBVIOUS
<1> USE Constants DEF TypeOK, Contents, disk, page, calls
<1>1. CASE FirstRun \/ FirstRunSaved \/ Starts
  BY <1>1 DEF FirstRun, FirstRunSaved, Starts, Loads, Meaning, Whole, Wanted
<1>2. CASE Ends
  BY <1>2 DEF Ends, NoRequest, Wanted
<1>3. CASE PageLoads
  BY <1>3, Defaults, MetType DEF PageLoads, Wanted
<1>4. CASE UserEdits \/ FieldLeft \/ ToggleAutoStart \/ Reload
  <2>1. CASE UserEdits
    BY <2>1, RequestType, MetType DEF UserEdits, Request, Callers, Savers
  <2>2. CASE FieldLeft
    BY <2>2, RequestType, MetType DEF FieldLeft, Request, Callers, Savers
  <2>3. CASE ToggleAutoStart
    BY <2>3, RequestType, MetType DEF ToggleAutoStart, Request, Callers, Savers, Wanted
  <2>4. CASE Reload
    BY <2>4, RequestType DEF Reload, Request, Callers, Savers, Wanted
  <2>5. QED
    BY <1>4, <2>1, <2>2, <2>3, <2>4
<1>5. CASE Toggled
  BY <1>5 DEF Toggled, Reply, Goto, At, Callers, Savers, NoRequest, Wanted
<1>6. ASSUME NEW c \in Savers, Save(c) PROVE TypeOK'
  <2>c. c \in Callers
    BY DEF Callers
  <2>1. CASE SetAutoStart(c)
    <3>1. sent' \in [Callers -> [limit : Wanted, auto : BOOLEAN]] /\ registry' \in BOOLEAN
      BY <2>1, <2>c DEF SetAutoStart
    <3>2. QED
      BY <2>1, <3>1, <2>c DEF SetAutoStart, Goto, HazardKinds
  <2>2. CASE CreateTmp(c) \/ RenameFails(c)
    BY <2>2, <2>c DEF CreateTmp, RenameFails, Proceed, Goto, Whole
  <2>3. CASE WriteTmp(c)
    BY <2>3, <2>c, Nothing DEF WriteTmp, Goto, Whole
  <2>4. CASE Rename(c)
    BY <2>4, <2>c, MetType DEF Rename, Proceed, Goto, Whole
  <2>5. CASE Reject(c) \/ CreateFails(c) \/ WriteFails(c) \/ RemoveTmp(c)
    BY <2>5, <2>c, ReplyType DEF Reject, CreateFails, WriteFails, RemoveTmp, HazardKinds
  <2>6. QED
    BY <1>6, <2>1, <2>2, <2>3, <2>4, <2>5 DEF Save
<1>7. ASSUME NEW c \in Savers \union {"reload"}, ReloadConfig(c) PROVE TypeOK'
  <2>c. c \in Callers
    BY DEF Callers
  <2>1. CASE Refuse(c)
    BY <2>1, <2>c, ReplyType DEF Refuse
  <2>2. CASE LoadConfig(c)
    <3>1. CASE Loads(file)
      <4>1. Meaning(file) \in Values
        BY <3>1 DEF Loads, Meaning
      <4>2. QED
        BY <2>2, <2>c, <3>1, <4>1 DEF LoadConfig, Goto
    <3>2. CASE ~Loads(file)
      BY <2>2, <2>c, <3>2, ReplyType DEF LoadConfig
    <3>3. QED
      BY <3>1, <3>2
  <2>3. CASE Store(c)
    <3>1. live' \in Values
      BY <2>3, <2>c DEF Store
    <3>2. QED
      BY <2>3, <2>c, <3>1, ReplyType DEF Store
  <2>4. QED
    BY <1>7, <2>1, <2>2, <2>3 DEF ReloadConfig
<1>8. CASE HandEdit \/ TrayToggle
  BY <1>8, MetType DEF HandEdit, TrayToggle, Beside, Whole
<1>9. CASE UNCHANGED vars
  BY <1>9 DEF vars
<1>10. QED
  BY <1>1, <1>2, <1>3, <1>4, <1>5, <1>6, <1>7, <1>8, <1>9 DEF Next

\* Every variable keeps its type: in particular no configuration that does not validate
\* comes into force, whatever is in the file.
THEOREM TypeCorrect == Spec => []TypeOK
BY InitType, NextType, PTL DEF Spec
-----------------------------------------------------------------------------
\* What a step adds to the history, and what it may forget.
LEMMA Met ==
  ASSUME NEW S
  PROVE  /\ met \subseteq MetBeside(S)
         /\ ~Quiet(S) => "overlap" \in MetBeside(S)
         /\ ~Quiet(Edits) => MetBySave(S) = MetBeside(S)
         /\ \A h \in {"reload", "registry"} :
               (h \in MetBeside(S) <=> h \in met) /\ (h \in MetBySave(S) <=> h \in met)
         /\ \A m : /\ "reload" \in MetByReload(m) <=> pc["reload"] = "store"
                  /\ \A h \in {"overlap", "disk", "registry"} : h \in MetByReload(m) <=> h \in m
BY DEF MetBeside, MetBySave, MetByReload

LEMMA InitSave == Init => SaveInv
BY DEF Init, SaveInv, Carried, Handles, TmpShape, Renaming, Callers, Savers

\* Steps that leave savers, form and temporary file alone.
LEMMA Aside ==
  ASSUME SaveInv, UNCHANGED <<form, tmp, open>>, OneEditAtATime' => OneEditAtATime,
         \A c \in Savers : pc'[c] = pc[c] /\ sent'[c] = sent[c]
  PROVE  SaveInv'
<1>1. Handles'
  BY DEF SaveInv, Handles
<1>2. Edited' = Edited
  BY DEF Edited, OrDefault
<1>3. Carried /\ TmpShape => Carried' /\ TmpShape'
  BY <1>2 DEF Carried, TmpShape, Renaming
<1>4. QED
  BY <1>1, <1>3 DEF SaveInv

\* A change that comes while another one is under way.
LEMMA Disturbed ==
  ASSUME SaveInv, UNCHANGED open, "overlap" \in met',
         \A c \in Savers : pc'[c] = "write" <=> pc[c] = "write"
  PROVE  SaveInv'
BY DEF SaveInv, Handles, OneEditAtATime

\* A new form while no save is under way.
LEMMA NewForm ==
  ASSUME SaveInv, Quiet(Savers), UNCHANGED <<tmp, open>>,
         \A c \in Savers : \/ pc'[c] = "idle"
                           \/ pc'[c] = "registry" /\ sent'[c].limit = Edited'
  PROVE  SaveInv'
<1>1. open = {}
  BY DEF SaveInv, Handles, Quiet
<1>2. Carried'
  BY DEF Carried
<1>3. Handles'
  BY <1>1 DEF Handles
<1>4. TmpShape'
  BY <1>1 DEF TmpShape, Renaming
<1>5. QED
  BY <1>2, <1>3, <1>4 DEF SaveInv

\* The requests of the page.
LEMMA PageSteps ==
  ASSUME TypeOK, SaveInv,
         \/ PageLoads \/ UserEdits \/ FieldLeft \/ ToggleAutoStart \/ Reload \/ Toggled
  PROVE  SaveInv'
<1> USE DEF disk, page, calls
<1>c. /\ Savers \subseteq Callers /\ "toggle" \notin Savers /\ "reload" \notin Savers
      /\ "change" \in Savers /\ "blur" \in Savers /\ "toggle" \in Callers /\ "reload" \in Callers
  BY DEF Savers, Callers
<1>e. ~Quiet(Savers) => ~Quiet(Edits)
  BY DEF Quiet, Edits
<1>1. CASE PageLoads
  <2>1. UNCHANGED <<pc, sent, tmp, open>> /\ met' = MetBeside(Edits)
    BY <1>1 DEF PageLoads
  <2>2. CASE Quiet(Savers)
    BY <2>1, <2>2, NewForm DEF Quiet
  <2>3. CASE ~Quiet(Savers)
    BY <2>1, <2>3, <1>e, Met, Disturbed
  <2>4. QED
    BY <2>2, <2>3
<1>2. CASE UserEdits
  <2>1. /\ UNCHANGED <<tmp, open>> /\ met' = MetBySave(Edits) /\ pc["change"] = "idle"
        /\ pc' = [pc EXCEPT !["change"] = "registry"]
        /\ sent' = [sent EXCEPT !["change"] = [limit |-> OrDefault(form'), auto |-> toggle]]
    BY <1>2 DEF UserEdits, Request
  <2>2. CASE Quiet(Savers)
    <3>1. \A c \in Savers : \/ pc'[c] = "idle"
                            \/ pc'[c] = "registry" /\ sent'[c].limit = Edited'
      BY <1>c, <2>1, <2>2 DEF TypeOK, Quiet, Edited, OrDefault
    <3>2. QED
      BY <2>1, <2>2, <3>1, NewForm
  <2>3. CASE ~Quiet(Savers)
    <3>1. \A c \in Savers : pc'[c] = "write" <=> pc[c] = "write"
      BY <1>c, <2>1 DEF TypeOK
    <3>2. QED
      BY <2>1, <2>3, <3>1, <1>e, Met, Disturbed
  <2>4. QED
    BY <2>2, <2>3
<1>3. CASE FieldLeft
  <2>1. /\ UNCHANGED <<form, tmp, open>> /\ met' = MetBySave({"toggle"}) /\ pc["blur"] = "idle"
        /\ pc' = [pc EXCEPT !["blur"] = "registry"]
        /\ sent' = [sent EXCEPT !["blur"] = [limit |-> OrDefault(form), auto |-> toggle]]
    BY <1>3 DEF FieldLeft, Request
  <2>2. Edited' = Edited
    BY <2>1 DEF Edited, OrDefault
  <2>3. \A c \in Savers : /\ c # "blur" => pc'[c] = pc[c] /\ sent'[c] = sent[c]
                          /\ c = "blur" => pc'[c] = "registry" /\ sent'[c].limit = Edited
    BY <1>c, <2>1 DEF TypeOK, Edited
  <2>4. CASE Quiet(Savers)
    BY <2>1, <2>2, <2>3, <2>4, NewForm DEF Quiet
  <2>5. CASE ~Quiet(Savers)
    <3>1. OneEditAtATime' => OneEditAtATime
      BY <2>1, <2>5, <1>e, Met DEF OneEditAtATime
    <3>2. Handles'
      BY <2>1, <2>3 DEF SaveInv, Handles
    <3>3. Carried => Carried'
      BY <2>2, <2>3 DEF Carried
    <3>4. TmpShape => TmpShape'
      BY <2>1, <2>2, <2>3 DEF TmpShape, Renaming
    <3>5. QED
      BY <3>1, <3>2, <3>3, <3>4 DEF SaveInv
  <2>6. QED
    BY <2>4, <2>5
<1>4. CASE ToggleAutoStart
  <2>1. UNCHANGED <<form, tmp, open>> /\ met' = MetBeside(Savers)
    BY <1>4 DEF ToggleAutoStart, Request
  <2>2. \A c \in Savers : pc'[c] = pc[c] /\ sent'[c] = sent[c]
    BY <1>4, <1>c DEF ToggleAutoStart, Request, TypeOK
  <2>3. OneEditAtATime' => OneEditAtATime
    BY <2>1, Met DEF OneEditAtATime
  <2>4. QED
    BY <2>1, <2>2, <2>3, Aside
<1>5. CASE Reload
  <2>1. UNCHANGED <<form, tmp, open, met>>
    BY <1>5 DEF Reload, Request
  <2>2. \A c \in Savers : pc'[c] = pc[c] /\ sent'[c] = sent[c]
    BY <1>5, <1>c DEF Reload, Request, TypeOK
  <2>3. QED
    BY <2>1, <2>2, Aside DEF OneEditAtATime
<1>6. CASE Toggled
  <2>1. UNCHANGED <<form, tmp, open, met>>
    BY <1>6 DEF Toggled
  <2>2. \A c \in Savers : pc'[c] = pc[c] /\ sent'[c] = sent[c]
    BY <1>6, <1>c DEF Toggled, Reply, Goto, TypeOK
  <2>3. QED
    BY <2>1, <2>2, Aside DEF OneEditAtATime
<1>7. QED
  BY <1>1, <1>2, <1>3, <1>4, <1>5, <1>6

\* A step of one save, which moves from one place to the next or is answered.
LEMMA SaverSteps ==
  ASSUME TypeOK, SaveInv, NEW c \in Savers, Save(c) \/ ReloadConfig(c)
  PROVE  SaveInv'
<1> USE DEF disk, page, calls
<1>c. c \in Callers
  BY DEF Callers
<1>1. Edited' = Edited /\ form' = form
  BY DEF Save, Reject, SetAutoStart, CreateTmp, CreateFails, WriteTmp, WriteFails, Rename,
         RenameFails, RemoveTmp, ReloadConfig, Refuse, LoadConfig, Store, Edited, OrDefault
<1>2. \A d \in Savers \ {c} : pc'[d] = pc[d] /\ sent'[d] = sent[d]
  BY <1>c DEF TypeOK, Callers, Save, Reject, SetAutoStart, CreateTmp, CreateFails, WriteTmp,
         WriteFails, Rename, RenameFails, RemoveTmp, ReloadConfig, Refuse, LoadConfig, Store,
         Reply, Proceed, Goto
<1>3. \/ pc'[c] \notin {"registry", "create", "write"}
      \/ sent'[c].limit = sent[c].limit /\ pc[c] \in {"registry", "create", "write"}
  <2>1. CASE SetAutoStart(c)
    BY <2>1, <1>c DEF SetAutoStart, Goto, At, TypeOK
  <2>2. CASE CreateTmp(c)
    BY <2>2, <1>c DEF CreateTmp, Proceed, Goto, At, TypeOK
  <2>3. CASE ~SetAutoStart(c) /\ ~CreateTmp(c)
    BY <2>3, <1>c DEF TypeOK, Save, Reject, CreateFails, WriteTmp, WriteFails, Rename, RenameFails,
           RemoveTmp, ReloadConfig, Refuse, LoadConfig, Store, Reply, Proceed, Goto
  <2>4. QED
    BY <2>1, <2>2, <2>3
<1>4. Carried => Carried'
  BY <1>1, <1>2, <1>3 DEF Carried
<1>5. OneEditAtATime' => OneEditAtATime
  <2>1. \/ met' = MetByReload(met) \/ met \ {"registry"} \subseteq met'
    BY DEF Save, Reject, SetAutoStart, CreateTmp, CreateFails, WriteTmp, WriteFails, Rename,
           RenameFails, RemoveTmp, ReloadConfig, Refuse, LoadConfig, Store
  <2>2. QED
    BY <2>1 DEF OneEditAtATime, MetByReload
<1>6. Handles' /\ (OneEditAtATime' => (Carried /\ TmpShape => TmpShape'))
  <2> USE DEF SaveInv, Handles, TmpShape, Renaming, At, Reply, Proceed, Goto, TypeOK
  <2>1. CASE Reject(c) \/ SetAutoStart(c) \/ CreateFails(c) \/ ReloadConfig(c)
    <3>1. UNCHANGED <<tmp, open>> /\ pc[c] \notin {"write", "rename"} /\ pc'[c] \notin {"write", "rename"}
      BY <2>1, <1>c DEF Reject, SetAutoStart, CreateFails, ReloadConfig, Refuse, LoadConfig, Store
    <3>2. QED
      BY <3>1, <1>1, <1>2
  <2>2. CASE CreateTmp(c)
    <3>1. tmp' = Empty /\ open' = open \union {c} /\ pc'[c] = "write"
      BY <2>2, <1>c DEF CreateTmp
    <3>2. QED
      BY <3>1, <1>1, <1>2
  <2>3. CASE WriteTmp(c)
    <3>1. open' = open \ {c} /\ pc'[c] = "rename" /\ pc[c] = "write" /\ c \in open
      BY <2>3, <1>c DEF WriteTmp
    <3>2. Carried => sent[c].limit = Edited
      BY <3>1 DEF Carried
    <3>3. Carried /\ TmpShape => tmp' = Edited
      BY <2>3, <3>1, <3>2 DEF WriteTmp
    <3>4. QED
      BY <3>1, <3>3, <1>1, <1>2
  <2>4. CASE WriteFails(c)
    <3>1. open' = open \ {c} /\ pc'[c] = "idle" /\ tmp' = tmp
      BY <2>4, <1>c DEF WriteFails
    <3>2. OneEditAtATime' => \A d \in Savers : pc'[d] = "idle"
      BY <2>4, <3>1, <1>2 DEF WriteFails, Quiet, OneEditAtATime
    <3>3. Handles'
      BY <3>1, <1>2
    <3>4. QED
      BY <3>2, <3>3
  <2>5. CASE Rename(c)
    <3>1. open = {} /\ open' = {} /\ tmp' = Absent /\ pc'[c] = "check"
      BY <2>5, <1>c DEF Rename
    <3>2. QED
      BY <3>1, <1>1, <1>2
  <2>6. CASE RenameFails(c) \/ RemoveTmp(c)
    <3>1. /\ open' = open /\ tmp' \in IF open = {} THEN {tmp, Absent} ELSE {tmp}
          /\ pc[c] \in {"rename", "remove"} /\ pc'[c] \in {"remove", "idle"}
      BY <2>6, <1>c DEF RenameFails, RemoveTmp
    <3>2. QED
      BY <3>1, <1>1, <1>2
  <2>7. QED
    BY <2>1, <2>2, <2>3, <2>4, <2>5, <2>6 DEF Save
<1>7. QED
  BY <1>4, <1>5, <1>6 DEF SaveInv

LEMMA NextSave == TypeOK /\ SaveInv /\ [Next]_vars => SaveInv'
<1> SUFFICES ASSUME TypeOK, SaveInv, [Next]_vars PROVE SaveInv'
  OBVIOUS
<1>1. CASE FirstRun \/ FirstRunSaved \/ Starts \/ HandEdit \/ TrayToggle \/ UNCHANGED vars
  <2>1. UNCHANGED <<form, tmp, open, pc, sent>>
    BY <1>1 DEF FirstRun, FirstRunSaved, Starts, HandEdit, TrayToggle, Beside, vars, disk, page, calls
  <2>2. OneEditAtATime' => OneEditAtATime
    BY <1>1, Met DEF FirstRun, FirstRunSaved, Starts, HandEdit, TrayToggle, vars, OneEditAtATime
  <2>3. QED
    BY <2>1, <2>2, Aside
<1>2. CASE Ends
  <2>1. open' = {} /\ \A c \in Savers : pc'[c] = "idle"
    BY <1>2 DEF Ends, Callers
  <2>2. QED
    BY <2>1 DEF SaveInv, Carried, Handles, TmpShape, Renaming
<1>3. CASE PageLoads \/ UserEdits \/ FieldLeft \/ ToggleAutoStart \/ Reload \/ Toggled
  BY <1>3, PageSteps
<1>4. ASSUME NEW c \in Savers, Save(c) PROVE SaveInv'
  BY <1>4, SaverSteps
<1>5. ASSUME NEW c \in Savers \union {"reload"}, ReloadConfig(c) PROVE SaveInv'
  <2>1. CASE c \in Savers
    BY <1>5, <2>1, SaverSteps
  <2>2. CASE c = "reload"
    <3>1. UNCHANGED <<form, tmp, open, met>>
      BY <1>5 DEF ReloadConfig, Refuse, LoadConfig, Store, disk, page
    <3>2. \A d \in Savers : pc'[d] = pc[d] /\ sent'[d] = sent[d]
      BY <1>5, <2>2 DEF ReloadConfig, Refuse, LoadConfig, Store, Reply, Proceed, Goto, calls,
                        TypeOK, Savers, Callers
    <3>3. QED
      BY <3>1, <3>2, Aside DEF OneEditAtATime
  <2>3. QED
    BY <2>1, <2>2
<1>6. QED
  BY <1>1, <1>2, <1>3, <1>4, <1>5 DEF Next

\* Only a whole configuration is ever moved over config.yaml.
LEMMA NextKeeps ==
  ASSUME TypeOK, SaveInv, OneEditAtATime, [Next]_vars, file \in Whole
  PROVE  file' \in Whole
<1> USE DEF disk
<1>1. CASE FirstRun \/ FirstRunSaved \/ HandEdit
  BY <1>1, Constants DEF FirstRun, FirstRunSaved, HandEdit, Whole, Wanted
<1>2. ASSUME NEW c \in Savers, Rename(c) PROVE file' \in Whole
  <2>1. file' = tmp /\ tmp # Absent /\ open = {} /\ Renaming /\ pc[c] = "rename"
    BY <1>2 DEF Rename, At, Renaming
  <2>2. tmp = Edited
    BY <2>1 DEF SaveInv, TmpShape
  <2>3. Edited \in Wanted
    BY Defaults DEF TypeOK, Edited
  <2>4. QED
    BY <2>1, <2>2, <2>3 DEF Whole
<1>3. CASE file' = file
  BY <1>3
<1>4. \/ FirstRun \/ FirstRunSaved \/ HandEdit \/ file' = file
      \/ \E c \in Savers : Rename(c)
  BY DEF Next, Starts, Ends, PageLoads, UserEdits, FieldLeft, ToggleAutoStart, Reload, Request, Toggled,
         Save, Reject, SetAutoStart, CreateTmp, CreateFails, WriteTmp, WriteFails, RenameFails,
         RemoveTmp, ReloadConfig, Refuse, LoadConfig, Store, TrayToggle, vars
<1>5. QED
  BY <1>1, <1>2, <1>3, <1>4

\* Two saves of one edit never leave config.yaml with less than a configuration, wherever
\* they overlap, fail or are cut off: what makes the shared temporary file harmless is that
\* both write the same, and that Windows does not move a file that is open.  Whatever saves
\* that did not write the same have left behind, the next one begins anew.
THEOREM SettingsKept == Spec => KeepsSettings
<1>1. Init => TypeOK /\ SaveInv
  BY InitType, InitSave
<1>2. TypeOK /\ SaveInv /\ [Next]_vars => TypeOK' /\ SaveInv'
  BY NextType, NextSave
<1>3. TypeOK /\ SaveInv /\ [Next]_vars => [(file \in Whole /\ OneEditAtATime) => (file' \in Whole)]_vars
  BY NextKeeps
<1>4. QED
  BY <1>1, <1>2, <1>3, PTL DEF Spec, KeepsSettings
-----------------------------------------------------------------------------
(* That a quiet program shows what is in force.                            *)

Ground == /\ state = "first" => file = Empty
          /\ state = "up" => file # Absent
          /\ state # "up" => Quiet(Callers)

\* A reload holds what is in the file, unless the file has changed since it was read.
Reloading == pc["reload"] = "store" => loaded["reload"] = Meaning(file) \/ "reload" \in met

\* The switch of the page on its way to the registry.
Toggling == pc["toggle"] # "idle" => /\ sent["toggle"].auto = toggle
                                     /\ Quiet(Savers)
                                     /\ registry # toggle \/ told \/ "registry" \in met

Registered == registry = toggle \/ "registry" \in met

\* How far each save has brought what the page shows.
Saving ==
    \A c \in Savers :
        /\ pc[c] = "registry" => sent[c].auto = toggle
        /\ pc[c] \in {"create", "write", "rename", "check", "store"} => Registered
        /\ pc[c] \in {"check", "store"} => file = Edited
        /\ pc[c] = "store" => loaded[c] = Edited

InFile == IF file = Absent THEN Default ELSE Meaning(file)

Agree == ~told /\ Quiet(Savers) =>
            /\ \/ Edited = InFile /\ (state = "up" => live = InFile)
               \/ "reload" \in met
            /\ pc["toggle"] = "idle" => Registered

ForceInv == Ground /\ Reloading /\ (OneEditAtATime => Toggling /\ Saving /\ Agree)

LEMMA Names == /\ Savers \subseteq Callers /\ Callers = Savers \union {"reload", "toggle"}
               /\ "toggle" \notin Savers /\ "reload" \notin Savers
               /\ "change" \in Savers /\ "blur" \in Savers /\ Savers = {"change", "blur"}
               /\ Edits = Savers \union {"toggle"}
BY DEF Savers, Callers, Edits

LEMMA Sent == /\ Edited # 0 /\ OrDefault(Edited) = Edited
              /\ \A v : OrDefault(OrDefault(v)) = OrDefault(v)
BY Constants DEF Edited, OrDefault

LEMMA InitForce == Init => ForceInv
<1> SUFFICES ASSUME Init PROVE ForceInv
  OBVIOUS
<1>1. Ground
  BY Names DEF Init, Ground, Quiet
<1>2. \A c \in Callers : pc[c] = "idle"
  BY DEF Init
<1>3. Reloading /\ Toggling /\ Saving
  BY <1>2, Names DEF Reloading, Toggling, Saving
<1>4. Agree
  BY Constants DEF Init, Agree, InFile, Registered, Edited, OrDefault
<1>5. QED
  BY <1>1, <1>3, <1>4 DEF ForceInv

LEMMA LifeForce ==
  ASSUME TypeOK, ForceInv, FirstRun \/ FirstRunSaved \/ Starts \/ Ends
  PROVE  ForceInv'
<1> USE Names, Constants DEF ForceInv, Ground, Reloading, Toggling, Saving, Agree, Registered, InFile,
        Quiet, Meaning, Loads, OneEditAtATime, Edited, OrDefault, disk, page, calls
<1>1. CASE FirstRun
  BY <1>1 DEF FirstRun, Empty, Absent
<1>2. CASE FirstRunSaved
  <2>1. /\ file = Empty /\ file' \in {Default, Empty} /\ live' = Default /\ state' = "up" /\ Quiet(Callers)
        /\ UNCHANGED <<form, toggle, registry, pc, sent, loaded, told, met>>
    BY <1>2 DEF FirstRunSaved
  <2>2. InFile = Default /\ InFile' = Default /\ file' # Absent
    BY <2>1 DEF Empty, Absent
  <2>3. Agree => Agree'
    BY <2>1, <2>2
  <2>4. QED
    BY <2>1, <2>2, <2>3
<1>3. CASE Starts
  <2>1. /\ Loads(file) /\ live' = Meaning(file) /\ state' = "up" /\ Quiet(Callers)
        /\ UNCHANGED <<file, form, toggle, registry, pc, sent, loaded, told, met>>
    BY <1>3 DEF Starts
  <2>2. file # Absent /\ InFile = Meaning(file) /\ InFile' = InFile
    BY <2>1 DEF Empty, Absent
  <2>3. Agree => Agree'
    BY <2>1, <2>2
  <2>4. QED
    BY <2>1, <2>2, <2>3
<1>4. CASE Ends
  BY <1>4 DEF Ends, Empty, Absent, TypeOK
<1>5. QED
  BY <1>1, <1>2, <1>3, <1>4

\* A save begins, whatever it finds: unless it disturbs an earlier one, nothing has to be
\* said yet of what it will bring about.
LEMMA SaveBegins ==
  ASSUME TypeOK, ForceInv, NEW c \in Savers, NEW S \in {Edits, {"toggle"}}, NEW value \in Wanted,
         Request(c, "registry", value, toggle), met' = MetBySave(S), toggle' = toggle,
         ~Quiet(Edits) /\ Quiet(S) => form' = form
  PROVE  ForceInv'
<1> USE Names DEF TypeOK, calls, disk, page
<1>1. /\ pc' = [pc EXCEPT ![c] = "registry"] /\ state = "up" /\ sent'[c].auto = toggle
      /\ UNCHANGED <<state, file, live, registry, loaded, told>>
      /\ \A d \in Callers \ {c} : sent'[d] = sent[d]
      /\ \A d \in Callers \ {c} : pc'[d] = pc[d]
      /\ pc'[c] = "registry"
  BY DEF Request
<1>2. Ground'
  BY <1>1 DEF ForceInv, Ground
<1>3. Reloading'
  BY <1>1, Met DEF ForceInv, Reloading, Meaning
<1>4. Agree'
  BY <1>1 DEF Agree, Quiet
<1>5. CASE Quiet(Edits)
  <2>1. pc'["toggle"] = "idle" /\ \A d \in Savers : pc'[d] \in {"idle", "registry"} /\ (d # c => pc'[d] = "idle")
    BY <1>1, <1>5 DEF Quiet
  <2>2. Toggling' /\ Saving'
    BY <2>1, <1>1 DEF Toggling, Saving
  <2>3. QED
    BY <1>2, <1>3, <1>4, <2>2 DEF ForceInv
<1>6. CASE ~Quiet(Edits)
  <2>1. met' = MetBeside(S) /\ (OneEditAtATime' => Quiet(S) /\ OneEditAtATime)
    BY <1>6, Met DEF OneEditAtATime
  <2>2. OneEditAtATime' => Toggling'
    <3>1. Quiet(S) => pc["toggle"] = "idle"
      BY DEF Quiet
    <3>2. QED
      BY <2>1, <3>1, <1>1 DEF Toggling
  <2>3. OneEditAtATime' => Saving'
    <3>1. SUFFICES ASSUME OneEditAtATime' PROVE Saving'
      OBVIOUS
    <3>2. Saving /\ Edited' = Edited
      BY <3>1, <2>1, <1>6 DEF ForceInv, Edited, OrDefault
    <3>3. Registered => Registered'
      BY <1>1, <2>1, Met DEF Registered
    <3>4. QED
      BY <3>2, <3>3, <1>1 DEF Saving
  <2>4. QED
    BY <1>2, <1>3, <1>4, <2>2, <2>3 DEF ForceInv
<1>7. QED
  BY <1>5, <1>6

LEMMA PageForce ==
  ASSUME TypeOK, ForceInv,
         PageLoads \/ UserEdits \/ FieldLeft \/ ToggleAutoStart \/ Reload \/ Toggled
  PROVE  ForceInv'
<1> USE Names DEF Quiet, TypeOK, disk, page, calls
<1>1. CASE PageLoads
  <2>1. /\ form' = OrDefault(live) /\ toggle' = registry /\ met' = MetBeside(Edits) /\ state = "up"
        /\ UNCHANGED <<state, file, live, registry, pc, sent, loaded, told>>
    BY <1>1 DEF PageLoads
  <2>2. Ground' /\ Reloading'
    BY <2>1, Met DEF ForceInv, Ground, Reloading, Meaning
  <2>3. CASE ~Quiet(Edits)
    BY <2>1, <2>2, <2>3, Met DEF ForceInv, OneEditAtATime
  <2>4. CASE Quiet(Edits)
    <3>1. met' = met /\ Toggling' /\ Saving'
      BY <2>1, <2>4 DEF MetBeside, Toggling, Saving
    <3>2. Registered'
      BY <2>1 DEF Registered
    <3>3. Edited' = OrDefault(live)
      BY <2>1, Sent DEF Edited
    <3>4. Edited = InFile /\ live = InFile => Edited' = InFile'
      BY <2>1, <3>3, Sent DEF InFile, Meaning
    <3>5. InFile' = InFile
      BY <2>1 DEF InFile, Meaning
    <3>6. Agree => Agree'
      BY <2>1, <3>1, <3>2, <3>4, <3>5 DEF Agree
    <3>7. QED
      BY <2>2, <3>1, <3>6 DEF ForceInv, OneEditAtATime
  <2>5. QED
    BY <2>3, <2>4
<1>2. CASE UserEdits
  BY <1>2, SaveBegins DEF UserEdits
<1>3. CASE FieldLeft
  BY <1>3, SaveBegins DEF FieldLeft
<1>4. CASE ToggleAutoStart
  <2>1. /\ toggle' = ~toggle /\ form' = form /\ met' = MetBeside(Savers) /\ state = "up"
        /\ pc["toggle"] = "idle" /\ pc' = [pc EXCEPT !["toggle"] = "registry"]
        /\ sent'["toggle"].auto = toggle'
        /\ UNCHANGED <<state, file, live, registry, loaded, told>>
    BY <1>4 DEF ToggleAutoStart, Request
  <2>2. pc'["toggle"] = "registry" /\ \A d \in Callers \ {"toggle"} : pc'[d] = pc[d]
    BY <2>1
  <2>3. Ground' /\ Reloading'
    BY <2>1, <2>2, Met DEF ForceInv, Ground, Reloading, Meaning
  <2>4. CASE ~Quiet(Savers)
    BY <2>1, <2>3, <2>4, Met DEF ForceInv, OneEditAtATime
  <2>5. CASE Quiet(Savers)
    <3>1. met' = met
      BY <2>1, <2>5 DEF MetBeside
    <3>2. Saving'
      BY <2>2, <2>5 DEF Saving
    <3>3. Agree => Toggling'
      BY <2>1, <2>2, <2>5, <3>1 DEF Agree, Toggling, Registered
    <3>4. Agree => Agree'
      BY <2>1, <2>2, <2>5, <3>1 DEF Agree, InFile, Meaning, Edited, OrDefault
    <3>5. QED
      BY <2>3, <3>1, <3>2, <3>3, <3>4 DEF ForceInv, OneEditAtATime
  <2>6. QED
    BY <2>4, <2>5
<1>5. CASE Reload
  <2>1. /\ pc' = [pc EXCEPT !["reload"] = "check"] /\ state = "up"
        /\ \A d \in Callers \ {"reload"} : sent'[d] = sent[d]
        /\ UNCHANGED <<state, file, live, registry, form, toggle, loaded, told, met>>
    BY <1>5 DEF Reload, Request
  <2>2. pc'["reload"] = "check" /\ \A d \in Callers \ {"reload"} : pc'[d] = pc[d]
    BY <2>1
  <2>3. Ground' /\ Reloading'
    BY <2>1, <2>2 DEF ForceInv, Ground, Reloading
  <2>4. Toggling => Toggling'
    BY <2>1, <2>2 DEF Toggling
  <2>5. Saving => Saving'
    BY <2>1, <2>2 DEF Saving, Registered, Edited, OrDefault
  <2>6. Agree => Agree'
    BY <2>1, <2>2 DEF Agree, Registered, InFile, Meaning, Edited, OrDefault
  <2>7. QED
    BY <2>1, <2>3, <2>4, <2>5, <2>6 DEF ForceInv, OneEditAtATime
<1>6. CASE Toggled
  <2>1. /\ pc' = [pc EXCEPT !["toggle"] = "idle"] /\ state = "up"
        /\ \A d \in Callers \ {"toggle"} : sent'[d] = sent[d] /\ loaded'[d] = loaded[d]
        /\ UNCHANGED <<state, file, live, form, told, met>> /\ pc["toggle"] # "idle"
    BY <1>6 DEF Toggled, Reply, Goto, At
  <2>2. pc'["toggle"] = "idle" /\ \A d \in Callers \ {"toggle"} : pc'[d] = pc[d]
    BY <2>1
  <2>3. Ground' /\ Reloading'
    BY <2>1, <2>2 DEF ForceInv, Ground, Reloading, Meaning
  <2>4. SUFFICES ASSUME OneEditAtATime' PROVE Toggling' /\ Saving' /\ Agree'
    BY <2>3 DEF ForceInv
  <2>5. Toggling /\ Agree
    BY <2>1, <2>4 DEF ForceInv, OneEditAtATime
  <2>6. Toggling' /\ Saving'
    BY <2>1, <2>2, <2>5 DEF Toggling, Saving
  <2>7. ~told => Registered'
    <3>1. CASE registry' = sent["toggle"].auto /\ toggle' = toggle
      BY <3>1, <2>1, <2>5 DEF Toggling, Registered
    <3>2. CASE toggle' = ~sent["toggle"].auto /\ registry' = registry
      BY <3>2, <2>1, <2>5 DEF Toggling, Registered
    <3>3. QED
      BY <1>6, <3>1, <3>2 DEF Toggled
  <2>8. Agree'
    BY <2>1, <2>2, <2>5, <2>7 DEF Agree, InFile, Meaning, Edited, OrDefault
  <2>9. QED
    BY <2>6, <2>8
<1>7. QED
  BY <1>1, <1>2, <1>3, <1>4, <1>5, <1>6

\* A save or a reload that fails leaves nothing of its own behind, and the user knows.
LEMMA FailureForce ==
  ASSUME TypeOK, ForceInv, NEW c \in Savers \union {"reload"}, state = "up", Reply(c, FALSE),
         UNCHANGED <<file, live, registry, page>>, met' \in {met, met \union {"disk"}}
  PROVE  ForceInv'
<1> USE Names DEF Reply, Goto, TypeOK, page
<1>1. /\ pc' = [pc EXCEPT ![c] = "idle"] /\ told' /\ state' = state
      /\ \A d \in Callers \ {c} : pc'[d] = pc[d] /\ sent'[d] = sent[d] /\ loaded'[d] = loaded[d]
      /\ pc'[c] = "idle"
  OBVIOUS
<1>2. Ground'
  BY <1>1 DEF ForceInv, Ground
<1>3. Reloading'
  BY <1>1 DEF ForceInv, Reloading, Meaning
<1>4. SUFFICES ASSUME OneEditAtATime' PROVE Toggling' /\ Saving' /\ Agree'
  BY <1>2, <1>3 DEF ForceInv
<1>5. OneEditAtATime /\ met' = met
  BY <1>4 DEF OneEditAtATime
<1>6. Toggling'
  BY <1>1, <1>5 DEF ForceInv, Toggling, Quiet
<1>7. Saving'
  BY <1>1, <1>5 DEF ForceInv, Saving, Registered, Edited, OrDefault
<1>8. Agree'
  BY <1>1 DEF Agree
<1>9. QED
  BY <1>6, <1>7, <1>8

LEMMA SaverForce ==
  ASSUME TypeOK, SaveInv, ForceInv, NEW c \in Savers, Save(c)
  PROVE  ForceInv'
<1> USE Names DEF TypeOK, disk, page, calls
<1>1. CASE Reject(c) \/ CreateFails(c) \/ WriteFails(c) \/ RemoveTmp(c)
  BY <1>1, FailureForce DEF Reject, CreateFails, WriteFails, RemoveTmp, At
<1>2. CASE SetAutoStart(c)
  <2>1. /\ pc' = [pc EXCEPT ![c] = "create"] /\ state = "up" /\ pc[c] = "registry"
        /\ \A d \in Callers \ {c} : sent'[d] = sent[d]
        /\ UNCHANGED <<state, file, live, form, toggle, loaded, told>>
    BY <1>2 DEF SetAutoStart, Goto, At
  <2>2. pc'[c] = "create" /\ \A d \in Callers \ {c} : pc'[d] = pc[d]
    BY <2>1
  <2>3. /\ \A h \in {"overlap", "disk", "reload"} : h \in met' <=> h \in met
        /\ registry' = sent[c].auto \/ (registry' = registry /\ "registry" \in met')
    BY <1>2 DEF SetAutoStart
  <2>4. Ground' /\ Reloading'
    BY <2>1, <2>2, <2>3 DEF ForceInv, Ground, Reloading, Meaning
  <2>5. SUFFICES ASSUME OneEditAtATime' PROVE Toggling' /\ Saving' /\ Agree'
    BY <2>4 DEF ForceInv
  <2>6. Toggling /\ Saving
    BY <2>3, <2>5 DEF ForceInv, OneEditAtATime
  <2>7. pc["toggle"] = "idle"
    BY <2>1, <2>6 DEF Toggling, Quiet
  <2>8. Registered'
    BY <2>1, <2>3, <2>6 DEF Registered, Saving
  <2>9. Toggling' /\ Agree'
    BY <2>2, <2>7 DEF Toggling, Agree, Quiet
  <2>10. Saving'
    BY <2>1, <2>2, <2>6, <2>8 DEF Saving, Edited, OrDefault
  <2>11. QED
    BY <2>9, <2>10
<1>3. CASE CreateTmp(c) \/ WriteTmp(c) \/ RenameFails(c)
  <2>1. /\ pc[c] \in {"create", "write", "rename"} /\ pc'[c] \in {"write", "rename", "remove"}
        /\ \A d \in Callers \ {c} : pc'[d] = pc[d] /\ sent'[d] = sent[d]
        /\ UNCHANGED <<state, file, live, registry, form, toggle, loaded, told, met>> /\ state = "up"
    BY <1>3 DEF CreateTmp, WriteTmp, RenameFails, Proceed, Goto, At
  <2>2. Ground' /\ Reloading'
    BY <2>1 DEF ForceInv, Ground, Reloading, Meaning
  <2>3. Toggling => Toggling'
    BY <2>1 DEF Toggling, Quiet
  <2>4. Saving => Saving'
    BY <2>1 DEF Saving, Registered, Edited, OrDefault
  <2>5. Agree'
    BY <2>1 DEF Agree, Quiet
  <2>6. QED
    BY <2>1, <2>2, <2>3, <2>4, <2>5 DEF ForceInv, OneEditAtATime
<1>4. CASE Rename(c)
  <2>1. /\ pc' = [pc EXCEPT ![c] = "check"] /\ pc[c] = "rename" /\ state = "up"
        /\ file' = tmp /\ tmp # Absent /\ open = {} /\ met' = MetByReload(met)
        /\ UNCHANGED <<state, live, registry, form, toggle, sent, loaded, told>>
    BY <1>4 DEF Rename, Proceed, Goto, At
  <2>2. pc'[c] = "check" /\ \A d \in Callers \ {c} : pc'[d] = pc[d]
    BY <2>1
  <2>3. Ground' /\ Reloading'
    BY <2>1, <2>2, Met DEF ForceInv, Ground, Reloading
  <2>4. SUFFICES ASSUME OneEditAtATime' PROVE Toggling' /\ Saving' /\ Agree'
    BY <2>3 DEF ForceInv
  <2>5. OneEditAtATime
    BY <2>1, <2>4, Met DEF OneEditAtATime
  <2>6. Toggling /\ Saving /\ tmp = Edited
    BY <2>1, <2>5 DEF ForceInv, SaveInv, TmpShape, Renaming
  <2>7. Toggling' /\ Agree'
    BY <2>1, <2>2, <2>6 DEF Toggling, Agree, Quiet
  <2>8. Registered => Registered'
    BY <2>1, Met DEF Registered
  <2>9. Saving'
    BY <2>1, <2>2, <2>6, <2>8 DEF Saving, Edited, OrDefault
  <2>10. QED
    BY <2>7, <2>9
<1>5. QED
  BY <1>1, <1>2, <1>3, <1>4 DEF Save

LEMMA ReloadForce ==
  ASSUME TypeOK, ForceInv, NEW c \in Savers \union {"reload"}, ReloadConfig(c)
  PROVE  ForceInv'
<1> USE Names DEF TypeOK, disk, page, calls
<1>1. CASE Refuse(c)
  BY <1>1, FailureForce DEF Refuse, At
<1>2. CASE LoadConfig(c)
  <2>1. CASE Loads(file)
    <3>1. /\ pc' = [pc EXCEPT ![c] = "store"] /\ loaded' = [loaded EXCEPT ![c] = Meaning(file)]
          /\ pc[c] = "check" /\ state = "up"
          /\ UNCHANGED <<state, file, live, registry, form, toggle, sent, told, met>>
      BY <1>2, <2>1 DEF LoadConfig, Goto, At
    <3>2. /\ \A d \in Callers \ {c} : pc'[d] = pc[d] /\ loaded'[d] = loaded[d]
          /\ pc'[c] = "store" /\ loaded'[c] = Meaning(file)
      BY <3>1
    <3>3. Ground' /\ Reloading'
      BY <3>1, <3>2 DEF ForceInv, Ground, Reloading, Meaning
    <3>4. Toggling => Toggling'
      BY <3>1, <3>2 DEF Toggling, Quiet
    <3>5. Saving => Saving'
      <4>1. Saving /\ c \in Savers => Meaning(file) = Edited
        BY <3>1, <2>1, Constants DEF Saving, Loads, Meaning, Edited, OrDefault, Wanted, Whole
      <4>2. QED
        BY <3>1, <3>2, <4>1 DEF Saving, Registered, Edited, OrDefault
    <3>6. Agree => Agree'
      BY <3>1, <3>2 DEF Agree, Quiet, Registered, InFile, Meaning, Edited, OrDefault
    <3>7. QED
      BY <3>1, <3>3, <3>4, <3>5, <3>6 DEF ForceInv, OneEditAtATime
  <2>2. CASE ~Loads(file)
    BY <1>2, <2>2, FailureForce DEF LoadConfig, At
  <2>3. QED
    BY <2>1, <2>2
<1>3. CASE Store(c)
  <2>1. /\ pc' = [pc EXCEPT ![c] = "idle"] /\ pc[c] = "store" /\ state = "up" /\ live' = loaded[c]
        /\ \A d \in Callers \ {c} : sent'[d] = sent[d] /\ loaded'[d] = loaded[d]
        /\ UNCHANGED <<state, file, registry, form, toggle, met>>
        /\ told' = (told /\ c \notin Savers)
    BY <1>3 DEF Store, Reply, Goto, At
  <2>2. pc'[c] = "idle" /\ \A d \in Callers \ {c} : pc'[d] = pc[d]
    BY <2>1
  <2>3. Ground' /\ Reloading'
    BY <2>1, <2>2 DEF ForceInv, Ground, Reloading, Meaning
  <2>4. SUFFICES ASSUME OneEditAtATime' PROVE Toggling' /\ Saving' /\ Agree'
    BY <2>3 DEF ForceInv
  <2>5. Toggling /\ Saving /\ Agree
    BY <2>1, <2>4 DEF ForceInv, OneEditAtATime
  <2>6. Saving'
    BY <2>1, <2>2, <2>5 DEF Saving, Registered, Edited, OrDefault
  <2>7. InFile' = Meaning(file) /\ Edited' = Edited /\ (Registered => Registered')
    BY <2>1 DEF ForceInv, Ground, InFile, Meaning, Edited, OrDefault, Registered
  <2>8. CASE c \in Savers
    <3>1. pc["toggle"] = "idle" /\ pc'["toggle"] = "idle" /\ Registered
      BY <2>1, <2>2, <2>5, <2>8 DEF Toggling, Quiet, Saving
    <3>2. file = Edited /\ live' = Edited
      BY <2>1, <2>5, <2>8 DEF Saving
    <3>3. Meaning(file) = Edited
      BY <3>2, Defaults, Constants DEF Meaning, Edited, Whole
    <3>4. QED
      BY <2>6, <2>7, <3>1, <3>2, <3>3 DEF Toggling, Agree
  <2>9. CASE c = "reload"
    <3>1. Toggling'
      BY <2>1, <2>2, <2>5, <2>9 DEF Toggling, Quiet
    <3>2. live' = Meaning(file) \/ "reload" \in met
      BY <2>1, <2>9 DEF ForceInv, Reloading
    <3>3. InFile = Meaning(file)
      BY <2>1 DEF ForceInv, Ground, InFile
    <3>4. Agree'
      BY <2>1, <2>2, <2>5, <2>7, <2>9, <3>2, <3>3 DEF Agree, Quiet
    <3>5. QED
      BY <2>6, <3>1, <3>4
  <2>10. QED
    BY <2>8, <2>9
<1>4. QED
  BY <1>1, <1>2, <1>3 DEF ReloadConfig

LEMMA BesideForce ==
  ASSUME TypeOK, ForceInv, HandEdit \/ TrayToggle \/ UNCHANGED vars
  PROVE  ForceInv'
<1> USE Names DEF TypeOK, disk, page, calls
<1>1. CASE HandEdit
  <2>1. /\ file' \in Wanted /\ state # "first" /\ told' /\ met' = MetByReload(MetBeside(Savers))
        /\ UNCHANGED <<state, live, registry, form, toggle, pc, sent, loaded>>
    BY <1>1 DEF HandEdit, Beside
  <2>2. Ground' /\ Reloading'
    BY <2>1, Met, Constants DEF ForceInv, Ground, Reloading, Quiet, Whole
  <2>3. OneEditAtATime' => OneEditAtATime /\ Quiet(Savers)
    BY <2>1, Met DEF OneEditAtATime
  <2>4. OneEditAtATime' => Toggling'
    BY <2>1, <2>3, Met DEF ForceInv, Toggling, Quiet
  <2>5. OneEditAtATime' => Saving'
    BY <2>1, <2>3 DEF Saving, Quiet
  <2>6. Agree'
    BY <2>1 DEF Agree
  <2>7. QED
    BY <2>2, <2>4, <2>5, <2>6 DEF ForceInv
<1>2. CASE TrayToggle
  <2>1. /\ told' /\ met' = MetBeside(Edits)
        /\ UNCHANGED <<state, file, live, form, toggle, pc, sent, loaded>>
    BY <1>2 DEF TrayToggle, Beside
  <2>2. Ground' /\ Reloading'
    BY <2>1, Met DEF ForceInv, Ground, Reloading, Quiet, Meaning
  <2>3. OneEditAtATime' => Quiet(Edits)
    BY <2>1, Met DEF OneEditAtATime
  <2>4. OneEditAtATime' => Toggling' /\ Saving'
    BY <2>1, <2>3 DEF Toggling, Saving, Quiet
  <2>5. Agree'
    BY <2>1 DEF Agree
  <2>6. QED
    BY <2>2, <2>4, <2>5 DEF ForceInv
<1>3. CASE UNCHANGED vars
  BY <1>3 DEF vars, ForceInv, Ground, Reloading, Toggling, Saving, Agree, Registered, InFile, Quiet,
              Meaning, OneEditAtATime, Edited, OrDefault
<1>4. QED
  BY <1>1, <1>2, <1>3

\* A quiet program shows what is in force, on the disk and in the registry: "saved and in
\* effect", unless the user was told otherwise or has changed one of the copies himself.
\* Nothing is assumed of the page, the registry, the disk or the user: what stands in the
\* way is named in the property, and the next save that is alone sets it right.
THEOREM ShownIsInForce == Spec => []QuietMeansInForce
<1>1. Init => TypeOK /\ SaveInv /\ ForceInv
  BY InitType, InitSave, InitForce
<1>2. TypeOK /\ SaveInv /\ ForceInv /\ [Next]_vars => TypeOK' /\ SaveInv' /\ ForceInv'
  <2>1. TypeOK /\ SaveInv /\ [Next]_vars => TypeOK' /\ SaveInv'
    BY NextType, NextSave
  <2>2. TypeOK /\ SaveInv /\ ForceInv /\ [Next]_vars => ForceInv'
    BY LifeForce, PageForce, SaverForce, ReloadForce, BesideForce DEF Next
  <2>3. QED
    BY <2>1, <2>2
<1>3. ForceInv => QuietMeansInForce
  BY Names DEF ForceInv, Ground, Agree, Registered, InFile, Edited, Quiet, QuietMeansInForce
<1>4. QED
  BY <1>1, <1>2, <1>3, PTL DEF Spec
=============================================================================
