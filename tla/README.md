# Verification of the Outlook archiver

This directory holds a TLA+ specification of the Outlook archiver in `src/`: a
Windows tray program that moves old mail from a mailbox into one PST file per
quarter, through Outlook's COM interface. The modules model the parts of the
program where several goroutines, a live Outlook and failing calls meet. TLC
checks them on small instances, and TLAPS proves the invariants that matter most
for every instance.

Contents: [the system](#the-system), [the modules](#the-modules),
[the runs](#the-runs), [fairness](#fairness), [proofs](#proofs),
[what the runs found](#what-the-runs-found), [limits](#limits), [not modelled](#not-modelled), [plan](#plan).

## The system

### Components

| component | state it keeps | operations | what makes it correct |
|---|---|---|---|
| COM bridge (`outlook/bridge.go`) | channel of tasks, thread id, one result channel per call | `Run`, `Submit`, `SubmitWithContext` | closures run one at a time and at most once; a caller with a background context returns only when its closure is over; a nested call does not deadlock; the worker comes to its exit |
| Namespace cache (same file, `pst.go`) | MAPI namespace, proxy of Outlook | get, invalidate, quit, kill, start | the cached proxy belongs to the Outlook that runs; a deletion that closes Outlook brings it back |
| Scheduler (`scheduler/scheduler.go`) | state, configuration, ticker, `stopCh` | `Start`, `Stop`, three triggers, `ReloadConfig` | one task at a time; the ticker is paused by the exclusive tasks, resumed by each of their ends, never revived after `Stop`, and has the interval in force |
| Archiver (`archiver/archiver.go`) | result counters, list of files to delete | `Archive`, `processFolder`, `ExecuteIndependentDeletion` | the batch limit, no mail passed over, no recent mail archived, counters that add up |
| Reorganizer (`archiver/reorganizer.go`) | list of PSTs, progress | discover, rectify, migrate | each mail ends in the quarter of its time, and in one place |
| Restore (`archiver/restore.go`) | duplicate index, list of files | `Restore` and its helpers | no mail deleted as a duplicate without a survivor of its key; only empty files deleted |
| Folder walk (`outlook/folder.go`) | none | walk, include and exclude rules, time field | a file is not judged by folders that were left out |
| PST mounting, mail operations (`outlook/pst.go`, `mail.go`) | Outlook's stores | mount, unmount, move, copy, delete, count, times | what a failed call leaves behind |
| Program (`main.go`), tray (`tray/tray.go`) | contexts, click loop | start, quit | the process always ends; a quit cuts tasks short |
| Web server (`server/server.go`) | `isRunning`, shutdown channel, heartbeat | `Start`, `Stop`, monitor, quit, configuration, actions | the tray's check mark tells whether it runs; it stops when no page is left; a quit ends the program |
| Web page (`web/index.html`) | form, autostart switch | saves on change and on blur, heartbeat, log stream | what it shows is in force, and is what was saved |
| Configuration, autostart (`config/config.go`, `registry/`) | `config.yaml`, its temporary copy, the Run key | load, save, validate, set | the file is whole at every moment |
| Log stream (`server/log_stream.go`, `logger/logger.go`) | clients, channel of log lines | publish, subscribe, leave | lossy by design; no send on a closed channel |
| Quarter routing (`router/`), disk monitor, single-instance lock, COM references | none, or Windows' | pure functions, one kernel call, counting | per function |

### Interactions

Everything that touches Outlook goes through the COM bridge: a goroutine sends a
closure on a buffered channel of 64 and waits on its own result channel, and one
worker, locked to its OS thread, executes the closures. A closure may submit
again; the bridge recognises its thread and runs the nested closure in place.

The tray's click loop, the HTTP handlers and the scheduler's ticker all call the
scheduler's triggers. The scheduler guards its state with a mutex and runs the
task in the goroutine of whoever triggered it; the task submits to the bridge.
The configuration is read from the file under the scheduler's `cfgMu` and copied
by tasks at several points. A restore hands the files it emptied to the archiver,
which closes Outlook, removes them, and starts Outlook again.

There are two contexts: the tray's, cancelled in `onExit`, and main's, cancelled
when the tray is gone. The bridge's worker and the scheduler's loop end with
main's, tasks from the tray and the web page with the tray's. main then polls the
scheduler's state for at most 15 seconds and exits.

### Where it is hard

* A call can be abandoned while its closure is queued or executing (`bridge.go:136`).
* The worker drains its channel once and leaves; later calls still find the
  buffered channel open (`bridge.go:127`).
* A reload checks, reads, stores and resets in separate critical sections
  (`scheduler.go:55-77`), beside triggers that pause and resume the same ticker.
* On exit, tasks, bridge, ticker and main end in any order (`main.go:79-97`).
* COM calls fail at any point of a loop: an item is not read, a copy stays, a
  folder is not listed, a count is zero for a reason other than emptiness.
* Blocks of indexes are counted down over a collection that changes while it is
  processed (`archiver.go:273`), with counters that span folders and blocks.
* A dry-run flag, an interval or a path may change between two reads of one task.
* Outlook may be closed and started again, by the user or by the program, between
  any two calls, while a proxy of the old process is cached (`pst.go:24`).
* The page saves one edit twice, on change and on blur, and both requests write the
  same temporary file (`server.go:213`), perhaps beside those of the next edit.
* Errors of single reads are dropped: a subject or a time that cannot be read becomes
  part of a mail's key (`restore.go:221`), a folder of unknown kind one of mail
  (`folder.go:177`), and the errors of the kill and the start of Outlook are not looked
  at (`archiver.go:133`, `:149`).
* Up to three goroutines call `Stop` of the web server, which leaves its mutex before
  it waits for the connections and before it calls back (`server.go:140`).

`PROJECT.json` lists these hazards line by line, each with the properties that
would catch it going wrong or the reason why none does yet.

## The modules

    TaskService   what the bridge promises       <--- ComBridge implements it
    ComBridge     bridge.go                      <--- ComBridgeProofs
    Scheduler     scheduler.go                   <--- SchedulerProofs
    Shutdown      main.go, tray.go: INSTANCEs ComBridge and Scheduler
                                                 <--- ShutdownProofs
    Restore       restore.go, the deletion of files, the folder walk
                                                 <--- RestoreProofs
    Archive       archiver.go, CopyItem          <--- ArchiveProofs
    FolderWalk    folder.go: which folders, which time field
    Reorganize    reorganizer.go, mounting, routing: EXTENDS FolderWalk
                                                 <--- ReorganizeProofs
    NamespaceCache  bridge.go, pst.go, the deletion of files  <--- RestoreProofs
    ConfigStore   config.go, handleConfig, page, registry      <--- ConfigStoreProofs
    WebServer     server.go, log_stream.go, tray.go            <--- WebServerProofs

An `MC` module of the same name gives the constants values for TLC. A definition
that starts with the comment "Mutant" is a wrong version of the definition that
follows it. No specification uses it: it records a plausible bug that the property
named beside it in `PROJECT.json` detects.

**ComBridge** models each call by its caller, its closure and its result channel.
`SubmitInline` and `SubmitTask` are the two sides of the thread comparison,
`Enqueue`, `Receive` and `GiveUp` the branches of the two selects; `Take`,
`FinishRoot`, `Panic`, `BeginDrain`, `Drain` and `Exit` are the worker. The stack
is the nest of closures that execute. A goroutine that is scheduled on the
worker's former thread after `Exit` passes the comparison, because `threadID` is
never cleared; `SubmitInline` allows that. What a closure does is left open:
it may call, return or panic.

**TaskService** is the promise without channels: a closure is pending, executes,
is over, was refused or panicked, and its caller is told so or, if its context
can be cancelled, walks away. The refinement maps a closure that is unsent or in
the channel to a pending request, one on the stack to an executing one, one that
is over to its fate, what the caller has returned to the reply, and a worker that
has not left to an open service.

**Scheduler** has one action per critical section. A trigger is two steps, the
check-and-set and its end; a reload is four. Tasks read the configuration at any
time while they run. Ticker channels follow the rules of Go 1.23 and later
(`go.mod` asks for 1.26), where `Stop` and `Reset` discard a stale tick. The
disk checks only decide that a task ends early, which `EndArchive` and
`EndExclusive` allow anyway.

**Shutdown** composes the two: a task is a chain of bridge calls. `ArchivePlan`,
`ReorganizePlan` and `RestorePlan` say which call may follow which, after success and
after failure: an archive walks the mailbox and submits a closure per folder; a
reorganization goes on to list, mount and scan files and to submit a closure per folder
of each; a restore lists, finds the inbox, mounts, scans, makes a target and submits a
closure per folder, counts, unmounts and at the end quits Outlook. Only the closures of
folders carry the task's context, all other calls are made in the background, and the
loops look at the context where `Checked` says. main asks the tray to quit, cancels,
stops the scheduler and waits.

**Restore** follows one restore through collecting and mounting files, walking a
file, comparing and moving the mails of a folder, judging the file empty and,
later, removing it with Outlook closed. Calls fail anywhere. The constant
`Hazards` switches on what the code does not defend itself against: a walk that
leaves folders out, mail in the root folder of a store, which the walk does not
list, an `Items` that is nil, a user who files mail into the PST after it was
counted. `Home` is the default mailbox, and may be one of the PSTs. `Delete` removes
the mail for good in the model, although Outlook keeps deleted mail in a folder
of its own: that folder is emptied by the user or by a policy. The key of a mail is
what was read of it (`KeyRead`): an error of the subject gives an empty one, a failing
time that of the creation, or none at all, when the folder is indexed as well as when
the mail is visited. `twins` remembers which mails stood for one that was deleted.

**Archive** is one pass after another over a mailbox. `OpenFolder` counts the
matching mails once; `NextBlock`, `ReadOk`, `ReadFails` and `ReadDone` read a
block of a live collection forwards; the `Handle` actions take its mails from the
end and move, copy, skip, or fail; `BlockDone` and `LeaveFolder` count what was
left out. The code counts up matched, moved, failed and skipped. The model keeps
`owed`, matched less all of the others and less the items that could not be read,
because every property is about that difference. Mails are found by identity
(`GetItemFromID`), items by index, as in the code. If `Restrict` does not
understand the date format it may let all mail through; if `Sort` fails the
order is reversed. A panic ends the closure, and its counts with it. When a call
was cancelled, Archive reads `moved` without waiting for the closure that writes
it, so either value is possible.

**FolderWalk** has the rules of the folder walk as operators: `Enters` and `Lists`
follow the order of the tests in `walkFoldersRecursive`, `Walked` is what the walk
lists, `Seen` what is left of it when Outlook does not hand out some folders.
A folder is reserved by its name, or because its items are not mail; a kind that cannot
be read (`untyped`) lets such a folder through (`folder.go:177`). `ByRule` states the
same rules without a walk and serves as reference: the properties of Reorganize use it,
the actions use `Walked`. `TimeFields` is
`getTimeField` over all folders of the mailbox, by id if the id of the folder of
sent mail could be had and by name otherwise; PST files always go by name.

**Reorganize** counts the items of each mail in each folder of each store. `Begin`
to `MailboxDone` are phase 1, an archive pass without a limit; `Discover` is
`discoverPSTs`, where `ListedTimes` counts how often a file ends up in the list:
directories are compared as they are written (`Texts`: a directory and its spelling),
so that one written in two ways is read twice, and a file below two is found twice;
`OpenFile` to `CloseFile` are `processPST`, first for the quarters' files and then
for the others. A folder is one step, in which any part of its mails may fail,
because Archive has the loop over its blocks. Beside it run a cancellation, a
reload that had passed its idle check, and a user who moves items about. What the
code reads once is a copy (`mode1`, `rules`), what it reads for each folder is not
(`mode`). A path is a sequence of names without separators in them; names are
equal when Outlook takes them for equal. `Sent` and `Received` give the quarter of
a mail by either of its times, so the arithmetic of `CalcQuarter` is not repeated.

**NamespaceCache** numbers the starts of `OUTLOOK.EXE`; a proxy carries the number of
the one it belongs to. `CacheHit` to `NoNamespace` are `getNamespace`, whose test of
a cached proxy is only that some Outlook runs, and `Use` is what its caller does with
the result. `PassStarts` is the look of `Archive` at the process list, which a pass
takes before it submits; the page's list of mounted files (`PageCall`) has no such
look. `DeletionBegins` to `StartOutlook` are `ExecuteIndependentDeletion`: two
closures on the COM thread (`InvalidateNamespaceCache`, `QuitOutlook`), five looks at
the process list, a kill, the removal, the start. The two closures are refused when
the bridge has gone, and their errors are ignored. Outlook itself (`ComesUp`,
`GoesDown`, the user) is external: it starts before it answers and answers while it
closes. The kill and the start are no more than a command whose error is ignored
(`ForceKillOutlook`, `StartOutlook`); `notStarted` remembers a start that failed.
Nothing keeps the page's requests away from any of these steps. `overtaken` and
`cachedLate` remember the two kinds of proxies that dangle unseen: those cached when the
user restarted Outlook and no call came to the cache while it was down, and those that
a request of the page cached while the program itself was restarting Outlook.
The names of its specification begin with Cache, because RestoreProofs
reads the module beside Restore.

**ConfigStore** has the five places of the settings: the file, its temporary copy,
the configuration in force, the Run key and the page's form. A configuration is one of
its numbers, because every step of a save treats the file as a whole. `Reject` to
`RemoveTmp` are `handleConfig` and `SaveConfig` step by step, `Refuse` to `Store` are
`ReloadConfig` for a save as well as for the menu and the page's button, `Toggled` is
`handleActionAutostart`. The page's values are those it sends: a zero becomes the
default (`OrDefault`). Two saves run at a time, of one edit (on change and on blur) or of
two; the user, the tray, an editor, a reload and a task of the scheduler interfere at any
step. A save ends in an error at each of its steps, and `told` remembers that the user
has heard of it; an error of `SetAutoStart` is only logged. Windows does not rename or
remove a file that another handle keeps open, which `Rename` and `RemoveTmp` respect.
Nothing is switched off. What the code does not defend itself against is recorded in
`met` when it happens, and forgotten when it is over: `"overlap"` (a second change during
a save) and `"disk"` (a full disk for one of two saves) until a save begins alone,
`"reload"` (a reload that read the old file and puts it in force after the new one was
saved) until the next file, `"registry"` until the Run key is set again.

**WebServer** is the server's life. Each `Start` makes a new channel `shutdownCh`,
numbered here; each has a monitor. `Stop` is three steps, because it releases `ws.mu`
before it waits for connections and calls back. The callers of `Stop` are the
monitors, the tray's click loop and the goroutine of the page's quit button. The
loop takes a click only while it waits for one, since it runs tasks itself. A
monitor reads `shutdownCh` anew in each round (`Selects`), so it may wait for a later
channel than its own. The log stream has the hub's set of clients and the two steps
in which a client leaves it. `Hazards` has `"restart"`: a start while a
`Stop` is between its steps.

## The runs

| run | expects | question |
|---|---|---|
| `bridge` | pass | Is every task that was taken in answered, do nested calls return, does the worker leave, does the bridge implement `TaskService`? |
| `scheduler` | pass | One task at a time; a ticker neither lost, nor revived, nor with a stale interval unless reloads crossed; at most a bounded change of the configuration under a task. |
| `shutdown` | pass | Does main end, what can hang, how much work is begun after a quit? |
| `restore` | pass | Does a mail of the same key survive each that is deleted as a duplicate; are only empty files removed? |
| `restore_partial_walk` | violation | The same with a walk that leaves out a folder. |
| `restore_default_store` | violation | The same with a default mailbox that is a PST. |
| `archive` | pass | Limit, accounts, no mail passed over, none too early, none that starves. |
| `reorganize` | pass | No item handled twice but for the named exceptions, everything filed after a clean pass, nothing to do for the next, the mailbox's rules kept by both phases. |
| `outlook` | pass | In which cases is a proxy of a dead Outlook handed out, and does Outlook come back after a deletion? |
| `outlook_stale` | violation | Does archiving go on after the user has restarted Outlook? |
| `config` | pass | Is `config.yaml` whole at every moment, and is what the page shows in force? |
| `web` | pass | Does the check mark tell the truth, does a server without a page stop, does a quit end the program? |

Bounds, and why they are enough:

* `bridge`: one call under each kind of context and two nested calls, a channel
  of one slot. Then one closure executes with a second one inside, one is queued
  and one finds the channel full, which are all the relations two calls can have.
  Every call is made once: a repeated call is a new call.
* `scheduler`: two clients beside the timer loop, two reloaders, each of which reloads
  again and again, and three edits of the file (`MaxVersion`), so that crossed reloads,
  the end of a task between their steps and a later reload that mends the interval all
  happen.
* `shutdown`: one client and the timer loop. Two successive calls of each task are
  followed (`MaxCalls`), beginning anywhere in its plan: a call that has returned leaves
  nothing behind in the bridge but, if it was cancelled, a closure ahead of all later
  ones. One folder closure may begin after the cancellation, the second must not.
* `restore`: two files, two folders and three mails of which two are copies, so that a
  copy can be in the same file, in the other one or in the mailbox. The third has another
  subject and time and the same time of creation, so that failing reads give it the key
  of the others. Files and copies are symmetric.
* `archive`: two folders, one old mail in each, a mail that can never be moved,
  and a recent one that arrives; blocks of one and two items; limits 0, 1, 2;
  move, copy and dry run. Two transient errors (`MaxErrors`) are enough to lose
  two items of one block, or one read and one move. The user deletes only the
  mail that cannot be moved (`Unwanted`); otherwise a deletion would be a cheap
  way for `NoMailStarves` to hold.
* `reorganize`: two quarters, one file of another name, and a mailbox that is itself a
  PST file; an inbox, a folder of sent mail below it and a folder of tasks, whose kind
  may be unreadable; a mail that was sent in one quarter and received in the next, in any
  place, and a recent one. Folders reserved by name are left to `WalkedIsByRule`. The
  three configurations list everything, a folder below one that is not listed, and a
  folder with an excluded one below it; their directories offer the other file once, up
  to three times (its own in two spellings, and one above it), and once from above. Two
  passes (`MaxPasses`), because the second one shows what the first left to do. One
  trouble (`MaxTroubles`): a failing call, a reload, or a move by the user, at any point.
  Copies are not bounded: a finite number of passes makes finitely many.
* `outlook`: four starts of Outlook (`MaxStarts`). The user takes up to three of them
  and the last is left to the program, so that Outlook is restarted before, during and
  after a deletion. Five looks (`Polls`) are the code's, two seconds apart
  (`archiver.go:122`). `outlook_stale` needs three: one that is cached, one that follows it, one unused.
* `config`: unlimited (0), the default and one other value, so that an old configuration
  differs from a new one and a zero from what is sent for it. Two unanswered requests
  (`Together`): every pair of a save, another save, a reload and the switch meets at every
  step.
* `web`: two servers (`MaxGen`), or one and a start that fails, so that the monitor of a
  stopped server meets its successor; one log stream and a channel of one line
  (`LogCap`), which is full at once. A stream leaves and comes back any number of times.

Deadlock is checked in `config`, where the program can always be started again. The
other models stop, because programs that quit, restores that end, mailboxes that are
empty and bounded starts do; liveness properties take the place of the check.

## Fairness

Stated per action. It is weak fairness except where a queue is behind it.

* ComBridge: the worker takes and finishes what it can, closures end, a caller
  takes the branch of its select that stays ready. This is the Go scheduler, and
  the assumption that a COM call returns. A caller is *not* assumed to take the
  branch of its cancelled context instead of an answer.
* Shutdown: only main is fair, once it was asked to quit. No task, closure
  or worker needs to move for main to end.
* Archive: the ticker starts passes again, and a pass that runs goes on. Errors
  are bounded by `MaxErrors`, so no call fails for ever except on mails in
  `Stuck`, which always fail.
* NamespaceCache: closures, the deletion and Outlook's own changes go on. Calls that
  wait for the COM thread have strong fairness, because its channel is first in, first
  out (ComBridge), while the model only has them compete for a free thread. User,
  page and quit are not fair. `ArchivingResumes` assumes by its premise that Outlook
  stays up.
* WebServer: a goroutine that can go on does, and five minutes pass. Nobody need click,
  open a page, close one or leave a stream, and a task in the click loop may last for
  ever. `srv.Shutdown` returns after ten seconds at the latest.
* Scheduler, Restore, Reorganize and ConfigStore state safety only.

## Proofs

tlapm checks every theorem of the eight proof modules, for all values of the
constants under the assumptions of the modules (`ConstantsOK`, `CacheConstantsOK` of
NamespaceCache, and `PathsOK` of FolderWalk: the path of a folder is a sequence of names,
not empty, and the folders above a folder are folders).

**ComBridgeProofs.** `TypeOK` and `ReturnedMeansQuiet` are not inductive: that a
finished closure is not queued a second time, or that a panic answers the right
caller, depends on what stack and queue hold. The invariant is
`TypeOK /\ StackShape /\ QueueShape /\ CallerShape /\ NestedShape`: the stack is a
root closure with distinct nested ones over it, all running; the queue has no
repetition and only closures that have not started; what caller and result
channel know agrees with the closure; a nested call never waits outside of the
worker. One lemma covers the steps of callers, one those of the worker.

`Refinement` proves `ImplementsTaskService` for any calls, contexts and capacity. Two
more invariants carry it. `Executed`: while the worker is there, what executes is what
its stack holds; once it has left, the stack is empty, and only then may a root closure
run in place. `Together`: a nested call and its closure go together, so the service
sees them as one. Steps inside the bridge map to stutters, the others to one step of
the service; `CallRefines` and `WorkerRefines` treat the two sides.

**SchedulerProofs.** `Mutex` (one task, named by the state), `StopFinal`,
`TimerSurvives` and `TypeCorrect` hold for any clients and reloaders, whatever
overlaps. `PausedWithoutReloads` assumes that there are no reloads, and so shows
that a reload that overlaps the start of a task is the only thing that restarts the
ticker.
`IntervalFollowsConfig` holds for any number of reloaders. Its invariant says that the
interval is the one in force, or that the last store is still to be followed by its own
reset, or that the last reset was an overtaken one (`Overtaken`). `DriftBounded` shows
`BoundedConfigDrift` for finitely many reloaders by a stronger count: the configurations
a task has seen, with the one in force, and the reloads that have passed their check and
not stored yet are together at most one more than the reloaders (`Drift`). A reload is
checked only between tasks and moves from the second count to the first when it stores.

**ShutdownProofs.** The bridge's invariant comes with an instance of ComBridgeProofs. On
top of it, `Order`: the calls of a task are made in order, one after another, each
folder's after a look at the context. `OneAhead`: of each task at most one folder
closure may still begin. `LateOnce` and `Cancelled`: only a cancelled context lets a
call return before its closure is over, and the worker leaves only with main's context.
From these follow `CancelStopsSoon` and `OnlyBackgroundHangs`, for any number of tasks and
calls and any capacity; `ArchiveStages` adds that an archive makes no background call but
its walk. `ImplementsScheduler` shows that the composition implements
Scheduler without reloads, so that the mutual exclusion of tasks, proved there, holds of
the whole program (`OneTask`).

**RestoreProofs.** `TypeOK` holds with every hazard. The results on mail hold for any
stores, folders and mails under `Undisturbed`: no hazard, and a default mailbox that is
not one of the PSTs. The two violation runs show what becomes of them without the first
and the second of these. `RemovedWereEmpty` states `OnlyEmptyFilesDeleted`, and
`NothingLost` says that a restore without the option to delete duplicates loses no mail
at all; neither depends on what the keys of duplicates can tell apart. `CopySurvives`
states `TwinSurvives`: of a mail that was deleted as a duplicate another one survives
of which the same key was read, however coarse the keys are and whichever reads fail.
The invariant has these parts.
`AllListed`: a verdict is given over all folders, and mail lies nowhere else.
`PendingEmpty`: a file that waits for its removal has no mail and gets none, whatever
the rest of the restore and the user do before Outlook is shut down. `KeysHeld`: every
mail in the index has been visited or lies where no mail will be (`Past`), so that no mail
is ever the duplicate of one that is deleted after it. `TwinsHeld`: a mail that is gone
has such mails for twins. `Turn` tells which file is at hand. From these follow
`TwinSurvives` and `NoneLost`.

**ArchiveProofs.** `BatchLimit` and `Accounted` speak about moments between
blocks and folders. The invariant adds what holds inside of them: `PlaceShape`
(a closure is in a folder, the index in its block, nothing is moved yet between
folders), `Books` (the code still has to account for exactly the items before the
end of the block, the rest of the block at hand, and the items of the block not
yet read) and `Counts` (what the result and the closure have counted is what was
moved, and within the limit). `Books` is an inequality once a read was cut short
by a cancellation or a closure by a panic. The arithmetic of the last, shorter
block is in `Beyond`. The theorems hold for any mailbox, also one that changes
under the pass in ways the run does not try.

`RecentKept` (no mail younger than the cutoff leaves the mailbox) needs no invariant:
the only step that moves a mail looks at its age again, and the types suffice.

`AllVisited` states `EveryMailVisited`. The invariant, `VisitInv`, follows the indexes
of the mails that are `missed`, the ones listed and not read yet. Between blocks they
are up to `end`, while a block is read they are before the block or still to be read
in it, while it is handled they are before the block (`ToCome`). A mail that is handled is
behind all of them (`Snapshot`), so taking it away, or leaving a copy of it
beside it, changes none of their indexes (`IndexKept`). That is where the theorem needs
its hypothesis: the copies of one mail stand side by side in a folder at the start, as they
do when it is sorted by time. The model finds a mail by what it is and so may take another
copy than the one that was read. `CopiesTogether` keeps them side by side. Without the
hypothesis a copy left beside the newer of two equal mails shifts what lies between them,
and one mail is passed over.

The second half of RestoreProofs is about NamespaceCache, which stands for the same
deletion seen from Outlook's process. `LiveProxies` states `HandsOutLive` without a
hypothesis, for any number of starts and looks. The invariant says that what is cached
while some Outlook runs belongs to it or is one of the two exceptions (`CacheFresh`),
that from the quit of a deletion until its start nothing is cached but by a request of
the page in that time (`RestartQuiet`), and that no pass is under way beside a deletion
(`Alone`). `RestartQuiet` begins at the quit and not at the invalidation, because the page
may fill the cache again between the two; that is why the quit has to empty it a second
time.

**ReorganizeProofs.** Everything here holds for any folders, quarters, files, mails,
configurations, numbers of passes and of troubles. `WalkedIsByRule` shows that the walk
lists what the rules name, for any paths: below a folder that is entered nothing is lost,
because an excluded or reserved folder stays one for all below it, and every folder on
the way to an included one is entered. Four theorems state what a run checks:

* `EverythingFiled` (`AllFiled`) and `SecondPassIsQuiet` need no hypothesis. The
  invariant is `FilingInv`. `Progress` says during a clean pass that moves that whatever
  is still in a wrong place is in a folder the pass has not reached yet: `HomeLeft` for the
  mailbox, `FileLeft` for a file (it is listed or open, or discovery is still to come).
  For this, `FoundAgain` keeps what a pass has found inside what a pass would find now,
  and `OnDisk` keeps mail out of files that do not exist, which discovery does not list. A
  file that takes a mail takes it in the right place, so nothing behind the pass is
  spoilt (`ProcessResult` is the step of one folder, `ReachKept` and `NothingWanted`
  say what it leaves). `Filed` carries the result from the end of that pass to the next.
* `EachHandledOnce` (`HandledOnce`) rests on a bound: the items a pass has placed
  and the items it may still take are together no more than there were before it
  (`Accounted`). `MayTake` names what may still be taken. An item that is moved leaves it, or
  goes to a file where it is in its right place; an item that is copied is in a folder
  that is done with. `ListedOnce` adds that a file is listed once unless `FoundTwice`. The
  mails of `Repeats`, where the code does handle an item again, leave the bound when they
  are met (`again`). The items are counted as a finite set of pairs (`Bag`), for which
  one section of the module has the lemmas.
* `MailboxRulesKept` (`MailboxRules`) needs `Control`: the list of phase 1
  has only folders by the rules in force when it was made, and phase 2 opens no store
  but the files. The mailbox may be one of them; the property speaks of the steps that
  have another file at hand.

**ConfigStoreProofs.** Neither theorem has a hypothesis. `SettingsKept` (`config.yaml`
stays whole) holds for any values and any number of requests, while edits are saved one at
a time and the disk does not fill between two saves (`OneEditAtATime`); a zero, a failing
registry and a reload in between do no harm. The invariant `SaveInv` says that all saves
under way carry what the page shows (`Carried`), that the handles on the temporary file
belong to those about to write it (`Handles`), and that it holds nothing or exactly that
text while somebody writes it, and is whole or gone when somebody renames it
(`TmpShape`). `Handles` holds always, so that a save that begins alone finds no handle
open and starts anew whatever earlier ones have left. `ShownIsInForce` adds `ForceInv`:
a reload that is about to store has read the file at hand or is recorded (`Reloading`),
how far each save has brought what the page shows (`Saving`), what the switch carries
(`Toggling`), and that what the page shows is in the file and in force whenever no save is
under way and the user has heard of no difference (`Agree`).

**WebServerProofs.** `MenuIsTrue` states `MenuTells` for any number of servers, streams
and any capacity, if the server is not started during a stop. `MenuInv` says that while
the server runs nobody is past the first step of a `Stop`, that while it does not the
item is unchecked or a callback on its way, and that a tray about to check the item
has a server nobody will stop before: its heartbeat is fresh, so no monitor can
decide to (`CheckShape`).

Only model-checked: everything temporal with fairness (`TakenInIsAnswered`,
`NestedCallReturns`, `WorkerExits`, `MainReturns`, `NoMailStarves`,
`OutlookComesBack`, `IdleServerStops`, `QuitEnds`), which is out of the prover's reach. Every
safety invariant, action property and refinement of the passing runs is stated by a
theorem.

## What the runs found

Each finding is a run that is expected to end in a violation; `PROJECT.json`
quotes the text it contradicts.

1. `outlook_stale`: the cached proxy is taken for alive because some Outlook runs. A pass
   while Outlook is closed never touches the cache, so after the user has restarted
   Outlook every pass fails until the program is restarted.
2. `restore_partial_walk`: one COM error in the walk of a file hides a folder, and
   the file may be removed with the mail in it.
3. `restore_default_store`: if the default store is a PST, each of its mails is
   deleted as a duplicate of itself.

The passing run `restore` holds with the last two excluded: `MCRestore.cfg` has
`Hazards = {}` and a `Home` outside `Psts`. The run `outlook` contains the first, and
`HandsOutLive` names it.

More facts follow from the code. The models contain them and the properties are stated
so as to allow for exactly these cases, but no run is kept for them:

* A task sent after the worker's only drain is never answered (`bridge.go:69`, `:127`).
  An archive may hang in its walk for that reason, a reorganization or a restore in any
  call it makes in the background (`reorganizer.go:166`, `:255`, `:264`, `restore.go:53`,
  `:91`, `:139`, `:155`, `archiver.go:115`), none in the closure of a folder
  (`OnlyBackgroundHangs`), and main then waits out its 15 seconds.
* A reload whose idle check came first restarts the ticker that a reorganization or a
  restore has paused (`scheduler.go:71`), although the comment on the pause says that it
  stays paused. `TaskMutex` keeps the tick harmless.
* Two reloads that store in one order and reset in the other leave the ticker with the
  older interval (`scheduler.go:63`, `:71`) until a task ends or a reload runs alone
  (`Overtaken`). The page's double saves overlap so.
* A request of the page for the mounted files between the quit and the end of Outlook
  fills the cache with a proxy that dangles after the restart (`server.go:247`), with
  the same effect as the first finding (`cachedLate`). If the start of Outlook fails,
  nothing tries again (`archiver.go:149`).
* In a mailbox whose folder of sent mail has a name of another language phase 1 files by
  time of sending, by the folder's id, and phase 2 moves the mail again to the quarter of
  its receipt, by the name (`folder.go:231`). With copy_only a file is copied from once
  for each directory that offers it (`reorganizer.go:214`), nested ones and two spellings
  of one included (`reorganizer.go:182`); and if the mailbox is itself a PST in a scanned
  directory both phases copy it, and phase 2 takes its mail with no regard to rules and
  retain_days. `Repeats` and `cur # Home` name these in `HandledOnce` and `MailboxRules`.
* A folder of tasks or contacts whose kind cannot be read is walked as one of mail
  (`folder.go:177`).
* Saves of two edits that overlap may leave a mixture of both in `config.yaml`, and so
  may a disk that is full for one of two. A registry that fails is logged, and the save
  reports success (`server.go:208`). A reload that has read the old file while a save
  replaces it may put the old settings in force after the new ones.
* A zero is shown as "unlimited" by the page (`index.html:225`) and replaced by 500 when
  it is saved or loaded (`index.html:728`).
* Two different mails with the same subject and second of arrival, or whose subject and
  time cannot be read, have one key (`restore.go:221`) and count as duplicates: one of
  them is deleted. `TwinSurvives` claims no more than a survivor of which the same key
  was read.
* main may log that all tasks have completed in the middle of a closure whose caller
  was cancelled (`main.go:86`).
* copy_only with more matching mails than `max_batch_size` copies the same mails in each
  period and never the others (`archiver.go:402`); `NoMailStarves` leaves this
  combination out.
* Three statements of `docs/USER_GUIDE.md` about a reorganization are not what the code
  does: line 225 says that phase 1 ignores retain_days and archives all mail, where
  `reorganizer.go:90` keeps it, as its comment says; line 226 that it works in batches of
  max_batch_size, where it is one pass without a limit (`reorganizer.go:88`); line 232 that
  emptied PST files are cleared away. `MailboxRules` states what the code does with
  retain_days.

## Limits

* `BatchLimit` and `Accounted` except a pass in which a closure panicked, and
  `Accounted` a cancelled one: the code loses those counts.
* A pass of Archive runs alone, which Scheduler's `TaskMutex` justifies. The bridge
  under it is one closure at a time, which ComBridge justifies; the model of a pass
  does not repeat either.
* Which PST a mail goes to is not in Archive, where all quarters are one set `pst`,
  but in Reorganize.
* The age of a mail against the cutoff is fixed during Reorganize. The conversion of
  times (`mail.go:123`) and names of folders with a separator in them are left out.
  The fallback to the time of creation is in Restore, where it makes keys equal.
* In Archive, Restore and Reorganize Outlook is a mailbox whose calls succeed or fail;
  its process is in NamespaceCache.
* `OutlookComesBack` leaves out a program that quits between the removal of files and the
  start of Outlook, which nothing in the code repairs, and counts an Outlook the user is
  closing at that moment as running, as the code does.
* A `stream_block_size` in the file is lost by the first save from the page; the model's
  configuration is one number, which the page does send.
* The first run writes `config.yaml` in place; that it can be created at all is assumed.
* A start of the web server while a `Stop` waits for its connections (up to ten
  seconds) loses the check mark, and a monitor of the stopped server may stop the new one.
* The quit guard of the tray (`tray.go:236`) and of the page look at the scheduler's
  state and quit later, the page's up to ten seconds later; a reorganization begun in
  between is cut short. Shutdown shows what becomes of it. Clicks on quit are dropped
  while the click loop runs a task.
* What the log channel drops is counted and reported once a minute by a log line, which
  goes through the same channel: while no page reads it the report is dropped too, and counted for
  the next one.
  No property is about lost lines.

## Not modelled

* COM references: `AddRef` and `Release` are balanced, or not, inside single functions,
  with no interleaving a model would add; the reference counts of Outlook's objects are
  the library's.
* The single-instance lock is one kernel call; the disk monitor two comparisons.
* The start-up sequence of `main.go` beyond the first run of the configuration: each
  step of it ends the program or goes on.
* The look of tray and page, the editing of lists of folders, the history of log
  lines and the files of the log, opening a directory in the Explorer.

## Plan

Done, in the order in which they matter: ComBridge with TaskService, on which
everything else runs; Scheduler; Shutdown over both; Restore, which deletes mail
and files; Archive, which runs every few minutes; Reorganize with FolderWalk;
NamespaceCache; ConfigStore; WebServer. Type correctness and the main safety properties
of all of them are proved, as is the refinement of TaskService by ComBridge
and of Scheduler by Shutdown.

Most theorems have no hypothesis; where the code has an exception, the property names it,
and with any one of the exceptions struck out TLC finds a counterexample in the instances
above. The hypotheses that are left cannot be dropped: with any one hazard of Restore, with
`"restart"` of WebServer, with a mailbox among the PSTs in Restore, or with copies that
stand apart in Archive, TLC finds one too.
