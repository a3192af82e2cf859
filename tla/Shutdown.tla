------------------------------ MODULE Shutdown ------------------------------
(***************************************************************************)
(* main.go, tray.go and the task loops of internal/archiver together: the  *)
(* scheduler and the COM bridge while the program quits.  A task is the    *)
(* chain of bridge calls it makes: one with its own context for every      *)
(* folder, all others in the background, some of them after a look at the  *)
(* context.  The scheduler runs without reloads here; every goroutine runs *)
(* at most one task, the bound that makes one-shot calls enough.           *)
(***************************************************************************)
EXTENDS Naturals, Sequences

CONSTANTS Clients,     \* goroutines with the tray's context
          TimerLoop,   \* the scheduler's goroutine, with main's context
          MaxCalls,    \* bound: how many successive calls of a task are followed
          Cap          \* capacity of the bridge's channel

ASSUME ConstantsOK == /\ TimerLoop \notin Clients
                      /\ MaxCalls \in Nat \ {0}
                      /\ Cap \in Nat \ {0}

Workers == Clients \cup {TimerLoop}
Steps   == 1 .. MaxCalls
Call    == [of : Workers, step : Steps, folder : BOOLEAN]

\* Mutant: the folder closures are submitted without a context.
NoCallContext == [c \in Call |-> "background"]

CallContext == [c \in Call |-> IF ~c.folder THEN "background"
                               ELSE IF c.of = TimerLoop THEN "main" ELSE "tray"]

VARIABLES caller, closure, errCh, queue, stack, worker, done
bridge == <<caller, closure, errCh, queue, stack, worker, done>>

VARIABLES state, job, seen, ticker, interval, tick, stopCh, loop,
          reload, loaded, file, live, cancelled
sched == <<state, job, seen, ticker, interval, tick, stopCh, loop,
           reload, loaded, file, live, cancelled>>

VARIABLES at,     \* which of its calls each task has come to, NotBegun or Over
          stage,  \* what that call is
          looked, \* has it passed the ctx.Err() check before that call?
          main,   \* the main goroutine
          late    \* how many folder closures of each task began after its cancellation
vars == <<bridge, sched, at, stage, looked, main, late>>

COM == INSTANCE ComBridge WITH Root <- Call, Nested <- {}, Context <- CallContext
SCH == INSTANCE Scheduler WITH Loop <- TimerLoop, Reloaders <- {}, MaxVersion <- 0,
                               storedBy <- "task", resetBy <- "task"

NotBegun   == 0
Over       == MaxCalls + 1
Stages     == {"walk", "folder", "list", "inbox", "mount", "scan", "target", "pstFolder",
               "count", "unmount", "invalidate", "quit"}
MainStates == {"tray", "quitting", "trayGone", "stopping", "waiting", "graceful", "forced"}

TypeOK == /\ COM!TypeOK
          /\ SCH!TypeOK
          /\ at \in [Workers -> Steps \cup {NotBegun, Over}]
          /\ stage \in [Workers -> Stages]
          /\ looked \in [Workers -> BOOLEAN]
          /\ main \in MainStates
          /\ late \in [Workers -> 0 .. MaxCalls]

Init == /\ COM!Init
        /\ SCH!Init
        /\ at = [p \in Workers |-> NotBegun]
        /\ stage = [p \in Workers |-> "walk"]
        /\ looked = [p \in Workers |-> FALSE]
        /\ main = "tray"
        /\ late = [p \in Workers |-> 0]

\* When main returns the process is gone, with whatever was still running in it.
Alive == main \notin {"graceful", "forced"}

-----------------------------------------------------------------------------
(* The tasks' bridge calls: from one stage, with or without an error, to   *)
(* the next.  "folder" and "pstFolder" are the closures that work through  *)
(* a folder of the mailbox and of a PST, the only ones with a context.     *)

ArchivePlan ==
    ({"walk"} \X {TRUE} \X {"folder", "end"}) \cup ({"walk"} \X {FALSE} \X {"end"})
    \cup ({"folder"} \X BOOLEAN \X {"folder", "end"})

\* Phase 1 is an archive; phase 2 lists, mounts, scans and empties PSTs.
ReorganizePlan ==
    ArchivePlan
    \cup ({"walk"} \X {TRUE} \X {"list", "mount"})
    \cup ({"folder"} \X BOOLEAN \X {"list", "mount"})
    \cup ({"list"} \X BOOLEAN \X {"mount", "end"})
    \cup ({"mount"} \X {TRUE} \X {"scan"}) \cup ({"mount"} \X {FALSE} \X {"mount", "end"})
    \cup ({"scan"} \X {TRUE} \X {"pstFolder"}) \cup ({"scan"} \X BOOLEAN \X {"mount", "end"})
    \cup ({"pstFolder"} \X BOOLEAN \X {"pstFolder", "mount", "end"})

\* A folder's target is made before its closure, and a PST is counted and unmounted
\* after its folders; then Outlook is quit for the pending deletions.
RestorePlan ==
    ({"list"} \X BOOLEAN \X {"inbox", "end"})
    \cup ({"inbox"} \X {TRUE} \X {"mount"}) \cup ({"inbox"} \X {FALSE} \X {"end"})
    \cup ({"mount"} \X {TRUE} \X {"scan"})
    \cup ({"mount"} \X {FALSE} \X {"mount", "invalidate", "end"})
    \cup ({"scan"} \X {TRUE} \X {"target", "count"}) \cup ({"scan"} \X BOOLEAN \X {"unmount"})
    \cup ({"target"} \X {TRUE} \X {"pstFolder"})
    \cup ({"target"} \X {FALSE} \X {"target", "count", "unmount"})
    \cup ({"pstFolder"} \X BOOLEAN \X {"target", "count", "unmount"})
    \cup ({"count"} \X BOOLEAN \X {"count", "unmount"})
    \cup ({"unmount"} \X BOOLEAN \X {"mount", "invalidate", "end"})
    \cup ({"invalidate"} \X BOOLEAN \X {"quit"}) \cup ({"quit"} \X BOOLEAN \X {"end"})

Plan(k) == CASE k = "archiving" -> ArchivePlan
             [] k = "reorganizing" -> ReorganizePlan
             [] OTHER -> RestorePlan

FolderStages == {"folder", "pstFolder"}

\* The stages before which the loops look at ctx.Err() or ctx.Done(); a restore looks
\* before it makes a folder's target and not again before the folder's closure.
Checked == FolderStages \cup {"mount", "target"}

\* The task turns to its n-th call, or to its end.
GoTo(p, n, s, l) == /\ at' = [at EXCEPT ![p] = n]
                    /\ stage' = [stage EXCEPT ![p] = s]
                    /\ looked' = [looked EXCEPT ![p] = l]
                    /\ UNCHANGED <<bridge, main, late>>

Return(p) == GoTo(p, Over, "walk", FALSE)

\* Where the calls that are followed begin: anywhere in the plan, for what calls that have
\* returned may leave in the bridge, the closure of a cancelled one, is ahead of all later
\* ones; but a restore's look goes before.
Entry(k) == {t[1] : t \in Plan(k)} \ (IF k = "restoring" THEN {"pstFolder"} ELSE {})

Launch(p) == /\ Alive
             /\ at[p] = NotBegun
             /\ \E s \in Entry(job'[p]) : GoTo(p, 1, s, FALSE)

\* A click or a web request; nothing stops one that was already under way when the
\* user quit.
ClientTask(p) == /\ SCH!TriggerOnce(p) \/ SCH!TriggerReorganize(p) \/ SCH!TriggerRestore(p)
                 /\ Launch(p)

LoopTask == /\ SCH!LoopTick
            /\ job'[TimerLoop] # "none"
            /\ Launch(TimerLoop)

\* A tick while another task runs is refused and forgotten.
LoopRefused == /\ Alive
               /\ SCH!LoopTick
               /\ job'[TimerLoop] = "none"
               /\ UNCHANGED <<bridge, at, stage, looked, main, late>>

InTask(p)  == job[p] # "none" /\ at[p] \in Steps /\ Alive
Current(p) == [of |-> p, step |-> at[p], folder |-> stage[p] \in FolderStages]
CtxGone(p) == (IF p = TimerLoop THEN "main" ELSE "tray") \in done

AtFirstCall(p) == InTask(p) /\ stage[p] = "walk" /\ caller[Current(p)] = "idle"

\* The disk is full or Outlook is not running: an archive returns before it submits
\* anything, and a reorganization does so or goes on with its second phase.
SkipTask(p) == /\ AtFirstCall(p)
               /\ \/ Return(p)
                  \/ /\ job[p] = "reorganizing"
                     /\ \E s \in {"list", "mount"} : GoTo(p, at[p], s, FALSE)
               /\ UNCHANGED sched

AtCheck(p) == InTask(p) /\ stage[p] \in Checked /\ ~looked[p]

Pass(p) == GoTo(p, at[p], stage[p], TRUE) /\ UNCHANGED sched

\* Mutant: the loops do not check their context.
LookBlindly(p) == AtCheck(p) /\ Pass(p)

\* The check at the head of a loop.
Look(p) == AtCheck(p) /\ ~CtxGone(p) /\ Pass(p)

\* A cancelled task returns, a restore from within a PST only after unmounting it.
SeeCancelled(p) == /\ AtCheck(p)
                   /\ CtxGone(p)
                   /\ IF stage[p] = "target" THEN GoTo(p, at[p], "unmount", FALSE)
                                         ELSE Return(p)
                   /\ UNCHANGED sched

MaySubmit(p) == InTask(p) /\ (stage[p] \in Checked => looked[p])

Submit(p) == /\ MaySubmit(p)
             /\ COM!SubmitTask(Current(p)) \/ COM!SubmitInline(Current(p))
             /\ UNCHANGED <<sched, at, stage, looked, main, late>>

\* The call has returned and the next one follows; after MaxCalls the task is over.
Advance(p) == /\ InTask(p)
              /\ caller[Current(p)] \in COM!Returned
              /\ \E s \in Stages \cup {"end"} :
                    /\ <<stage[p], caller[Current(p)] = "ok", s>> \in Plan(job[p])
                    /\ IF s = "end" \/ at[p] = MaxCalls
                       THEN Return(p)
                       ELSE GoTo(p, at[p] + 1, s,
                                 looked[p] /\ stage[p] = "target" /\ s = "pstFolder")
              /\ UNCHANGED sched

EndTask(p) == /\ Alive
              /\ at[p] = Over
              /\ SCH!EndArchive(p) \/ SCH!EndExclusive(p)
              /\ UNCHANGED <<bridge, at, stage, looked, main, late>>

\* The calls go on as ComBridge says; late counts the folder closures that the
\* worker takes up for a task whose context is already cancelled.
CallStep(c) == /\ Alive
               /\ COM!Proceed(c)
               /\ UNCHANGED <<sched, at, stage, looked, main, late>>

WorkerTakes == /\ Alive
               /\ COM!Take
               /\ LET c == Head(queue) IN
                    late' = IF c.folder /\ CtxGone(c.of)
                            THEN [late EXCEPT ![c.of] = @ + 1] ELSE late
               /\ UNCHANGED <<sched, at, stage, looked, main>>

WorkerStep == /\ Alive
              /\ COM!FinishRoot \/ COM!Panic \/ COM!BeginDrain \/ COM!Drain \/ COM!Exit
              /\ UNCHANGED <<sched, at, stage, looked, main, late>>

TimerStep == /\ Alive
             /\ SCH!Start \/ SCH!Fire \/ SCH!LoopCancelled \/ SCH!LoopStopped
             /\ UNCHANGED <<bridge, at, stage, looked, main, late>>

-----------------------------------------------------------------------------
(* The main goroutine, and the two places that ask it to quit.             *)

MainStep(from, to) == main = from /\ main' = to

QuitAllowed == state # "reorganizing"

\* The tray's menu or the web page: a look at the state, then systray.Quit().
AskToQuit == /\ MainStep("tray", "quitting")
             /\ SCH!Started
             /\ QuitAllowed
             /\ UNCHANGED <<bridge, sched, at, stage, looked, late>>

\* systray runs onExit, which cancels the tray's context, and InitTray returns.
OnExit == /\ MainStep("quitting", "trayGone")
          /\ COM!CancelTray
          /\ UNCHANGED <<sched, at, stage, looked, late>>

CancelAll == /\ MainStep("trayGone", "stopping")
             /\ COM!CancelMain
             /\ SCH!Cancel
             /\ UNCHANGED <<at, stage, looked, late>>

StopScheduler == /\ MainStep("stopping", "waiting")
                 /\ IF ticker = "none" THEN UNCHANGED sched ELSE SCH!Stop
                 /\ UNCHANGED <<bridge, at, stage, looked, late>>

\* The polling goroutine finds the scheduler idle and closes waitCh.
SeeIdle == /\ MainStep("waiting", "graceful")
           /\ state = "idle"
           /\ UNCHANGED <<bridge, sched, at, stage, looked, late>>

\* Mutant: main waits for the scheduler without a limit.
NoTimeOut == FALSE /\ UNCHANGED vars

\* 15 s have passed: the wait is bounded whatever the tasks do.
TimeOut == /\ MainStep("waiting", "forced")
           /\ UNCHANGED <<bridge, sched, at, stage, looked, late>>

MainNext == OnExit \/ CancelAll \/ StopScheduler \/ SeeIdle \/ TimeOut

Next == \/ \E p \in Clients : ClientTask(p)
        \/ LoopTask \/ LoopRefused
        \/ \E p \in Workers : \/ SkipTask(p) \/ Look(p) \/ SeeCancelled(p) \/ Submit(p)
                             \/ Advance(p) \/ EndTask(p)
        \/ \E c \in Call : CallStep(c)
        \/ WorkerTakes \/ WorkerStep \/ TimerStep
        \/ AskToQuit \/ MainNext

\* main keeps running once it was asked to quit.
Spec     == Init /\ [][Next]_vars
FairSpec == Spec /\ WF_vars(MainNext)

-----------------------------------------------------------------------------
(* Properties.                                                             *)

\* Quitting cuts a task short: after its context is cancelled the worker takes up at
\* most the one folder the task had already looked at, however many are left.
CancelStopsSoon == \A p \in Workers : late[p] <= 1

\* A task that the bridge left without an answer keeps the scheduler busy, but never
\* the process: once asked, main always comes to its end.
MainReturns == main = "quitting" ~> main \in {"graceful", "forced"}

\* The call of this task will not return: nobody is left to answer it.
Stuck(p) == /\ InTask(p)
            /\ worker = "exited"
            /\ caller[Current(p)] \in COM!Waiting
            /\ ~COM!CtxDone(Current(p))
            /\ errCh[Current(p)] = "empty"

\* A bridge that is gone keeps a task waiting for ever only in a call it made without
\* its context: the walk of the mailbox for an archive, and whatever else a
\* reorganization or a restore asks for; never in the closure of a folder.
OnlyBackgroundHangs ==
    \A p \in Workers :
        Stuck(p) => IF job[p] = "archiving" THEN stage[p] = "walk"
                                            ELSE stage[p] \notin FolderStages
=============================================================================
