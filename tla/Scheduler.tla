----------------------------- MODULE Scheduler -----------------------------
(***************************************************************************)
(* internal/scheduler/scheduler.go: the three long tasks, the ticker that  *)
(* starts the periodic one, and hot reload of the configuration.  One      *)
(* action per critical section of s.mu (what a section does is atomic),    *)
(* plus the lock-free steps between them.  A configuration is its version. *)
(***************************************************************************)
EXTENDS Naturals, FiniteSets

CONSTANTS Clients,    \* goroutines that trigger tasks: the tray's click loop, web handlers
          Loop,       \* the goroutine of Start
          Reloaders,  \* goroutines that call ReloadConfig
          MaxVersion  \* bound: how often config.yaml is edited

ASSUME ConstantsOK == Loop \notin Clients /\ MaxVersion \in Nat

Workers   == Clients \cup {Loop}
Exclusive == {"reorganizing", "restoring"}
Kinds     == Exclusive \cup {"archiving"}
Versions  == 0 .. MaxVersion

VARIABLES state,     \* s.state
          job,       \* the task each goroutine is inside of
          seen,      \* the configurations that task has read so far
          ticker,    \* s.ticker: none, running or paused
          interval,  \* the configuration the ticker's interval comes from
          tick,      \* is a tick waiting in ticker.C?
          stopCh,    \* is s.stopCh closed?
          loop,      \* the goroutine of Start: unstarted, select, exited
          reload,    \* where each ReloadConfig call is
          loaded,    \* the configuration it has read from the file
          file,      \* what config.yaml holds
          live,      \* s.cfgVal
          cancelled, \* is main's context cancelled?
          storedBy,  \* history: the reload that stored last
          resetBy    \* history: the reload that reset the ticker last, "task" after a task

timer   == <<ticker, interval, tick>>
task    == <<state, job, seen>>
config  == <<reload, loaded, file, live>>
control == <<stopCh, loop, cancelled>>
history == <<storedBy, resetBy>>
vars    == <<task, timer, config, control, history>>

TypeOK ==
    /\ state \in {"idle"} \cup Kinds
    /\ job \in [Workers -> {"none"} \cup Kinds]
    /\ seen \in [Workers -> SUBSET Versions]
    /\ ticker \in {"none", "running", "paused"}
    /\ interval \in Versions
    /\ tick \in BOOLEAN
    /\ stopCh \in BOOLEAN
    /\ loop \in {"unstarted", "select", "exited"}
    /\ reload \in [Reloaders -> {"idle", "checked", "loaded", "stored"}]
    /\ loaded \in [Reloaders -> Versions]
    /\ file \in Versions
    /\ live \in Versions
    /\ cancelled \in BOOLEAN
    /\ storedBy \in Reloaders \cup {"task"}
    /\ resetBy \in Reloaders \cup {"task"}

Init ==
    /\ state = "idle"
    /\ job = [p \in Workers |-> "none"]
    /\ seen = [p \in Workers |-> {}]
    /\ ticker = "none"
    /\ interval = 0
    /\ tick = FALSE
    /\ stopCh = FALSE
    /\ loop = "unstarted"
    /\ reload = [r \in Reloaders |-> "idle"]
    /\ loaded = [r \in Reloaders |-> 0]
    /\ file = 0
    /\ live = 0
    /\ cancelled = FALSE
    /\ storedBy = "task"
    /\ resetBy = "task"

-----------------------------------------------------------------------------
(* The ticker.  Stop and Reset discard a tick that nobody has received.    *)

PauseTimer == IF ticker = "none"
              THEN UNCHANGED timer
              ELSE /\ ticker' = "paused"
                   /\ tick' = FALSE
                   /\ UNCHANGED interval

\* Mutants: Reset although the ticker is gone; Reset that keeps the old interval.
ResetWithoutNilCheck(v) == /\ ticker' = "running"
                           /\ tick' = FALSE
                           /\ interval' = v

ResetKeepsInterval(v) == IF ticker = "none"
                         THEN UNCHANGED timer
                         ELSE ticker' = "running" /\ tick' = FALSE /\ UNCHANGED interval

ResetTimer(v) == IF ticker = "none"
                 THEN UNCHANGED timer
                 ELSE /\ ticker' = "running"
                      /\ tick' = FALSE
                      /\ interval' = v

\* Mutant: Stop stops the ticker and leaves s.ticker set.
StopKeepsTicker == IF ticker = "none"
                   THEN UNCHANGED <<timer, stopCh>>
                   ELSE /\ ticker' = "stopped"
                        /\ tick' = FALSE
                        /\ stopCh' = TRUE
                        /\ UNCHANGED interval

StopTimer == IF ticker = "none"
             THEN UNCHANGED <<timer, stopCh>>
             ELSE /\ ticker' = "none"
                  /\ tick' = FALSE
                  /\ stopCh' = TRUE
                  /\ UNCHANGED interval

Fire == /\ ticker = "running"
        /\ ~tick
        /\ tick' = TRUE
        /\ UNCHANGED <<task, config, control, ticker, interval, history>>

-----------------------------------------------------------------------------
(* The tasks.  A trigger that finds a task returns an error and changes    *)
(* nothing, so only accepted triggers are steps.                           *)

Started == loop # "unstarted"

\* Mutant: the trigger does not look at s.state.
NoStateCheck == TRUE

Free == state = "idle"

Begin(p, k) == /\ Free
               /\ state' = k
               /\ job' = [job EXCEPT ![p] = k]
               /\ UNCHANGED seen

TriggerOnce(p) == /\ Started
                  /\ job[p] = "none"
                  /\ Begin(p, "archiving")
                  /\ UNCHANGED <<timer, config, control, history>>

TriggerExclusive(p, k) == /\ Started
                          /\ job[p] = "none"
                          /\ Begin(p, k)
                          /\ PauseTimer
                          /\ UNCHANGED <<config, control, history>>

TriggerReorganize(p) == TriggerExclusive(p, "reorganizing")
TriggerRestore(p)    == TriggerExclusive(p, "restoring")

\* A task asks for the current configuration, at its start and again later.
ReadConfig(p) == /\ job[p] # "none"
                 /\ seen' = [seen EXCEPT ![p] = @ \cup {live}]
                 /\ UNCHANGED <<state, job, timer, config, control, history>>

\* The deferred function, reached by every return of the task.
Release(p) == /\ state' = "idle"
              /\ job' = [job EXCEPT ![p] = "none"]
              /\ seen' = [seen EXCEPT ![p] = {}]

EndArchive(p) == /\ job[p] = "archiving"
                 /\ Release(p)
                 /\ UNCHANGED <<timer, config, control, history>>

\* Mutant: the deferred function forgets to resume the ticker.
EndWithoutResume(p) == /\ job[p] \in Exclusive
                       /\ Release(p)
                       /\ UNCHANGED <<timer, config, control, history>>

EndExclusive(p) == /\ job[p] \in Exclusive
                   /\ Release(p)
                   /\ ResetTimer(live)
                   /\ resetBy' = "task"
                   /\ UNCHANGED <<config, control, storedBy>>

-----------------------------------------------------------------------------
(* Start, its goroutine, and Stop.                                         *)

Start == /\ loop = "unstarted"
         /\ ticker' = "running"
         /\ interval' = live
         /\ loop' = "select"
         /\ UNCHANGED <<task, tick, config, stopCh, cancelled, history>>

InSelect == loop = "select" /\ job[Loop] = "none"

\* The loop receives a tick and calls TriggerOnce, which may refuse.
LoopTick == /\ InSelect
            /\ tick
            /\ tick' = FALSE
            /\ IF Free THEN Begin(Loop, "archiving") ELSE UNCHANGED task
            /\ UNCHANGED <<ticker, interval, config, control, history>>

LoopCancelled == /\ InSelect
                 /\ cancelled
                 /\ StopTimer
                 /\ loop' = "exited"
                 /\ UNCHANGED <<task, config, cancelled, history>>

LoopStopped == /\ InSelect
               /\ stopCh
               /\ loop' = "exited"
               /\ UNCHANGED <<task, timer, config, stopCh, cancelled, history>>

\* main after the tray is gone: cancel(), then sched.Stop().
Cancel == /\ Started
          /\ ~cancelled
          /\ cancelled' = TRUE
          /\ UNCHANGED <<task, timer, config, stopCh, loop, history>>

Stop == /\ cancelled
        /\ ticker # "none"
        /\ StopTimer
        /\ UNCHANGED <<task, config, loop, cancelled, history>>

-----------------------------------------------------------------------------
(* ReloadConfig: a check under the lock, a file read and a store without   *)
(* it, and a second critical section for the ticker.                       *)

Step(r, from, to) == /\ reload[r] = from
                     /\ reload' = [reload EXCEPT ![r] = to]

\* Mutant: a reload is accepted while a task runs.
ReloadAnyTime == Started

MayReload == Started /\ Free

ReloadCheck(r) == /\ MayReload
                  /\ Step(r, "idle", "checked")
                  /\ UNCHANGED <<task, timer, control, loaded, file, live, history>>

ReloadFails(r) == /\ Step(r, "checked", "idle")
                  /\ UNCHANGED <<task, timer, control, loaded, file, live, history>>

ReloadReads(r) == /\ Step(r, "checked", "loaded")
                  /\ loaded' = [loaded EXCEPT ![r] = file]
                  /\ UNCHANGED <<task, timer, control, file, live, history>>

ReloadStores(r) == /\ Step(r, "loaded", "stored")
                   /\ live' = loaded[r]
                   /\ storedBy' = r
                   /\ UNCHANGED <<task, timer, control, loaded, file, resetBy>>

ReloadResets(r) == /\ Step(r, "stored", "idle")
                   /\ ResetTimer(loaded[r])
                   /\ resetBy' = r
                   /\ UNCHANGED <<task, control, loaded, file, live, storedBy>>

\* The user's editor or the web page replaces config.yaml.
EditFile == /\ file < MaxVersion
            /\ file' = file + 1
            /\ UNCHANGED <<task, timer, control, reload, loaded, live, history>>

-----------------------------------------------------------------------------
LoopStep == LoopTick \/ LoopCancelled \/ LoopStopped

Next == \/ \E p \in Clients : TriggerOnce(p) \/ TriggerReorganize(p) \/ TriggerRestore(p)
        \/ \E p \in Workers : ReadConfig(p) \/ EndArchive(p) \/ EndExclusive(p)
        \/ Fire \/ Start \/ LoopStep \/ Cancel \/ Stop
        \/ \E r \in Reloaders : \/ ReloadCheck(r) \/ ReloadFails(r) \/ ReloadReads(r)
                                \/ ReloadStores(r) \/ ReloadResets(r)
        \/ EditFile

Spec == Init /\ [][Next]_vars
-----------------------------------------------------------------------------
(* Properties.                                                             *)

\* Archiving, reorganizing and restoring walk and change the same live mail
\* collections: no two of them run together, and s.state says which one runs.
TaskMutex ==
    /\ \A p, q \in Workers : job[p] # "none" /\ job[q] # "none" => p = q
    /\ \A p \in Workers : job[p] # "none" => job[p] = state
    /\ state # "idle" => \E p \in Workers : job[p] = state

\* Whatever tasks, reloads and a shutdown did, in whatever order, the periodic
\* archive is never lost: between tasks an unstopped ticker runs.
TimerSurvivesTasks == ticker # "none" /\ state = "idle" => ticker = "running"

\* The store and the reset of a reload are two steps, so those of two reloads can
\* cross: the reload that stored last was overtaken when another one reset the
\* ticker after it.
Overtaken == resetBy \in Reloaders /\ resetBy # storedBy

\* Once no reload is under way, the ticker runs at the interval of the configuration
\* in force, however reloads overlapped each other and the ends of tasks; crossed
\* reloads that leave the ticker with the older of two intervals are the one way
\* out, and the next task's end or the next reload on its own mends it.
IntervalInForce ==
    ticker = "running" /\ (\A r \in Reloaders : reload[r] = "idle")
        => interval = live \/ Overtaken

\* A task may see the configuration change under it only through reloads that
\* passed their idle check before it began, each of them once.
BoundedConfigDrift ==
    \A p \in Workers : Cardinality(seen[p]) <= 1 + Cardinality(Reloaders)

\* "Pause the timer, execute, resume" (comment of TriggerReorganize): no tick can
\* be produced while a reorganization or a restore runs.
TimerPaused == state \in Exclusive => ticker # "running" /\ ~tick

\* Stop is final: neither the end of a task nor a late reload revives the ticker.
StopIsFinal == [][Started /\ ticker = "none" => ticker' = "none"]_vars
=============================================================================
