-------------------------- MODULE SchedulerProofs --------------------------
(***************************************************************************)
(* Proofs about Scheduler, for any number of clients and reloaders: the    *)
(* task mutex, the periodic timer, the finality of Stop, and how far the   *)
(* configuration may change under a task.                                  *)
(***************************************************************************)
EXTENDS Scheduler, FiniteSetTheorems, TLAPS

\* s.state is a constant of the enumeration, and every other field stays in its
\* range, whatever interleaving of sections runs.
THEOREM TypeCorrect == Spec => []TypeOK
<1> USE ConstantsOK DEF TypeOK, Workers, Exclusive, Kinds, Versions, timer, task, config,
        control, history
<1>1. Init => TypeOK
  <2>1. 0 \in Versions
    BY DEF ConstantsOK
  <2>2. QED
    BY <2>1 DEF Init
<1>2. TypeOK /\ [Next]_vars => TypeOK'
  <2> SUFFICES ASSUME TypeOK, [Next]_vars PROVE TypeOK'
    OBVIOUS
  <2>1. ASSUME NEW p \in Clients, TriggerOnce(p) PROVE TypeOK'
    BY <2>1 DEF TriggerOnce, Begin
  <2>2. ASSUME NEW p \in Clients, NEW k \in Exclusive, TriggerExclusive(p, k) PROVE TypeOK'
    BY <2>2 DEF TriggerExclusive, Begin, PauseTimer
  <2>3. ASSUME NEW p \in Workers, ReadConfig(p) PROVE TypeOK'
    BY <2>3 DEF ReadConfig
  <2>4. ASSUME NEW p \in Workers, EndArchive(p) PROVE TypeOK'
    BY <2>4 DEF EndArchive, Release
  <2>5. ASSUME NEW p \in Workers, EndExclusive(p) PROVE TypeOK'
    BY <2>5 DEF EndExclusive, Release, ResetTimer
  <2>6. ASSUME Fire \/ Start \/ Cancel \/ Stop PROVE TypeOK'
    BY <2>6 DEF Fire, Start, Cancel, Stop, StopTimer
  <2>7. ASSUME LoopStep PROVE TypeOK'
    BY <2>7 DEF LoopStep, LoopTick, LoopCancelled, LoopStopped, Begin, StopTimer
  <2>8. ASSUME NEW r \in Reloaders,
               ReloadCheck(r) \/ ReloadFails(r) \/ ReloadReads(r) \/ ReloadStores(r)
        PROVE TypeOK'
    BY <2>8 DEF ReloadCheck, ReloadFails, ReloadReads, ReloadStores, Step
  <2>9. ASSUME NEW r \in Reloaders, ReloadResets(r) PROVE TypeOK'
    BY <2>9 DEF ReloadResets, Step, ResetTimer
  <2>10. CASE EditFile
    BY <2>10 DEF EditFile
  <2>11. CASE UNCHANGED vars
    BY <2>11 DEF vars
  <2>12. QED
    BY <2>1, <2>2, <2>3, <2>4, <2>5, <2>6, <2>7, <2>8, <2>9, <2>10, <2>11
       DEF Next, TriggerReorganize, TriggerRestore
<1>3. QED
  BY <1>1, <1>2, PTL DEF Spec

-----------------------------------------------------------------------------
(* Which steps touch the task and the timer.                               *)

\* What a step may do to the task fields: leave them, read the configuration,
\* begin a task when none runs, or end one.
LEMMA TaskSteps ==
  ASSUME [Next]_vars
  PROVE  \/ UNCHANGED <<state, job>>
         \/ \E p \in Workers, k \in Kinds : Free /\ state' = k /\ job' = [job EXCEPT ![p] = k]
         \/ \E p \in Workers : /\ job[p] \in Kinds
                               /\ state' = "idle"
                               /\ job' = [job EXCEPT ![p] = "none"]
<1> USE DEF task, Begin, Release, Kinds, Exclusive, Workers
<1>1. ASSUME NEW p \in Clients,
             TriggerOnce(p) \/ TriggerReorganize(p) \/ TriggerRestore(p)
      PROVE  \E k \in Kinds : Free /\ state' = k /\ job' = [job EXCEPT ![p] = k]
  BY <1>1 DEF TriggerOnce, TriggerReorganize, TriggerRestore, TriggerExclusive
<1>2. ASSUME NEW p \in Workers, EndArchive(p) \/ EndExclusive(p)
      PROVE  /\ job[p] \in Kinds
             /\ state' = "idle"
             /\ job' = [job EXCEPT ![p] = "none"]
  BY <1>2 DEF EndArchive, EndExclusive
<1>3. ASSUME LoopTick
      PROVE  \/ UNCHANGED <<state, job>>
             \/ Free /\ state' = "archiving" /\ job' = [job EXCEPT ![Loop] = "archiving"]
  BY <1>3 DEF LoopTick
<1>4. ASSUME \/ \E p \in Workers : ReadConfig(p)
             \/ Fire \/ Start \/ LoopCancelled \/ LoopStopped \/ Cancel \/ Stop \/ EditFile
             \/ \E r \in Reloaders : \/ ReloadCheck(r) \/ ReloadFails(r) \/ ReloadReads(r)
                                     \/ ReloadStores(r) \/ ReloadResets(r)
             \/ UNCHANGED vars
      PROVE  UNCHANGED <<state, job>>
  BY <1>4 DEF ReadConfig, Fire, Start, LoopCancelled, LoopStopped, Cancel, Stop, EditFile,
              ReloadCheck, ReloadFails, ReloadReads, ReloadStores, ReloadResets, vars
<1>5. QED
  BY <1>1, <1>2, <1>3, <1>4 DEF Next, LoopStep

\* s.state is idle exactly when no goroutine is inside a task, and two goroutines
\* never are: the check and the assignment share one critical section.
THEOREM Mutex == Spec => []TaskMutex
<1> DEFINE Inv == /\ TaskMutex
                  /\ state = "idle" => \A p \in Workers : job[p] = "none"
<1>1. Init => Inv
  BY DEF Init, TaskMutex
<1>2. TypeOK /\ Inv /\ [Next]_vars => Inv'
  <2> SUFFICES ASSUME TypeOK, Inv, [Next]_vars PROVE Inv'
    OBVIOUS
  <2> USE DEF TaskMutex
  <2>1. CASE UNCHANGED <<state, job>>
    BY <2>1
  <2>2. ASSUME NEW p \in Workers, NEW k \in Kinds,
               Free, state' = k, job' = [job EXCEPT ![p] = k]
        PROVE  Inv'
    BY <2>2 DEF Free, TypeOK, Kinds, Exclusive
  <2>3. ASSUME NEW p \in Workers, job[p] \in Kinds,
               state' = "idle", job' = [job EXCEPT ![p] = "none"]
        PROVE  Inv'
    <3>1. \A q \in Workers : q # p => job[q] = "none"
      BY <2>3 DEF Kinds, Exclusive
    <3>2. \A q \in Workers : job'[q] = "none"
      BY <2>3, <3>1 DEF TypeOK
    <3>3. QED
      BY <2>3, <3>2
  <2>4. QED
    BY <2>1, <2>2, <2>3, TaskSteps
<1>3. QED
  BY <1>1, <1>2, TypeCorrect, PTL DEF Spec
-----------------------------------------------------------------------------
(* The periodic timer.                                                     *)

\* A stopped ticker stays stopped: every section that would resume it tests
\* s.ticker for nil first, and Start runs only once.
THEOREM StopFinal == Spec => StopIsFinal
<1>1. ASSUME [Next]_vars, Started, ticker = "none" PROVE ticker' = "none"
  <2>1. ASSUME NEW p \in Clients, TriggerOnce(p) PROVE ticker' = "none"
    BY <1>1, <2>1 DEF TriggerOnce, timer
  <2>2. ASSUME NEW p \in Clients, TriggerReorganize(p) \/ TriggerRestore(p)
        PROVE  ticker' = "none"
    BY <1>1, <2>2 DEF TriggerReorganize, TriggerRestore, TriggerExclusive, PauseTimer, timer
  <2>3. ASSUME NEW p \in Workers, ReadConfig(p) \/ EndArchive(p) PROVE ticker' = "none"
    BY <1>1, <2>3 DEF ReadConfig, EndArchive, timer
  <2>4. ASSUME NEW p \in Workers, EndExclusive(p) PROVE ticker' = "none"
    BY <1>1, <2>4 DEF EndExclusive, ResetTimer, timer
  <2>5. ASSUME Fire \/ Start \/ LoopStep \/ Cancel \/ Stop \/ EditFile
        PROVE  ticker' = "none"
    BY <1>1, <2>5 DEF Fire, Start, Started, LoopStep, LoopTick, LoopCancelled, LoopStopped,
                      Cancel, Stop, EditFile, StopTimer, timer
  <2>6. ASSUME NEW r \in Reloaders,
               ReloadCheck(r) \/ ReloadFails(r) \/ ReloadReads(r) \/ ReloadStores(r)
        PROVE  ticker' = "none"
    BY <1>1, <2>6 DEF ReloadCheck, ReloadFails, ReloadReads, ReloadStores, timer
  <2>7. ASSUME NEW r \in Reloaders, ReloadResets(r) PROVE ticker' = "none"
    BY <1>1, <2>7 DEF ReloadResets, ResetTimer, timer
  <2>8. CASE UNCHANGED vars
    BY <1>1, <2>8 DEF vars, timer
  <2>9. QED
    BY <1>1, <2>1, <2>2, <2>3, <2>4, <2>5, <2>6, <2>7, <2>8 DEF Next
<1>2. QED
  BY <1>1, PTL DEF Spec, StopIsFinal

\* Between tasks an unstopped ticker runs.  What makes it inductive: a ticker is
\* paused only by an exclusive task, and the goroutine that ends a task is the one
\* s.state speaks of, so an archive never ends on a paused ticker.
THEOREM TimerSurvives == Spec => []TimerSurvivesTasks
<1> DEFINE Inv == ticker = "paused" => state \in Exclusive
<1>1. Init => Inv
  BY DEF Init
<1>2. TypeOK /\ TaskMutex /\ Inv /\ [Next]_vars => Inv'
  <2> SUFFICES ASSUME TypeOK, TaskMutex, Inv, [Next]_vars PROVE Inv'
    OBVIOUS
  <2>1. ASSUME NEW p \in Clients, TriggerOnce(p) PROVE Inv'
    BY <2>1 DEF TriggerOnce, Begin, Free, Exclusive, timer
  <2>2. ASSUME NEW p \in Clients, NEW k \in Exclusive, TriggerExclusive(p, k) PROVE Inv'
    BY <2>2 DEF TriggerExclusive, Begin
  <2>3. ASSUME NEW p \in Workers, ReadConfig(p) PROVE Inv'
    BY <2>3 DEF ReadConfig, timer
  <2>4. ASSUME NEW p \in Workers, EndArchive(p) PROVE Inv'
    <3>1. state = "archiving"
      BY <2>4 DEF EndArchive, TaskMutex
    <3>2. QED
      BY <2>4, <3>1 DEF EndArchive, Release, Exclusive, timer
  <2>5. ASSUME NEW p \in Workers, EndExclusive(p) PROVE Inv'
    BY <2>5 DEF EndExclusive, ResetTimer, timer
  <2>6. ASSUME Fire \/ Start \/ Cancel \/ Stop \/ EditFile PROVE Inv'
    BY <2>6 DEF Fire, Start, Cancel, Stop, EditFile, StopTimer, timer, task
  <2>7. ASSUME LoopStep PROVE Inv'
    BY <2>7 DEF LoopStep, LoopTick, LoopCancelled, LoopStopped, Begin, Free, StopTimer,
                Exclusive, timer, task
  <2>8. ASSUME NEW r \in Reloaders,
               ReloadCheck(r) \/ ReloadFails(r) \/ ReloadReads(r) \/ ReloadStores(r)
        PROVE  Inv'
    BY <2>8 DEF ReloadCheck, ReloadFails, ReloadReads, ReloadStores, timer, task
  <2>9. ASSUME NEW r \in Reloaders, ReloadResets(r) PROVE Inv'
    BY <2>9 DEF ReloadResets, ResetTimer, timer, task
  <2>10. CASE UNCHANGED vars
    BY <2>10 DEF vars, timer, task
  <2>11. QED
    BY <2>1, <2>2, <2>3, <2>4, <2>5, <2>6, <2>7, <2>8, <2>9, <2>10
       DEF Next, TriggerReorganize, TriggerRestore, Exclusive
<1>3. TypeOK /\ Inv => TimerSurvivesTasks
  BY DEF TypeOK, TimerSurvivesTasks, Exclusive
<1>4. QED
  BY <1>1, <1>2, <1>3, TypeCorrect, Mutex, PTL DEF Spec

\* Without reloads the timer really is paused during a reorganization or a restore:
\* the overlap of a reload with the task's start is the only way to break it.
THEOREM PausedWithoutReloads == ASSUME Reloaders = {} PROVE Spec => []TimerPaused
<1> DEFINE Inv == /\ state \in Exclusive => ticker # "running"
                  /\ tick => ticker = "running"
                  /\ ~Started => state = "idle" /\ ticker = "none"
<1>1. Init => Inv
  BY DEF Init, Exclusive
<1>2. TypeOK /\ TaskMutex /\ Inv /\ [Next]_vars => Inv'
  <2> SUFFICES ASSUME TypeOK, TaskMutex, Inv, [Next]_vars PROVE Inv'
    OBVIOUS
  <2> USE DEF Started
  <2>1. ASSUME NEW p \in Clients, TriggerOnce(p) PROVE Inv'
    BY <2>1 DEF TriggerOnce, Begin, Exclusive, timer, control
  <2>2. ASSUME NEW p \in Clients, NEW k \in Exclusive, TriggerExclusive(p, k) PROVE Inv'
    BY <2>2 DEF TriggerExclusive, Begin, PauseTimer, timer, control
  <2>3. ASSUME NEW p \in Workers, ReadConfig(p) PROVE Inv'
    BY <2>3 DEF ReadConfig, timer, control
  <2>4. ASSUME NEW p \in Workers, EndArchive(p) PROVE Inv'
    BY <2>4 DEF EndArchive, Release, Exclusive, timer, control
  <2>5. ASSUME NEW p \in Workers, EndExclusive(p) PROVE Inv'
    BY <2>5 DEF EndExclusive, Release, ResetTimer, Exclusive, timer, control
  <2>6. ASSUME Fire \/ Start \/ Cancel \/ Stop \/ EditFile PROVE Inv'
    BY <2>6 DEF Fire, Start, Cancel, Stop, EditFile, StopTimer, Exclusive, timer, task, control
  <2>7. ASSUME LoopStep PROVE Inv'
    BY <2>7 DEF LoopStep, LoopTick, LoopCancelled, LoopStopped, InSelect, Begin, StopTimer,
                Exclusive, timer, task, control
  <2>8. CASE UNCHANGED vars
    BY <2>8 DEF vars, timer, task, control
  <2>9. QED
    BY <2>1, <2>2, <2>3, <2>4, <2>5, <2>6, <2>7, <2>8
       DEF Next, TriggerReorganize, TriggerRestore, Exclusive
<1>3. Inv => TimerPaused
  BY DEF TimerPaused
<1>4. QED
  BY <1>1, <1>2, <1>3, TypeCorrect, Mutex, PTL DEF Spec

\* However reloads overlap each other, the ends of tasks and a shutdown, the ticker
\* follows the configuration in force, but for the reset of an overtaken reload.  The
\* only moment it may lag otherwise is between the last store and its own reset.
THEOREM IntervalFollowsConfig == Spec => []IntervalInForce
<1> DEFINE Pending(r) == r \in Reloaders /\ reload[r] = "stored"
           Inv == /\ ticker = "running" => interval = live \/ Overtaken \/ Pending(storedBy)
                  /\ Pending(storedBy) => loaded[storedBy] = live
<1>1. Init => Inv
  BY DEF Init
<1>2. TypeOK /\ Inv /\ [Next]_vars => Inv'
  <2> SUFFICES ASSUME TypeOK, Inv, [Next]_vars PROVE Inv'
    OBVIOUS
  <2> USE DEF Overtaken
  <2>1. ASSUME NEW p \in Clients, TriggerOnce(p) PROVE Inv'
    BY <2>1 DEF TriggerOnce, timer, config, history
  <2>2. ASSUME NEW p \in Clients, NEW k \in Exclusive, TriggerExclusive(p, k) PROVE Inv'
    BY <2>2 DEF TriggerExclusive, PauseTimer, timer, config, history
  <2>3. ASSUME NEW p \in Workers, ReadConfig(p) \/ EndArchive(p) PROVE Inv'
    BY <2>3 DEF ReadConfig, EndArchive, timer, config, history
  <2>4. ASSUME NEW p \in Workers, EndExclusive(p) PROVE Inv'
    BY <2>4 DEF EndExclusive, ResetTimer, timer, config
  <2>5. ASSUME Fire \/ Start \/ Cancel \/ Stop PROVE Inv'
    BY <2>5 DEF Fire, Start, Cancel, Stop, StopTimer, timer, config, history
  <2>6. ASSUME LoopStep \/ EditFile \/ UNCHANGED vars PROVE Inv'
    BY <2>6 DEF LoopStep, LoopTick, LoopCancelled, LoopStopped, EditFile, StopTimer, vars,
                timer, config, history
  <2>7. ASSUME NEW r \in Reloaders, ReloadCheck(r) \/ ReloadFails(r) \/ ReloadReads(r)
        PROVE  Inv'
    <3>1. ~Pending(r) /\ ~Pending(r)'
      BY <2>7 DEF ReloadCheck, ReloadFails, ReloadReads, Step, TypeOK
    <3>2. \A q \in Reloaders : q # r => reload'[q] = reload[q] /\ loaded'[q] = loaded[q]
      BY <2>7 DEF ReloadCheck, ReloadFails, ReloadReads, Step, TypeOK
    <3>3. UNCHANGED <<ticker, interval, live, storedBy, resetBy>>
      BY <2>7 DEF ReloadCheck, ReloadFails, ReloadReads, timer, history
    <3>4. QED
      BY <3>1, <3>2, <3>3
  <2>8. ASSUME NEW r \in Reloaders, ReloadStores(r) PROVE Inv'
    <3>1. Pending(storedBy)' /\ loaded'[storedBy'] = live'
      BY <2>8 DEF ReloadStores, Step, TypeOK
    <3>2. QED
      BY <3>1
  <2>9. ASSUME NEW r \in Reloaders, ReloadResets(r) PROVE Inv'
    <3>1. /\ Pending(r) /\ resetBy' = r
          /\ UNCHANGED <<loaded, live, storedBy>>
          /\ \A q \in Reloaders : q # r => reload'[q] = reload[q]
      BY <2>9 DEF ReloadResets, Step, TypeOK
    <3>2. ~Pending(r)'
      BY <2>9 DEF ReloadResets, Step, TypeOK
    <3>3. CASE r = storedBy
      BY <2>9, <3>1, <3>2, <3>3 DEF ReloadResets, ResetTimer, timer
    <3>4. CASE r # storedBy
      BY <3>1, <3>4
    <3>5. QED
      BY <3>3, <3>4
  <2>10. QED
    BY <2>1, <2>2, <2>3, <2>4, <2>5, <2>6, <2>7, <2>8, <2>9
       DEF Next, TriggerReorganize, TriggerRestore, Exclusive
<1>3. Inv => IntervalInForce
  BY DEF IntervalInForce
<1>4. QED
  BY <1>1, <1>2, <1>3, TypeCorrect, PTL DEF Spec
-----------------------------------------------------------------------------
(* The configuration a task sees.                                          *)

\* The reloads that will still change the configuration.
Underway == {r \in Reloaders : reload[r] \in {"checked", "loaded"}}

\* Every configuration a task may yet see beyond those it saw, and the one in force, is
\* brought by a reload that is under way already.
Drift == \A p \in Workers :
            IF job[p] = "none" THEN seen[p] = {}
            ELSE Cardinality(seen[p] \cup {live}) + Cardinality(Underway)
                     <= 1 + Cardinality(Reloaders)

\* The sets are finite: a version is one of finitely many.
LEMMA FiniteSeen ==
  ASSUME IsFiniteSet(Reloaders), TypeOK, NEW p \in Workers
  PROVE  /\ IsFiniteSet(seen[p]) /\ IsFiniteSet(Underway)
         /\ Cardinality(seen[p]) <= Cardinality(seen[p] \cup {live})
         /\ Cardinality(Underway) <= Cardinality(Reloaders)
         /\ Cardinality(Underway) \in Nat /\ Cardinality(Reloaders) \in Nat
         /\ Cardinality(seen[p] \cup {live}) \in Nat /\ Cardinality(seen[p]) \in Nat
<1>1. IsFiniteSet(Versions)
  BY ConstantsOK, FS_Interval DEF Versions, ConstantsOK
<1>2. IsFiniteSet(seen[p])
  BY <1>1, FS_Subset DEF TypeOK
<1>3. IsFiniteSet(seen[p] \cup {live})
  BY <1>2, FS_AddElement
<1>4. Cardinality(seen[p]) <= Cardinality(seen[p] \cup {live})
  BY <1>3, FS_Subset
<1>5. IsFiniteSet(Underway) /\ Cardinality(Underway) <= Cardinality(Reloaders)
  BY FS_Subset DEF Underway
<1> QED
  BY <1>2, <1>3, <1>4, <1>5, FS_CardinalityType

\* Steps outside the tasks that start no reload and bring no configuration into force.
LEMMA DriftStays ==
  ASSUME IsFiniteSet(Reloaders), TypeOK, TypeOK', Drift,
         UNCHANGED live, Underway' \subseteq Underway,
         \A p \in Workers : \/ job'[p] = job[p] /\ seen'[p] \subseteq seen[p] \cup {live}
                                                /\ (job[p] = "none" => seen'[p] = {})
                            \/ job'[p] = "none" /\ seen'[p] = {}
  PROVE  Drift'
<1> SUFFICES ASSUME NEW p \in Workers, job'[p] # "none"
             PROVE  Cardinality(seen'[p] \cup {live}) + Cardinality(Underway')
                        <= 1 + Cardinality(Reloaders)
  BY DEF Drift
<1>1. job[p] # "none" /\ seen'[p] \cup {live} \subseteq seen[p] \cup {live}
  OBVIOUS
<1>2. Cardinality(seen[p] \cup {live}) + Cardinality(Underway) <= 1 + Cardinality(Reloaders)
  BY <1>1 DEF Drift
<1>3. /\ Cardinality(seen'[p] \cup {live}) <= Cardinality(seen[p] \cup {live})
      /\ Cardinality(seen'[p] \cup {live}) \in Nat
  BY <1>1, FiniteSeen, FS_AddElement, FS_Subset, FS_CardinalityType
<1>4. Cardinality(Underway') <= Cardinality(Underway) /\ Cardinality(Underway') \in Nat
  BY FiniteSeen, FS_Subset, FS_CardinalityType
<1> QED
  BY <1>2, <1>3, <1>4, FiniteSeen

\* A task that begins has seen nothing; every reload may be under way.
LEMMA DriftBegins ==
  ASSUME IsFiniteSet(Reloaders), TypeOK, TypeOK', Drift,
         NEW w \in Workers, NEW k \in Kinds, Begin(w, k), UNCHANGED config
  PROVE  Drift'
<1>1. /\ UNCHANGED <<seen, live, reload>> /\ Underway' = Underway
      /\ \A p \in Workers : p # w => job'[p] = job[p]
  BY DEF Begin, config, TypeOK, Underway
<1>2. SUFFICES ASSUME job[w] = "none"
               PROVE  Drift'
  BY <1>1 DEF Begin, Drift, TypeOK, Kinds, Exclusive
<1>3. seen[w] \cup {live} = {live} /\ Cardinality({live}) = 1
  BY <1>2, FS_Singleton DEF Drift
<1>4. Cardinality(seen[w] \cup {live}) + Cardinality(Underway) <= 1 + Cardinality(Reloaders)
  BY <1>3, FiniteSeen
<1> QED
  BY <1>1, <1>4 DEF Begin, Drift, TypeOK, Kinds, Exclusive

\* Storing a configuration takes its reload off those under way.
LEMMA DriftStores ==
  ASSUME IsFiniteSet(Reloaders), TypeOK, TypeOK', Drift,
         NEW r \in Reloaders, ReloadStores(r)
  PROVE  Drift'
<1>1. UNCHANGED <<job, seen>> /\ r \in Underway /\ Underway' = Underway \ {r}
  BY DEF ReloadStores, Step, task, Underway, TypeOK
<1> SUFFICES ASSUME NEW p \in Workers, job[p] # "none"
             PROVE  Cardinality(seen[p] \cup {live'}) + Cardinality(Underway')
                        <= 1 + Cardinality(Reloaders)
  BY <1>1 DEF Drift
<1>2. Cardinality(Underway') = Cardinality(Underway) - 1
  BY <1>1, FiniteSeen, FS_RemoveElement
<1>3. Cardinality(seen[p] \cup {live}) + Cardinality(Underway) <= 1 + Cardinality(Reloaders)
  BY DEF Drift
<1>4. /\ Cardinality(seen[p] \cup {live'}) <= Cardinality(seen[p]) + 1
      /\ Cardinality(seen[p] \cup {live'}) \in Nat
  <2>1. IsFiniteSet(seen[p]) /\ Cardinality(seen[p]) \in Nat
    BY FiniteSeen
  <2>2. /\ IsFiniteSet(seen[p] \cup {live'})
        /\ Cardinality(seen[p] \cup {live'}) \in {Cardinality(seen[p]), Cardinality(seen[p]) + 1}
    BY <2>1, FS_AddElement
  <2> QED BY <2>1, <2>2
<1> QED
  BY <1>2, <1>3, <1>4, FiniteSeen

\* However many reloads overlap a task, each that was checked before the task began
\* changes its configuration once, and none that comes later does.
THEOREM DriftBounded == ASSUME IsFiniteSet(Reloaders) PROVE Spec => []BoundedConfigDrift
<1>1. Init => Drift
  BY DEF Init, Drift
<1>2. TypeOK /\ TypeOK' /\ TaskMutex /\ Drift /\ [Next]_vars => Drift'
  <2> SUFFICES ASSUME TypeOK, TypeOK', TaskMutex, Drift, [Next]_vars PROVE Drift'
    OBVIOUS
  <2>1. ASSUME NEW p \in Clients, NEW k \in Kinds, Begin(p, k), UNCHANGED config PROVE Drift'
    BY <2>1, DriftBegins DEF Workers
  <2>2. ASSUME NEW p \in Workers, ReadConfig(p) PROVE Drift'
    <3>1. /\ UNCHANGED <<job, live, reload>> /\ Underway' = Underway
          /\ job[p] # "none"
          /\ \A q \in Workers : seen'[q] \subseteq seen[q] \cup {live}
          /\ \A q \in Workers : q # p => seen'[q] = seen[q]
      BY <2>2 DEF ReadConfig, config, Underway, TypeOK
    <3> QED BY <3>1, DriftStays DEF Drift
  <2>3. ASSUME NEW p \in Workers, EndArchive(p) \/ EndExclusive(p) PROVE Drift'
    <3>1. /\ UNCHANGED <<live, reload>> /\ Underway' = Underway
          /\ job'[p] = "none" /\ seen'[p] = {}
          /\ \A q \in Workers : q # p => job'[q] = job[q] /\ seen'[q] = seen[q]
      BY <2>3 DEF EndArchive, EndExclusive, Release, config, Underway, TypeOK
    <3> QED BY <3>1, DriftStays DEF Drift
  <2>4. CASE LoopTick
    <3>1. CASE Begin(Loop, "archiving")
      BY <2>4, <3>1, DriftBegins DEF LoopTick, Workers, Kinds
    <3>2. CASE UNCHANGED task
      <4>1. UNCHANGED <<job, seen, live, reload>> /\ Underway' = Underway
        BY <2>4, <3>2 DEF LoopTick, task, config, Underway
      <4> QED BY <4>1, DriftStays DEF Drift
    <3> QED BY <2>4, <3>1, <3>2 DEF LoopTick
  <2>5. ASSUME NEW r \in Reloaders, ReloadCheck(r) PROVE Drift'
    <3>1. \A p \in Workers : job[p] = "none"
      BY <2>5 DEF ReloadCheck, MayReload, Free, TaskMutex, TypeOK, Kinds, Exclusive
    <3> QED BY <2>5, <3>1 DEF ReloadCheck, task, Drift
  <2>6. ASSUME NEW r \in Reloaders, ReloadStores(r) PROVE Drift'
    BY <2>6, DriftStores
  <2>7. ASSUME NEW r \in Reloaders, ReloadFails(r) \/ ReloadReads(r) \/ ReloadResets(r)
        PROVE  Drift'
    <3>1. UNCHANGED <<job, seen, live>> /\ Underway' \subseteq Underway
      BY <2>7 DEF ReloadFails, ReloadReads, ReloadResets, Step, task, Underway, TypeOK
    <3> QED BY <3>1, DriftStays DEF Drift
  <2>8. CASE \/ Fire \/ Start \/ LoopCancelled \/ LoopStopped \/ Cancel \/ Stop \/ EditFile
             \/ UNCHANGED vars
    <3>1. UNCHANGED <<job, seen, live, reload>> /\ Underway' = Underway
      BY <2>8 DEF Fire, Start, LoopCancelled, LoopStopped, Cancel, Stop, EditFile, task, config,
                  vars, Underway
    <3> QED BY <3>1, DriftStays DEF Drift
  <2> QED
    BY <2>1, <2>2, <2>3, <2>4, <2>5, <2>6, <2>7, <2>8
       DEF Next, LoopStep, TriggerOnce, TriggerReorganize, TriggerRestore, TriggerExclusive, Kinds,
           Exclusive
<1>3. TypeOK /\ Drift => BoundedConfigDrift
  <2> SUFFICES ASSUME TypeOK, Drift, NEW p \in Workers
               PROVE  Cardinality(seen[p]) <= 1 + Cardinality(Reloaders)
    BY DEF BoundedConfigDrift
  <2>1. /\ Cardinality(seen[p]) <= Cardinality(seen[p] \cup {live})
        /\ Cardinality(seen[p]) \in Nat /\ Cardinality(seen[p] \cup {live}) \in Nat
        /\ Cardinality(Underway) \in Nat /\ Cardinality(Reloaders) \in Nat
    BY FiniteSeen
  <2>2. CASE job[p] = "none"
    <3>1. Cardinality(seen[p]) = 0
      BY <2>2, FS_EmptySet DEF Drift
    <3> QED BY <2>1, <3>1
  <2>3. CASE job[p] # "none"
    <3>1. Cardinality(seen[p] \cup {live}) + Cardinality(Underway) <= 1 + Cardinality(Reloaders)
      BY <2>3 DEF Drift
    <3> QED BY <2>1, <3>1
  <2> QED BY <2>2, <2>3
<1> QED
  BY <1>1, <1>2, <1>3, TypeCorrect, Mutex, PTL DEF Spec
=============================================================================
