-------------------------- MODULE WebServerProofs --------------------------
(***************************************************************************)
(* Proofs about WebServer: the types, and that the check mark of the tray  *)
(* tells whether the server runs, for any number of servers and streams.   *)
(***************************************************************************)
EXTENDS WebServer, TLAPS

Steps == {"idle", "top", "select", "look", "stop", "shutdown", "callback",
          "uncheck", "check", "task", "quit"}

\* Between the time Stop clears isRunning and the end of its callback.
Ending(c) == pc[c] \in {"shutdown", "callback"}

\* While the server runs nobody is at the end of a Stop, and its item is checked, or about to be.
RunningShape ==
    running => /\ \A c \in Callers : ~Ending(c)
               /\ menu \/ pc[Tray] = "check"
               /\ pc[Tray] # "uncheck"

\* While it does not, the item is not checked, or a callback is on its way.
StoppedShape == ~running => ~menu \/ \E c \in Callers : Ending(c)

\* The tray is about to check the item of a server that nobody is stopping, or will soon.
CheckShape ==
    pc[Tray] = "check" => running /\ fresh /\ \A c \in Callers : ~Stopping(c)

\* A quit is for good, and so is the end of the program.
MenuInv == pc[Quitter] = "idle" /\ over = "no" => RunningShape /\ StoppedShape /\ CheckShape

\* The assumption the program does not enforce.
NoRestart == Hazards = {}
-----------------------------------------------------------------------------
LEMMA Distinct == /\ Tray \in Callers /\ Quitter \in Callers /\ Tray # Quitter
                  /\ Tray \notin Monitors /\ Quitter \notin Monitors
                  /\ Monitors \subseteq Callers /\ MaxGen \in Nat \ {0}
BY ConstantsOK DEF Tray, Quitter, Callers, Monitors

\* The types in three parts: what a server and its users have, its callers, its streams.
ServerType == /\ running \in BOOLEAN /\ hub \in BOOLEAN /\ fresh \in BOOLEAN /\ menu \in BOOLEAN /\ tab \in BOOLEAN
              /\ reorganizing \in BOOLEAN /\ over \in {"no", "exit", "panic"}

CallerType == /\ gen \in Gens /\ closed \subseteq 1 .. gen
              /\ pc \in [Callers -> Steps]
              /\ watch \in [Monitors -> Gens]
              /\ running => gen # 0

StreamType == /\ conn \in [Streams -> Gens]
              /\ clients \subseteq Streams /\ shut \subseteq Streams
              /\ queue \in 0 .. LogCap

TypeInv == ServerType /\ CallerType /\ StreamType

LEMMA Parts == TypeInv => TypeOK
BY DEF TypeInv, TypeOK, ServerType, CallerType, StreamType, Steps

LEMMA InitType == Init => TypeInv
<1> SUFFICES ASSUME Init PROVE ServerType /\ CallerType /\ StreamType
  BY DEF TypeInv
<1>1. ServerType
  BY DEF Init, ServerType
<1>2. CallerType
  BY Distinct DEF Init, CallerType, Gens, Steps
<1>3. StreamType
  BY Distinct, ConstantsOK DEF Init, StreamType, Gens
<1>4. QED
  BY <1>1, <1>2, <1>3

LEMMA ServerSteps == ServerType /\ [Next]_vars => ServerType'
<1> SUFFICES ASSUME ServerType, [Next]_vars PROVE ServerType'
  OBVIOUS
<1> USE DEF ServerType, server, callers, streams
<1>1. ASSUME NEW c \in Callers, Stop(c) PROVE ServerType'
  BY <1>1, Zenon DEF Stop, StopBegins, ShutdownReturns, OnShutdown
<1>2. ASSUME NEW m \in Monitors, Monitor(m) PROVE ServerType'
  BY <1>2, Zenon DEF Monitor, Selects, SeesClosed, Ticks, Looks
<1>3. CASE ClickWeb
  BY <1>3 DEF ClickWeb, Start, StartNew, StartFails
<1>4. CASE ClickTask \/ TaskOver \/ Checks \/ Unchecks \/ ClickQuit \/ TrayQuit
  BY <1>4, Zenon DEF ClickTask, TaskOver, Checks, Unchecks, ClickQuit, TrayQuit
<1>5. CASE OpenPage \/ ClosePage \/ HandleHeartbeat \/ HeartbeatAges \/ HandleActionQuit \/ Reorganizes
  BY <1>5, Zenon DEF OpenPage, ClosePage, HandleHeartbeat, HeartbeatAges, HandleActionQuit, Reorganizes
<1>6. ASSUME NEW s \in Streams, Stream(s) PROVE ServerType'
  BY <1>6, Zenon DEF Stream, StreamOpens, Unregisters, ClosesChannel
<1>7. CASE LogLine \/ HubSends \/ UNCHANGED vars
  BY <1>7, Zenon DEF LogLine, HubSends, vars
<1>8. QED
  BY <1>1, <1>2, <1>3, <1>4, <1>5, <1>6, <1>7 DEF Next, Click, Page

LEMMA CallerSteps == CallerType /\ [Next]_vars => CallerType'
<1> SUFFICES ASSUME CallerType, [Next]_vars PROVE CallerType'
  OBVIOUS
<1> USE Distinct DEF CallerType, Steps, Gens, server, callers, streams, Goto, At
<1>1. ASSUME NEW c \in Callers, Stop(c) PROVE CallerType'
  <2>1. UNCHANGED <<gen, watch>> /\ pc' \in [Callers -> Steps] /\ (running' => running)
    BY <1>1 DEF Stop, StopBegins, ShutdownReturns, OnShutdown, Returns
  <2>2. closed' = closed \/ (closed' = closed \union {gen} /\ running)
    BY <1>1 DEF Stop, StopBegins, ShutdownReturns, OnShutdown
  <2>3. closed' \subseteq 1 .. gen
    <3>1. running => gen \in 1 .. gen
      OBVIOUS
    <3>2. closed \subseteq 1 .. gen
      OBVIOUS
    <3>3. QED
      BY <2>2, <3>1, <3>2, Zenon
  <2>4. QED
    BY <2>1, <2>3
<1>2. ASSUME NEW m \in Monitors, Monitor(m) PROVE CallerType'
  <2>1. UNCHANGED <<running, gen, closed>>
    BY <1>2 DEF Monitor, Selects, SeesClosed, Ticks, Looks
  <2>2. pc' \in [Callers -> Steps] /\ watch' \in [Monitors -> Gens]
    BY <1>2 DEF Monitor, Selects, SeesClosed, Ticks, Looks
  <2>3. QED
    BY <2>1, <2>2
<1>3. CASE ClickWeb
  <2>1. UNCHANGED <<closed, watch>> /\ pc' \in [Callers -> Steps]
    BY <1>3 DEF ClickWeb, Start, StartNew, StartFails
  <2>2. \/ UNCHANGED <<running, gen>>
        \/ gen' = gen + 1 /\ gen < MaxGen
    BY <1>3 DEF ClickWeb, Start, StartNew, StartFails
  <2>3. gen' \in Gens /\ (running' => gen' # 0) /\ 1 .. gen \subseteq 1 .. gen'
    BY <2>2
  <2>4. QED
    BY <2>1, <2>3
<1>4. CASE ClickTask \/ TaskOver \/ Checks \/ Unchecks \/ HandleActionQuit
  <2>1. UNCHANGED <<running, gen, closed, watch>> /\ pc' \in [Callers -> Steps]
    BY <1>4 DEF ClickTask, TaskOver, Checks, Unchecks, HandleActionQuit
  <2>2. QED
    BY <2>1
<1>5. CASE UNCHANGED <<running, gen, closed, pc, watch>>
  BY <1>5
<1>6. \/ \E c \in Callers : Stop(c)
      \/ \E m \in Monitors : Monitor(m)
      \/ ClickWeb \/ ClickTask \/ TaskOver \/ Checks \/ Unchecks \/ HandleActionQuit
      \/ UNCHANGED <<running, gen, closed, pc, watch>>
  BY DEF Next, Click, Page, ClickQuit, TrayQuit, OpenPage, ClosePage, HandleHeartbeat, HeartbeatAges,
         Reorganizes, Stream, StreamOpens, Unregisters, ClosesChannel, LogLine, HubSends, vars
<1>7. QED
  BY <1>1, <1>2, <1>3, <1>4, <1>5, <1>6

LEMMA StreamSteps == CallerType /\ StreamType /\ [Next]_vars => StreamType'
<1> SUFFICES ASSUME CallerType, StreamType, [Next]_vars PROVE StreamType'
  OBVIOUS
<1> USE DEF StreamType, server, callers, streams
<1>1. ASSUME NEW s \in Streams, Stream(s) PROVE StreamType'
  BY <1>1, Distinct DEF Stream, StreamOpens, Unregisters, ClosesChannel, CallerType, Gens
<1>2. CASE LogLine \/ HubSends
  BY <1>2, ConstantsOK DEF LogLine, HubSends
<1>3. CASE UNCHANGED streams
  BY <1>3
<1>4. LogLine \/ HubSends \/ UNCHANGED streams \/ \E s \in Streams : Stream(s)
  BY DEF Next, Click, Page, Stop, StopBegins, ShutdownReturns, OnShutdown, Monitor, Selects, SeesClosed,
         Ticks, Looks, ClickWeb, Start, ClickTask, TaskOver, Checks, Unchecks, ClickQuit, TrayQuit,
         OpenPage, ClosePage, HandleHeartbeat, HeartbeatAges, HandleActionQuit, Reorganizes, vars
<1>5. QED
  BY <1>1, <1>2, <1>3, <1>4

\* Every variable keeps its type; only channels that Start has made are ever closed.
THEOREM TypeCorrect == Spec => []TypeOK
<1>1. TypeInv /\ [Next]_vars => TypeInv'
  BY ServerSteps, CallerSteps, StreamSteps DEF TypeInv
<1>2. QED
  BY <1>1, InitType, Parts, PTL DEF Spec
-----------------------------------------------------------------------------
LEMMA InitMenu == Init => MenuInv
BY Distinct DEF Init, MenuInv, RunningShape, StoppedShape, CheckShape

LEMMA StopMenu ==
  ASSUME TypeOK, MenuInv, NEW c \in Callers, Stop(c)
  PROVE  MenuInv'
<1> SUFFICES ASSUME pc'[Quitter] = "idle", over' = "no"
             PROVE  RunningShape' /\ StoppedShape' /\ CheckShape'
  BY DEF MenuInv
<1> USE Distinct DEF TypeOK, server, streams, At, Goto, Ending, Stopping, RunningShape, StoppedShape, CheckShape
<1>1. c # Quitter /\ over = "no" /\ pc[Quitter] = "idle"
  BY DEF Stop, StopBegins, ShutdownReturns, OnShutdown, Returns
<1>2. RunningShape /\ StoppedShape /\ CheckShape /\ pc[Tray] # "check"
  BY <1>1 DEF MenuInv, Stop, StopBegins, ShutdownReturns, OnShutdown
<1>3. CASE StopBegins(c) /\ running
  <2>1. running' = FALSE /\ pc' = [pc EXCEPT ![c] = "shutdown"]
    BY <1>3 DEF StopBegins
  <2>2. QED
    BY <1>2, <2>1
<1>4. CASE StopBegins(c) /\ ~running
  <2>1. UNCHANGED <<running, menu, fresh>> /\ pc[c] = "stop"
        /\ pc' = [pc EXCEPT ![c] = IF c = Tray THEN "uncheck" ELSE "idle"]
    BY <1>1, <1>4 DEF StopBegins, Returns
  <2>2. \A d \in Callers : Ending(d) => Ending(d)'
    BY <2>1
  <2>3. QED
    BY <1>2, <1>4, <2>1, <2>2
<1>5. CASE ShutdownReturns(c)
  <2>1. UNCHANGED <<running, menu, fresh>> /\ pc[c] = "shutdown" /\ pc' = [pc EXCEPT ![c] = "callback"]
    BY <1>5 DEF ShutdownReturns
  <2>2. QED
    BY <1>2, <2>1
<1>6. CASE OnShutdown(c)
  <2>1. UNCHANGED running /\ ~menu' /\ pc[c] = "callback"
        /\ pc' = [pc EXCEPT ![c] = IF c = Tray THEN "uncheck" ELSE "idle"]
    BY <1>1, <1>6 DEF OnShutdown, Returns
  <2>2. ~running
    BY <1>2, <2>1
  <2>3. QED
    BY <1>2, <2>1, <2>2
<1>7. QED
  BY <1>3, <1>4, <1>5, <1>6 DEF Stop

LEMMA ClickMenu ==
  ASSUME TypeOK, MenuInv, NoRestart, ClickWeb \/ Checks \/ Unchecks \/ ClickTask \/ TaskOver
  PROVE  MenuInv'
<1> SUFFICES ASSUME pc'[Quitter] = "idle", over' = "no"
             PROVE  RunningShape' /\ StoppedShape' /\ CheckShape'
  BY DEF MenuInv
<1> USE Distinct DEF TypeOK, server, streams, At, Goto, Ending, Stopping, RunningShape, StoppedShape, CheckShape
<1>1. over = "no" /\ pc[Quitter] = "idle"
  BY ConstantsOK DEF ClickWeb, Start, StartNew, StartFails, Checks, Unchecks, ClickTask, TaskOver,
     Quitter, Tray, Callers, Monitors
<1>2. RunningShape /\ StoppedShape /\ CheckShape
  BY <1>1 DEF MenuInv
<1>3. CASE ClickWeb /\ menu
  <2>1. UNCHANGED <<running, menu, fresh>> /\ pc' = [pc EXCEPT ![Tray] = "stop"] /\ pc[Tray] = "idle"
    BY <1>3 DEF ClickWeb
  <2>2. QED
    BY <1>2, <2>1
<1>4. CASE ClickWeb /\ ~menu
  <2>1. ~running /\ \A c \in Callers : ~Stopping(c)
    BY <1>2, <1>4 DEF ClickWeb, Start, NoRestart
  <2>2. CASE StartNew
    <3>1. /\ running' /\ fresh' /\ menu' = menu
          /\ \A c \in Callers : pc'[c] \in {pc[c], "check", "top"}
          /\ pc'[Tray] = "check"
      <4>1. gen + 1 \in Monitors /\ gen + 1 # Tray
        BY <2>2 DEF StartNew, Gens, Monitors, Tray
      <4>2. QED
        BY <1>4, <2>1, <2>2, <4>1 DEF ClickWeb, Start, StartNew
    <3>2. QED
      BY <2>1, <3>1
  <2>3. CASE StartFails
    <3>1. UNCHANGED <<running, menu, pc>>
      BY <1>4, <2>1, <2>3 DEF ClickWeb, Start, StartFails
    <3>2. pc[Tray] = "idle"
      BY <1>4 DEF ClickWeb
    <3>3. QED
      BY <1>2, <3>1, <3>2
  <2>4. QED
    BY <1>4, <2>1, <2>2, <2>3 DEF ClickWeb, Start
<1>5. CASE Checks
  <2>1. UNCHANGED running /\ menu' /\ pc[Tray] = "check" /\ pc' = [pc EXCEPT ![Tray] = "idle"]
    BY <1>5 DEF Checks
  <2>2. QED
    BY <1>2, <2>1
<1>6. CASE Unchecks
  <2>1. UNCHANGED running /\ ~menu' /\ pc[Tray] = "uncheck" /\ pc' = [pc EXCEPT ![Tray] = "idle"]
    BY <1>6 DEF Unchecks
  <2>2. QED
    BY <1>2, <2>1
<1>7. CASE ClickTask \/ TaskOver
  <2>1. /\ UNCHANGED <<running, menu>> /\ pc[Tray] \in {"idle", "task"}
        /\ pc' = [pc EXCEPT ![Tray] = pc'[Tray]] /\ pc'[Tray] \in {"idle", "task"}
    BY <1>7 DEF ClickTask, TaskOver
  <2>2. QED
    BY <1>2, <2>1
<1>8. QED
  BY <1>3, <1>4, <1>5, <1>6, <1>7

\* A monitor goes to Stop only if the heartbeat is old, which it is not while the tray
\* is about to check the item.
LEMMA MonitorMenu ==
  ASSUME TypeOK, MenuInv, NEW m \in Monitors, Monitor(m)
  PROVE  MenuInv'
<1> SUFFICES ASSUME pc'[Quitter] = "idle", over' = "no"
             PROVE  RunningShape' /\ StoppedShape' /\ CheckShape'
  BY DEF MenuInv
<1> USE Distinct DEF TypeOK, server, streams, At, Goto, Ending, Stopping, RunningShape, StoppedShape, CheckShape
<1>1. /\ UNCHANGED <<running, menu, fresh, over>>
      /\ pc[m] \in {"top", "select", "look"}
      /\ pc' = [pc EXCEPT ![m] = pc'[m]] /\ pc'[m] \in {"idle", "select", "look", "top", "stop"}
      /\ pc'[m] = "stop" => ~fresh
  BY DEF Monitor, Selects, SeesClosed, Ticks, Looks
<1>2. RunningShape /\ StoppedShape /\ CheckShape
  BY <1>1 DEF MenuInv
<1>3. QED
  BY <1>1, <1>2

LEMMA OtherMenu ==
  ASSUME TypeOK, MenuInv,
         \/ OpenPage \/ ClosePage \/ HandleHeartbeat \/ HeartbeatAges \/ HandleActionQuit
         \/ ClickQuit \/ TrayQuit \/ Reorganizes \/ LogLine \/ HubSends
         \/ \E s \in Streams : Stream(s)
         \/ UNCHANGED vars
  PROVE  MenuInv'
<1> SUFFICES ASSUME pc'[Quitter] = "idle", over' = "no"
             PROVE  RunningShape' /\ StoppedShape' /\ CheckShape'
  BY DEF MenuInv
<1> USE Distinct DEF server, callers, streams, At
<1>1. CASE HandleActionQuit
  BY <1>1 DEF HandleActionQuit, Goto, TypeOK
<1>2. CASE ClickQuit \/ TrayQuit
  BY <1>2 DEF ClickQuit, TrayQuit
<1>3. CASE ~HandleActionQuit /\ ~ClickQuit /\ ~TrayQuit
  <2>1. /\ UNCHANGED <<running, menu, pc>>
        /\ pc[Tray] = "check" /\ fresh => fresh'
        /\ over = "no"
    BY <1>3 DEF OpenPage, ClosePage, HandleHeartbeat, HeartbeatAges, Reorganizes, LogLine, HubSends,
                Stream, StreamOpens, Unregisters, ClosesChannel, vars
  <2>2. RunningShape /\ StoppedShape /\ CheckShape
    BY <2>1 DEF MenuInv
  <2>3. QED
    BY <2>1, <2>2 DEF RunningShape, StoppedShape, CheckShape, Ending, Stopping
<1>4. QED
  BY <1>1, <1>2, <1>3

\* As long as no server is started while another one is being stopped, the check mark
\* tells whether the server runs, whoever stopped it and however the stops overlap.
THEOREM MenuIsTrue ==
  ASSUME NoRestart
  PROVE  Spec => []MenuTells
<1>1. TypeOK /\ MenuInv /\ [Next]_vars => MenuInv'
  BY StopMenu, ClickMenu, MonitorMenu, OtherMenu DEF Next, Click, Page
<1>2. TypeOK /\ MenuInv => MenuTells
  <2> SUFFICES ASSUME TypeOK, MenuInv, \A c \in Callers : ~Stopping(c),
                      pc[Tray] \in {"idle", "task"}, pc[Quitter] = "idle", over = "no"
               PROVE  menu = running
    BY DEF MenuTells
  <2>1. running => menu
    BY DEF MenuInv, RunningShape
  <2>2. menu => running
    BY DEF MenuInv, StoppedShape, Ending, Stopping
  <2>3. menu \in BOOLEAN /\ running \in BOOLEAN
    BY DEF TypeOK
  <2>4. QED
    BY <2>1, <2>2, <2>3
<1>3. QED
  BY <1>1, <1>2, InitMenu, TypeCorrect, PTL DEF Spec
=============================================================================
