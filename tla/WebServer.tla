----------------------------- MODULE WebServer -----------------------------
(***************************************************************************)
(* The web server's life: the tray's menu item starts and stops it         *)
(* (tray.go), its monitor stops it when no page sends heartbeats, the quit *)
(* button of the page stops it and then the program (server.go), and its   *)
(* log streams keep connections open (log_stream.go).  ws.mu makes Start,  *)
(* the first half of Stop and each look at the heartbeat one step.         *)
(***************************************************************************)
EXTENDS Naturals

CONSTANTS MaxGen,   \* bound: how often a server is started, or fails to
          Streams,  \* connections for the log stream
          LogCap,   \* capacity of LogBroadcast
          Hazards   \* what the code does not defend itself against

\* "restart": the server is started again while some goroutine is stopping it.
HazardKinds == {"restart"}

ASSUME ConstantsOK == /\ MaxGen \in Nat \ {0}
                      /\ LogCap \in Nat \ {0}
                      /\ Hazards \subseteq HazardKinds

\* The goroutines that call Stop: each server's monitor, the tray's click loop, and the
\* one handleActionQuit starts.
Monitors == 1 .. MaxGen
Tray     == 0
Quitter  == MaxGen + 1
Callers  == Monitors \union {Tray, Quitter}

VARIABLES running,  \* isRunning
          gen,      \* which shutdownCh and srv are the current ones, 0 for none yet
          closed,   \* the channels that are closed
          fresh,    \* is lastHeartbeat younger than five minutes?
          pc,       \* where each caller is
          watch,    \* the channel each monitor selects on, 0 for none
          menu,     \* the check mark of the menu item
          tab,      \* is a page open in the browser?
          conn,     \* the server of each log stream, 0 for none
          clients,  \* hub.clients
          shut,     \* the streams whose channel is closed
          hub,      \* does the hub's goroutine run?
          queue,    \* messages in LogBroadcast
          reorganizing, \* is the scheduler reorganizing?
          over      \* how the program ended: no, exit, panic

server  == <<running, gen, closed>>
callers == <<pc, watch>>
streams == <<conn, clients, shut, hub, queue>>
vars    == <<server, fresh, callers, menu, tab, streams, reorganizing, over>>

Gens == 0 .. MaxGen

TypeOK ==
    /\ running \in BOOLEAN
    /\ gen \in Gens
    /\ closed \subseteq 1 .. gen
    /\ fresh \in BOOLEAN
    /\ pc \in [Callers -> {"idle", "top", "select", "look", "stop", "shutdown", "callback",
                           "uncheck", "check", "task", "quit"}]
    /\ watch \in [Monitors -> Gens]
    /\ menu \in BOOLEAN
    /\ tab \in BOOLEAN
    /\ conn \in [Streams -> Gens]
    /\ clients \subseteq Streams /\ shut \subseteq Streams
    /\ hub \in BOOLEAN
    /\ queue \in 0 .. LogCap
    /\ reorganizing \in BOOLEAN
    /\ over \in {"no", "exit", "panic"}

Init ==
    /\ running = FALSE /\ gen = 0 /\ closed = {}
    /\ fresh = FALSE
    /\ pc = [c \in Callers |-> "idle"]
    /\ watch = [m \in Monitors |-> 0]
    /\ menu = FALSE
    /\ tab = FALSE
    /\ conn = [s \in Streams |-> 0] /\ clients = {} /\ shut = {}
    /\ hub = FALSE /\ queue = 0
    /\ reorganizing = FALSE
    /\ over = "no"

At(c, step)   == over = "no" /\ pc[c] = step
Goto(c, step) == pc' = [pc EXCEPT ![c] = step]

-----------------------------------------------------------------------------
(* Start and Stop.                                                         *)

\* Mutant: Start makes the channel only the first time.
StartOldChannel == /\ running' = TRUE
                   /\ gen' = 1
                   /\ fresh' = TRUE
                   /\ pc' = [pc EXCEPT ![Tray] = "check", ![1] = "top"]
                   /\ UNCHANGED closed

StartNew == /\ gen < MaxGen
            /\ running' = TRUE
            /\ gen' = gen + 1
            /\ fresh' = TRUE
            /\ pc' = [pc EXCEPT ![Tray] = "check", ![gen + 1] = "top"]
            /\ UNCHANGED closed

\* No free port: the channel and the heartbeat are new, the server is not.
StartFails == /\ gen < MaxGen
              /\ gen' = gen + 1
              /\ fresh' = TRUE
              /\ UNCHANGED <<running, closed, pc>>

Stopping(c) == pc[c] \in {"stop", "shutdown", "callback"}

Start == /\ \A c \in Callers : ~Stopping(c) \/ "restart" \in Hazards
         /\ IF running THEN Goto(Tray, "check") /\ UNCHANGED <<server, fresh>>
                       ELSE StartNew \/ StartFails
         /\ UNCHANGED <<watch, menu, streams, reorganizing, over>>

\* What each caller does when Stop returns to it.
Returns(c) == Goto(c, IF c = Tray THEN "uncheck" ELSE IF c = Quitter THEN "quit" ELSE "idle")

\* Closing a channel twice panics.
StopBegins(c) == /\ At(c, "stop")
                 /\ IF running
                    THEN /\ running' = FALSE
                         /\ closed' = closed \union {gen}
                         /\ over' = IF gen \in closed THEN "panic" ELSE over
                         /\ Goto(c, "shutdown")
                    ELSE Returns(c) /\ UNCHANGED <<running, closed, over>>
                 /\ UNCHANGED <<gen, fresh, watch, menu, tab, streams, reorganizing>>

\* srv.Shutdown waits until every connection is idle, or for ten seconds.
ShutdownReturns(c) == /\ At(c, "shutdown")
                      /\ Goto(c, "callback")
                      /\ UNCHANGED <<server, fresh, watch, menu, tab, streams, reorganizing, over>>

\* Mutant: Stop does not call onShutdown.
NoCallback(c) == /\ At(c, "callback")
                 /\ Returns(c)
                 /\ UNCHANGED <<server, fresh, watch, menu, tab, streams, reorganizing, over>>

OnShutdown(c) == /\ At(c, "callback")
                 /\ menu' = FALSE
                 /\ Returns(c)
                 /\ UNCHANGED <<server, fresh, watch, tab, streams, reorganizing, over>>

-----------------------------------------------------------------------------
(* monitorHeartbeat.  Each round of its loop reads ws.shutdownCh anew,     *)
(* without ws.mu.                                                          *)

Selects(m) == /\ At(m, "top")
              /\ watch' = [watch EXCEPT ![m] = gen]
              /\ Goto(m, "select")
              /\ UNCHANGED <<server, fresh, menu, tab, streams, reorganizing, over>>

SeesClosed(m) == /\ At(m, "select")
                 /\ watch[m] \in closed
                 /\ watch' = [watch EXCEPT ![m] = 0]
                 /\ Goto(m, "idle")
                 /\ UNCHANGED <<server, fresh, menu, tab, streams, reorganizing, over>>

Ticks(m) == /\ At(m, "select")
            /\ watch' = [watch EXCEPT ![m] = 0]
            /\ Goto(m, "look")
            /\ UNCHANGED <<server, fresh, menu, tab, streams, reorganizing, over>>

Looks(m) == /\ At(m, "look")
            /\ Goto(m, IF fresh THEN "top" ELSE "stop")
            /\ UNCHANGED <<server, fresh, watch, menu, tab, streams, reorganizing, over>>

-----------------------------------------------------------------------------
(* The tray's click loop, which takes a click only when it waits for one:  *)
(* systray drops the others.                                               *)

ClickWeb == /\ At(Tray, "idle")
            /\ IF menu THEN Goto(Tray, "stop")
                            /\ UNCHANGED <<server, fresh, watch, menu, tab, streams, reorganizing, over>>
                       ELSE Start /\ tab' \in {tab, running'}

Checks == /\ At(Tray, "check")
          /\ menu' = TRUE
          /\ Goto(Tray, "idle")
          /\ UNCHANGED <<server, fresh, watch, tab, streams, reorganizing, over>>

Unchecks == /\ At(Tray, "uncheck")
            /\ menu' = FALSE
            /\ Goto(Tray, "idle")
            /\ UNCHANGED <<server, fresh, watch, tab, streams, reorganizing, over>>

\* TriggerOnce and TriggerReorganize run in the loop itself.
ClickTask == /\ At(Tray, "idle")
             /\ Goto(Tray, "task")
             /\ UNCHANGED <<server, fresh, watch, menu, tab, streams, reorganizing, over>>

TaskOver == /\ At(Tray, "task")
            /\ Goto(Tray, "idle")
            /\ UNCHANGED <<server, fresh, watch, menu, tab, streams, reorganizing, over>>

ClickQuit == /\ At(Tray, "idle")
             /\ ~reorganizing
             /\ over' = "exit"
             /\ UNCHANGED <<server, fresh, callers, menu, tab, streams, reorganizing>>

-----------------------------------------------------------------------------
(* The page, and the goroutine of its quit button.                         *)

OpenPage == /\ over = "no" /\ running /\ ~tab
            /\ tab' = TRUE
            /\ UNCHANGED <<server, fresh, callers, menu, streams, reorganizing, over>>

ClosePage == /\ tab
             /\ tab' = FALSE
             /\ UNCHANGED <<server, fresh, callers, menu, streams, reorganizing, over>>

HandleHeartbeat == /\ over = "no" /\ running /\ tab
                   /\ fresh' = TRUE
                   /\ UNCHANGED <<server, callers, menu, tab, streams, reorganizing, over>>

\* Five minutes have passed since the last one; an open page sends two a minute, and
\* the tray does not take as long between Start and Check.
HeartbeatAges == /\ over = "no" /\ ~tab
                 /\ pc[Tray] # "check"
                 /\ fresh' = FALSE
                 /\ UNCHANGED <<server, callers, menu, tab, streams, reorganizing, over>>

HandleActionQuit == /\ At(Quitter, "idle") /\ running /\ tab
                    /\ ~reorganizing
                    /\ Goto(Quitter, "stop")
                    /\ UNCHANGED <<server, fresh, watch, menu, tab, streams, reorganizing, over>>

\* systray.Quit; onExit cancels trayCtx, and main goes on (module Shutdown).
TrayQuit == /\ At(Quitter, "quit")
            /\ over' = "exit"
            /\ UNCHANGED <<server, fresh, callers, menu, tab, streams, reorganizing>>

Reorganizes == /\ over = "no"
               /\ reorganizing' = ~reorganizing
               /\ UNCHANGED <<server, fresh, callers, menu, tab, streams, over>>

-----------------------------------------------------------------------------
(* handleLogStream and the hub.                                            *)

StreamOpens(s) == /\ over = "no" /\ running /\ tab
                  /\ conn[s] = 0
                  /\ conn' = [conn EXCEPT ![s] = gen]
                  /\ clients' = clients \union {s}
                  /\ shut' = shut \ {s}
                  /\ hub' = TRUE
                  /\ UNCHANGED <<server, fresh, callers, menu, tab, queue, reorganizing, over>>

\* The request's context is done: its page was closed, or reloaded.
Left(s) == over = "no" /\ conn[s] # 0

\* Mutant: the deferred function closes the channel before it takes it off the hub.
ClosesFirst(s) == /\ Left(s) /\ s \notin shut
                  /\ shut' = shut \union {s}
                  /\ UNCHANGED <<server, fresh, callers, menu, tab, conn, clients, hub, queue,
                                 reorganizing, over>>

Unregisters(s) == /\ Left(s) /\ s \in clients
                  /\ clients' = clients \ {s}
                  /\ UNCHANGED <<server, fresh, callers, menu, tab, conn, shut, hub, queue,
                                 reorganizing, over>>

ClosesChannel(s) == /\ Left(s) /\ s \notin clients
                    /\ shut' = shut \union {s}
                    /\ conn' = [conn EXCEPT ![s] = 0]
                    /\ UNCHANGED <<server, fresh, callers, menu, tab, clients, hub, queue,
                                   reorganizing, over>>

\* Mutant: Write sends without a default branch to a channel it takes to be larger.
LogLineBeyond == /\ over = "no"
                 /\ queue <= LogCap
                 /\ queue' = queue + 1
                 /\ UNCHANGED <<server, fresh, callers, menu, tab, conn, clients, shut, hub,
                                reorganizing, over>>

\* broadcastSyncer.Write drops what the full channel does not take.
LogLine == /\ over = "no"
           /\ queue < LogCap
           /\ queue' = queue + 1
           /\ UNCHANGED <<server, fresh, callers, menu, tab, conn, clients, shut, hub,
                          reorganizing, over>>

\* One message to each client, under hub.mu; a send on a closed channel panics.
HubSends == /\ over = "no" /\ hub
            /\ queue > 0
            /\ queue' = queue - 1
            /\ over' = IF clients \intersect shut = {} THEN over ELSE "panic"
            /\ UNCHANGED <<server, fresh, callers, menu, tab, conn, clients, shut, hub, reorganizing>>

-----------------------------------------------------------------------------
Stop(c)    == StopBegins(c) \/ ShutdownReturns(c) \/ OnShutdown(c)
Monitor(m) == Selects(m) \/ SeesClosed(m) \/ Ticks(m) \/ Looks(m)
Stream(s)  == StreamOpens(s) \/ Unregisters(s) \/ ClosesChannel(s)
Click      == ClickWeb \/ ClickTask \/ ClickQuit
Page       == OpenPage \/ ClosePage \/ HandleHeartbeat \/ HandleActionQuit

Next == \/ \E c \in Callers : Stop(c)
        \/ \E m \in Monitors : Monitor(m)
        \/ Click \/ Checks \/ Unchecks \/ TaskOver
        \/ Page \/ HeartbeatAges \/ TrayQuit \/ Reorganizes
        \/ \E s \in Streams : Stream(s)
        \/ LogLine \/ HubSends

\* Goroutines that can go on do, and time passes; nobody need click, open a page or a
\* stream, or leave one, and a task may take for ever.
Fairness == /\ \A c \in Callers : WF_vars(Stop(c))
            /\ \A m \in Monitors : WF_vars(Monitor(m))
            /\ WF_vars(Checks \/ Unchecks) /\ WF_vars(TrayQuit)
            /\ WF_vars(HeartbeatAges) /\ WF_vars(HubSends)

Spec     == Init /\ [][Next]_vars
FairSpec == Spec /\ Fairness

-----------------------------------------------------------------------------
(* Properties.                                                             *)

\* While no goroutine is in the middle of it and no quit is under way, the menu item is
\* checked if and only if the server runs, whether the tray or the monitor stopped it.
MenuTells == /\ \A c \in Callers : ~Stopping(c)
             /\ pc[Tray] \in {"idle", "task"} /\ pc[Quitter] = "idle" /\ over = "no"
             => menu = running

\* A server whose page is gone for good stops, also when it has been stopped and started
\* before ("stops after five minutes without a heartbeat").
IdleServerStops == running /\ ~tab ~> ~running \/ tab \/ over # "no"

\* A quit that the page has been told "success" of ends the program in an orderly way,
\* although pages keep their log streams open and come and go meanwhile.
QuitEnds == pc[Quitter] # "idle" ~> over = "exit"
=============================================================================
